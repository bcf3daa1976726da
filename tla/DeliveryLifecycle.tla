------------------------- MODULE DeliveryLifecycle -------------------------
(***************************************************************************)
(* What delivery promises for one outbox item: the lifecycle variants of   *)
(* delivery/domain/deliveryState.ts, and how many copies of the mail SMTP  *)
(* servers have accepted.  Revisions, leases, processes and lost answers   *)
(* do not appear here; OutboxDelivery is shown to implement this module.   *)
(***************************************************************************)
EXTENDS Naturals

VARIABLES phase,   \* the DeliveryState of the item
          mails    \* copies of the mail accepted by an SMTP server

lifecycleVars == <<phase, mails>>

\* Mail may only be handed over once the item is durably Sending.
NotStarted == {"Pending", "Claimed", "RetryScheduled"}

Terminal == {"Sent", "FailedPermanent", "FailedUnknown"}

Phases == NotStarted \cup {"Sending"} \cup Terminal

LifecycleTypeOK == phase \in Phases /\ mails \in Nat

\* An item whose stored progress is unreadable counts as Sending from the start.
LifecycleInit == phase \in {"Pending", "Sending"} /\ mails = 0

Move(from, to) == phase \in from /\ phase' \in to /\ UNCHANGED mails

Claim == Move({"Pending"}, {"Claimed"})

LeaseLapses == Move({"Claimed"}, {"Pending"})

Start == Move(NotStarted, {"Sending"})

\* The mail was definitely not accepted: it may be tried again or given up.
NotAccepted ==
  /\ mails = 0
  /\ Move(NotStarted \cup {"Sending"}, {"RetryScheduled", "FailedPermanent"})

\* Acceptance can still happen after another process has given the item up as
\* unknown, and never happens twice.
Accept ==
  /\ phase \in {"Sending", "FailedUnknown"}
  /\ mails = 0
  /\ mails' = 1
  /\ UNCHANGED phase

RecordSent == mails = 1 /\ Move({"Sending"}, {"Sent"})

GiveUpUnknown == Move({"Sending"}, {"FailedUnknown"})

LifecycleNext ==
  \/ Claim \/ LeaseLapses \/ Start \/ NotAccepted
  \/ Accept \/ RecordSent \/ GiveUpUnknown

LifecycleSpec == LifecycleInit /\ [][LifecycleNext]_lifecycleVars
=============================================================================
