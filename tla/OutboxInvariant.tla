-------------------------- MODULE OutboxInvariant --------------------------
(***************************************************************************)
(* The inductive invariant behind the safety properties of OutboxDelivery. *)
(* A run may act on what it knows from its last call for as long as the    *)
(* revision it holds is the row's: then nobody has written in between.     *)
(***************************************************************************)
EXTENDS OutboxDelivery

NobodySends == \A r \in Runs: pc[r] # "send"

\* The mail was not accepted, and no run is about to hand it over.
NotAccepted == accepted = 0 /\ NobodySends

\* The row tells the truth about the mail, in the stronger form that also covers
\* a mail about to be handed over.
RowTruthful ==
  /\ item.reason # "none" <=> item.state = "failed"
  /\ item.state = "outbox" /\ ~IsStarted(item.progress) => NotAccepted
  /\ item.reason = "FailedPermanent" => NotAccepted
  /\ item.state = "sent" => accepted = 1

\* A copy is at most as new as the row; one of the same revision is the row.
HeldIsPast ==
  \A r \in Runs: pc[r] \notin {"idle", "get"} =>
    /\ held[r].rev <= item.rev
    /\ held[r].rev = item.rev =>
         item.state = "outbox" /\ held[r].progress = item.progress

\* The way a run took says what its copy showed it.
PathTaken ==
  \A r \in Runs:
    pc[r] \in {"reject", "turn", "load", "mark"} => ~IsStarted(held[r].progress)

\* From its claim on a run knows how it would fail.
ReasonChosen ==
  \A r \in Runs:
    /\ pc[r] \in {"load", "mark", "send"} => why[r] = "FailedPermanent"
    /\ pc[r] = "fail" => why[r] \in Failures

TypeInv == TypeOK /\ ReasonChosen

\* What a run is about to write about the mail is true while the write can succeed.
IntentTruthful ==
  \A r \in Runs:
    /\ pc[r] = "retrySafe" \/ (pc[r] = "fail" /\ why[r] = "FailedPermanent") =>
         (held[r].rev = item.rev => NotAccepted)
    /\ pc[r] \in {"append", "record"} => accepted = 1
    /\ pc[r] = "append" => sentCopies = 0
    /\ pc[r] = "send" => accepted = 0

\* A request is never ahead of the row, and as long as it can take effect what it
\* says of the mail is true; so for those still travelling.
Truthful(q) ==
  /\ q.exp <= item.rev
  /\ q.exp = item.rev => item.state = "outbox"
  /\ q.op \in {"RetrySafe", "FailedPermanent"} /\ q.exp = item.rev => NotAccepted
  /\ q.op = "sent" => accepted = 1

LateTruthful == \A q \in late: Truthful(q)

\* One run hands the mail over, and one makes the copy for the Sent folder.
OneSender ==
  \A r, s \in Runs: pc[r] = pc[s] /\ pc[r] \in {"send", "append"} => r = s

MailInv ==
  /\ RowTruthful /\ HeldIsPast /\ PathTaken /\ IntentTruthful /\ LateTruthful
  /\ OneSender /\ accepted <= 1 /\ sentCopies <= accepted

\* A process works on the item in one run at a time: the inFlight set.
OneRunPerProcess ==
  /\ \A r \in Runs: pc[r] # "idle" => Proc(r) \in inFlight
  /\ \A r, s \in Runs: pc[r] # "idle" /\ pc[s] # "idle" /\ Proc(r) = Proc(s) => r = s

\* A run or a late write whose revision is the row's is of the owner of the row.
OwnerWrites ==
  /\ \A r \in Runs: pc[r] \in HoldingPcs /\ held[r].rev = item.rev
                      => item.owner = Proc(r)
  /\ \A q \in late: q.op # "claim" /\ q.exp = item.rev => item.owner = q.owner

\* A late request of a process is older than its present claim.
LateIsOlder ==
  \A r \in Runs, q \in late:
    pc[r] \in HoldingPcs /\ q.owner = Proc(r) => q.exp < held[r].rev

LeaseInv == OneRunPerProcess /\ OwnerWrites /\ LateIsOlder /\ LeaseFences

=============================================================================
