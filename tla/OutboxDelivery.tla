--------------------------- MODULE OutboxDelivery ---------------------------
(***************************************************************************)
(* Delivery of one outbox item by several deliver-mode processes           *)
(* (src/src/delivery/infrastructure/deliveryProcessor.ts).  In a process   *)
(* the item is reached by exchange/deliver requests and by the             *)
(* reconciliation sweep; the two meet at the processor's inFlight set.     *)
(* Processes meet only at the Drive row, which is changed under a revision *)
(* check, and at the SMTP server.  Each await of the code is one step.     *)
(***************************************************************************)
EXTENDS Naturals, FiniteSets

CONSTANTS Procs,        \* deliver-mode processes
          MaxAttempts,  \* MAX_DELIVERY_ATTEMPTS
          MaxFaults,    \* bound: crashes, broken calls, sends outliving the lease
          MaxLate,      \* bound: requests still travelling after their call failed
          NoOwner,      \* nobody leases the item
          Orphan        \* the random leaseOwner of a process that has exited

ASSUME ConstantsAssumption ==
  /\ MaxAttempts \in Nat \ {0}
  /\ MaxFaults \in Nat
  /\ MaxLate \in Nat
  /\ NoOwner \notin Procs
  /\ Orphan \notin Procs

VARIABLES item,        \* the Drive row
          late,        \* requests whose caller has already been told of a failure
          pc,          \* where each run of processor.process stands
          held,        \* the OutboxItem each run got from its last call
          why,         \* the failure a run is about to record
          inFlight,    \* processes whose inFlight set holds the item
          answer,      \* the last disposition each run returned
          accepted,    \* copies of the mail an SMTP server accepted
          submissions, \* calls of sender.send
          sentCopies,  \* copies in the Sent folder
          faults       \* faults so far

vars == <<item, late, pc, held, why, inFlight, answer, accepted, submissions,
          sentCopies, faults>>

mailVars == <<accepted, submissions, sentCopies>>

-----------------------------------------------------------------------------

Runs == Procs \X {"event", "sweep"}

Proc(r) == r[1]

Progresses == {"None", "Garbled", "Started", "RetrySafe"}

Failures == {"FailedUnknown", "FailedPermanent"}

Owners == Procs \cup {NoOwner, Orphan}

\* The exchange states review and reconciliation_required are left out: nothing here writes
\* them, and a row in one of them is acknowledged like one that is sent.
Items == [state: {"outbox", "sent", "failed"}, progress: Progresses,
          reason: Failures \cup {"none"}, rev: Nat, attempts: Nat,
          owner: Owners, lease: {"live", "lapsed"}]

Copies == [progress: Progresses, rev: Nat, attempts: Nat]

Ops == {"claim", "Started", "RetrySafe", "sent"} \cup Failures

Requests == [op: Ops, exp: Nat, owner: Procs \cup {Orphan}]

\* The points of a run where it is the holder of the item by its own claim.
HoldingPcs == {"load", "mark", "send", "append", "retrySafe", "fail", "record"}

Pcs == {"idle", "get", "reconcile", "reject", "turn"} \cup HoldingPcs

Copy(i) == [progress |-> i.progress, rev |-> i.rev, attempts |-> i.attempts]

NoCopy == [progress |-> "None", rev |-> 0, attempts |-> 0]

\* Mutant: a delivery known to have started may be tried again.
RetriesStarted(progress) == progress = "Garbled"

\* progressOption: a result that does not decode counts as a started delivery.
IsStarted(progress) == progress \in {"Started", "Garbled"}

\* Mutant: one attempt too many.
OneMore(attempts) == attempts > MaxAttempts + 1

\* More claims than the limit; also asked of the attempt after the current one.
Exhausted(attempts) == attempts > MaxAttempts

\* Mutant: the outcome of a started delivery is taken for a failure.
AlwaysPermanent(label) == "FailedPermanent"

\* What a claim made at label would be ended with.
FailureOf(label) ==
  IF label = "reconcile" THEN "FailedUnknown" ELSE "FailedPermanent"

-----------------------------------------------------------------------------
(* The Drive outbox, external: modelled from how outboxSdkAdapter calls it. *)

\* Every change needs the current revision; a claim also needs the lease to be
\* free or the caller's own, a terminal write a live lease of the caller.  A
\* progress write is a plain exchange update and asks for the revision only.
Permits(q) ==
  /\ q.exp = item.rev
  /\ q.op = "claim" =>
       item.state = "outbox" /\ (item.lease = "lapsed" \/ item.owner = q.owner)
  /\ q.op \in {"sent"} \cup Failures =>
       item.state = "outbox" /\ item.lease = "live" /\ item.owner = q.owner

Claimed(i, owner) ==
  [i EXCEPT !.attempts = @ + 1, !.owner = owner, !.lease = "live"]

Closed(i, state, reason) ==
  [i EXCEPT !.state = state, !.reason = reason, !.owner = NoOwner,
            !.lease = "lapsed"]

Apply(q) ==
  LET next == [item EXCEPT !.rev = @ + 1]
  IN  CASE q.op = "claim" -> Claimed(next, q.owner)
        [] q.op \in {"Started", "RetrySafe"} -> [next EXCEPT !.progress = q.op]
        [] q.op = "sent" -> Closed(next, "sent", "none")
        [] q.op \in Failures -> Closed(next, "failed", q.op)

-----------------------------------------------------------------------------
(* One call of the repository, as the run that makes it sees it.           *)

\* Mutant: the request does not say whose lease it is.
Anonymous(r, op) == [op |-> op, exp |-> held[r].rev, owner |-> NoOwner]

Request(r, op) == [op |-> op, exp |-> held[r].rev, owner |-> Proc(r)]

\* Mutant: process() without its finally clause.
FinishLeaking(r, disposition) ==
  /\ pc' = [pc EXCEPT ![r] = "idle"]
  /\ held' = [held EXCEPT ![r] = NoCopy]
  /\ why' = [why EXCEPT ![r] = "none"]
  /\ inFlight' = inFlight
  /\ answer' = [answer EXCEPT ![r] = disposition]

\* process() returns: its finally clause takes the item out of inFlight.
Finish(r, disposition) ==
  /\ pc' = [pc EXCEPT ![r] = "idle"]
  /\ held' = [held EXCEPT ![r] = NoCopy]
  /\ why' = [why EXCEPT ![r] = "none"]
  /\ inFlight' = inFlight \ {Proc(r)}
  /\ answer' = [answer EXCEPT ![r] = disposition]

Fault == faults < MaxFaults /\ faults' = faults + 1

\* The call answers with the changed item.
Succeeds(r, op) ==
  /\ Permits(Request(r, op))
  /\ item' = Apply(Request(r, op))
  /\ UNCHANGED <<late, faults>>

\* Drive refuses, or the answer is lost: before the request arrived, after it
\* took effect, or while it is still on its way.  Every error answer makes
\* process() return Retry (retryRepositoryError).
Fails(r, op) ==
  LET q == Request(r, op)
  IN  /\ \/ ~Permits(q) /\ UNCHANGED <<item, late, faults>>
         \/ Fault /\ UNCHANGED <<item, late>>
         \/ Fault /\ Permits(q) /\ item' = Apply(q) /\ UNCHANGED late
         \/ /\ Fault
            /\ Cardinality(late) < MaxLate
            /\ late' = late \cup {q}
            /\ UNCHANGED item
      /\ Finish(r, "Retry")

Goto(r, label) ==
  /\ pc' = [pc EXCEPT ![r] = label]
  /\ held' = [held EXCEPT ![r] = Copy(item')]
  /\ UNCHANGED <<inFlight, answer>>

-----------------------------------------------------------------------------
(* processor.process                                                       *)

\* Mutant: no look at inFlight.
BeginTwice(r) ==
  /\ pc[r] = "idle"
  /\ inFlight' = inFlight \cup {Proc(r)}
  /\ pc' = [pc EXCEPT ![r] = "get"]
  /\ answer' = [answer EXCEPT ![r] = "none"]
  /\ UNCHANGED <<item, late, held, why, mailVars, faults>>

Begin(r) ==
  /\ pc[r] = "idle"
  /\ Proc(r) \notin inFlight
  /\ inFlight' = inFlight \cup {Proc(r)}
  /\ pc' = [pc EXCEPT ![r] = "get"]
  /\ answer' = [answer EXCEPT ![r] = "none"]
  /\ UNCHANGED <<item, late, held, why, mailVars, faults>>

Busy(r) ==
  /\ pc[r] = "idle"
  /\ Proc(r) \in inFlight
  /\ answer' = [answer EXCEPT ![r] = "Retry"]
  /\ UNCHANGED <<item, late, pc, held, why, inFlight, mailVars, faults>>

\* repository.get fails, the locator of an event names another mailbox, or
\* the item is no longer in the outbox: nothing to do.
GetAnswers(r) ==
  /\ pc[r] = "get"
  /\ \/ Fault /\ Finish(r, "Retry")
     \/ r[2] = "event" /\ Finish(r, "Reject") /\ UNCHANGED faults
     \/ item.state # "outbox" /\ Finish(r, "Ack") /\ UNCHANGED faults
  /\ UNCHANGED <<item, late, mailVars>>

\* Which way processOutbox goes.  Whether payload, account and sender identity
\* are valid is a fact about the mail, left open here.
GetProceeds(r) ==
  /\ pc[r] = "get"
  /\ item.state = "outbox"
  /\ \E label \in IF IsStarted(item.progress)
                  THEN {"reconcile"} ELSE {"reject", "turn"}:
       pc' = [pc EXCEPT ![r] = label]
  /\ held' = [held EXCEPT ![r] = Copy(item)]
  /\ UNCHANGED <<item, late, why, inFlight, answer, mailVars, faults>>

\* Claim for reconciliation, rejection or delivery; the wait for the rate
\* limiter comes before the last.
ClaimItem(r) ==
  /\ pc[r] \in {"reconcile", "reject", "turn"}
  /\ \/ /\ Succeeds(r, "claim")
        /\ Goto(r, IF pc[r] = "turn" /\ ~Exhausted(item'.attempts)
                   THEN "load" ELSE "fail")
        /\ why' = [why EXCEPT ![r] = FailureOf(pc[r])]
     \/ Fails(r, "claim")
  /\ UNCHANGED mailVars

\* The attachments are loaded, are too large, or cannot be downloaded; or the
\* loader throws, which process() answers with Retry.
LoadAttachments(r) ==
  /\ pc[r] = "load"
  /\ \/ /\ \E label \in {"mark", "fail", "retrySafe"}: pc' = [pc EXCEPT ![r] = label]
        /\ UNCHANGED <<held, why, inFlight, answer, faults>>
     \/ Fault /\ Finish(r, "Retry")
  /\ UNCHANGED <<item, late, mailVars>>

\* Mutant: the mail is handed over without the durable mark.
MarkNothing(r) ==
  /\ pc[r] = "mark"
  /\ pc' = [pc EXCEPT ![r] = "send"]
  /\ UNCHANGED <<item, late, held, why, inFlight, answer, mailVars, faults>>

MarkStarted(r) ==
  /\ pc[r] = "mark"
  /\ \/ Succeeds(r, "Started") /\ Goto(r, "send") /\ UNCHANGED why
     \/ Fails(r, "Started")
  /\ UNCHANGED mailVars

\* sender.send, then decideTransportOutcome.
Submit(r) ==
  /\ pc[r] = "send"
  /\ submissions' = submissions + 1
  /\ \/ /\ accepted' = accepted + 1
        /\ pc' = [pc EXCEPT ![r] = "append"]
        /\ UNCHANGED why
     \/ /\ pc' = [pc EXCEPT ![r] =               \* RejectedBeforeAcceptance
             IF Exhausted(held[r].attempts + 1) THEN "fail" ELSE "retrySafe"]
        /\ UNCHANGED <<accepted, why>>
     \/ /\ pc' = [pc EXCEPT ![r] = "fail"]       \* ... or Permanent
        /\ UNCHANGED <<accepted, why>>
     \/ /\ pc' = [pc EXCEPT ![r] = "fail"]       \* UnknownOutcome
        /\ why' = [why EXCEPT ![r] = "FailedUnknown"]
        /\ accepted' \in {accepted, accepted + 1}
  /\ UNCHANGED <<item, late, held, inFlight, answer, sentCopies, faults>>

\* The copy for the Sent folder; failing to make it changes nothing else.
AppendSentCopy(r) ==
  /\ pc[r] = "append"
  /\ sentCopies' \in {sentCopies, sentCopies + 1}
  /\ pc' = [pc EXCEPT ![r] = "record"]
  /\ UNCHANGED <<item, late, held, why, inFlight, answer, accepted, submissions,
                 faults>>

\* Mutant: the event of a delivery left for a retry is acknowledged.
AckRetrySafe(r) ==
  /\ pc[r] = "retrySafe"
  /\ \/ Succeeds(r, "RetrySafe") /\ Finish(r, "Ack")
     \/ Fails(r, "RetrySafe")
  /\ UNCHANGED mailVars

WriteRetrySafe(r) ==
  /\ pc[r] = "retrySafe"
  /\ \/ Succeeds(r, "RetrySafe") /\ Finish(r, "Retry")
     \/ Fails(r, "RetrySafe")
  /\ UNCHANGED mailVars

WriteFailure(r) ==
  /\ pc[r] = "fail"
  /\ \/ Succeeds(r, why[r]) /\ Finish(r, "Ack")
     \/ Fails(r, why[r])
  /\ UNCHANGED mailVars

WriteSent(r) ==
  /\ pc[r] = "record"
  /\ \/ Succeeds(r, "sent") /\ Finish(r, "Ack")
     \/ Fails(r, "sent")
  /\ UNCHANGED mailVars

Step(r) ==
  \/ GetAnswers(r) \/ GetProceeds(r) \/ ClaimItem(r) \/ LoadAttachments(r)
  \/ MarkStarted(r) \/ Submit(r) \/ AppendSentCopy(r)
  \/ WriteRetrySafe(r) \/ WriteFailure(r) \/ WriteSent(r)

-----------------------------------------------------------------------------
(* What happens around the runs.                                           *)

\* A process exits; its successor starts with a new random leaseOwner.
Crash(p) ==
  LET Renamed(o) == IF o = p THEN Orphan ELSE o
      OfP(r) == Proc(r) = p
  IN  /\ Fault
      /\ item' = [item EXCEPT !.owner = Renamed(@)]
      /\ late' = {[q EXCEPT !.owner = Renamed(@)] : q \in late}
      /\ pc' = [r \in Runs |-> IF OfP(r) THEN "idle" ELSE pc[r]]
      /\ held' = [r \in Runs |-> IF OfP(r) THEN NoCopy ELSE held[r]]
      /\ why' = [r \in Runs |-> IF OfP(r) THEN "none" ELSE why[r]]
      /\ answer' = [r \in Runs |-> IF OfP(r) THEN "none" ELSE answer[r]]
      /\ inFlight' = inFlight \ {p}
      /\ UNCHANGED mailVars

HolderAtWork == \E r \in Runs: pc[r] \in HoldingPcs /\ item.owner = Proc(r)

\* LEASE_SECONDS pass.  While its holder still works that is a fault: a slow
\* download or SMTP dialogue, for the processor never renews a lease.
ExpireLease ==
  /\ item.lease = "live"
  /\ item' = [item EXCEPT !.lease = "lapsed"]
  /\ IF HolderAtWork THEN Fault ELSE UNCHANGED faults
  /\ UNCHANGED <<late, pc, held, why, inFlight, answer, mailVars>>

\* A request that outlived its call reaches Drive.
DeliverLate ==
  /\ \E q \in late:
       /\ late' = late \ {q}
       /\ item' = IF Permits(q) THEN Apply(q) ELSE item
  /\ UNCHANGED <<pc, held, why, inFlight, answer, mailVars, faults>>

-----------------------------------------------------------------------------

Init ==
  /\ item \in [state: {"outbox"}, progress: {"None", "Garbled"},
               reason: {"none"}, rev: {0}, attempts: {0},
               owner: {NoOwner}, lease: {"lapsed"}]
  /\ late = {}
  /\ pc = [r \in Runs |-> "idle"]
  /\ held = [r \in Runs |-> NoCopy]
  /\ why = [r \in Runs |-> "none"]
  /\ inFlight = {}
  /\ answer = [r \in Runs |-> "none"]
  /\ accepted = 0
  /\ submissions = 0
  /\ sentCopies = 0
  /\ faults = 0

Next ==
  \/ \E r \in Runs: Begin(r) \/ Busy(r) \/ Step(r)
  \/ \E p \in Procs: Crash(p)
  \/ ExpireLease
  \/ DeliverLate

Spec == Init /\ [][Next]_vars

\* The event loop runs every started call on, leases lapse, and the sweep's
\* timer (every 60 s) again and again finds the item not in flight.
Fairness ==
  /\ \A r \in Runs: WF_vars(Step(r))
  /\ \A p \in Procs: SF_vars(Begin(<<p, "sweep">>))
  /\ WF_vars(ExpireLease)

FairSpec == Spec /\ Fairness

-----------------------------------------------------------------------------
(* Properties                                                              *)

\* The state of the row, of the runs and of the requests still travelling.
TypeOK ==
  /\ item \in Items
  /\ late \subseteq Requests
  /\ pc \in [Runs -> Pcs]
  /\ held \in [Runs -> Copies]
  /\ why \in [Runs -> Failures \cup {"none"}]
  /\ inFlight \subseteq Procs
  /\ answer \in [Runs -> {"none", "Ack", "Retry", "Reject"}]
  /\ accepted \in Nat /\ submissions \in Nat /\ sentCopies \in Nat
  /\ faults \in Nat

\* However claims, crashes, lapsed leases, duplicate events and lost or late
\* answers interleave, SMTP servers accept the mail at most once: processOutbox
\* hands it over only after DeliveryStarted is durable, and a started delivery
\* is never tried again.
AtMostOnceAcceptance == accepted <= 1

\* What the row says of the mail is true: sent means accepted; a permanent
\* failure, a retry marker or no marker at all mean it was not accepted (the
\* recipient never gets a mail reported as failed, nor a second one); and a
\* copy in the Sent folder is a copy of an accepted mail.
OutcomeTruthful ==
  /\ item.state = "sent" => accepted = 1
  /\ item.reason = "FailedPermanent" => accepted = 0
  /\ item.state = "outbox" /\ ~IsStarted(item.progress) => accepted = 0
  /\ sentCopies <= accepted

\* An event is acknowledged, and so not redelivered, only when the row has left the
\* outbox, here by a terminal state: an error answer of Drive never passes for success.
AckMeansTerminal ==
  \A r \in Runs: answer[r] = "Ack" => item.state # "outbox"

\* Drops of the lease, downloads that fail after the claim and lost answers
\* never lead to more submissions than MAX_DELIVERY_ATTEMPTS.
AttemptsBounded == submissions <= MaxAttempts

\* The lease keeps the row still for the run that claimed it: while the lease is
\* live nobody, the sibling runs of the same leaseOwner included, changes the
\* revision under it, so that its next write is not refused.
LeaseFences ==
  \A r \in Runs:
    pc[r] \in HoldingPcs /\ item.lease = "live" /\ item.owner = Proc(r)
      => held[r].rev = item.rev

\* Every mail comes to an end: with finitely many faults each item reaches sent
\* or failed, whatever step a process crashed at.
EventuallyTerminal == <>(item.state # "outbox")

-----------------------------------------------------------------------------
(* The item as DeliveryLifecycle sees it.                                  *)

Phase ==
  CASE item.state = "sent" -> "Sent"
    [] item.state = "failed" -> item.reason
    [] item.state = "outbox" /\ IsStarted(item.progress) -> "Sending"
    [] item.state = "outbox" /\ item.progress = "RetrySafe" -> "RetryScheduled"
    [] OTHER -> IF item.lease = "live" THEN "Claimed" ELSE "Pending"

Lifecycle == INSTANCE DeliveryLifecycle WITH phase <- Phase, mails <- accepted

\* The processes together implement the lifecycle of one item: a terminal item
\* never changes again, retry is scheduled only for mail that was not accepted,
\* and acceptance happens while the item is Sending or already given up.
ImplementsLifecycle == Lifecycle!LifecycleSpec

=============================================================================
