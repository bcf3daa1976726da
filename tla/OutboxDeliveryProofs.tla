------------------------ MODULE OutboxDeliveryProofs ------------------------
(***************************************************************************)
(* Safety of OutboxDelivery for any number of processes, attempts, faults  *)
(* and late requests: TypeOK and the invariants of OutboxInvariant are     *)
(* inductive and the safety properties follow from them; the processes     *)
(* implement DeliveryLifecycle; attempts and leases are kept.              *)
(***************************************************************************)
EXTENDS OutboxInvariant, TLAPS

USE ConstantsAssumption

-----------------------------------------------------------------------------
(* The Drive row under one permitted request.                              *)

LEMMA ClaimedType ==
  ASSUME NEW i \in Items, NEW o \in Owners
  PROVE  Claimed(i, o) \in Items /\ Claimed(i, o).rev = i.rev
  <1>1. i.attempts + 1 \in Nat
    BY DEF Items
  <1>. QED
    BY <1>1 DEF Claimed, Items

LEMMA ApplyType ==
  ASSUME item \in Items, NEW q \in Requests
  PROVE  Apply(q) \in Items /\ Apply(q).rev = item.rev + 1
  <1>. DEFINE next == [item EXCEPT !.rev = @ + 1]
  <1>1. next \in Items /\ next.rev = item.rev + 1
    BY DEF Items
  <1>2. CASE q.op = "claim"
    <2>1. q.owner \in Owners
      BY DEF Requests, Owners
    <2>2. Apply(q) = Claimed(next, q.owner)
      BY <1>2 DEF Apply, Failures
    <2>. QED
      BY <1>1, <2>1, <2>2, ClaimedType
  <1>3. CASE q.op \in {"Started", "RetrySafe"}
    BY <1>1, <1>3 DEF Apply, Items, Progresses, Ops, Failures
  <1>4. CASE q.op = "sent"
    BY <1>1, <1>4 DEF Apply, Closed, Items, Owners, Failures
  <1>5. CASE q.op \in Failures
    BY <1>1, <1>5 DEF Apply, Closed, Items, Owners, Failures
  <1>. QED
    BY <1>2, <1>3, <1>4, <1>5 DEF Requests, Ops

LEMMA CopyType ==
  ASSUME NEW i \in Items
  PROVE  Copy(i) \in Copies
  BY DEF Items, Copy, Copies

LEMMA RequestType ==
  ASSUME TypeOK, NEW r \in Runs, NEW op \in Ops
  PROVE  Request(r, op) \in Requests
  BY DEF TypeOK, Runs, Proc, Copies, Request, Requests

-----------------------------------------------------------------------------
(* Type correctness                                                        *)

LEMMA FinishType ==
  ASSUME TypeOK, NEW r \in Runs, NEW d \in {"none", "Ack", "Retry", "Reject"},
         Finish(r, d)
  PROVE  /\ pc' \in [Runs -> Pcs]
         /\ held' \in [Runs -> Copies]
         /\ why' \in [Runs -> Failures \cup {"none"}]
         /\ inFlight' \subseteq Procs
         /\ answer' \in [Runs -> {"none", "Ack", "Retry", "Reject"}]
  <1>1. NoCopy \in Copies
    BY DEF NoCopy, Copies, Progresses
  <1>2. "idle" \in Pcs
    BY DEF Pcs
  <1>. QED
    BY <1>1, <1>2 DEF TypeOK, Finish

LEMMA SucceedsType ==
  ASSUME TypeOK, NEW r \in Runs, NEW op \in Ops, Succeeds(r, op)
  PROVE  item' \in Items /\ late' \subseteq Requests /\ faults' \in Nat
  BY RequestType, ApplyType DEF TypeOK, Succeeds

LEMMA FaultType ==
  ASSUME TypeOK, Fault
  PROVE  faults' \in Nat
  BY DEF TypeOK, Fault

LEMMA FailsType ==
  ASSUME TypeOK, NEW r \in Runs, NEW op \in Ops, Fails(r, op), UNCHANGED mailVars
  PROVE  TypeOK'
  <1>1. item' \in Items /\ late' \subseteq Requests /\ faults' \in Nat
    BY RequestType, ApplyType, FaultType DEF TypeOK, Fails
  <1>2. Finish(r, "Retry")
    BY DEF Fails
  <1>. QED
    BY <1>1, <1>2, FinishType DEF TypeOK, mailVars

LEMMA GotoType ==
  ASSUME TypeOK, NEW r \in Runs, NEW label \in Pcs, item' \in Items, Goto(r, label)
  PROVE  /\ pc' \in [Runs -> Pcs]
         /\ held' \in [Runs -> Copies]
         /\ inFlight' \subseteq Procs
         /\ answer' \in [Runs -> {"none", "Ack", "Retry", "Reject"}]
  <1>1. Copy(item') \in Copies
    BY CopyType
  <1>. QED
    BY <1>1 DEF TypeOK, Goto

LEMMA StepType ==
  ASSUME TypeInv, NEW r \in Runs, Step(r)
  PROVE  TypeOK'
  <1>. USE DEF TypeInv
  <1>1. CASE GetAnswers(r)
    BY <1>1, FinishType, FaultType DEF GetAnswers, TypeOK, mailVars
  <1>2. CASE GetProceeds(r)
    <2>1. Copy(item) \in Copies
      BY CopyType DEF TypeOK
    <2>2. {"reconcile", "reject", "turn"} \subseteq Pcs
      BY DEF Pcs
    <2>. QED
      BY <1>2, <2>1, <2>2 DEF GetProceeds, TypeOK, mailVars
  <1>3. CASE ClaimItem(r)
    <2>1. "claim" \in Ops /\ "load" \in Pcs /\ "fail" \in Pcs
      BY DEF Ops, Pcs, HoldingPcs
    <2>2. CASE Fails(r, "claim")
      BY <1>3, <2>1, <2>2, FailsType DEF ClaimItem
    <2>3. CASE ~Fails(r, "claim")
      <3>1. Succeeds(r, "claim")
        BY <1>3, <2>3 DEF ClaimItem
      <3>2. item' \in Items /\ late' \subseteq Requests /\ faults' \in Nat
        BY <2>1, <3>1, SucceedsType
      <3>3. PICK label \in {"load", "fail"}: Goto(r, label)
        BY <1>3, <2>3 DEF ClaimItem
      <3>4. why' \in [Runs -> Failures \cup {"none"}]
        BY <1>3, <2>3 DEF ClaimItem, TypeOK, Failures, FailureOf
      <3>. QED
        BY <1>3, <2>1, <3>2, <3>3, <3>4, GotoType DEF ClaimItem, TypeOK, mailVars
    <2>. QED
      BY <2>2, <2>3
  <1>4. CASE LoadAttachments(r)
    BY <1>4, FinishType, FaultType DEF LoadAttachments, TypeOK, mailVars, Pcs, HoldingPcs
  <1>5. CASE MarkStarted(r)
    <2>1. "Started" \in Ops /\ "send" \in Pcs
      BY DEF Ops, Pcs, HoldingPcs
    <2>2. CASE Fails(r, "Started")
      BY <1>5, <2>1, <2>2, FailsType DEF MarkStarted
    <2>3. CASE ~Fails(r, "Started")
      <3>1. Succeeds(r, "Started") /\ Goto(r, "send") /\ UNCHANGED why
        BY <1>5, <2>3 DEF MarkStarted
      <3>. QED
        BY <1>5, <2>1, <3>1, SucceedsType, GotoType DEF MarkStarted, TypeOK, mailVars
    <2>. QED
      BY <2>2, <2>3
  <1>6. CASE Submit(r)
    <2>1. {"append", "fail", "retrySafe"} \subseteq Pcs
      BY DEF Pcs, HoldingPcs
    <2>. QED
      BY <1>6, <2>1 DEF Submit, TypeOK, Failures
  <1>7. CASE AppendSentCopy(r)
    BY <1>7 DEF AppendSentCopy, TypeOK, Pcs, HoldingPcs
  <1>8. CASE WriteRetrySafe(r)
    <2>1. "RetrySafe" \in Ops
      BY DEF Ops
    <2>. QED
      BY <1>8, <2>1, FailsType, SucceedsType, FinishType
      DEF WriteRetrySafe, TypeOK, mailVars
  <1>9. CASE WriteFailure(r)
    \* A run that records a failure has one to record.
    <2>1. why[r] \in Ops
      BY <1>9 DEF WriteFailure, ReasonChosen, Ops
    <2>. QED
      BY <1>9, <2>1, FailsType, SucceedsType, FinishType
      DEF WriteFailure, TypeOK, mailVars
  <1>10. CASE WriteSent(r)
    <2>1. "sent" \in Ops
      BY DEF Ops
    <2>. QED
      BY <1>10, <2>1, FailsType, SucceedsType, FinishType DEF WriteSent, TypeOK, mailVars
  <1>. QED
    BY <1>1, <1>2, <1>3, <1>4, <1>5, <1>6, <1>7, <1>8, <1>9, <1>10 DEF Step

LEMMA EnvironmentType ==
  ASSUME TypeOK, (\E p \in Procs: Crash(p)) \/ ExpireLease \/ DeliverLate
  PROVE  TypeOK'
  <1>1. CASE \E p \in Procs: Crash(p)
    <2>1. PICK p \in Procs: Crash(p)
      BY <1>1
    <2>2. NoCopy \in Copies /\ "idle" \in Pcs
      BY DEF NoCopy, Copies, Progresses, Pcs
    <2>3. item' \in Items
      BY <2>1 DEF Crash, TypeOK, Items, Owners
    <2>4. late' \subseteq Requests
      BY <2>1 DEF Crash, TypeOK, Requests
    <2>. QED
      BY <2>1, <2>2, <2>3, <2>4, FaultType DEF Crash, TypeOK, mailVars
  <1>2. CASE ExpireLease
    <2>1. item' \in Items
      BY <1>2 DEF ExpireLease, TypeOK, Items
    <2>. QED
      BY <1>2, <2>1, FaultType DEF ExpireLease, TypeOK, mailVars
  <1>3. CASE DeliverLate
    BY <1>3, ApplyType DEF DeliverLate, TypeOK, mailVars
  <1>. QED
    BY <1>1, <1>2, <1>3

LEMMA ReasonStep ==
  ASSUME TypeInv, NEW r \in Runs, Begin(r) \/ Busy(r) \/ Step(r)
  PROVE  ReasonChosen'
  <1>. USE DEF TypeInv, ReasonChosen, TypeOK
  <1>1. ASSUME NEW d, Finish(r, d)
        PROVE  ReasonChosen'
    BY <1>1 DEF Finish
  <1>2. ASSUME NEW op, Fails(r, op)
        PROVE  ReasonChosen'
    BY <1>1, <1>2 DEF Fails
  <1>3. CASE Begin(r) \/ Busy(r)
    BY <1>3 DEF Begin, Busy
  <1>4. CASE GetAnswers(r)
    BY <1>1, <1>4 DEF GetAnswers
  <1>5. CASE GetProceeds(r)
    BY <1>5 DEF GetProceeds
  <1>6. CASE ClaimItem(r)
    BY <1>2, <1>6 DEF ClaimItem, Goto, Failures, FailureOf
  <1>7. CASE LoadAttachments(r)
    BY <1>1, <1>7 DEF LoadAttachments, Failures
  <1>8. CASE MarkStarted(r)
    BY <1>2, <1>8 DEF MarkStarted, Goto
  <1>9. CASE Submit(r)
    BY <1>9 DEF Submit, Failures
  <1>10. CASE AppendSentCopy(r)
    BY <1>10 DEF AppendSentCopy
  <1>11. CASE WriteRetrySafe(r) \/ WriteFailure(r) \/ WriteSent(r)
    BY <1>1, <1>2, <1>11 DEF WriteRetrySafe, WriteFailure, WriteSent
  <1>. QED
    BY <1>3, <1>4, <1>5, <1>6, <1>7, <1>8, <1>9, <1>10, <1>11 DEF Step

LEMMA TypeInvNext ==
  ASSUME TypeInv, [Next]_vars
  PROVE  TypeInv'
  <1>1. ASSUME NEW r \in Runs, Begin(r) \/ Busy(r)
        PROVE  TypeOK'
    BY <1>1 DEF TypeInv, TypeOK, Begin, Busy, mailVars, Pcs, Runs, Proc
  <1>2. ASSUME NEW r \in Runs, Begin(r) \/ Busy(r) \/ Step(r)
        PROVE  TypeInv'
    BY <1>1, <1>2, StepType, ReasonStep DEF TypeInv
  <1>3. ASSUME (\E p \in Procs: Crash(p)) \/ ExpireLease \/ DeliverLate
        PROVE  TypeInv'
    <2>1. ReasonChosen'
      BY <1>3 DEF TypeInv, TypeOK, ReasonChosen, Crash, ExpireLease, DeliverLate
    <2>. QED
      BY <1>3, <2>1, EnvironmentType DEF TypeInv
  <1>4. CASE UNCHANGED vars
    BY <1>4 DEF vars, mailVars, TypeInv, TypeOK, ReasonChosen
  <1>. QED
    BY <1>2, <1>3, <1>4 DEF Next

LEMMA TypeInvInit == Init => TypeInv
  BY DEF Init, TypeInv, TypeOK, ReasonChosen, Items, Progresses, Failures, Owners,
         Copies, NoCopy, Pcs, HoldingPcs, Requests

\* The row, the runs and the late requests keep their types, and a run that records
\* a failure has chosen which.
THEOREM TypeCorrect == Spec => []TypeOK
  <1>1. TypeInv => TypeOK
    BY DEF TypeInv
  <1>. QED
    BY <1>1, TypeInvInit, TypeInvNext, PTL DEF Spec

-----------------------------------------------------------------------------
(* The row tells the truth about the mail                                  *)

\* A request of a run that is past its get is truthful.
LEMMA RequestTruthful ==
  ASSUME TypeOK, HeldIsPast, IntentTruthful, NEW r \in Runs, NEW op \in Ops,
         pc[r] \notin {"idle", "get"},
         \/ op \in {"claim", "Started", "FailedUnknown"}
         \/ op = "RetrySafe" /\ pc[r] = "retrySafe"
         \/ op = "FailedPermanent" /\ pc[r] = "fail" /\ why[r] = op
         \/ op = "sent" /\ pc[r] = "record"
  PROVE  Truthful(Request(r, op))
  BY DEF HeldIsPast, IntentTruthful, Truthful, Request

\* A permitted, truthful request leaves a truthful row.
LEMMA WriteTruthful ==
  ASSUME TypeOK, RowTruthful, NEW q \in Requests, Truthful(q), Permits(q),
         item' = Apply(q), accepted' = accepted,
         q.op = "Started" \/ (NobodySends => NobodySends')
  PROVE  /\ RowTruthful'
         /\ item'.rev = item.rev + 1
         /\ q.op \in {"claim", "RetrySafe", "Started"} => item'.state = "outbox"
         /\ q.op = "claim" => item'.progress = item.progress
         /\ q.op \in {"RetrySafe", "Started"} => item'.progress = q.op
  <1>. DEFINE new == [item EXCEPT !.rev = @ + 1]
  <1>. item \in Items /\ q.exp = item.rev /\ item.state = "outbox"
    BY DEF TypeOK, Permits, Truthful
  <1>. USE DEF Items, RowTruthful, NotAccepted
  <1>1. CASE q.op = "claim"
    <2>1. item' = Claimed(new, q.owner)
      BY <1>1 DEF Apply, Failures
    <2>. QED
      BY <1>1, <2>1 DEF Claimed
  <1>2. CASE q.op \in {"Started", "RetrySafe"}
    <2>1. item' = [new EXCEPT !.progress = q.op]
      BY <1>2 DEF Apply, Failures
    <2>. QED
      BY <1>2, <2>1 DEF IsStarted, Truthful
  <1>3. CASE q.op = "sent"
    <2>1. item' = Closed(new, "sent", "none")
      BY <1>3 DEF Apply, Failures
    <2>. QED
      BY <1>3, <2>1 DEF Closed, Truthful, Failures
  <1>4. CASE q.op \in Failures
    <2>1. item' = Closed(new, "failed", q.op)
      BY <1>4 DEF Apply, Failures
    <2>. QED
      BY <1>4, <2>1 DEF Closed, Truthful, Failures
  <1>. QED
    BY <1>1, <1>2, <1>3, <1>4 DEF Requests, Ops

\* A run ends: on an error answer, after its last write, or having written nothing.
\* calls is its last request, or empty.
LEMMA FinishMail ==
  ASSUME TypeOK, MailInv, NEW r \in Runs, NEW d, Finish(r, d), UNCHANGED mailVars,
         NEW calls \in SUBSET Requests, \A q \in calls: Truthful(q),
         late' \subseteq late \cup calls,
         item' = item \/ \E q \in calls: Permits(q) /\ item' = Apply(q)
  PROVE  MailInv'
  <1>1. NobodySends => NobodySends'
    BY DEF NobodySends, Finish, TypeOK
  <1>2. /\ RowTruthful'
        /\ item' = item \/ item'.rev = item.rev + 1
    BY <1>1, WriteTruthful DEF MailInv, RowTruthful, NotAccepted, mailVars
  <1>3. item.rev \in Nat /\ \A s \in Runs: held[s].rev \in Nat
    BY DEF TypeOK, Items, Copies
  <1>4. HeldIsPast' /\ PathTaken'
    BY <1>2, <1>3 DEF MailInv, HeldIsPast, PathTaken, Finish, TypeOK
  <1>5. IntentTruthful'
    BY <1>1, <1>2, <1>3
    DEF MailInv, HeldIsPast, IntentTruthful, NotAccepted, Finish, TypeOK, mailVars
  <1>6. LateTruthful'
    <2>. SUFFICES ASSUME NEW x \in late'
                  PROVE  Truthful(x)'
      BY DEF LateTruthful
    <2>1. Truthful(x) /\ x.exp \in Nat
      BY DEF MailInv, LateTruthful, TypeOK, Requests
    <2>. QED
      BY <1>1, <1>2, <1>3, <2>1 DEF Truthful, NotAccepted, mailVars
  <1>7. OneSender'
    BY DEF MailInv, OneSender, Finish, TypeOK
  <1>. QED
    BY <1>2, <1>4, <1>5, <1>6, <1>7 DEF MailInv, mailVars

\* Any call of the repository that answers with an error.
LEMMA FailsMail ==
  ASSUME TypeOK, MailInv, NEW r \in Runs, NEW op \in Ops, Fails(r, op),
         UNCHANGED mailVars, Truthful(Request(r, op))
  PROVE  MailInv'
  <1>. DEFINE q == Request(r, op)
  <1>1. q \in Requests
    BY RequestType
  <1>2. Finish(r, "Retry") /\ late' \subseteq late \cup {q}
    BY DEF Fails
  <1>3. item' = item \/ (Permits(q) /\ item' = Apply(q))
    BY DEF Fails
  <1>. HIDE DEF q
  <1>4. /\ {q} \in SUBSET Requests /\ \A x \in {q}: Truthful(x)
        /\ item' = item \/ \E x \in {q}: Permits(x) /\ item' = Apply(x)
    BY <1>1, <1>3 DEF q
  <1>. QED
    BY <1>2, <1>4, FinishMail

\* The run keeps the item: after its claim, or after it marked the delivery started.
LEMMA GotoMail ==
  ASSUME TypeOK, MailInv, NEW r \in Runs, NEW op \in {"claim", "Started"},
         pc[r] \notin {"idle", "get"}, Succeeds(r, op),
         NEW label, Goto(r, label), accepted' = accepted,
         \/ op = "claim" /\ label \in {"load", "fail"}
         \/ op = "Started" /\ label = "send" /\ pc[r] = "mark",
         \/ ~IsStarted(held[r].progress)
         \/ label = "fail" /\ why'[r] = "FailedUnknown",
         UNCHANGED sentCopies, \A s \in Runs \ {r}: why'[s] = why[s]
  PROVE  MailInv'
  <1>. DEFINE q == Request(r, op)
  <1>1. q \in Requests /\ q.op = op /\ q.exp = held[r].rev
    BY RequestType DEF Ops, Request
  <1>2. Truthful(q) /\ Permits(q) /\ item' = Apply(q) /\ late' = late
    BY RequestTruthful DEF MailInv, Succeeds, Ops
  <1>3. held[r].rev = item.rev /\ item.state = "outbox"
        /\ held[r].progress = item.progress
    BY <1>1, <1>2 DEF MailInv, Permits, HeldIsPast
  <1>4. op = "claim" => (NobodySends => NobodySends')
    BY DEF NobodySends, Goto, TypeOK
  <1>. HIDE DEF q
  <1>5. /\ RowTruthful'
        /\ item'.rev = item.rev + 1
        /\ item'.state = "outbox"
        /\ op = "claim" => item'.progress = item.progress
        /\ op = "Started" => item'.progress = "Started"
    BY <1>1, <1>2, <1>4, WriteTruthful DEF MailInv
  <1>6. ~IsStarted(item.progress) => NotAccepted
    BY <1>3 DEF MailInv, RowTruthful
  <1>7. item.rev \in Nat /\ \A s \in Runs: held[s].rev \in Nat
    BY DEF TypeOK, Items, Copies
  <1>8. held'[r] = Copy(item') /\ pc'[r] = label
    BY DEF Goto, TypeOK
  <1>9. \A s \in Runs \ {r}: held'[s] = held[s] /\ pc'[s] = pc[s]
    BY DEF Goto, TypeOK
  <1>10. HeldIsPast'
    <2>. SUFFICES ASSUME NEW s \in Runs, pc'[s] \notin {"idle", "get"}
                  PROVE  /\ held'[s].rev <= item'.rev
                         /\ held'[s].rev = item'.rev =>
                              item'.state = "outbox" /\ held'[s].progress = item'.progress
      BY DEF HeldIsPast
    <2>1. CASE s = r
      BY <1>5, <1>7, <1>8, <2>1 DEF Copy
    <2>2. CASE s # r
      BY <1>5, <1>7, <1>9, <2>2 DEF MailInv, HeldIsPast
    <2>. QED
      BY <2>1, <2>2
  <1>11. PathTaken'
    <2>. SUFFICES ASSUME NEW s \in Runs,
                         pc'[s] \in {"reject", "turn", "load", "mark"}
                  PROVE  ~IsStarted(held'[s].progress)
      BY DEF PathTaken
    <2>1. CASE s = r
      BY <1>3, <1>5, <1>8, <2>1 DEF Copy
    <2>2. CASE s # r
      BY <1>9, <2>2 DEF MailInv, PathTaken
    <2>. QED
      BY <2>1, <2>2
  <1>12. IntentTruthful'
    <2>. SUFFICES ASSUME NEW s \in Runs
                  PROVE  /\ pc'[s] = "retrySafe" \/ (pc'[s] = "fail" /\ why'[s] = "FailedPermanent")
                              => (held'[s].rev = item'.rev => NotAccepted')
                         /\ pc'[s] \in {"append", "record"} => accepted' = 1
                         /\ pc'[s] = "append" => sentCopies' = 0
                         /\ pc'[s] = "send" => accepted' = 0
      BY DEF IntentTruthful
    <2>1. CASE s = r
      <3>1. CASE label = "load"
        BY <1>8, <2>1, <3>1
      <3>2. CASE label = "fail"
        BY <1>3, <1>4, <1>6, <1>8, <2>1, <3>2 DEF NotAccepted
      <3>3. CASE label = "send"
        BY <1>3, <1>6, <1>8, <2>1, <3>3 DEF NotAccepted
      <3>. QED
        BY <3>1, <3>2, <3>3
    <2>2. CASE s # r
      <3>1. pc[s] \notin {"idle", "get"} => held[s].rev < item'.rev
        BY <1>5, <1>7, <2>2 DEF MailInv, HeldIsPast
      <3>. QED
        BY <1>5, <1>7, <1>9, <2>2, <3>1 DEF MailInv, IntentTruthful
    <2>. QED
      BY <2>1, <2>2
  <1>13. LateTruthful'
    <2>. SUFFICES ASSUME NEW x \in late'
                  PROVE  Truthful(x)'
      BY DEF LateTruthful
    <2>1. Truthful(x) /\ x.exp \in Nat
      BY <1>2 DEF MailInv, LateTruthful, TypeOK, Requests
    <2>. QED
      BY <1>5, <1>7, <2>1 DEF Truthful
  <1>14. OneSender'
    BY <1>3, <1>6, <1>8, <1>9 DEF MailInv, OneSender, NotAccepted, NobodySends
  <1>. QED
    BY <1>5, <1>10, <1>11, <1>12, <1>13, <1>14 DEF MailInv

\* Steps that move a run without touching row, requests or copies of the mail.
LEMMA LocalMail ==
  ASSUME TypeOK, MailInv, NEW r \in Runs, UNCHANGED <<item, late, why, mailVars>>,
         NEW label \in {"get", "mark", "fail", "retrySafe"},
         \/ pc[r] = "idle" /\ label = "get"
         \/ pc[r] = "load" /\ label # "get",
         pc' = [pc EXCEPT ![r] = label], held' = held
  PROVE  MailInv'
  <1>1. NobodySends => NobodySends'
    BY DEF NobodySends, TypeOK
  <1>2. RowTruthful' /\ LateTruthful'
    BY <1>1 DEF MailInv, RowTruthful, LateTruthful, Truthful, NotAccepted, mailVars
  <1>3. HeldIsPast' /\ PathTaken' /\ OneSender'
    BY DEF MailInv, HeldIsPast, PathTaken, OneSender, TypeOK
  <1>4. pc[r] = "load" => (held[r].rev = item.rev => NotAccepted)
    BY DEF MailInv, HeldIsPast, PathTaken, RowTruthful
  <1>5. IntentTruthful'
    BY <1>1, <1>4 DEF MailInv, IntentTruthful, NotAccepted, TypeOK, mailVars
  <1>. QED
    BY <1>2, <1>3, <1>5 DEF MailInv, mailVars

LEMMA SubmitMail ==
  ASSUME TypeInv, MailInv, NEW r \in Runs, Submit(r)
  PROVE  MailInv'
  <1>. USE DEF TypeInv
  <1>1. /\ pc[r] = "send" /\ accepted = 0 /\ sentCopies = 0
        /\ why[r] = "FailedPermanent"
    BY DEF Submit, MailInv, IntentTruthful, ReasonChosen, TypeOK
  <1>2. \A s \in Runs \ {r}: pc[s] \notin {"send", "append", "record"}
    BY <1>1 DEF MailInv, OneSender, IntentTruthful
  <1>3. /\ item' = item /\ late' = late /\ held' = held /\ sentCopies' = 0
        /\ accepted' \in {0, 1}
        /\ \A s \in Runs \ {r}: pc'[s] = pc[s] /\ why'[s] = why[s]
        /\ pc'[r] \in {"append", "fail", "retrySafe"}
    BY <1>1 DEF Submit, TypeOK
  <1>4. /\ pc'[r] = "append" => accepted' = 1
        /\ pc'[r] = "retrySafe" => accepted' = 0
        /\ pc'[r] = "fail" /\ why'[r] = "FailedPermanent" => accepted' = 0
    BY <1>1 DEF Submit, TypeOK
  <1>5. NobodySends'
    BY <1>2, <1>3 DEF NobodySends
  <1>6. ~NotAccepted
    BY <1>1 DEF NotAccepted, NobodySends
  <1>7. RowTruthful' /\ LateTruthful'
    BY <1>1, <1>3, <1>6 DEF MailInv, RowTruthful, LateTruthful, Truthful
  <1>8. HeldIsPast' /\ PathTaken'
    BY <1>1, <1>3 DEF MailInv, HeldIsPast, PathTaken
  <1>9. IntentTruthful'
    <2>. SUFFICES ASSUME NEW s \in Runs
                  PROVE  /\ pc'[s] = "retrySafe" \/ (pc'[s] = "fail" /\ why'[s] = "FailedPermanent")
                              => (held'[s].rev = item'.rev => NotAccepted')
                         /\ pc'[s] \in {"append", "record"} => accepted' = 1
                         /\ pc'[s] = "append" => sentCopies' = 0
                         /\ pc'[s] = "send" => accepted' = 0
      BY DEF IntentTruthful
    <2>1. CASE s = r
      BY <1>3, <1>4, <1>5, <2>1 DEF NotAccepted
    <2>2. CASE s # r
      BY <1>2, <1>3, <1>6, <2>2 DEF MailInv, IntentTruthful
    <2>. QED
      BY <2>1, <2>2
  <1>10. OneSender'
    BY <1>2, <1>3 DEF OneSender
  <1>. QED
    BY <1>3, <1>4, <1>7, <1>8, <1>9, <1>10 DEF MailInv, IntentTruthful, TypeOK

LEMMA AppendMail ==
  ASSUME TypeOK, MailInv, NEW r \in Runs, AppendSentCopy(r)
  PROVE  MailInv'
  <1>1. pc[r] = "append" /\ accepted = 1 /\ sentCopies = 0
    BY DEF AppendSentCopy, MailInv, IntentTruthful
  <1>2. /\ UNCHANGED <<item, late, held, why, accepted>>
        /\ sentCopies' \in {0, 1}
        /\ pc' = [pc EXCEPT ![r] = "record"]
    BY <1>1 DEF AppendSentCopy
  <1>3. \A s \in Runs \ {r}: pc[s] # "append"
    BY <1>1 DEF MailInv, OneSender
  <1>4. RowTruthful' /\ LateTruthful' /\ HeldIsPast' /\ PathTaken' /\ OneSender'
    BY <1>1, <1>2 DEF MailInv, RowTruthful, LateTruthful, Truthful, NotAccepted,
                      HeldIsPast, PathTaken, OneSender, TypeOK
  <1>5. IntentTruthful'
    BY <1>1, <1>2, <1>3 DEF MailInv, IntentTruthful, NotAccepted, TypeOK
  <1>. QED
    BY <1>1, <1>2, <1>4, <1>5 DEF MailInv

LEMMA GetMail ==
  ASSUME TypeOK, MailInv, NEW r \in Runs, GetProceeds(r)
  PROVE  MailInv'
  <1>1. PICK label \in {"reconcile", "reject", "turn"}:
          /\ pc' = [pc EXCEPT ![r] = label]
          /\ label # "reconcile" => ~IsStarted(item.progress)
    BY DEF GetProceeds
  <1>2. /\ UNCHANGED <<item, late, why, mailVars>>
        /\ item.state = "outbox" /\ pc[r] = "get"
        /\ held' = [held EXCEPT ![r] = Copy(item)]
    BY DEF GetProceeds
  <1>3. NobodySends => NobodySends'
    BY <1>1 DEF NobodySends, TypeOK
  <1>4. held'[r].rev = item.rev /\ held'[r].progress = item.progress /\ item.rev \in Nat
    BY <1>2 DEF TypeOK, Copy, Items
  <1>5. RowTruthful' /\ LateTruthful'
    BY <1>2, <1>3 DEF MailInv, RowTruthful, LateTruthful, Truthful, NotAccepted, mailVars
  <1>6. HeldIsPast' /\ PathTaken' /\ OneSender'
    BY <1>1, <1>2, <1>4 DEF MailInv, HeldIsPast, PathTaken, OneSender, TypeOK
  <1>7. IntentTruthful'
    BY <1>1, <1>2, <1>3 DEF MailInv, IntentTruthful, NotAccepted, TypeOK, mailVars
  <1>. QED
    BY <1>2, <1>5, <1>6, <1>7 DEF MailInv, mailVars

LEMMA StepMail ==
  ASSUME TypeInv, MailInv, NEW r \in Runs, Step(r)
  PROVE  MailInv'
  <1>. TypeOK /\ ReasonChosen
    BY DEF TypeInv
  <1>0b. ASSUME NEW op \in Ops, NEW d, Succeeds(r, op), Finish(r, d),
               UNCHANGED mailVars, Truthful(Request(r, op))
        PROVE  MailInv'
    <2>. DEFINE calls == {Request(r, op)}
    <2>1. calls \in SUBSET Requests /\ \A q \in calls: Truthful(q)
      BY <1>0b, RequestType
    <2>2. /\ late' \subseteq late \cup calls
          /\ \E q \in calls: Permits(q) /\ item' = Apply(q)
      BY <1>0b DEF Succeeds
    <2>. HIDE DEF calls
    <2>. QED
      BY <1>0b, <2>1, <2>2, FinishMail
  <1>0a. ASSUME NEW d, Finish(r, d), UNCHANGED <<item, late, mailVars>>
        PROVE  MailInv'
    <2>. DEFINE calls == {}
    <2>1. /\ calls \in SUBSET Requests /\ \A q \in calls: Truthful(q)
          /\ late' \subseteq late \cup calls
      BY <1>0a
    <2>. HIDE DEF calls
    <2>. QED
      BY <1>0a, <2>1, FinishMail
  <1>1. CASE GetAnswers(r)
    BY <1>0a, <1>1 DEF GetAnswers
  <1>2. CASE GetProceeds(r)
    BY <1>2, GetMail
  <1>3. CASE ClaimItem(r)
    <2>1. UNCHANGED mailVars /\ pc[r] \in {"reconcile", "reject", "turn"}
      BY <1>3 DEF ClaimItem
    <2>2. "claim" \in Ops /\ Truthful(Request(r, "claim"))
      BY <2>1, RequestTruthful DEF MailInv, Ops
    <2>3. CASE Fails(r, "claim")
      BY <2>1, <2>2, <2>3, FailsMail
    <2>4. CASE ~Fails(r, "claim")
      <3>1. Succeeds(r, "claim")
        BY <1>3, <2>4 DEF ClaimItem
      <3>2. PICK label \in {"load", "fail"}:
              Goto(r, label) /\ (label = "load" => pc[r] = "turn")
        BY <1>3, <2>4 DEF ClaimItem
      <3>3. why' = [why EXCEPT ![r] = FailureOf(pc[r])]
        BY <1>3, <2>4 DEF ClaimItem
      <3>4. \/ ~IsStarted(held[r].progress)
            \/ label = "fail" /\ why'[r] = "FailedUnknown"
        BY <2>1, <3>2, <3>3 DEF MailInv, PathTaken, TypeOK, FailureOf
      <3>5. \A s \in Runs \ {r}: why'[s] = why[s]
        BY <3>3 DEF TypeOK
      <3>. QED
        BY <2>1, <3>1, <3>2, <3>4, <3>5, GotoMail DEF mailVars
    <2>. QED
      BY <2>3, <2>4
  <1>4. CASE LoadAttachments(r)
    BY <1>0a, <1>4, LocalMail DEF LoadAttachments
  <1>5. CASE MarkStarted(r)
    <2>1. UNCHANGED mailVars /\ pc[r] = "mark"
      BY <1>5 DEF MarkStarted
    <2>2. "Started" \in Ops /\ Truthful(Request(r, "Started"))
      BY <2>1, RequestTruthful DEF MailInv, Ops
    <2>3. CASE Fails(r, "Started")
      BY <2>1, <2>2, <2>3, FailsMail
    <2>4. CASE ~Fails(r, "Started")
      <3>1. Succeeds(r, "Started") /\ Goto(r, "send") /\ why' = why
        BY <1>5, <2>4 DEF MarkStarted
      <3>2. ~IsStarted(held[r].progress)
        BY <2>1 DEF MailInv, PathTaken
      <3>. QED
        BY <2>1, <3>1, <3>2, GotoMail DEF mailVars
    <2>. QED
      BY <2>3, <2>4
  <1>6. CASE Submit(r)
    BY <1>6, SubmitMail
  <1>7. CASE AppendSentCopy(r)
    BY <1>7, AppendMail
  <1>8. CASE WriteRetrySafe(r)
    <2>1. "RetrySafe" \in Ops /\ Truthful(Request(r, "RetrySafe"))
      BY <1>8, RequestTruthful DEF MailInv, WriteRetrySafe, Ops
    <2>. QED
      BY <1>0b, <1>8, <2>1, FailsMail DEF WriteRetrySafe
  <1>9. CASE WriteFailure(r)
    <2>1. pc[r] = "fail" /\ why[r] \in Failures
      BY <1>9 DEF WriteFailure, ReasonChosen
    <2>2. why[r] \in Ops /\ Truthful(Request(r, why[r]))
      BY <2>1, RequestTruthful DEF MailInv, Ops, Failures
    <2>. QED
      BY <1>0b, <1>9, <2>2, FailsMail DEF WriteFailure
  <1>10. CASE WriteSent(r)
    <2>1. "sent" \in Ops /\ Truthful(Request(r, "sent"))
      BY <1>10, RequestTruthful DEF MailInv, WriteSent, Ops
    <2>. QED
      BY <1>0b, <1>10, <2>1, FailsMail DEF WriteSent
  <1>. QED
    BY <1>1, <1>2, <1>3, <1>4, <1>5, <1>6, <1>7, <1>8, <1>9, <1>10 DEF Step

LEMMA EnvironmentMail ==
  ASSUME TypeOK, MailInv, (\E p \in Procs: Crash(p)) \/ ExpireLease \/ DeliverLate
  PROVE  MailInv'
  <1>1. CASE \E p \in Procs: Crash(p)
    <2>1. PICK p \in Procs: Crash(p)
      BY <1>1
    <2>2. /\ item'.state = item.state /\ item'.progress = item.progress
          /\ item'.reason = item.reason /\ item'.rev = item.rev
          /\ UNCHANGED mailVars
      BY <2>1 DEF Crash, TypeOK, Items
    <2>3. \A r \in Runs: \/ pc'[r] = pc[r] /\ held'[r] = held[r] /\ why'[r] = why[r]
                      \/ pc'[r] = "idle"
      BY <2>1 DEF Crash
    <2>4. NobodySends => NobodySends'
      BY <2>3 DEF NobodySends
    <2>5. \A x \in late': \E q \in late: x.op = q.op /\ x.exp = q.exp
      BY <2>1 DEF Crash, TypeOK, Requests
    <2>6. RowTruthful' /\ LateTruthful'
      BY <2>2, <2>4, <2>5 DEF MailInv, RowTruthful, LateTruthful, Truthful, NotAccepted,
                              mailVars
    <2>7. HeldIsPast' /\ PathTaken' /\ OneSender'
      BY <2>2, <2>3 DEF MailInv, HeldIsPast, PathTaken, OneSender
    <2>8. IntentTruthful'
      BY <2>2, <2>3, <2>4 DEF MailInv, IntentTruthful, NotAccepted, mailVars
    <2>. QED
      BY <2>2, <2>6, <2>7, <2>8 DEF MailInv, mailVars
  <1>2. CASE ExpireLease
    <2>1. /\ item'.state = item.state /\ item'.progress = item.progress
          /\ item'.reason = item.reason /\ item'.rev = item.rev
          /\ UNCHANGED <<late, pc, held, why, mailVars>>
      BY <1>2 DEF ExpireLease, TypeOK, Items
    <2>. QED
      BY <2>1 DEF MailInv, RowTruthful, HeldIsPast, PathTaken, IntentTruthful,
                  LateTruthful, Truthful, OneSender, NotAccepted, NobodySends, mailVars
  <1>3. CASE DeliverLate
    <2>1. PICK q \in late: item' = IF Permits(q) THEN Apply(q) ELSE item
      BY <1>3 DEF DeliverLate
    <2>2. UNCHANGED <<pc, held, why, mailVars>> /\ late' \subseteq late
      BY <1>3 DEF DeliverLate
    <2>3. q \in Requests /\ Truthful(q)
      BY DEF TypeOK, MailInv, LateTruthful
    <2>4. NobodySends => NobodySends'
      BY <2>2 DEF NobodySends
    <2>5. /\ RowTruthful'
          /\ item' = item \/ item'.rev = item.rev + 1
      BY <2>1, <2>2, <2>3, <2>4, WriteTruthful
      DEF MailInv, RowTruthful, NotAccepted, mailVars
    <2>6. item.rev \in Nat /\ \A s \in Runs: held[s].rev \in Nat
      BY DEF TypeOK, Items, Copies
    <2>7. HeldIsPast' /\ PathTaken' /\ OneSender'
      BY <2>2, <2>5, <2>6 DEF MailInv, HeldIsPast, PathTaken, OneSender
    <2>8. IntentTruthful'
      BY <2>2, <2>4, <2>5, <2>6
      DEF MailInv, HeldIsPast, IntentTruthful, NotAccepted, mailVars
    <2>9. LateTruthful'
      <3>. SUFFICES ASSUME NEW x \in late'
                    PROVE  Truthful(x)'
        BY DEF LateTruthful
      <3>1. Truthful(x) /\ x.exp \in Nat
        BY <2>2 DEF MailInv, LateTruthful, TypeOK, Requests
      <3>. QED
        BY <2>2, <2>4, <2>5, <2>6, <3>1 DEF Truthful, NotAccepted, mailVars
    <2>. QED
      BY <2>2, <2>5, <2>7, <2>8, <2>9 DEF MailInv, mailVars
  <1>. QED
    BY <1>1, <1>2, <1>3

LEMMA MailInvNext ==
  ASSUME TypeInv, MailInv, [Next]_vars
  PROVE  MailInv'
  <1>. TypeOK
    BY DEF TypeInv
  <1>1. ASSUME NEW r \in Runs, Begin(r)
        PROVE  MailInv'
    BY <1>1, LocalMail DEF Begin
  <1>2. CASE UNCHANGED <<item, late, pc, held, why, mailVars>>
    BY <1>2 DEF MailInv, RowTruthful, HeldIsPast, PathTaken, IntentTruthful,
                LateTruthful, Truthful, OneSender, NotAccepted, NobodySends, mailVars
  <1>3. ASSUME NEW r \in Runs, Busy(r)
        PROVE  UNCHANGED <<item, late, pc, held, why, mailVars>>
    BY <1>3 DEF Busy
  <1>4. UNCHANGED vars => UNCHANGED <<item, late, pc, held, why, mailVars>>
    BY DEF vars, mailVars
  <1>. QED
    BY <1>1, <1>2, <1>3, <1>4, StepMail, EnvironmentMail DEF Next

LEMMA MailInvInit == Init => MailInv
  BY DEF Init, MailInv, RowTruthful, HeldIsPast, PathTaken, IntentTruthful, LateTruthful,
         Truthful, OneSender, NotAccepted, NobodySends

\* SMTP servers accept the mail at most once, whatever processes crash, leases lapse,
\* answers are lost or requests arrive late.
THEOREM AtMostOnce == Spec => []AtMostOnceAcceptance
  <1>1. MailInv => AtMostOnceAcceptance
    BY DEF MailInv, AtMostOnceAcceptance
  <1>. QED
    BY <1>1, TypeInvInit, TypeInvNext, MailInvInit, MailInvNext, PTL DEF Spec

\* The outcome recorded in the row is what happened to the mail.
THEOREM OutcomeIsTruthful == Spec => []OutcomeTruthful
  <1>1. MailInv => OutcomeTruthful
    BY DEF MailInv, RowTruthful, NotAccepted, OutcomeTruthful
  <1>. QED
    BY <1>1, TypeInvInit, TypeInvNext, MailInvInit, MailInvNext, PTL DEF Spec

-----------------------------------------------------------------------------
(* What a step may do to the row                                           *)

SameButOwner ==
  /\ item'.state = item.state /\ item'.progress = item.progress
  /\ item'.reason = item.reason /\ item'.rev = item.rev
  /\ item'.attempts = item.attempts /\ item'.lease = item.lease

\* Requests of the run r, at the point it has reached.
Asked(r, op) ==
  /\ pc[r] \notin {"idle", "get"}
  /\ \/ op = "claim" /\ pc[r] \in {"reconcile", "reject", "turn"}
     \/ op = "Started" /\ pc[r] = "mark"
     \/ op = "RetrySafe" /\ pc[r] = "retrySafe"
     \/ op = why[r] /\ pc[r] = "fail"
     \/ op = "sent" /\ pc[r] = "record"

\* A repository call of r, whatever becomes of it.
Calls(r, op) ==
  /\ Asked(r, op)
  /\ UNCHANGED mailVars
  /\ Succeeds(r, op) \/ Fails(r, op)

LEMMA AskedOps ==
  ASSUME TypeInv, NEW r \in Runs, NEW op, Asked(r, op)
  PROVE  op \in Ops /\ Request(r, op) \in Requests
<1>1. op \in Ops
  BY DEF Asked, Ops, TypeInv, ReasonChosen
<1> QED
  BY <1>1, RequestType DEF TypeInv

LEMMA AskedTruthful ==
  ASSUME TypeInv, MailInv, NEW r \in Runs, NEW op, Asked(r, op)
  PROVE  Truthful(Request(r, op))
<1>1. op \in Ops
  BY AskedOps
<1>2. pc[r] = "fail" => why[r] \in Failures
  BY DEF TypeInv, ReasonChosen
<1> QED
  BY <1>1, <1>2, RequestTruthful DEF Asked, TypeInv, MailInv, Failures

\* Every step calls the repository, submits, or leaves row and mail alone, but for what
\* happens around the runs.
LEMMA StepKinds ==
  ASSUME TypeInv, NEW r \in Runs, Begin(r) \/ Busy(r) \/ Step(r)
  PROVE  \/ \E op \in Ops: Calls(r, op)
         \/ Submit(r)
         \/ item' = item /\ accepted' = accepted
<1>1. ASSUME NEW op, Calls(r, op)
      PROVE  op \in Ops
  BY <1>1, AskedOps DEF Calls
<1>2. CASE Begin(r) \/ Busy(r) \/ GetAnswers(r) \/ GetProceeds(r) \/ LoadAttachments(r)
           \/ AppendSentCopy(r)
  BY <1>2 DEF Begin, Busy, GetAnswers, GetProceeds, LoadAttachments, AppendSentCopy, mailVars
<1>3. CASE ClaimItem(r)
  <2>1. Calls(r, "claim")
    BY <1>3 DEF ClaimItem, Calls, Asked
  <2> QED
    BY <1>1, <2>1
<1>4. CASE MarkStarted(r)
  <2>1. Calls(r, "Started")
    BY <1>4 DEF MarkStarted, Calls, Asked
  <2> QED
    BY <1>1, <2>1
<1>5. CASE WriteRetrySafe(r)
  <2>1. Calls(r, "RetrySafe")
    BY <1>5 DEF WriteRetrySafe, Calls, Asked
  <2> QED
    BY <1>1, <2>1
<1>6. CASE WriteFailure(r)
  <2>1. Calls(r, why[r])
    BY <1>6 DEF WriteFailure, Calls, Asked
  <2> QED
    BY <1>1, <2>1
<1>7. CASE WriteSent(r)
  <2>1. Calls(r, "sent")
    BY <1>7 DEF WriteSent, Calls, Asked
  <2> QED
    BY <1>1, <2>1
<1> QED
  BY <1>2, <1>3, <1>4, <1>5, <1>6, <1>7 DEF Step

\* What one permitted request makes of the row.
LEMMA ApplyFields ==
  ASSUME item \in Items, NEW q \in Requests
  PROVE  /\ q.op = "claim" => /\ Apply(q).state = item.state
                              /\ Apply(q).progress = item.progress
                              /\ Apply(q).reason = item.reason
                              /\ Apply(q).attempts = item.attempts + 1
                              /\ Apply(q).owner = q.owner
                              /\ Apply(q).lease = "live"
         /\ q.op \in {"Started", "RetrySafe"} => /\ Apply(q).state = item.state
                                                 /\ Apply(q).progress = q.op
                                                 /\ Apply(q).reason = item.reason
                                                 /\ Apply(q).attempts = item.attempts
                                                 /\ Apply(q).owner = item.owner
                                                 /\ Apply(q).lease = item.lease
         /\ q.op = "sent" => Apply(q).state = "sent" /\ Apply(q).reason = "none"
         /\ q.op \in Failures => Apply(q).state = "failed" /\ Apply(q).reason = q.op
         /\ q.op \in {"sent"} \cup Failures => /\ Apply(q).lease = "lapsed"
                                               /\ Apply(q).attempts = item.attempts
         /\ Apply(q).rev = item.rev + 1
<1> DEFINE new == [item EXCEPT !.rev = @ + 1]
<1> USE DEF Items
<1>1. CASE q.op = "claim"
  <2>1. Apply(q) = Claimed(new, q.owner)
    BY <1>1 DEF Apply, Failures
  <2> QED
    BY <1>1, <2>1 DEF Claimed, Failures
<1>2. CASE q.op \in {"Started", "RetrySafe"}
  <2>1. Apply(q) = [new EXCEPT !.progress = q.op]
    BY <1>2 DEF Apply, Failures
  <2> QED
    BY <1>2, <2>1 DEF Failures
<1>3. CASE q.op = "sent"
  <2>1. Apply(q) = Closed(new, "sent", "none")
    BY <1>3 DEF Apply, Failures
  <2> QED
    BY <1>3, <2>1 DEF Closed, Failures
<1>4. CASE q.op \in Failures
  <2>1. Apply(q) = Closed(new, "failed", q.op)
    BY <1>4 DEF Apply, Failures
  <2> QED
    BY <1>4, <2>1 DEF Closed, Failures
<1> QED
  BY <1>1, <1>2, <1>3, <1>4 DEF Requests, Ops

\* The same of the steps of all runs and around them: the row changes by a truthful
\* request, or in its owner or lease alone.
LEMMA RowChanges ==
  ASSUME TypeInv, MailInv, [Next]_vars
  PROVE  \/ item' = item
         \/ /\ accepted' = accepted
            /\ \E q \in Requests: Truthful(q) /\ Permits(q) /\ item' = Apply(q)
         \/ SameButOwner /\ accepted' = accepted
         \/ ExpireLease
<1> USE DEF TypeInv
<1>1. ASSUME NEW r \in Runs, Begin(r) \/ Busy(r) \/ Step(r)
      PROVE  \/ item' = item
             \/ /\ accepted' = accepted
                /\ \E q \in Requests: Truthful(q) /\ Permits(q) /\ item' = Apply(q)
  <2>1. CASE Submit(r)
    BY <2>1 DEF Submit
  <2>2. ASSUME NEW op \in Ops, Calls(r, op), item' # item
        PROVE  /\ accepted' = accepted
               /\ \E q \in Requests: Truthful(q) /\ Permits(q) /\ item' = Apply(q)
    <3>1. /\ Request(r, op) \in Requests
          /\ Truthful(Request(r, op))
      BY <2>2, AskedOps, AskedTruthful DEF Calls
    <3>2. Permits(Request(r, op)) /\ item' = Apply(Request(r, op))
      BY <2>2 DEF Calls, Succeeds, Fails
    <3>3. accepted' = accepted
      BY <2>2 DEF Calls, mailVars
    <3> QED
      BY <3>1, <3>2, <3>3
  <2> QED
    BY <1>1, <2>1, <2>2, StepKinds
<1>2. ASSUME NEW p \in Procs, Crash(p)
      PROVE  SameButOwner /\ accepted' = accepted
  BY <1>2 DEF Crash, SameButOwner, TypeOK, Items, mailVars
<1>3. CASE DeliverLate
  <2>1. PICK q \in late: item' = IF Permits(q) THEN Apply(q) ELSE item
    BY <1>3 DEF DeliverLate
  <2>2. q \in Requests /\ Truthful(q) /\ accepted' = accepted
    BY <1>3 DEF DeliverLate, TypeOK, MailInv, LateTruthful, mailVars
  <2> QED
    BY <2>1, <2>2
<1> QED
  BY <1>1, <1>2, <1>3 DEF Next, vars

-----------------------------------------------------------------------------
(* Acknowledgement                                                         *)

\* A row that is terminal stays so.
LEMMA TerminalStays ==
  ASSUME TypeInv, MailInv, [Next]_vars, item.state # "outbox"
  PROVE  item'.state # "outbox"
<1>1. ASSUME NEW q \in Requests, Truthful(q), Permits(q)
      PROVE  FALSE
  BY <1>1 DEF Truthful, Permits
<1>2. ExpireLease => item'.state = item.state
  BY DEF ExpireLease, TypeInv, TypeOK, Items
<1> QED
  BY <1>1, <1>2, RowChanges DEF SameButOwner

LEMMA AckStep ==
  ASSUME TypeInv, MailInv, AckMeansTerminal, [Next]_vars
  PROVE  AckMeansTerminal'
<1> SUFFICES ASSUME NEW s \in Runs, answer'[s] = "Ack"
             PROVE  item'.state # "outbox"
  BY DEF AckMeansTerminal
<1> USE DEF TypeInv
<1>1. CASE answer[s] = "Ack"
  BY <1>1, TerminalStays DEF AckMeansTerminal
<1>2. CASE answer[s] # "Ack"
  <2>1. PICK r \in Runs: Begin(r) \/ Busy(r) \/ Step(r)
    BY <1>2 DEF Next, vars, Crash, ExpireLease, DeliverLate
  <2>2. ASSUME NEW op, Fails(r, op)
        PROVE  FALSE
    BY <1>2, <2>2 DEF Fails, Finish, TypeOK
  <2>3. CASE GetAnswers(r)
    BY <1>2, <2>3 DEF GetAnswers, Finish, TypeOK
  <2>4. ASSUME NEW op \in Failures \cup {"sent"}, Succeeds(r, op)
        PROVE  item'.state # "outbox"
    <3>1. Request(r, op) \in Requests /\ Request(r, op).op = op
      BY RequestType DEF Ops, Request
    <3> QED
      BY <2>4, <3>1, ApplyFields DEF Succeeds, TypeOK
  <2>5. CASE WriteFailure(r)
    <3>1. why[r] \in Failures
      BY <2>5 DEF WriteFailure, ReasonChosen
    <3> QED
      BY <2>2, <2>4, <2>5, <3>1 DEF WriteFailure
  <2>6. CASE WriteSent(r)
    BY <2>2, <2>4, <2>6 DEF WriteSent
  <2>7. CASE WriteRetrySafe(r)
    BY <1>2, <2>2, <2>7 DEF WriteRetrySafe, Finish, TypeOK
  <2>8. CASE Begin(r) \/ Busy(r)
    BY <1>2, <2>8 DEF Begin, Busy, TypeOK
  <2>9. CASE GetProceeds(r) \/ Submit(r) \/ AppendSentCopy(r)
    BY <1>2, <2>9 DEF GetProceeds, Submit, AppendSentCopy
  <2>10. CASE LoadAttachments(r)
    BY <1>2, <2>10 DEF LoadAttachments, Finish, TypeOK
  <2>11. CASE ClaimItem(r) \/ MarkStarted(r)
    BY <1>2, <2>2, <2>11 DEF ClaimItem, MarkStarted, Goto
  <2> QED
    BY <2>1, <2>3, <2>5, <2>6, <2>7, <2>8, <2>9, <2>10, <2>11 DEF Step
<1> QED
  BY <1>1, <1>2

\* An event is acknowledged only for a row that is terminal, and it stays so.
THEOREM AckIsFinal == Spec => []AckMeansTerminal
<1>1. Init => AckMeansTerminal
  BY DEF Init, AckMeansTerminal
<1> QED
  BY <1>1, AckStep, TypeInvInit, TypeInvNext, MailInvInit, MailInvNext, PTL DEF Spec

-----------------------------------------------------------------------------
(* The lifecycle                                                           *)

\* Only of a delivery that may have been handed over is the outcome unknown.
UnknownWasStarted ==
  /\ \A r \in Runs:
       pc[r] \in {"reconcile", "send"} \/ (pc[r] = "fail" /\ why[r] = "FailedUnknown") =>
         (held[r].rev = item.rev => IsStarted(item.progress))
  /\ \A q \in late:
       q.op = "FailedUnknown" /\ q.exp = item.rev => IsStarted(item.progress)

\* A row of the same revision says the same of its progress.
LEMMA SameRevision ==
  ASSUME TypeInv, MailInv, [Next]_vars
  PROVE  /\ item'.rev \in Nat /\ item.rev <= item'.rev
         /\ item'.rev = item.rev => item'.progress = item.progress
<1>1. item.rev \in Nat
  BY DEF TypeInv, TypeOK, Items
<1>2. ASSUME NEW q \in Requests, item' = Apply(q)
      PROVE  item'.rev = item.rev + 1
  BY <1>2, ApplyFields DEF TypeInv, TypeOK
<1>3. ExpireLease => item'.rev = item.rev /\ item'.progress = item.progress
  BY DEF ExpireLease, TypeInv, TypeOK, Items
<1> QED
  BY <1>1, <1>2, <1>3, RowChanges DEF SameButOwner

\* Runs and requests that a step leaves as they are.
LEMMA UnknownStays ==
  ASSUME TypeInv, MailInv, UnknownWasStarted, [Next]_vars
  PROVE  /\ \A s \in Runs:
              /\ pc'[s] = pc[s] /\ why'[s] = why[s] /\ held'[s] = held[s]
              /\ pc[s] \in {"reconcile", "send"} \/ (pc[s] = "fail" /\ why[s] = "FailedUnknown")
              => (held'[s].rev = item'.rev => IsStarted(item'.progress))
         /\ \A q \in late:
              q.op = "FailedUnknown" /\ q.exp = item'.rev => IsStarted(item'.progress)
<1>1. item.rev \in Nat /\ (\A q \in late: q.exp \in Nat) /\ \A r \in Runs: held[r].rev \in Nat
  BY DEF TypeInv, TypeOK, Items, Requests, Copies
<1>2. /\ item'.rev \in Nat /\ item.rev <= item'.rev
      /\ item'.rev = item.rev => item'.progress = item.progress
  BY SameRevision
<1>3. ASSUME NEW s \in Runs, pc'[s] = pc[s], why'[s] = why[s], held'[s] = held[s],
             pc[s] \in {"reconcile", "send"} \/ (pc[s] = "fail" /\ why[s] = "FailedUnknown"),
             held'[s].rev = item'.rev
      PROVE  IsStarted(item'.progress)
  <2>1. held[s].rev <= item.rev
    BY <1>3 DEF MailInv, HeldIsPast
  <2>2. held[s].rev = item.rev /\ item'.progress = item.progress
    BY <1>1, <1>2, <1>3, <2>1
  <2> QED
    BY <1>3, <2>2 DEF UnknownWasStarted
<1>4. ASSUME NEW q \in late, q.op = "FailedUnknown", q.exp = item'.rev
      PROVE  IsStarted(item'.progress)
  <2>1. q.exp <= item.rev
    BY DEF MailInv, LateTruthful, Truthful
  <2>2. q.exp = item.rev /\ item'.progress = item.progress
    BY <1>1, <1>2, <1>4, <2>1
  <2> QED
    BY <1>4, <2>2 DEF UnknownWasStarted
<1> QED
  BY <1>3, <1>4

\* A run that ends, its last request included.
LEMMA UnknownEnds ==
  ASSUME TypeInv, MailInv, UnknownWasStarted, [Next]_vars, NEW r \in Runs, NEW d, Finish(r, d),
         \/ late' = late
         \/ \E op: Asked(r, op) /\ late' = late \cup {Request(r, op)} /\ item' = item
  PROVE  UnknownWasStarted'
<1>1. /\ pc'[r] = "idle"
      /\ \A s \in Runs \ {r}: pc'[s] = pc[s] /\ why'[s] = why[s] /\ held'[s] = held[s]
  BY DEF Finish, TypeInv, TypeOK
<1>2. ASSUME NEW q \in late', q.op = "FailedUnknown", q.exp = item'.rev
      PROVE  IsStarted(item'.progress)
  <2>1. CASE q \in late
    BY <1>2, <2>1, UnknownStays
  <2>2. ASSUME NEW op, Asked(r, op), q = Request(r, op), item' = item
        PROVE  IsStarted(item'.progress)
    <3>1. op = "FailedUnknown" /\ held[r].rev = item.rev
      BY <1>2, <2>2 DEF Request
    <3>2. pc[r] = "fail" /\ why[r] = "FailedUnknown"
      BY <2>2, <3>1 DEF Asked
    <3> QED
      BY <2>2, <3>1, <3>2 DEF UnknownWasStarted
  <2> QED
    BY <1>2, <2>1, <2>2
<1>3. ASSUME NEW s \in Runs,
             pc'[s] \in {"reconcile", "send"} \/ (pc'[s] = "fail" /\ why'[s] = "FailedUnknown"),
             held'[s].rev = item'.rev
      PROVE  IsStarted(item'.progress)
  <2>1. s # r
    BY <1>1, <1>3
  <2> QED
    BY <1>1, <1>3, <2>1, UnknownStays
<1> QED
  BY <1>2, <1>3 DEF UnknownWasStarted

\* A run that goes on: only r moves, and what it is about to write it may write.
LEMMA UnknownGoesOn ==
  ASSUME TypeInv, MailInv, UnknownWasStarted, [Next]_vars, NEW r \in Runs, late' = late,
         \A s \in Runs \ {r}: pc'[s] = pc[s] /\ why'[s] = why[s] /\ held'[s] = held[s],
         pc'[r] \in {"reconcile", "send"} \/ (pc'[r] = "fail" /\ why'[r] = "FailedUnknown") =>
           (held'[r].rev = item'.rev => IsStarted(item'.progress))
  PROVE  UnknownWasStarted'
<1>1. ASSUME NEW s \in Runs,
             pc'[s] \in {"reconcile", "send"} \/ (pc'[s] = "fail" /\ why'[s] = "FailedUnknown"),
             held'[s].rev = item'.rev
      PROVE  IsStarted(item'.progress)
  <2>1. CASE s = r
    BY <1>1, <2>1
  <2>2. CASE s # r
    BY <1>1, <2>2, UnknownStays
  <2> QED
    BY <2>1, <2>2
<1> QED
  BY <1>1, UnknownStays DEF UnknownWasStarted

LEMMA UnknownRunStep ==
  ASSUME TypeInv, MailInv, UnknownWasStarted, [Next]_vars, NEW r \in Runs,
         Begin(r) \/ Busy(r) \/ Step(r)
  PROVE  UnknownWasStarted'
<1> USE DEF TypeInv, TypeOK
<1>1. ASSUME NEW op, Asked(r, op), Fails(r, op)
      PROVE  UnknownWasStarted'
  <2>1. \/ late' = late
        \/ late' = late \cup {Request(r, op)} /\ item' = item
    BY <1>1 DEF Fails
  <2> QED
    BY <1>1, <2>1, UnknownEnds DEF Fails
<1>2. ASSUME NEW op, Asked(r, op), NEW d, Succeeds(r, op), Finish(r, d)
      PROVE  UnknownWasStarted'
  BY <1>2, UnknownEnds DEF Succeeds
<1>3. CASE Begin(r) \/ Busy(r)
  BY <1>3, UnknownGoesOn DEF Begin, Busy
<1>4. CASE GetAnswers(r)
  BY <1>4, UnknownEnds DEF GetAnswers
<1>5. CASE GetProceeds(r)
  <2>1. /\ late' = late /\ item' = item
        /\ \A s \in Runs \ {r}: pc'[s] = pc[s] /\ why'[s] = why[s] /\ held'[s] = held[s]
        /\ pc'[r] \in {"reconcile", "reject", "turn"}
        /\ pc'[r] = "reconcile" => IsStarted(item.progress)
    BY <1>5 DEF GetProceeds
  <2> QED
    BY <2>1, UnknownGoesOn
<1>6. CASE ClaimItem(r)
  <2>1. Asked(r, "claim")
    BY <1>6 DEF ClaimItem, Asked
  <2>2. CASE Fails(r, "claim")
    BY <1>1, <2>1, <2>2
  <2>3. CASE ~Fails(r, "claim")
    <3>1. Succeeds(r, "claim")
      BY <1>6, <2>3 DEF ClaimItem
    <3>2. PICK label \in {"load", "fail"}: Goto(r, label)
      BY <1>6, <2>3 DEF ClaimItem
    <3>3. why' = [why EXCEPT ![r] = FailureOf(pc[r])]
      BY <1>6, <2>3 DEF ClaimItem
    <3>4. item'.progress = item.progress
      <4>1. Request(r, "claim") \in Requests /\ Request(r, "claim").op = "claim"
        BY <2>1, AskedOps DEF Request
      <4> QED
        BY <3>1, <4>1, ApplyFields DEF Succeeds
    <3>5. held[r].rev = item.rev
      BY <3>1 DEF Succeeds, Permits, Request
    <3>6. why'[r] = "FailedUnknown" => IsStarted(item.progress)
      BY <3>3, <3>5 DEF FailureOf, UnknownWasStarted
    <3>7. /\ late' = late /\ pc'[r] \in {"load", "fail"}
          /\ \A s \in Runs \ {r}: pc'[s] = pc[s] /\ why'[s] = why[s] /\ held'[s] = held[s]
      BY <3>1, <3>2, <3>3 DEF Succeeds, Goto
    <3> QED
      BY <3>4, <3>6, <3>7, UnknownGoesOn
  <2> QED
    BY <2>2, <2>3
<1>7. CASE LoadAttachments(r)
  <2>1. CASE pc'[r] = "idle"
    BY <1>7, <2>1, UnknownEnds DEF LoadAttachments
  <2>2. CASE pc'[r] # "idle"
    <3>1. /\ late' = late /\ pc'[r] \in {"mark", "fail", "retrySafe"}
          /\ why'[r] = "FailedPermanent"
          /\ \A s \in Runs \ {r}: pc'[s] = pc[s] /\ why'[s] = why[s] /\ held'[s] = held[s]
      BY <1>7, <2>2 DEF LoadAttachments, Finish, ReasonChosen
    <3> QED
      BY <3>1, UnknownGoesOn
  <2> QED
    BY <2>1, <2>2
<1>8. CASE MarkStarted(r)
  <2>1. Asked(r, "Started")
    BY <1>8 DEF MarkStarted, Asked
  <2>2. CASE Fails(r, "Started")
    BY <1>1, <2>1, <2>2
  <2>3. CASE ~Fails(r, "Started")
    <3>1. Succeeds(r, "Started") /\ Goto(r, "send") /\ why' = why
      BY <1>8, <2>3 DEF MarkStarted
    <3>2. item'.progress = "Started"
      <4>1. Request(r, "Started") \in Requests /\ Request(r, "Started").op = "Started"
        BY <2>1, AskedOps DEF Request
      <4> QED
        BY <3>1, <4>1, ApplyFields DEF Succeeds
    <3>3. /\ late' = late
          /\ \A s \in Runs \ {r}: pc'[s] = pc[s] /\ why'[s] = why[s] /\ held'[s] = held[s]
      BY <3>1 DEF Succeeds, Goto
    <3> QED
      BY <3>2, <3>3, UnknownGoesOn DEF IsStarted
  <2> QED
    BY <2>2, <2>3
<1>9. CASE Submit(r)
  <2>1. pc[r] = "send" /\ late' = late /\ held' = held /\ item' = item
    BY <1>9 DEF Submit
  <2>2. \A s \in Runs \ {r}: pc'[s] = pc[s] /\ why'[s] = why[s]
    BY <1>9 DEF Submit
  <2> QED
    BY <2>1, <2>2, UnknownGoesOn DEF UnknownWasStarted
<1>10. CASE AppendSentCopy(r)
  BY <1>10, UnknownGoesOn DEF AppendSentCopy
<1>11. CASE WriteRetrySafe(r)
  <2>1. Asked(r, "RetrySafe")
    BY <1>11 DEF WriteRetrySafe, Asked
  <2> QED
    BY <1>1, <1>2, <1>11, <2>1 DEF WriteRetrySafe
<1>12. CASE WriteFailure(r)
  <2>1. Asked(r, why[r])
    BY <1>12 DEF WriteFailure, Asked
  <2> QED
    BY <1>1, <1>2, <1>12, <2>1 DEF WriteFailure
<1>13. CASE WriteSent(r)
  <2>1. Asked(r, "sent")
    BY <1>13 DEF WriteSent, Asked
  <2> QED
    BY <1>1, <1>2, <1>13, <2>1 DEF WriteSent
<1> QED
  BY <1>3, <1>4, <1>5, <1>6, <1>7, <1>8, <1>9, <1>10, <1>11, <1>12, <1>13 DEF Step

LEMMA UnknownStep ==
  ASSUME TypeInv, MailInv, UnknownWasStarted, [Next]_vars
  PROVE  UnknownWasStarted'
<1> USE DEF TypeInv, TypeOK
<1>1. ASSUME \A s \in Runs: \/ pc'[s] = "idle"
                            \/ pc'[s] = pc[s] /\ why'[s] = why[s] /\ held'[s] = held[s],
             \A x \in late': \E q \in late: x.op = q.op /\ x.exp = q.exp
      PROVE  UnknownWasStarted'
  <2>1. ASSUME NEW s \in Runs,
               pc'[s] \in {"reconcile", "send"} \/ (pc'[s] = "fail" /\ why'[s] = "FailedUnknown"),
               held'[s].rev = item'.rev
        PROVE  IsStarted(item'.progress)
    BY <1>1, <2>1, UnknownStays
  <2>2. ASSUME NEW x \in late', x.op = "FailedUnknown", x.exp = item'.rev
        PROVE  IsStarted(item'.progress)
    <3>1. PICK q \in late: x.op = q.op /\ x.exp = q.exp
      BY <1>1
    <3> QED
      BY <2>2, <3>1, UnknownStays
  <2> QED
    BY <2>1, <2>2 DEF UnknownWasStarted
<1>2. ASSUME NEW p \in Procs, Crash(p)
      PROVE  UnknownWasStarted'
  <2>1. \A x \in late': \E q \in late: x.op = q.op /\ x.exp = q.exp
    BY <1>2 DEF Crash, Requests
  <2>2. \A s \in Runs: \/ pc'[s] = "idle"
                       \/ pc'[s] = pc[s] /\ why'[s] = why[s] /\ held'[s] = held[s]
    BY <1>2 DEF Crash
  <2> QED
    BY <1>1, <2>1, <2>2
<1>3. CASE ExpireLease \/ DeliverLate
  BY <1>1, <1>3 DEF ExpireLease, DeliverLate
<1>4. CASE UNCHANGED vars
  BY <1>1, <1>4 DEF vars
<1> QED
  BY <1>2, <1>3, <1>4, UnknownRunStep DEF Next

\* A permitted request that says the outcome is unknown is about a started delivery.
LEMMA UnknownRequest ==
  ASSUME TypeInv, UnknownWasStarted, [Next]_vars, NEW r \in Runs, NEW op, Calls(r, op),
         op = "FailedUnknown", Permits(Request(r, op))
  PROVE  IsStarted(item.progress)
<1>1. pc[r] = "fail" /\ why[r] = "FailedUnknown"
  BY DEF Calls, Asked
<1>2. held[r].rev = item.rev
  BY DEF Permits, Request
<1> QED
  BY <1>1, <1>2 DEF UnknownWasStarted

-----------------------------------------------------------------------------

\* The phase of the item, spelled out.
PhaseIsRow ==
  /\ item.state = "sent" => Phase = "Sent"
  /\ item.state = "failed" => Phase = item.reason /\ item.reason \in Failures
  /\ item.state = "outbox" =>
       /\ IsStarted(item.progress) => Phase = "Sending"
       /\ item.progress = "RetrySafe" => Phase = "RetryScheduled"
       /\ item.progress = "None" =>
            Phase = IF item.lease = "live" THEN "Claimed" ELSE "Pending"
       /\ item.progress \in {"None", "RetrySafe"} \/ IsStarted(item.progress)
  /\ item.state \in {"outbox", "sent", "failed"}

LEMMA PhaseOfRow == TypeOK /\ RowTruthful => PhaseIsRow
<1> SUFFICES ASSUME TypeOK, RowTruthful
             PROVE  PhaseIsRow
  OBVIOUS
<1>1. CASE item.state = "sent"
  BY <1>1 DEF Phase, PhaseIsRow
<1>2. CASE item.state = "failed"
  BY <1>2 DEF Phase, PhaseIsRow, RowTruthful, TypeOK, Items
<1>3. CASE item.state = "outbox"
  <2>1. CASE IsStarted(item.progress)
    BY <1>3, <2>1 DEF Phase, PhaseIsRow, IsStarted
  <2>2. CASE item.progress = "RetrySafe"
    BY <1>3, <2>2 DEF Phase, PhaseIsRow, IsStarted
  <2>3. CASE item.progress = "None"
    BY <1>3, <2>3 DEF Phase, PhaseIsRow, IsStarted
  <2> QED
    BY <1>3, <2>1, <2>2, <2>3 DEF TypeOK, Items, Progresses, IsStarted
<1> QED
  BY <1>1, <1>2, <1>3 DEF TypeOK, Items

LEMMA PhaseOfNextRow == (TypeOK /\ RowTruthful => PhaseIsRow)'
BY PhaseOfRow, PTL

Stutters == Phase' = Phase /\ accepted' = accepted

\* A request that the row permits is a move of the lifecycle, or none.
LEMMA RequestIsMove ==
  ASSUME TypeOK, TypeOK', RowTruthful, RowTruthful', NEW q \in Requests, Truthful(q), Permits(q),
         item' = Apply(q), accepted' = accepted,
         q.op = "FailedUnknown" => IsStarted(item.progress)
  PROVE  Lifecycle!LifecycleNext \/ Stutters
<1> USE DEF Lifecycle!Move, Lifecycle!NotStarted, Stutters
<1> PhaseIsRow /\ PhaseIsRow'
  BY PhaseOfRow, PhaseOfNextRow
<1>1. q.exp = item.rev /\ item.state = "outbox"
  BY DEF Permits, Truthful
<1>2. accepted = 1 => IsStarted(item.progress)
  BY <1>1 DEF RowTruthful, NotAccepted
<1>3. CASE q.op = "claim"
  <2>1. /\ item'.state = "outbox" /\ item'.progress = item.progress /\ item'.lease = "live"
    BY <1>1, <1>3, ApplyFields DEF TypeOK
  <2>2. CASE item.progress = "None"
    BY <1>1, <2>1, <2>2 DEF PhaseIsRow, Lifecycle!LifecycleNext, Lifecycle!Claim
  <2>3. CASE item.progress # "None"
    BY <1>1, <2>1, <2>3 DEF PhaseIsRow
  <2> QED
    BY <2>2, <2>3
<1>4. CASE q.op = "Started"
  <2>1. item'.state = "outbox" /\ item'.progress = "Started"
    BY <1>1, <1>4, ApplyFields DEF TypeOK
  <2>2. Phase' = "Sending"
    BY <2>1 DEF PhaseIsRow, IsStarted
  <2> QED
    BY <1>1, <2>2 DEF PhaseIsRow, Lifecycle!LifecycleNext, Lifecycle!Start
<1>5. CASE q.op = "RetrySafe"
  <2>1. item'.state = "outbox" /\ item'.progress = "RetrySafe"
    BY <1>1, <1>5, ApplyFields DEF TypeOK
  <2>2. Phase' = "RetryScheduled"
    BY <2>1 DEF PhaseIsRow
  <2>3. accepted = 0
    BY <1>1, <1>5 DEF Truthful, NotAccepted
  <2> QED
    BY <1>1, <2>2, <2>3 DEF PhaseIsRow, Lifecycle!LifecycleNext, Lifecycle!NotAccepted
<1>6. CASE q.op = "sent"
  <2>1. item'.state = "sent" /\ accepted = 1
    BY <1>1, <1>6, ApplyFields DEF TypeOK, Truthful
  <2>2. Phase' = "Sent" /\ Phase = "Sending"
    BY <1>1, <1>2, <2>1 DEF PhaseIsRow
  <2> QED
    BY <2>1, <2>2 DEF Lifecycle!LifecycleNext, Lifecycle!RecordSent
<1>7. CASE q.op = "FailedUnknown"
  <2>1. item'.state = "failed" /\ item'.reason = "FailedUnknown"
    BY <1>1, <1>7, ApplyFields DEF TypeOK, Failures
  <2>2. Phase' = "FailedUnknown" /\ Phase = "Sending"
    BY <1>1, <1>7, <2>1 DEF PhaseIsRow
  <2> QED
    BY <2>2 DEF Lifecycle!LifecycleNext, Lifecycle!GiveUpUnknown
<1>8. CASE q.op = "FailedPermanent"
  <2>1. item'.state = "failed" /\ item'.reason = "FailedPermanent"
    BY <1>1, <1>8, ApplyFields DEF TypeOK, Failures
  <2>2. Phase' = "FailedPermanent"
    BY <2>1 DEF PhaseIsRow
  <2>3. accepted = 0
    BY <1>1, <1>8 DEF Truthful, NotAccepted
  <2> QED
    BY <1>1, <2>2, <2>3 DEF PhaseIsRow, Lifecycle!LifecycleNext, Lifecycle!NotAccepted
<1> QED
  BY <1>3, <1>4, <1>5, <1>6, <1>7, <1>8 DEF Requests, Ops, Failures

\* The server takes the mail only of an item that is being sent or was given up.
LEMMA SubmitIsMove ==
  ASSUME TypeInv, TypeOK', MailInv, RowTruthful', NEW r \in Runs, Submit(r)
  PROVE  Lifecycle!LifecycleNext \/ Stutters
<1> PhaseIsRow
  BY PhaseOfRow DEF TypeInv, MailInv
<1>1. pc[r] = "send" /\ accepted = 0 /\ item' = item
  BY DEF Submit, MailInv, IntentTruthful
<1>2. Phase' = Phase
  BY <1>1 DEF Phase
<1>3. CASE accepted' = accepted
  BY <1>2, <1>3 DEF Stutters
<1>4. CASE accepted' # accepted
  <2>1. accepted' = 1
    BY <1>1, <1>4 DEF Submit
  <2>2. ~NotAccepted
    BY <1>1 DEF NotAccepted, NobodySends
  <2>3. Phase \in {"Sending", "FailedUnknown"}
    BY <1>1, <2>2 DEF PhaseIsRow, MailInv, RowTruthful, Failures
  <2> QED
    BY <1>1, <1>2, <2>1, <2>3 DEF Lifecycle!LifecycleNext, Lifecycle!Accept
<1> QED
  BY <1>3, <1>4

\* A lease that lapses takes a claimed item back to pending.
LEMMA LapseIsMove ==
  ASSUME TypeInv, TypeOK', MailInv, RowTruthful', ExpireLease
  PROVE  Lifecycle!LifecycleNext \/ Stutters
<1> PhaseIsRow /\ PhaseIsRow'
  BY PhaseOfRow, PhaseOfNextRow DEF TypeInv, MailInv
<1>1. /\ item'.state = item.state /\ item'.progress = item.progress
      /\ item'.reason = item.reason /\ item.lease = "live" /\ item'.lease = "lapsed"
      /\ accepted' = accepted
  BY DEF ExpireLease, TypeInv, TypeOK, Items, mailVars
<1>2. CASE item.state = "outbox" /\ item.progress = "None"
  <2>1. Phase = "Claimed" /\ Phase' = "Pending"
    BY <1>1, <1>2 DEF PhaseIsRow
  <2> QED
    BY <1>1, <2>1 DEF Lifecycle!LifecycleNext, Lifecycle!LeaseLapses, Lifecycle!Move
<1>3. CASE ~(item.state = "outbox" /\ item.progress = "None")
  <2>1. Phase' = Phase
    BY <1>1, <1>3 DEF PhaseIsRow
  <2> QED
    BY <1>1, <2>1 DEF Stutters
<1> QED
  BY <1>2, <1>3

OutboxInv == TypeInv /\ MailInv /\ UnknownWasStarted

LEMMA OutboxInvNext == OutboxInv /\ [Next]_vars => OutboxInv'
BY TypeInvNext, MailInvNext, UnknownStep DEF OutboxInv

\* A late request that the row permits is a truthful one, of a started delivery if it
\* calls the outcome unknown.
LEMMA LateIsMove ==
  ASSUME OutboxInv, OutboxInv', DeliverLate
  PROVE  Lifecycle!LifecycleNext \/ Stutters
<1> USE DEF OutboxInv, TypeInv
<1>1. PICK q \in late: item' = IF Permits(q) THEN Apply(q) ELSE item
  BY DEF DeliverLate
<1>2. q \in Requests /\ Truthful(q) /\ accepted' = accepted
  BY DEF DeliverLate, TypeOK, MailInv, LateTruthful, mailVars
<1>3. CASE Permits(q)
  <2>1. q.op = "FailedUnknown" => IsStarted(item.progress)
    BY <1>3 DEF Permits, UnknownWasStarted
  <2>2. item' = Apply(q)
    BY <1>1, <1>3
  <2> QED
    BY <1>2, <1>3, <2>1, <2>2, RequestIsMove DEF MailInv
<1>4. CASE ~Permits(q)
  BY <1>1, <1>2, <1>4 DEF Stutters, Phase
<1> QED
  BY <1>3, <1>4

LEMMA NextIsMove ==
  ASSUME OutboxInv, [Next]_vars
  PROVE  Lifecycle!LifecycleNext \/ Stutters
<1> OutboxInv'
  BY OutboxInvNext
<1> USE DEF OutboxInv, TypeInv
<1>1. ASSUME item' = item, accepted' = accepted
      PROVE  Stutters
  BY <1>1 DEF Stutters, Phase
<1>2. ASSUME NEW r \in Runs, Begin(r) \/ Busy(r) \/ Step(r)
      PROVE  Lifecycle!LifecycleNext \/ Stutters
  <2>1. CASE Submit(r)
    BY <2>1, SubmitIsMove DEF MailInv
  <2>2. ASSUME NEW op \in Ops, Calls(r, op), item' # item
        PROVE  Lifecycle!LifecycleNext \/ Stutters
    <3>1. /\ Request(r, op) \in Requests /\ Request(r, op).op = op
          /\ Truthful(Request(r, op))
      BY <2>2, AskedOps, AskedTruthful DEF Calls, Request
    <3>2. Permits(Request(r, op)) /\ item' = Apply(Request(r, op))
      BY <2>2 DEF Calls, Succeeds, Fails
    <3>3. op = "FailedUnknown" => IsStarted(item.progress)
      BY <2>2, <3>2, UnknownRequest
    <3>4. accepted' = accepted
      BY <2>2 DEF Calls, mailVars
    <3> QED
      BY <3>1, <3>2, <3>3, <3>4, RequestIsMove DEF MailInv
  <2>3. ASSUME NEW op \in Ops, Calls(r, op)
        PROVE  accepted' = accepted
    BY <2>3 DEF Calls, mailVars
  <2> QED
    BY <1>1, <1>2, <2>1, <2>2, <2>3, StepKinds
<1>3. ASSUME NEW p \in Procs, Crash(p)
      PROVE  Stutters
  <2>1. SameButOwner /\ accepted' = accepted
    BY <1>3 DEF Crash, SameButOwner, TypeOK, Items, mailVars
  <2>2. Phase' = Phase
    BY <2>1 DEF SameButOwner, Phase
  <2> QED
    BY <2>1, <2>2 DEF Stutters
<1>4. CASE ExpireLease
  BY <1>4, LapseIsMove DEF MailInv
<1>5. CASE DeliverLate
  BY <1>5, LateIsMove
<1>6. CASE UNCHANGED vars
  BY <1>1, <1>6 DEF vars
<1> QED
  BY <1>2, <1>3, <1>4, <1>5, <1>6 DEF Next

\* The processes together do with one item what DeliveryLifecycle allows: a terminal item
\* never changes, a retry is scheduled only for a mail that was not accepted, and mail is
\* accepted once, of an item that is being sent or was given up.
THEOREM LifecycleImplemented == Spec => ImplementsLifecycle
<1>1. Init => Lifecycle!LifecycleInit
  <2> SUFFICES ASSUME Init
               PROVE  Phase \in {"Pending", "Sending"} /\ accepted = 0
    BY DEF Lifecycle!LifecycleInit
  <2>1. item.state = "outbox" /\ item.progress \in {"None", "Garbled"} /\ item.lease = "lapsed"
    BY DEF Init
  <2>2. Phase \in {"Pending", "Sending"}
    BY <2>1 DEF Phase, IsStarted
  <2> QED
    BY <2>2 DEF Init
<1>2. Init => OutboxInv
  <2>1. Init => UnknownWasStarted
    BY DEF Init, UnknownWasStarted
  <2> QED
    BY <2>1, TypeInvInit, MailInvInit DEF OutboxInv
<1>3. OutboxInv /\ [Next]_vars => [Lifecycle!LifecycleNext]_(Lifecycle!lifecycleVars)
  BY NextIsMove DEF Stutters, Lifecycle!lifecycleVars
<1> QED
  BY <1>1, <1>2, <1>3, OutboxInvNext, PTL
     DEF Spec, ImplementsLifecycle, Lifecycle!LifecycleSpec

-----------------------------------------------------------------------------
(* What a step may do to a run                                             *)

\* The run r ends, with whatever became of its last request.
Ends(r) ==
  /\ pc[r] # "idle" /\ pc'[r] = "idle" /\ inFlight' = inFlight \ {Proc(r)}
  /\ submissions' = submissions
  /\ \/ item' = item /\ late' = late
     \/ \E op \in Ops:
          /\ Asked(r, op)
          /\ \/ item' = item /\ late' = late \cup {Request(r, op)}
             \/ Permits(Request(r, op)) /\ item' = Apply(Request(r, op)) /\ late' = late

\* The row answers the run r with its new revision.
Gains(r, op) ==
  /\ Asked(r, op)
  /\ Permits(Request(r, op)) /\ item' = Apply(Request(r, op)) /\ late' = late
  /\ held'[r] = Copy(item') /\ inFlight' = inFlight /\ submissions' = submissions
  /\ \/ op = "claim" /\ pc'[r] \in {"load", "fail"}
                     /\ (pc'[r] = "load" => ~Exhausted(item'.attempts))
     \/ op = "Started" /\ pc'[r] = "send"

\* The holder goes on without the row.
Works(r) ==
  /\ item' = item /\ late' = late /\ inFlight' = inFlight /\ held' = held
  /\ pc[r] \in HoldingPcs /\ pc'[r] \in HoldingPcs \ {"load", "send"}
  /\ pc'[r] = "mark" => pc[r] = "load"
  /\ submissions' = IF pc[r] = "send" THEN submissions + 1 ELSE submissions

\* The run r begins, or reads the row.
Reads(r) ==
  /\ item' = item /\ late' = late /\ submissions' = submissions
  /\ pc[r] \in {"idle", "get"} /\ pc'[r] \notin HoldingPcs
  /\ \/ inFlight' = inFlight /\ (pc[r] = "idle" => pc'[r] = "idle")
     \/ inFlight' = inFlight \cup {Proc(r)} /\ Proc(r) \notin inFlight

LEMMA MoveKinds ==
  ASSUME TypeInv, NEW r \in Runs, Begin(r) \/ Busy(r) \/ Step(r)
  PROVE  /\ \A s \in Runs \ {r}: pc'[s] = pc[s] /\ held'[s] = held[s]
         /\ \/ Ends(r) \/ Works(r) \/ Reads(r)
            \/ \E op \in Ops: Gains(r, op)
<1> DEFINE Others == \A s \in Runs \ {r}: pc'[s] = pc[s] /\ held'[s] = held[s]
<1> USE DEF TypeInv, TypeOK
<1>1. ASSUME NEW d, Finish(r, d), pc[r] # "idle"
      PROVE  Others /\ pc'[r] = "idle" /\ inFlight' = inFlight \ {Proc(r)}
  BY <1>1 DEF Finish
<1>2. ASSUME NEW op, Asked(r, op), UNCHANGED mailVars,
             Fails(r, op) \/ \E d: Succeeds(r, op) /\ Finish(r, d)
      PROVE  Others /\ Ends(r)
  <2>1. op \in Ops
    BY <1>2, AskedOps
  <2>2. \/ item' = item /\ late' = late
        \/ item' = item /\ late' = late \cup {Request(r, op)}
        \/ Permits(Request(r, op)) /\ item' = Apply(Request(r, op)) /\ late' = late
    BY <1>2 DEF Fails, Succeeds
  <2>3. Others /\ pc'[r] = "idle" /\ inFlight' = inFlight \ {Proc(r)} /\ pc[r] # "idle"
    BY <1>1, <1>2 DEF Fails, Asked
  <2>4. submissions' = submissions
    BY <1>2 DEF mailVars
  <2> QED
    BY <1>2, <2>1, <2>2, <2>3, <2>4 DEF Ends
<1>3. CASE Begin(r)
  BY <1>3 DEF Begin, Reads, mailVars, HoldingPcs
<1>4. CASE Busy(r)
  BY <1>4 DEF Busy, Reads, mailVars, HoldingPcs
<1>5. CASE GetAnswers(r)
  <2>1. /\ pc[r] # "idle" /\ item' = item /\ late' = late /\ submissions' = submissions
        /\ \E d: Finish(r, d)
    BY <1>5 DEF GetAnswers, mailVars
  <2> QED
    BY <1>1, <2>1 DEF Ends
<1>6. CASE GetProceeds(r)
  BY <1>6 DEF GetProceeds, Reads, mailVars, HoldingPcs
<1>7. CASE ClaimItem(r)
  <2>1. Asked(r, "claim") /\ UNCHANGED mailVars
    BY <1>7 DEF ClaimItem, Asked
  <2>2. CASE Fails(r, "claim")
    BY <1>2, <2>1, <2>2
  <2>3. CASE ~Fails(r, "claim")
    <3>1. /\ Succeeds(r, "claim")
          /\ \E label \in {"load", "fail"}: /\ Goto(r, label)
                                            /\ label = "load" => ~Exhausted(item'.attempts)
      BY <1>7, <2>3 DEF ClaimItem
    <3>2. Others /\ Gains(r, "claim")
      BY <2>1, <3>1 DEF Succeeds, Goto, Gains, mailVars
    <3> QED
      BY <3>2 DEF Ops
  <2> QED
    BY <2>2, <2>3
<1>8. CASE LoadAttachments(r)
  <2>1. CASE \E d: Finish(r, d)
    <3>1. pc[r] # "idle" /\ item' = item /\ late' = late /\ submissions' = submissions
      BY <1>8 DEF LoadAttachments, mailVars
    <3> QED
      BY <1>1, <2>1, <3>1 DEF Ends
  <2>2. CASE ~\E d: Finish(r, d)
    BY <1>8, <2>2 DEF LoadAttachments, Works, mailVars, HoldingPcs
  <2> QED
    BY <2>1, <2>2
<1>9. CASE MarkStarted(r)
  <2>1. Asked(r, "Started") /\ UNCHANGED mailVars
    BY <1>9 DEF MarkStarted, Asked
  <2>2. CASE Fails(r, "Started")
    BY <1>2, <2>1, <2>2
  <2>3. CASE ~Fails(r, "Started")
    <3>1. Succeeds(r, "Started") /\ Goto(r, "send")
      BY <1>9, <2>3 DEF MarkStarted
    <3>2. Others /\ Gains(r, "Started")
      BY <2>1, <3>1 DEF Succeeds, Goto, Gains, mailVars
    <3> QED
      BY <3>2 DEF Ops
  <2> QED
    BY <2>2, <2>3
<1>10. CASE Submit(r)
  BY <1>10 DEF Submit, Works, HoldingPcs
<1>11. CASE AppendSentCopy(r)
  BY <1>11 DEF AppendSentCopy, Works, HoldingPcs
<1>12. CASE WriteRetrySafe(r)
  <2>1. Asked(r, "RetrySafe")
    BY <1>12 DEF WriteRetrySafe, Asked
  <2> QED
    BY <1>2, <1>12, <2>1 DEF WriteRetrySafe
<1>13. CASE WriteFailure(r)
  <2>1. Asked(r, why[r])
    BY <1>13 DEF WriteFailure, Asked
  <2> QED
    BY <1>2, <1>13, <2>1 DEF WriteFailure
<1>14. CASE WriteSent(r)
  <2>1. Asked(r, "sent")
    BY <1>14 DEF WriteSent, Asked
  <2> QED
    BY <1>2, <1>14, <2>1 DEF WriteSent
<1> QED
  BY <1>3, <1>4, <1>5, <1>6, <1>7, <1>8, <1>9, <1>10, <1>11, <1>12, <1>13, <1>14 DEF Step

-----------------------------------------------------------------------------
(* Attempts                                                                *)

\* Submissions made, and the one that a marked run is about to make.
Spent == IF NobodySends THEN submissions ELSE submissions + 1

\* Every submission is paid for by a claim of its own, below the limit.
Paid ==
  /\ Spent <= item.attempts /\ Spent <= MaxAttempts
  /\ \A r \in Runs: pc[r] \in {"load", "mark"} =>
       /\ held[r].attempts <= MaxAttempts
       /\ held[r].rev = item.rev => held[r].attempts = item.attempts /\ Spent < item.attempts

\* A row that changes its attempts changes its revision.
LEMMA AttemptsGrow ==
  ASSUME TypeInv, MailInv, [Next]_vars
  PROVE  /\ item.rev \in Nat /\ item'.rev \in Nat /\ item.rev <= item'.rev
         /\ item.attempts \in Nat /\ item'.attempts \in Nat /\ item.attempts <= item'.attempts
         /\ item'.rev = item.rev => item'.attempts = item.attempts
<1>1. item.rev \in Nat /\ item.attempts \in Nat
  BY DEF TypeInv, TypeOK, Items
<1>2. ASSUME NEW q \in Requests, item' = Apply(q)
      PROVE  item'.rev = item.rev + 1 /\ item'.attempts \in {item.attempts, item.attempts + 1}
  BY <1>2, ApplyFields DEF TypeInv, TypeOK, Requests, Ops
<1>3. ExpireLease => item'.rev = item.rev /\ item'.attempts = item.attempts
  BY DEF ExpireLease, TypeInv, TypeOK, Items
<1> QED
  BY <1>1, <1>2, <1>3, RowChanges DEF SameButOwner

LEMMA SpentType ==
  ASSUME TypeInv
  PROVE  Spent \in Nat /\ submissions \in Nat
BY DEF Spent, TypeInv, TypeOK

LEMMA SpentTypeNext == (TypeInv => Spent \in Nat /\ submissions \in Nat)'
BY SpentType, PTL

\* Runs that do not move stay paid for, unless more is spent.
LEMMA PaidStays ==
  ASSUME TypeInv, MailInv, Paid, [Next]_vars, Spent' \in Nat, Spent' <= Spent,
         \A s \in Runs: pc'[s] \in {"load", "mark"} =>
           pc[s] \in {"load", "mark"} /\ held'[s] = held[s]
  PROVE  Paid'
<1>1. Spent \in Nat
  BY SpentType
<1>2. Spent' <= item'.attempts /\ Spent' <= MaxAttempts
  BY <1>1, AttemptsGrow DEF Paid
<1>3. ASSUME NEW s \in Runs, pc'[s] \in {"load", "mark"}
      PROVE  /\ held'[s].attempts <= MaxAttempts
             /\ held'[s].rev = item'.rev =>
                  held'[s].attempts = item'.attempts /\ Spent' < item'.attempts
  <2>1. /\ pc[s] \in {"load", "mark"} /\ held'[s] = held[s] /\ held[s].rev <= item.rev
        /\ held[s].rev \in Nat
    BY <1>3 DEF MailInv, HeldIsPast, TypeInv, TypeOK, Copies
  <2>2. held'[s].rev = item'.rev => held[s].rev = item.rev /\ item'.attempts = item.attempts
    BY <2>1, AttemptsGrow
  <2> QED
    BY <1>1, <2>1, <2>2, AttemptsGrow DEF Paid
<1> QED
  BY <1>2, <1>3 DEF Paid

LEMMA PaidRunStep ==
  ASSUME TypeInv, TypeInv', MailInv, Paid, [Next]_vars, NEW r \in Runs,
         Begin(r) \/ Busy(r) \/ Step(r)
  PROVE  Paid'
<1>1. \A s \in Runs \ {r}: pc'[s] = pc[s] /\ held'[s] = held[s]
  BY MoveKinds
<1>2. Spent' \in Nat /\ submissions \in Nat
  BY SpentType, SpentTypeNext
<1>3. ASSUME pc'[r] # "send", submissions' = submissions
      PROVE  Spent' <= Spent
  <2>1. NobodySends => NobodySends'
    BY <1>1, <1>3 DEF NobodySends
  <2> QED
    BY <1>2, <1>3, <2>1 DEF Spent
<1>4. CASE Ends(r)
  BY <1>1, <1>2, <1>3, <1>4, PaidStays DEF Ends
<1>5. CASE Reads(r)
  BY <1>1, <1>2, <1>3, <1>5, PaidStays DEF Reads, HoldingPcs
<1>6. CASE Works(r)
  <2>1. Spent' <= Spent
    <3>1. CASE pc[r] = "send"
      <4>1. NobodySends' /\ ~NobodySends
        BY <1>1, <1>6, <3>1 DEF Works, MailInv, OneSender, NobodySends
      <4> QED
        BY <1>2, <1>6, <3>1, <4>1 DEF Works, Spent
    <3>2. CASE pc[r] # "send"
      BY <1>3, <1>6, <3>2 DEF Works
    <3> QED
      BY <3>1, <3>2
  <2> QED
    BY <1>1, <1>2, <1>6, <2>1, PaidStays DEF Works
<1>7. ASSUME NEW op \in Ops, Gains(r, op)
      PROVE  Paid'
  <2>1. /\ Request(r, op) \in Requests /\ Request(r, op).op = op
        /\ held[r].rev = item.rev
    BY <1>7, AskedOps DEF Gains, Permits, Request
  <2>2. /\ item'.rev = item.rev + 1 /\ held'[r] = Copy(item')
        /\ item'.attempts = item.attempts + (IF op = "claim" THEN 1 ELSE 0)
    BY <1>7, <2>1, ApplyFields DEF Gains, TypeInv, TypeOK, Items
  <2>3. \A s \in Runs \ {r}: pc'[s] \in {"load", "mark"} =>
          /\ held'[s].attempts <= MaxAttempts /\ held'[s].rev # item'.rev
    <3> SUFFICES ASSUME NEW s \in Runs \ {r}, pc'[s] \in {"load", "mark"}
                 PROVE  held'[s].attempts <= MaxAttempts /\ held'[s].rev # item'.rev
      OBVIOUS
    <3>1. held'[s] = held[s] /\ pc[s] \in {"load", "mark"} /\ held[s].rev <= item.rev
      BY <1>1 DEF MailInv, HeldIsPast
    <3>2. held[s].rev \in Nat /\ item.rev \in Nat
      BY DEF TypeInv, TypeOK, Copies, Items
    <3> QED
      BY <2>2, <3>1, <3>2 DEF Paid
  <2>4. CASE op = "claim"
    <3>1. Spent' <= Spent
      BY <1>3, <1>7, <2>4 DEF Gains
    <3>2. Spent \in Nat /\ item.attempts \in Nat
      BY SpentType DEF TypeInv, TypeOK, Items
    <3>3. pc'[r] \in {"load", "mark"} =>
            /\ held'[r].attempts = item'.attempts /\ Spent' < item'.attempts
            /\ item'.attempts <= MaxAttempts
      BY <1>2, <1>7, <2>2, <2>4, <3>1, <3>2 DEF Gains, Copy, Exhausted, Paid
    <3>4. Spent' <= item'.attempts /\ Spent' <= MaxAttempts
      BY <1>2, <2>2, <2>4, <3>1, <3>2 DEF Paid
    <3> QED
      BY <2>3, <3>3, <3>4 DEF Paid
  <2>5. CASE op = "Started"
    <3>1. pc[r] = "mark" /\ pc'[r] = "send" /\ submissions' = submissions
      BY <1>7, <2>5 DEF Gains, Asked, TypeInv, ReasonChosen, Failures
    <3>2. NobodySends
      BY <2>1, <3>1 DEF MailInv, HeldIsPast, PathTaken, RowTruthful, NotAccepted
    <3>3. Spent = submissions /\ Spent' = submissions + 1
      BY <3>1, <3>2 DEF Spent, NobodySends
    <3>4. /\ Spent < item.attempts /\ item.attempts = held[r].attempts
          /\ held[r].attempts <= MaxAttempts /\ item.attempts \in Nat
      BY <2>1, <3>1 DEF Paid, TypeInv, TypeOK, Items
    <3> QED
      BY <1>2, <2>2, <2>3, <2>5, <3>1, <3>3, <3>4 DEF Paid
  <2> QED
    BY <1>7, <2>4, <2>5 DEF Gains
<1> QED
  BY <1>4, <1>5, <1>6, <1>7, MoveKinds

LEMMA PaidStep ==
  ASSUME TypeInv, TypeInv', MailInv, Paid, [Next]_vars
  PROVE  Paid'
<1>1. ASSUME NEW r \in Runs, Begin(r) \/ Busy(r) \/ Step(r)
      PROVE  Paid'
  BY <1>1, PaidRunStep
<1>2. ASSUME submissions' = submissions,
             \A s \in Runs: pc'[s] = "idle" \/ (pc'[s] = pc[s] /\ held'[s] = held[s])
      PROVE  Paid'
  <2>1. NobodySends => NobodySends'
    BY <1>2 DEF NobodySends
  <2>2. Spent' \in Nat /\ Spent' <= Spent
    BY <1>2, <2>1, SpentType, SpentTypeNext DEF Spent
  <2> QED
    BY <1>2, <2>2, PaidStays
<1>3. ASSUME NEW p \in Procs, Crash(p)
      PROVE  Paid'
  BY <1>2, <1>3 DEF Crash, mailVars
<1>4. CASE ExpireLease \/ DeliverLate \/ UNCHANGED vars
  BY <1>2, <1>4 DEF ExpireLease, DeliverLate, vars, mailVars
<1> QED
  BY <1>1, <1>3, <1>4 DEF Next

\* Whatever is dropped, refused, lost or late, an item is submitted at most
\* MAX_DELIVERY_ATTEMPTS times.
THEOREM AttemptsKept == Spec => []AttemptsBounded
<1>1. Init => Paid
  BY DEF Init, Paid, Spent, NobodySends
<1>2. TypeInv /\ Paid => AttemptsBounded
  <2> SUFFICES ASSUME TypeInv, Paid
               PROVE  submissions <= MaxAttempts
    BY DEF AttemptsBounded
  <2>1. submissions \in Nat /\ Spent <= MaxAttempts /\ submissions <= Spent
    BY SpentType DEF Paid, Spent
  <2> QED
    BY <2>1, SpentType
<1> QED
  BY <1>1, <1>2, PaidStep, TypeInvInit, TypeInvNext, MailInvInit, MailInvNext, PTL DEF Spec

-----------------------------------------------------------------------------
(* The lease                                                               *)

LEMMA RowRevisions ==
  ASSUME TypeInv, MailInv, [Next]_vars
  PROVE  /\ item.rev \in Nat /\ item'.rev \in Nat /\ item.rev <= item'.rev
         /\ \A s \in Runs: pc[s] \in HoldingPcs => held[s].rev \in Nat /\ held[s].rev <= item.rev
         /\ \A q \in late: q.exp \in Nat /\ q.exp <= item.rev
<1>1. \A s \in Runs: held[s].rev \in Nat
  BY DEF TypeInv, TypeOK, Copies
<1>2. \A s \in Runs: pc[s] \in HoldingPcs => held[s].rev <= item.rev
  BY DEF HoldingPcs, MailInv, HeldIsPast
<1>3. \A q \in late: q.exp \in Nat /\ q.exp <= item.rev
  BY DEF TypeInv, TypeOK, Requests, MailInv, LateTruthful, Truthful
<1> QED
  BY <1>1, <1>2, <1>3, AttemptsGrow

\* What the owner of the row becomes by a request of the process p that the row permits.
LEMMA OwnerAfter ==
  ASSUME TypeInv, LeaseInv, NEW q \in Requests, Permits(q), item' = Apply(q),
         q.op # "claim" => item.owner = q.owner
  PROVE  /\ item'.rev = item.rev + 1
         /\ item'.owner = q.owner \/ item'.owner = NoOwner
         /\ q.op \in {"claim", "Started"} => item'.owner = q.owner
<1>1. item \in Items
  BY DEF TypeInv, TypeOK
<1>2. ASSUME q.op \in {"sent"} \cup Failures
      PROVE  item'.owner = NoOwner
  <2>1. \E state, reason: Apply(q) = Closed([item EXCEPT !.rev = @ + 1], state, reason)
    BY <1>2 DEF Apply, Failures
  <2> QED
    BY <1>1, <2>1 DEF Closed, Items
<1> QED
  BY <1>1, <1>2, ApplyFields DEF Requests, Ops

\* Of the runs of a process one is at work, and a step of another leaves it alone.
LEMMA OneRunStep ==
  ASSUME TypeInv, OneRunPerProcess, NEW r \in Runs, Begin(r) \/ Busy(r) \/ Step(r)
  PROVE  OneRunPerProcess'
<1>1. \A s \in Runs \ {r}: pc'[s] = pc[s]
  BY MoveKinds
<1>2. CASE Ends(r)
  BY <1>1, <1>2 DEF Ends, OneRunPerProcess
<1>3. CASE Works(r) \/ \E op \in Ops: Gains(r, op)
  <2>1. inFlight' = inFlight /\ pc[r] # "idle"
    BY <1>3 DEF Works, Gains, Asked, HoldingPcs
  <2> QED
    BY <1>1, <2>1 DEF OneRunPerProcess
<1>4. CASE Reads(r)
  BY <1>1, <1>4 DEF Reads, OneRunPerProcess
<1> QED
  BY <1>2, <1>3, <1>4, MoveKinds

\* The process of a step owns the row it changes, or takes it over.
LEMMA OwnRequest ==
  ASSUME TypeInv, LeaseInv, NEW r \in Runs, NEW op \in Ops, Asked(r, op),
         Permits(Request(r, op)), item' = Apply(Request(r, op))
  PROVE  /\ item'.rev = item.rev + 1
         /\ item'.owner = Proc(r) \/ item'.owner = NoOwner
         /\ op \in {"claim", "Started"} => item'.owner = Proc(r)
<1>1. /\ Request(r, op) \in Requests /\ Request(r, op).op = op
      /\ Request(r, op).owner = Proc(r) /\ held[r].rev = item.rev
  BY AskedOps DEF Permits, Request
<1>2. op # "claim" => pc[r] \in HoldingPcs
  BY DEF Asked, HoldingPcs
<1>3. op # "claim" => item.owner = Proc(r)
  BY <1>1, <1>2 DEF LeaseInv, OwnerWrites
<1> QED
  BY <1>1, <1>3, OwnerAfter

LEMMA LeaseRunStep ==
  ASSUME TypeInv, MailInv, LeaseInv, [Next]_vars, NEW r \in Runs,
         Begin(r) \/ Busy(r) \/ Step(r)
  PROVE  (OwnerWrites /\ LateIsOlder /\ LeaseFences)'
<1>1. \A s \in Runs \ {r}: pc'[s] = pc[s] /\ held'[s] = held[s]
  BY MoveKinds
<1>2. \A s \in Runs \ {r}: pc[r] # "idle" /\ pc[s] \in HoldingPcs => Proc(s) # Proc(r)
  BY DEF LeaseInv, OneRunPerProcess, HoldingPcs
<1>3. \A s \in Runs: Proc(s) \in Procs
  BY DEF Runs, Proc
<1>4. "idle" \notin HoldingPcs
  BY DEF HoldingPcs
<1>5. CASE item' = item /\ late' = late /\ (Ends(r) \/ Reads(r) \/ Works(r))
  BY <1>1, <1>4, <1>5
     DEF LeaseInv, OwnerWrites, LateIsOlder, LeaseFences, Ends, Reads, Works
<1>6. ASSUME Ends(r), NEW op \in Ops, Asked(r, op), item' = item,
             late' = late \cup {Request(r, op)}
      PROVE  (OwnerWrites /\ LateIsOlder /\ LeaseFences)'
  <2>1. /\ Request(r, op).op = op /\ Request(r, op).owner = Proc(r)
        /\ Request(r, op).exp = held[r].rev
        /\ op # "claim" => pc[r] \in HoldingPcs
    BY <1>6 DEF Request, Asked, HoldingPcs
  <2>2. pc'[r] = "idle" /\ pc[r] # "idle"
    BY <1>6 DEF Ends
  <2>3. OwnerWrites'
    BY <1>1, <1>4, <1>6, <2>1, <2>2 DEF LeaseInv, OwnerWrites
  <2>4. LateIsOlder'
    BY <1>1, <1>2, <1>4, <1>6, <2>1, <2>2 DEF LeaseInv, LateIsOlder
  <2>5. LeaseFences'
    BY <1>1, <1>4, <1>6, <2>2 DEF LeaseInv, LeaseFences
  <2> QED
    BY <2>3, <2>4, <2>5
<1>7. ASSUME NEW op \in Ops, Asked(r, op), Permits(Request(r, op)),
             item' = Apply(Request(r, op)), late' = late,
             \/ pc'[r] = "idle"
             \/ op \in {"claim", "Started"} /\ held'[r] = Copy(item')
      PROVE  (OwnerWrites /\ LateIsOlder /\ LeaseFences)'
  <2>1. /\ item'.rev = item.rev + 1
        /\ item'.owner = Proc(r) \/ item'.owner = NoOwner
        /\ op \in {"claim", "Started"} => item'.owner = Proc(r)
    BY <1>7, OwnRequest
  <2>2. /\ item.rev \in Nat
        /\ \A s \in Runs \ {r}: pc'[s] \in HoldingPcs =>
             held'[s].rev # item'.rev /\ item'.owner # Proc(s)
        /\ \A q \in late: q.exp \in Nat /\ q.exp < item'.rev
    BY <1>1, <1>2, <1>3, <1>7, <2>1, RowRevisions DEF Asked
  <2>3. pc'[r] \in HoldingPcs => held'[r].rev = item'.rev /\ item'.owner = Proc(r)
    BY <1>4, <1>7, <2>1 DEF Copy
  <2>4. OwnerWrites' /\ LeaseFences'
    BY <1>7, <2>2, <2>3 DEF OwnerWrites, LeaseFences
  <2>5. LateIsOlder'
    BY <1>1, <1>7, <2>2, <2>3 DEF LeaseInv, LateIsOlder
  <2> QED
    BY <2>4, <2>5
<1>8. CASE Ends(r) /\ ~(item' = item /\ late' = late)
  BY <1>6, <1>7, <1>8 DEF Ends
<1>9. ASSUME NEW op \in Ops, Gains(r, op)
      PROVE  (OwnerWrites /\ LateIsOlder /\ LeaseFences)'
  BY <1>7, <1>9 DEF Gains
<1> QED
  BY <1>5, <1>8, <1>9, MoveKinds DEF Works, Reads

LEMMA LeaseCrash ==
  ASSUME TypeInv, LeaseInv, NEW p \in Procs, Crash(p)
  PROVE  LeaseInv'
<1> DEFINE Renamed(o) == IF o = p THEN Orphan ELSE o
<1>1. /\ item'.rev = item.rev /\ item'.lease = item.lease
      /\ item'.owner = Renamed(item.owner)
  BY DEF Crash, TypeInv, TypeOK, Items
<1>2. \A x \in late': \E q \in late: x.op = q.op /\ x.exp = q.exp /\ x.owner = Renamed(q.owner)
  BY DEF Crash, TypeInv, TypeOK, Requests
<1>3. \A r \in Runs: pc'[r] # "idle" =>
         /\ pc'[r] = pc[r] /\ held'[r] = held[r]
         /\ Proc(r) # p /\ Proc(r) # Orphan
  BY DEF Crash, Runs, Proc
<1>4. inFlight' = inFlight \ {p}
  BY DEF Crash
<1>5. "idle" \notin HoldingPcs
  BY DEF HoldingPcs
<1>6. OneRunPerProcess'
  BY <1>3, <1>4 DEF LeaseInv, OneRunPerProcess
<1>7. OwnerWrites'
  BY <1>1, <1>2, <1>3, <1>5 DEF LeaseInv, OwnerWrites
<1>8. LateIsOlder'
  BY <1>2, <1>3, <1>5 DEF LeaseInv, LateIsOlder
<1>9. LeaseFences'
  BY <1>1, <1>3, <1>5 DEF LeaseInv, LeaseFences
<1> QED
  BY <1>6, <1>7, <1>8, <1>9 DEF LeaseInv

LEMMA LeaseLate ==
  ASSUME TypeInv, MailInv, LeaseInv, [Next]_vars, DeliverLate
  PROVE  LeaseInv'
<1>1. PICK q \in late: item' = IF Permits(q) THEN Apply(q) ELSE item
  BY DEF DeliverLate
<1>2. UNCHANGED <<pc, held, inFlight>> /\ late' \subseteq late
  BY DEF DeliverLate
<1>3. OneRunPerProcess'
  BY <1>2 DEF LeaseInv, OneRunPerProcess
<1>4. LateIsOlder'
  BY <1>2 DEF LeaseInv, LateIsOlder
<1>5. CASE ~Permits(q)
  BY <1>1, <1>2, <1>3, <1>4, <1>5 DEF LeaseInv, OwnerWrites, LeaseFences
<1>6. CASE Permits(q)
  <2>1. q \in Requests /\ q.exp = item.rev
    BY <1>6 DEF TypeInv, TypeOK, Permits
  <2>2. /\ item'.rev = item.rev + 1
        /\ item'.owner = q.owner \/ item'.owner = NoOwner
    BY <1>1, <1>6, <2>1, OwnerAfter DEF LeaseInv, OwnerWrites
  <2>3. /\ \A s \in Runs: pc[s] \in HoldingPcs => held[s].rev # item'.rev
        /\ \A x \in late: x.exp # item'.rev
    BY <2>2, RowRevisions
  <2>4. \A s \in Runs: pc[s] \in HoldingPcs => q.owner # Proc(s)
    BY <2>1, RowRevisions DEF LeaseInv, LateIsOlder
  <2>5. OwnerWrites' /\ LeaseFences'
    BY <1>2, <2>2, <2>3, <2>4 DEF OwnerWrites, LeaseFences, Runs, Proc
  <2> QED
    BY <1>3, <1>4, <2>5 DEF LeaseInv
<1> QED
  BY <1>5, <1>6

LEMMA LeaseStep ==
  ASSUME TypeInv, MailInv, LeaseInv, [Next]_vars
  PROVE  LeaseInv'
<1>1. ASSUME NEW r \in Runs, Begin(r) \/ Busy(r) \/ Step(r)
      PROVE  LeaseInv'
  BY <1>1, OneRunStep, LeaseRunStep DEF LeaseInv
<1>2. CASE ExpireLease
  <2>1. /\ item'.rev = item.rev /\ item'.owner = item.owner /\ item'.lease = "lapsed"
        /\ UNCHANGED <<late, pc, held, inFlight>>
    BY <1>2 DEF ExpireLease, TypeInv, TypeOK, Items
  <2> QED
    BY <2>1 DEF LeaseInv, OneRunPerProcess, OwnerWrites, LateIsOlder, LeaseFences
<1>3. CASE UNCHANGED vars
  BY <1>3 DEF vars, LeaseInv, OneRunPerProcess, OwnerWrites, LateIsOlder, LeaseFences
<1> QED
  BY <1>1, <1>2, <1>3, LeaseCrash, LeaseLate DEF Next

\* While the lease of a run is live nobody changes the row under it: neither another
\* process, nor a late request of its own, nor a sibling run with the same leaseOwner.
THEOREM LeaseKeepsRow == Spec => []LeaseFences
<1>1. Init => LeaseInv
  BY DEF Init, LeaseInv, OneRunPerProcess, OwnerWrites, LateIsOlder, LeaseFences, HoldingPcs
<1>2. LeaseInv => LeaseFences
  BY DEF LeaseInv
<1> QED
  BY <1>1, <1>2, LeaseStep, TypeInvInit, TypeInvNext, MailInvInit, MailInvNext, PTL DEF Spec

=============================================================================
