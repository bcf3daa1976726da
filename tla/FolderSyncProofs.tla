-------------------------- MODULE FolderSyncProofs --------------------------
(***************************************************************************)
(* Safety of FolderSync for mailboxes, windows and batches of any size and *)
(* any number of faults and renumberings: the invariant of FolderInvariant *)
(* is inductive as long as SEARCH answers.                                 *)
(***************************************************************************)
EXTENDS FolderInvariant, FiniteSetTheorems, TLAPS

USE ConstantsAssumption

-----------------------------------------------------------------------------
(* Types                                                                   *)

TypeInv == TypeOK /\ InRange /\ tick.next >= 1

\* A batch lies in its range.
LEMMA BatchInRange ==
  ASSUME TypeOK, InRange, pc \in Ranges
  PROVE  /\ From \in Nat /\ To \in Nat
         /\ tick.lo <= From /\ From <= To /\ To <= tick.hi
         /\ tick.mode = "forward" => From = tick.lo
         /\ tick.mode = "backfill" => To = tick.hi
         /\ tick.mode \in {"forward", "backfill"}
BY DEF From, To, Lesser, InRange, TypeOK, Ticks

\* What comes after the ranges done: the tick is over, or goes on with its locals t and its
\* checkpoint s, perhaps in the window below the mirrored part.
LEMMA ContinueKinds ==
  ASSUME NEW t \in Ticks, NEW s \in Checkpoints, Continue(t, s)
  PROVE  \/ Leave
         \/ /\ state' = s /\ pc' \in {"fetch", "recon", "list"}
            /\ tick' \in Ticks /\ tick'.uv = t.uv /\ tick'.next = t.next
            /\ pc' = "fetch" => tick'.lo <= tick'.hi
            /\ \/ tick' = t
               \/ tick'.mode = "backfill" /\ tick'.hi = s.backfill - 1
<1>1. CASE t.lo <= t.hi /\ pc' = "fetch" /\ tick' = t /\ state' = s
  BY <1>1
<1>2. CASE BackfillDue(t, s) /\ pc' = "fetch" /\ tick' = BackfillPass(t, s) /\ state' = s
  <2>1. s.backfill > 1 /\ BackfillWindow > 0 /\ s.backfill \in Nat
    BY <1>2 DEF BackfillDue, Checkpoints
  <2> DEFINE low == IF s.backfill > BackfillWindow THEN s.backfill - BackfillWindow ELSE 1
  <2>2. low \in Nat \ {0} /\ s.backfill - 1 \in Nat /\ low <= s.backfill - 1
    BY <2>1
  <2>3. tick' = [t EXCEPT !.publish = FALSE, !.mode = "backfill", !.lo = low,
                          !.hi = s.backfill - 1]
    BY <1>2 DEF BackfillPass
  <2> HIDE DEF low
  <2> QED
    BY <1>2, <2>2, <2>3 DEF Ticks
<1>3. CASE pc' \in {"recon", "list"} /\ tick' = t /\ state' = s
  BY <1>3
<1> QED
  BY <1>1, <1>2, <1>3 DEF Continue

LEMMA NoTickType == NoTick \in Ticks /\ NoFolder \in Checkpoints /\ NoTick.next = 1
BY DEF NoTick, Ticks, NoFolder, Checkpoints

LEMMA LeaveType ==
  ASSUME Leave
  PROVE  /\ pc' \in Pcs /\ tick' \in Ticks /\ state' \in Checkpoints
         /\ InRange' /\ tick'.next >= 1
BY NoTickType DEF Leave, Pcs, InRange, Ranges

LEMMA FaultType ==
  ASSUME TypeOK, Fault
  PROVE  faults' \in 0 .. MaxFaults
BY DEF TypeOK, Fault

LEMMA ContinueType ==
  ASSUME NEW t \in Ticks, NEW s \in Checkpoints, t.next >= 1, Continue(t, s)
  PROVE  /\ pc' \in Pcs /\ tick' \in Ticks /\ state' \in Checkpoints
         /\ InRange' /\ tick'.next >= 1
<1>1. CASE Leave
  BY <1>1, LeaveType
<1>2. CASE ~Leave
  BY <1>2, ContinueKinds DEF Pcs, InRange, Ranges
<1> QED
  BY <1>1, <1>2

LEMMA UpsertedType ==
  ASSUME TypeOK, NEW uids \in SUBSET Nat, NEW content \in Nat
  PROVE  Upserted(uids, content) \subseteq Rows
BY DEF Upserted, TypeOK, Rows, Ticks

\* The checkpoint and the ranges a tick opens the folder with.
LEMMA OpenedType ==
  ASSUME TypeInv, pc = "open"
  PROVE  /\ Opened \in Checkpoints
         /\ \A boot \in BOOLEAN: ForwardPass(boot) \in Ticks /\ ForwardPass(boot).next >= 1
         /\ RecentFrom \in Nat \ {0} /\ Latest \in Nat
<1> USE DEF TypeInv, TypeOK
<1>1. RecentFrom \in Nat \ {0} /\ Latest \in Nat
  BY DEF RecentFrom, Greater, Latest, Ticks
<1>2. Opened \in Checkpoints
  BY <1>1 DEF Opened, Checkpoints, Ticks
<1>3. state.forward + 1 \in Nat \ {0}
  BY DEF Checkpoints
<1>4. \A boot \in BOOLEAN: ForwardPass(boot) \in Ticks /\ ForwardPass(boot).next >= 1
  <2> SUFFICES ASSUME NEW boot \in BOOLEAN
               PROVE  ForwardPass(boot) \in Ticks /\ ForwardPass(boot).next >= 1
    OBVIOUS
  <2> DEFINE low == IF boot THEN RecentFrom ELSE state.forward + 1
  <2>1. low \in Nat \ {0}
    BY <1>1, <1>3
  <2>2. ForwardPass(boot) = [tick EXCEPT !.boot = boot, !.publish = ~boot, !.mode = "forward",
                                         !.lo = low, !.hi = Latest]
    BY DEF ForwardPass
  <2> HIDE DEF low
  <2> QED
    BY <1>1, <2>1, <2>2 DEF Ticks
<1> QED
  BY <1>1, <1>2, <1>4

LEMMA AdvancedType ==
  ASSUME TypeInv, pc = "checkpoint"
  PROVE  Advanced \in Checkpoints /\ NextRange \in Ticks /\ NextRange.next >= 1
<1> USE DEF TypeInv, TypeOK
<1>1. From \in Nat /\ To \in Nat /\ From >= 1
  BY BatchInRange DEF Ranges, Ticks
<1>2. Advanced \in Checkpoints
  BY <1>1 DEF Advanced, Checkpoints, Ticks
<1>3. NextRange \in Ticks /\ NextRange.next >= 1
  <2> DEFINE t == [tick EXCEPT !.seen = {}, !.seenGen = 0, !.durable = 0]
  <2>1. t \in Ticks /\ t.next >= 1
    BY DEF Ticks
  <2>2. NextRange = IF tick.mode = "forward" THEN [t EXCEPT !.lo = To + 1]
                    ELSE [t EXCEPT !.hi = From - 1]
    BY DEF NextRange
  <2> HIDE DEF t
  <2> QED
    BY <1>1, <2>1, <2>2 DEF Ticks
<1> QED
  BY <1>2, <1>3

LEMMA TypeInvInit == Init => TypeInv
<1> SUFFICES ASSUME Init
             PROVE  TypeInv
  OBVIOUS
<1>1. next \in 1 .. MaxUid + 1 /\ box \in SUBSET (1 .. next - 1) /\ box \subseteq Uids
  BY DEF Init, Uids
<1>2. folder \in Checkpoints /\ rows \subseteq Rows /\ history \subseteq Nat \X Nat
  <2>1. CASE folder = NoFolder /\ rows = {} /\ history = {}
    BY <2>1, NoTickType
  <2>2. CASE \E n \in 0 .. next - 1:
          /\ folder = [uv |-> 1, forward |-> n, backfill |-> 0, legacy |-> TRUE]
          /\ rows = [uv: {1}, uid: {u \in box : u <= n}, gen: {1}]
          /\ history = {1} \X (1 .. n)
    <3>1. PICK n \in 0 .. next - 1:
            /\ folder = [uv |-> 1, forward |-> n, backfill |-> 0, legacy |-> TRUE]
            /\ rows = [uv: {1}, uid: {u \in box : u <= n}, gen: {1}]
            /\ history = {1} \X (1 .. n)
      BY <2>2
    <3> n \in Nat
      BY <1>1
    <3>2. folder \in Checkpoints
      BY <3>1 DEF Checkpoints
    <3>3. {u \in box : u <= n} \subseteq Nat
      <4>1. box \subseteq Nat
        BY <1>1 DEF Uids
      <4> QED
        BY <4>1
    <3>4. rows \subseteq Rows
      BY <3>1, <3>3 DEF Rows
    <3>5. history \subseteq Nat \X Nat
      BY <3>1
    <3> QED
      BY <3>2, <3>4, <3>5
  <2> QED
    BY <2>1, <2>2 DEF Init
<1> QED
  BY <1>1, <1>2, NoTickType DEF Init, TypeInv, TypeOK, Pcs, InRange, Ranges

LEMMA ServerType ==
  ASSUME TypeInv, Arrive \/ Expunge \/ Rollover
  PROVE  TypeInv'
<1> USE DEF TypeInv, TypeOK, drive
<1>1. CASE Arrive
  BY <1>1 DEF Arrive, Uids, InRange
<1>2. CASE Expunge
  BY <1>2 DEF Expunge, InRange
<1>3. CASE Rollover
  <2>1. Cardinality(box) \in 0 .. MaxUid
    <3>1. IsFiniteSet(Uids) /\ Cardinality(Uids) = MaxUid
      BY FS_Interval DEF Uids
    <3> QED
      BY <3>1, FS_Subset, FS_CardinalityType
  <2> QED
    BY <1>3, <2>1 DEF Rollover, InRange, Uids
<1> QED
  BY <1>1, <1>2, <1>3

\* The tick's own steps: those that end it, and those that go on.
LEMMA EndType ==
  ASSUME TypeInv, Leave, Fault \/ faults' = faults, UNCHANGED server,
         folder' \in Checkpoints, rows' \subseteq Rows,
         published' \subseteq Nat \X Nat, history' \subseteq Nat \X Nat
  PROVE  TypeInv'
BY LeaveType, FaultType DEF TypeInv, TypeOK, server

LEMMA StepType ==
  ASSUME TypeInv, (\E maint \in BOOLEAN: ReadStatus(maint)) \/ TickStep \/ Crash
  PROVE  TypeInv'
<1> USE DEF TypeInv
<1>1. ASSUME NEW maint \in BOOLEAN, ReadStatus(maint)
      PROVE  TypeInv'
  <2>1. tick' \in Ticks /\ tick'.next >= 1
    <3>1. NoTick \in Ticks /\ gen \in Nat /\ next \in Nat /\ next >= 1
      BY NoTickType DEF TypeOK
    <3>2. tick' = [NoTick EXCEPT !.uv = gen, !.next = next, !.maint = maint]
      BY <1>1 DEF ReadStatus
    <3> QED
      BY <3>1, <3>2 DEF Ticks
  <2> QED
    BY <1>1, <2>1 DEF ReadStatus, TypeOK, Pcs, InRange, Ranges, server, drive
<1>2. CASE Crash
  BY <1>2, EndType DEF Crash, Fail, server, drive, TypeOK
<1>3. CASE ReadFolder
  <2>1. CASE Fail
    BY <1>3, <2>1, EndType DEF ReadFolder, Fail, server, drive, TypeOK
  <2>2. CASE ~Fail
    BY <1>3, <2>2 DEF ReadFolder, server, drive, TypeOK, Pcs, InRange, Ranges
  <2> QED
    BY <2>1, <2>2
<1>4. CASE DropFolder
  <2>1. folder' \in Checkpoints /\ rows' \subseteq Rows
    BY <1>4, NoTickType DEF DropFolder, TypeOK
  <2>2. CASE Fail
    BY <1>4, <2>1, <2>2, EndType DEF DropFolder, Fail, server, TypeOK
  <2>3. CASE ~Fail
    BY <1>4, <2>1, <2>3, NoTickType DEF DropFolder, server, TypeOK, Pcs, InRange, Ranges
  <2> QED
    BY <2>2, <2>3
<1>5. CASE OpenFolder
  <2> USE <1>5 DEF OpenFolder
  <2>1. /\ Opened \in Checkpoints /\ Latest \in Nat /\ tick.uv \in Nat
        /\ \A boot \in BOOLEAN: ForwardPass(boot) \in Ticks /\ ForwardPass(boot).next >= 1
    BY OpenedType DEF TypeOK, Ticks
  <2>2. folder' \in Checkpoints
    BY <2>1 DEF TypeOK
  <2>3. history' \subseteq Nat \X Nat
    <3>1. {tick.uv} \X (1 .. Latest) \subseteq Nat \X Nat
      BY <2>1
    <3> QED
      BY <3>1 DEF TypeOK
  <2>4. CASE Fail
    BY <2>2, <2>3, <2>4, EndType DEF Fail, server, TypeOK
  <2>5. CASE ~Fail
    <3>1. NeedsRecentBootstrap \in BOOLEAN
      BY DEF NeedsRecentBootstrap
    <3>2. PICK t \in Ticks: t.next >= 1 /\ Continue(t, Opened)
      BY <2>1, <2>5, <3>1
    <3>3. /\ pc' \in Pcs /\ tick' \in Ticks /\ state' \in Checkpoints
          /\ InRange' /\ tick'.next >= 1
      BY <2>1, <3>2, ContinueType
    <3> QED
      BY <2>2, <2>3, <2>5, <3>3 DEF server, TypeOK
  <2> QED
    BY <2>4, <2>5
<1>6. CASE FetchBatch
  <2>1. CASE Fail
    BY <1>6, <2>1, EndType DEF FetchBatch, Fail, server, drive, TypeOK
  <2>2. CASE ~Fail
    <3> DEFINE found == {u \in box : From <= u /\ u <= To}
    <3>1. From \in Nat /\ To \in Nat /\ tick.lo <= tick.hi
      BY <1>6, BatchInRange DEF FetchBatch, Ranges, InRange
    <3>2. found \subseteq Nat /\ gen \in Nat
      <4>1. box \subseteq Nat /\ gen \in Nat
        BY DEF TypeOK, Uids
      <4> QED
        BY <4>1
    <3>3. PICK u \in Nat: tick' = [tick EXCEPT !.seen = found, !.seenGen = gen, !.durable = u]
      BY <1>6, <2>2, <3>1, <3>2 DEF FetchBatch
    <3> HIDE DEF found
    <3>4. tick' \in Ticks /\ tick'.lo <= tick'.hi /\ tick'.next >= 1
      BY <3>1, <3>2, <3>3 DEF TypeOK, Ticks
    <3> QED
      BY <1>6, <2>2, <3>4 DEF FetchBatch, server, drive, TypeOK, Pcs, InRange
  <2> QED
    BY <2>1, <2>2
<1>7. CASE UpsertBatch
  <2>1. tick.seen \in SUBSET Nat /\ tick.seenGen \in Nat /\ tick.uv \in Nat
    BY DEF TypeOK, Ticks
  <2>2. rows' \subseteq Rows
    BY <1>7, <2>1, UpsertedType DEF UpsertBatch, TypeOK
  <2>3. published' \subseteq Nat \X Nat
    BY <1>7, <2>1 DEF UpsertBatch, TypeOK
  <2>4. CASE Fail
    BY <1>7, <2>2, <2>3, <2>4, EndType DEF UpsertBatch, Fail, server, TypeOK
  <2>5. CASE ~Fail
    <3>1. tick' \in Ticks /\ tick'.next >= 1 /\ (tick.lo <= tick.hi => tick'.lo <= tick'.hi)
      BY <1>7, <2>5 DEF UpsertBatch, TypeOK, Ticks
    <3> QED
      BY <1>7, <2>2, <2>3, <2>5, <3>1 DEF UpsertBatch, server, TypeOK, Pcs, InRange, Ranges
  <2> QED
    BY <2>4, <2>5
<1>8. CASE WriteCheckpoint
  <2>1. Advanced \in Checkpoints /\ NextRange \in Ticks /\ NextRange.next >= 1
    BY <1>8, AdvancedType DEF WriteCheckpoint
  <2>2. folder' \in Checkpoints
    BY <1>8, <2>1 DEF WriteCheckpoint, TypeOK
  <2>3. CASE Fail
    BY <1>8, <2>2, <2>3, EndType DEF WriteCheckpoint, Fail, server, TypeOK
  <2>4. CASE ~Fail
    <3>1. /\ pc' \in Pcs /\ tick' \in Ticks /\ state' \in Checkpoints
          /\ InRange' /\ tick'.next >= 1
      BY <1>8, <2>1, <2>4, ContinueType DEF WriteCheckpoint
    <3> QED
      BY <1>8, <2>2, <2>4, <3>1 DEF WriteCheckpoint, server, TypeOK
  <2> QED
    BY <2>3, <2>4
<1>9. CASE FetchFlags
  <2>1. CASE Fail
    BY <1>9, <2>1, EndType DEF FetchFlags, Fail, server, drive, TypeOK
  <2>2. CASE ~Fail
    <3>1. PICK found \in SUBSET box: tick' = [tick EXCEPT !.seen = found, !.seenGen = gen]
      BY <1>9, <2>2 DEF FetchFlags
    <3>2. tick' \in Ticks /\ tick'.next >= 1
      <4>1. found \subseteq Nat /\ gen \in Nat /\ tick \in Ticks
        BY DEF TypeOK, Uids
      <4> QED
        BY <3>1, <4>1 DEF Ticks
    <3> QED
      BY <1>9, <2>2, <3>2 DEF FetchFlags, server, drive, TypeOK, Pcs, InRange, Ranges
  <2> QED
    BY <2>1, <2>2
<1>10. CASE PatchFlags
  <2>1. rows' \subseteq Rows
    <3>1. PICK missing \in SUBSET tick.seen:
            rows' = Upserted(missing, tick.seenGen) \/ rows' = rows
      BY <1>10 DEF PatchFlags
    <3>2. missing \in SUBSET Nat /\ tick.seenGen \in Nat
      BY DEF TypeOK, Ticks
    <3> QED
      BY <3>1, <3>2, UpsertedType DEF TypeOK
  <2>2. CASE Fail
    BY <1>10, <2>1, <2>2, EndType DEF PatchFlags, Fail, server, TypeOK
  <2>3. CASE ~Fail
    <3>1. tick' \in Ticks /\ tick'.next >= 1
      <4>1. tick' = [tick EXCEPT !.seen = {}, !.seenGen = 0] /\ tick \in Ticks
        BY <1>10, <2>3 DEF PatchFlags, TypeOK
      <4> QED
        BY <4>1 DEF Ticks
    <3> QED
      BY <1>10, <2>1, <2>3, <3>1 DEF PatchFlags, server, TypeOK, Pcs, InRange, Ranges
  <2> QED
    BY <2>2, <2>3
<1>11. CASE ListUids
  <2>1. CASE Fail
    BY <1>11, <2>1, EndType DEF ListUids, Fail, server, drive, TypeOK
  <2>2. CASE ~Fail
    <3>1. /\ pc' = "prune" /\ state' = state /\ (Fault \/ faults' = faults)
          /\ \E uids \in SUBSET box: tick' = [tick EXCEPT !.seen = uids]
      BY <1>11, <2>2 DEF ListUids
    <3>2. tick' \in Ticks /\ tick'.next >= 1
      BY <3>1 DEF TypeOK, Ticks, Uids
    <3> QED
      BY <1>11, <3>1, <3>2, FaultType
         DEF ListUids, server, drive, TypeOK, Pcs, InRange, Ranges
  <2> QED
    BY <2>1, <2>2
<1>12. CASE PruneRows
  <2>1. rows' \subseteq Rows
    BY <1>12 DEF PruneRows, TypeOK
  <2>2. CASE Leave
    BY <1>12, <2>1, <2>2, EndType DEF PruneRows, Fail, server, TypeOK
  <2>3. CASE ~Leave
    BY <1>12, <2>1, <2>3 DEF PruneRows, Fail, server, TypeOK, InRange
  <2> QED
    BY <2>2, <2>3
<1> QED
  BY <1>1, <1>2, <1>3, <1>4, <1>5, <1>6, <1>7, <1>8, <1>9, <1>10, <1>11, <1>12 DEF TickStep

LEMMA TypeInvNext == TypeInv /\ [Next]_vars => TypeInv'
<1>1. TypeInv /\ UNCHANGED vars => TypeInv'
  BY DEF TypeInv, TypeOK, InRange, vars
<1> QED
  BY <1>1, ServerType, StepType DEF Next

\* Mailbox, folder, rows and the locals of a tick keep their types and bounds.
THEOREM FolderTypeCorrect == Spec => []TypeOK
<1>1. TypeInv => TypeOK
  BY DEF TypeInv
<1> QED
  BY <1>1, TypeInvInit, TypeInvNext, PTL DEF Spec

-----------------------------------------------------------------------------
(* The mailbox changes, and the process stops                              *)

LEMMA ServerKeeps ==
  ASSUME TypeInv, DriveInv, TickInv, Arrive \/ Expunge \/ Rollover
  PROVE  DriveInv' /\ TickInv'
<1> USE DEF TypeInv, TypeOK, drive
<1>1. CASE Arrive
  <2>1. /\ box' = box \cup {next} /\ next' = next + 1 /\ next \in Nat /\ gen' = gen
        /\ folder' = folder /\ rows' = rows /\ published' = published
        /\ history' = history /\ pc' = pc /\ tick' = tick /\ state' = state
    BY <1>1 DEF Arrive
  <2>2. /\ folder.forward \in Nat /\ folder.backfill \in Nat
        /\ tick.next \in Nat /\ tick.lo \in Nat /\ tick.hi \in Nat
        /\ \A r \in rows: r.uid \in Nat
    BY DEF Checkpoints, Ticks, Rows
  <2>3. DriveInv'
    BY <2>1, <2>2
       DEF DriveInv, Generations, LegacyHasNoBackfill, NothingAhead, CheckpointCovers,
           CurrentRowsFaithful, AllAccounted, Covered, Accounted
  <2>4. StatusTrue' /\ StateIsFolder' /\ InRange'
    BY <2>1, <2>2 DEF TickInv, StatusTrue, StateIsFolder, InRange
  <2>5. ASSUME tick.uv = gen
        PROVE  /\ (pc \in Ranges => PassDone(tick, state))'
               /\ RangeDone' /\ SearchTrue'
    <3>1. pc \in Ranges => /\ PassDone(tick, state)
                           /\ tick.next <= next /\ tick.lo <= tick.next /\ tick.hi < tick.next
                           /\ state.forward < tick.next /\ state = folder
      BY <2>2, <2>5 DEF TickInv, StatusTrue, StateIsFolder, PassDone, Ranges, Opening, InRange
    <3>2. (pc \in Ranges => PassDone(tick, state))'
      BY <2>1, <2>2, <3>1 DEF PassDone, Covered, Accounted
    <3>3. pc \in Ranges => From' = From /\ To' = To /\ To \in Nat /\ To < next
      BY <2>1, <2>2, <3>1, BatchInRange DEF From, To
    <3>4. RangeDone'
      BY <2>1, <2>2, <2>5, <3>3 DEF TickInv, RangeDone, Covered, Accounted, Ranges, Ticks
    <3>5. SearchTrue'
      BY <2>1, <2>2, <2>5 DEF TickInv, SearchTrue, DriveInv, NothingAhead, Generations,
                              StateIsFolder, Opening
    <3> QED
      BY <3>2, <3>4, <3>5
  <2> QED
    BY <2>1, <2>3, <2>4, <2>5 DEF TickInv
<1>2. CASE Expunge
  <2>1. /\ box' \subseteq box /\ UNCHANGED <<gen, next, drive, pc, tick, state>>
    BY <1>2 DEF Expunge
  <2>2. DriveInv'
    BY <2>1 DEF DriveInv, Generations, LegacyHasNoBackfill, NothingAhead, CheckpointCovers,
                CurrentRowsFaithful, AllAccounted, Covered, Accounted
  <2>3. StatusTrue' /\ StateIsFolder' /\ InRange'
    BY <2>1 DEF TickInv, StatusTrue, StateIsFolder, InRange
  <2>4. From' = From /\ To' = To
    BY <2>1 DEF From, To
  <2>5. tick.uv = gen => /\ (pc \in Ranges => PassDone(tick, state))'
                         /\ RangeDone' /\ SearchTrue'
    BY <2>1, <2>4 DEF TickInv, PassDone, RangeDone, SearchTrue, Covered, Accounted
  <2> QED
    BY <2>1, <2>2, <2>3, <2>5 DEF TickInv
<1>3. CASE Rollover
  <2>1. /\ gen' = gen + 1 /\ gen \in Nat /\ UNCHANGED <<drive, pc, tick, state>>
    BY <1>3 DEF Rollover
  <2>2. folder.uv \in Nat /\ tick.uv \in Nat /\ folder.uv # gen'
    BY <2>1 DEF Checkpoints, Ticks, DriveInv, Generations
  <2>3. DriveInv'
    BY <2>1, <2>2 DEF DriveInv, Generations, LegacyHasNoBackfill, NothingAhead,
                CheckpointCovers, CurrentRowsFaithful, AllAccounted
  <2>4. pc # "idle" => tick'.uv # gen'
    BY <2>1, <2>2 DEF TickInv, StatusTrue
  <2>5. StatusTrue' /\ StateIsFolder' /\ InRange'
    BY <2>1, <2>2, <2>4 DEF TickInv, StatusTrue, StateIsFolder, InRange
  <2>6. pc = "idle" => RangeDone' /\ SearchTrue' /\ ~(pc' \in Ranges)
    BY <2>1 DEF RangeDone, SearchTrue, Ranges
  <2> QED
    BY <2>1, <2>3, <2>4, <2>5, <2>6 DEF TickInv
<1> QED
  BY <1>1, <1>2, <1>3

LEMMA LeaveKeeps ==
  ASSUME Leave
  PROVE  TickInv'
BY NoTickType DEF Leave, TickInv, StatusTrue, StateIsFolder, InRange, Ranges, Opening,
                  RangeDone, SearchTrue

-----------------------------------------------------------------------------
(* The tick reads and opens the folder                                     *)

LEMMA ReadStatusKeeps ==
  ASSUME TypeInv, DriveInv, TickInv, NEW maint \in BOOLEAN, ReadStatus(maint)
  PROVE  DriveInv' /\ TickInv'
<1>1. /\ UNCHANGED <<gen, box, next, folder, rows, published, history>> /\ pc' = "folder"
      /\ tick'.uv = gen /\ tick'.next = next /\ gen \in Nat /\ gen >= 1
      /\ next \in Nat /\ next >= 1 /\ folder.uv <= gen
  BY DEF ReadStatus, NoTick, server, drive, TypeInv, TypeOK, DriveInv, Generations
<1>2. DriveInv'
  BY <1>1 DEF DriveInv, Generations, LegacyHasNoBackfill, NothingAhead, CheckpointCovers,
              CurrentRowsFaithful, AllAccounted, Covered, Accounted
<1>3. StatusTrue' /\ StateIsFolder' /\ InRange' /\ RangeDone' /\ SearchTrue'
  BY <1>1 DEF StatusTrue, StateIsFolder, InRange, Ranges, Opening, RangeDone, SearchTrue,
              DriveInv, NothingAhead
<1> QED
  BY <1>1, <1>2, <1>3 DEF TickInv, Ranges

LEMMA ReadFolderKeeps ==
  ASSUME TypeInv, DriveInv, TickInv, ReadFolder
  PROVE  DriveInv' /\ TickInv'
<1>1. DriveInv'
  BY DEF ReadFolder, server, drive, DriveInv, Generations, LegacyHasNoBackfill, NothingAhead,
         CheckpointCovers, CurrentRowsFaithful, AllAccounted, Covered, Accounted
<1>2. CASE Fail
  BY <1>1, <1>2, LeaveKeeps DEF Fail
<1>3. CASE ~Fail
  <2>1. /\ state' = folder /\ tick' = tick
        /\ UNCHANGED <<gen, box, next, folder, rows, published, history>>
        /\ pc = "folder"
        /\ \/ pc' = "drop" /\ folder.uv # tick.uv
           \/ pc' = "open" /\ (folder = NoFolder \/ folder.uv = tick.uv)
    BY <1>3 DEF ReadFolder, server, drive
  <2>2. StatusTrue' /\ StateIsFolder' /\ InRange' /\ RangeDone' /\ SearchTrue'
    BY <2>1 DEF TickInv, StatusTrue, StateIsFolder, InRange, Ranges, Opening, RangeDone,
                SearchTrue
  <2> QED
    BY <1>1, <2>1, <2>2 DEF TickInv, Ranges
<1> QED
  BY <1>2, <1>3

LEMMA DropFolderKeeps ==
  ASSUME TypeInv, DriveInv, TickInv, DropFolder
  PROVE  DriveInv' /\ TickInv'
<1>1. /\ UNCHANGED <<gen, box, next, published, history>> /\ pc = "drop"
      /\ gen \in Nat /\ gen >= 1
      /\ \/ folder' = NoFolder /\ rows' = {}
         \/ folder' = folder /\ rows' = rows
  BY DEF DropFolder, server, TypeInv, TypeOK
<1>2. NoFolder.uv = 0 /\ ~NoFolder.legacy /\ tick.uv \in Nat
  BY DEF NoFolder, TypeInv, TypeOK, Ticks
<1>3. DriveInv'
  BY <1>1, <1>2 DEF DriveInv, Generations, LegacyHasNoBackfill, NothingAhead,
         CheckpointCovers, CurrentRowsFaithful, AllAccounted, Covered, Accounted
<1>4. CASE Leave
  BY <1>3, <1>4, LeaveKeeps
<1>5. CASE ~Leave
  <2>1. /\ state' = NoFolder /\ folder' = NoFolder /\ pc' = "open" /\ tick' = tick
    BY <1>5 DEF DropFolder, Fail
  <2>2. StatusTrue' /\ StateIsFolder' /\ InRange' /\ RangeDone' /\ SearchTrue'
    BY <1>1, <1>2, <2>1 DEF TickInv, StatusTrue, StateIsFolder, InRange, Ranges, Opening,
                            RangeDone, SearchTrue
  <2> QED
    BY <1>3, <2>1, <2>2 DEF TickInv, Ranges
<1> QED
  BY <1>4, <1>5

\* A tick that goes on with the locals t and the checkpoint s it has just written.
LEMMA ContinueKeeps ==
  ASSUME TypeInv, TypeInv', DriveInv', NEW t \in Ticks, NEW s \in Checkpoints,
         Continue(t, s), UNCHANGED server,
         folder' = s, s.uv = t.uv, ~s.legacy, 1 <= t.uv, t.uv <= gen, t.next >= 1,
         t.uv = gen => /\ PassDone(t, s)'
                       /\ t.next <= next /\ s.forward < t.next /\ s.backfill <= t.next
  PROVE  TickInv'
<1>1. CASE Leave
  BY <1>1, LeaveKeeps
<1>2. CASE ~Leave
  <2>1. /\ state' = s /\ pc' \in {"fetch", "recon", "list"}
        /\ tick'.uv = t.uv /\ tick'.next = t.next
        /\ \/ tick' = t
           \/ tick'.mode = "backfill" /\ tick'.hi = s.backfill - 1
    BY <1>2, ContinueKinds
  <2>2. gen' = gen /\ box' = box /\ next' = next /\ InRange' /\ gen \in Nat
        /\ t.uv \in Nat
    BY DEF TypeInv, TypeOK, server, Ticks
  <2>3. StatusTrue' /\ StateIsFolder' /\ RangeDone' /\ SearchTrue'
    BY <2>1, <2>2 DEF StatusTrue, StateIsFolder, Opening, RangeDone, SearchTrue
  <2>4. ASSUME tick'.uv = gen'
        PROVE  PassDone(tick, state)'
    <3>1. CASE tick' = t
      BY <2>1, <2>2, <2>4, <3>1
    <3>2. CASE tick'.mode = "backfill" /\ tick'.hi = s.backfill - 1
      <4>1. s.backfill \in Nat /\ t.next \in Nat /\ box \subseteq Nat
        BY DEF Checkpoints, Ticks, TypeInv, TypeOK, Uids
      <4>2. \A u \in box: u <= s.forward /\ u >= s.backfill => Covered(u)'
        BY <2>1, <2>2, <2>4 DEF DriveInv, CheckpointCovers, Covered
      <4>3. tick'.hi < tick'.next
        BY <2>1, <2>2, <2>4, <3>2, <4>1
      <4>4. \A u \in box': u > tick'.hi /\ u <= state'.forward => Covered(u)'
        BY <2>1, <2>2, <3>2, <4>1, <4>2
      <4> QED
        BY <3>2, <4>3, <4>4 DEF PassDone, Covered
    <3> QED
      BY <2>1, <3>1, <3>2
  <2> QED
    BY <2>2, <2>3, <2>4 DEF TickInv
<1> QED
  BY <1>1, <1>2

\* What a tick opens the folder with claims no more than what is there.
LEMMA OpenedSound ==
  ASSUME TypeInv, DriveInv, TickInv, pc = "open"
  PROVE  /\ Opened.uv = tick.uv /\ ~Opened.legacy /\ Opened.forward = folder.forward
         /\ Opened.backfill >= folder.backfill /\ Opened.backfill \in Nat
         /\ Opened.backfill = RecentFrom \/ Opened.backfill = folder.backfill
         /\ NeedsRecentBootstrap /\ RecentFrom > 1 => Opened.backfill = RecentFrom
         /\ RecentFrom <= tick.next
<1>1. state = folder /\ folder \in Checkpoints /\ RecentFrom \in Nat \ {0}
  BY OpenedType DEF TickInv, StateIsFolder, TypeInv, TypeOK
<1>2. NeedsRecentBootstrap => folder.backfill = 0
  BY <1>1 DEF NeedsRecentBootstrap, DriveInv, LegacyHasNoBackfill, NoFolder
<1>3. RecentFrom <= tick.next
  BY DEF RecentFrom, Greater, TypeInv, TypeOK, Ticks
<1> QED
  BY <1>1, <1>2, <1>3 DEF Opened, Checkpoints

LEMMA OpenFolderKeeps ==
  ASSUME TypeInv, TypeInv', DriveInv, TickInv, OpenFolder
  PROVE  DriveInv' /\ TickInv'
<1> DEFINE Written == /\ folder' = Opened
                      /\ history' = IF NeedsRecentBootstrap
                                    THEN history \cup ({tick.uv} \X (1 .. Latest))
                                    ELSE history
<1>1. /\ pc = "open" /\ UNCHANGED <<gen, box, next, rows, published>>
      /\ Written \/ (folder' = folder /\ history' = history)
  BY DEF OpenFolder, server
<1>2. /\ folder.forward \in Nat /\ folder.backfill \in Nat /\ folder.uv \in Nat
      /\ gen \in Nat /\ gen >= 1 /\ next \in Nat /\ box \subseteq Nat /\ \A u \in box: u >= 1
      /\ tick.next \in Nat /\ tick.next >= 1 /\ tick.uv \in Nat
      /\ 1 <= tick.uv /\ tick.uv <= gen
      /\ folder = NoFolder \/ folder.uv = tick.uv
      /\ \A r \in rows: r.uv = folder.uv /\ r.uv >= 1
  BY <1>1 DEF TypeInv, TypeOK, Checkpoints, Ticks, Uids, TickInv, StatusTrue, StateIsFolder,
              DriveInv, Generations
<1>3. /\ Opened.uv = tick.uv /\ ~Opened.legacy /\ Opened.forward = folder.forward
      /\ Opened.backfill >= folder.backfill /\ Opened.backfill \in Nat
      /\ Opened.backfill = RecentFrom \/ Opened.backfill = folder.backfill
      /\ NeedsRecentBootstrap /\ RecentFrom > 1 => Opened.backfill = RecentFrom
      /\ RecentFrom <= tick.next
  BY <1>1, OpenedSound
<1>4. folder = NoFolder => folder.forward = 0 /\ folder.backfill = 0 /\ rows = {}
  BY <1>2 DEF NoFolder
<1>5. RecentFrom \in Nat \ {0} /\ Opened \in Checkpoints
  BY <1>1, OpenedType
<1>6. history \subseteq history'
  BY <1>1
<1>7. ASSUME tick.uv = gen
      PROVE  /\ folder.forward < tick.next /\ tick.next <= next
             /\ Opened.backfill <= tick.next
             /\ \A u \in box: u <= folder.forward =>
                  Accounted(u) /\ (u >= folder.backfill => Covered(u))
  <2>1. tick.next <= next
    BY <1>1, <1>7 DEF TickInv, StatusTrue
  <2>2. CASE folder = NoFolder
    BY <1>2, <1>3, <1>4, <2>1, <2>2
  <2>3. CASE folder.uv = tick.uv
    BY <1>1, <1>2, <1>3, <1>7, <2>1, <2>3
       DEF TickInv, StatusTrue, DriveInv, AllAccounted, CheckpointCovers, Covered
  <2> QED
    BY <1>2, <2>2, <2>3
<1>8. ASSUME Written
      PROVE  DriveInv'
  <2>1. Generations' /\ LegacyHasNoBackfill' /\ CurrentRowsFaithful'
    BY <1>1, <1>2, <1>3, <1>4, <1>8
       DEF DriveInv, Generations, LegacyHasNoBackfill, CurrentRowsFaithful
  <2>2. NothingAhead'
    BY <1>1, <1>2, <1>3, <1>7, <1>8 DEF DriveInv, NothingAhead
  <2>3. CheckpointCovers'
    <3> SUFFICES ASSUME tick.uv = gen, NEW u \in box, u <= folder.forward,
                        u >= Opened.backfill
                 PROVE  Covered(u)
      BY <1>1, <1>3, <1>8 DEF CheckpointCovers, Covered
    <3> QED
      BY <1>2, <1>3, <1>7
  <2>4. AllAccounted'
    <3> SUFFICES ASSUME tick.uv = gen, NEW u \in box, u <= folder.forward
                 PROVE  <<gen, u>> \in published \cup history'
      BY <1>1, <1>3, <1>8 DEF AllAccounted, Accounted
    <3> QED
      BY <1>6, <1>7 DEF Accounted
  <2> QED
    BY <2>1, <2>2, <2>3, <2>4 DEF DriveInv
<1>9. ASSUME folder' = folder, history' = history
      PROVE  DriveInv'
  BY <1>1, <1>9 DEF DriveInv, Generations, LegacyHasNoBackfill, NothingAhead,
         CheckpointCovers, CurrentRowsFaithful, AllAccounted, Covered, Accounted
<1>10. CASE Leave
  BY <1>1, <1>8, <1>9, <1>10, LeaveKeeps
<1>11. CASE ~Leave
  <2>1. Written /\ Continue(ForwardPass(NeedsRecentBootstrap), Opened)
    BY <1>11 DEF OpenFolder, Fail
  <2>2. PICK t \in Ticks: t = ForwardPass(NeedsRecentBootstrap)
    <3>1. NeedsRecentBootstrap \in BOOLEAN
      BY DEF NeedsRecentBootstrap
    <3> QED
      BY <1>1, <3>1, OpenedType
  <2>3. /\ t.uv = tick.uv /\ t.next = tick.next /\ t.mode = "forward"
        /\ t.hi = tick.next - 1
        /\ t.publish => ~NeedsRecentBootstrap
        /\ NeedsRecentBootstrap => t.lo = RecentFrom
        /\ ~NeedsRecentBootstrap => t.lo = folder.forward + 1 /\ t.publish
    BY <1>1, <2>2 DEF ForwardPass, Latest, TypeInv, TypeOK, Ticks, TickInv, StateIsFolder
  <2>4. PICK s \in Checkpoints: s = Opened
    BY <1>5
  <2>5. ASSUME tick.uv = gen
        PROVE  PassDone(t, s)'
    <3>1. s = Opened
      BY <2>4
    <3>2. t.hi < t.next /\ t.lo <= t.next
      BY <1>2, <1>3, <1>7, <2>3, <2>5
    <3>3. NeedsRecentBootstrap => \A u \in 1 .. t.next - 1: <<gen, u>> \in history'
      BY <1>2, <2>1, <2>3, <2>5 DEF Latest
    <3>4. ~NeedsRecentBootstrap => Opened.backfill = folder.backfill
      BY <1>1 DEF Opened, TickInv, StateIsFolder
    <3>5. ASSUME NEW u \in box, u < t.lo
          PROVE  <<gen, u>> \in published \cup history' /\ (u >= s.backfill => Covered(u))
      <4>1. CASE NeedsRecentBootstrap
        <5>1. u < RecentFrom /\ u >= 1 /\ u \in Nat /\ u \in 1 .. t.next - 1
          BY <1>2, <1>3, <1>5, <2>3, <3>5, <4>1
        <5>2. u < s.backfill
          BY <1>3, <1>5, <3>1, <4>1, <5>1
        <5> QED
          BY <1>3, <3>1, <3>3, <4>1, <5>1, <5>2
      <4>2. CASE ~NeedsRecentBootstrap
        <5>1. u <= folder.forward
          BY <1>2, <2>3, <3>5, <4>2
        <5> QED
          BY <1>6, <1>7, <2>5, <3>1, <3>4, <4>2, <5>1 DEF Accounted
      <4> QED
        BY <4>1, <4>2
    <3> QED
      BY <1>1, <2>3, <3>2, <3>3, <3>5 DEF PassDone, Accounted, Covered
  <2> QED
    <3>1. /\ Continue(t, s) /\ folder' = s /\ s.uv = t.uv /\ ~s.legacy /\ UNCHANGED server
          /\ 1 <= t.uv /\ t.uv <= gen /\ t.next >= 1
      BY <1>1, <1>2, <1>3, <2>1, <2>2, <2>3, <2>4 DEF server
    <3>2. t.uv = gen => /\ PassDone(t, s)'
                        /\ t.next <= next /\ s.forward < t.next /\ s.backfill <= t.next
      BY <1>3, <1>7, <2>3, <2>4, <2>5
    <3>3. DriveInv'
      BY <1>8, <2>1
    <3>4. TickInv'
      BY <3>1, <3>2, <3>3, ContinueKeeps
    <3> QED
      BY <3>3, <3>4
<1> QED
  BY <1>10, <1>11

-----------------------------------------------------------------------------
(* The ranges                                                              *)

LEMMA DriveSame ==
  ASSUME DriveInv, UNCHANGED <<gen, box, next, folder, rows, published, history>>
  PROVE  DriveInv'
BY DEF DriveInv, Generations, LegacyHasNoBackfill, NothingAhead, CheckpointCovers,
       CurrentRowsFaithful, AllAccounted, Covered, Accounted

\* Rows are found by their ids: an upsert adds rows of the tick and takes no id away.
LEMMA UpsertedRows ==
  ASSUME TypeInv, NEW uids \in SUBSET Nat, NEW content \in Nat
  PROVE  /\ \A r \in Upserted(uids, content):
              r \in rows \/ (r.uv = tick.uv /\ r.uid \in uids /\ r.gen = content)
         /\ \A id \in Ids(rows): id \in Ids(Upserted(uids, content))
         /\ \A u \in uids: <<tick.uv, u>> \in Ids(Upserted(uids, content))
<1> DEFINE new == {[uv |-> tick.uv, uid |-> u, gen |-> content] : u \in uids}
<1>1. Upserted(uids, content) = {r \in rows : ~(r.uv = tick.uv /\ r.uid \in uids)} \cup new
  BY DEF Upserted
<1>2. \A r \in new: r.uv = tick.uv /\ r.uid \in uids /\ r.gen = content
  OBVIOUS
<1>3. ASSUME NEW u \in uids
      PROVE  <<tick.uv, u>> \in Ids(Upserted(uids, content))
  <2> DEFINE r == [uv |-> tick.uv, uid |-> u, gen |-> content]
  <2>1. r \in Upserted(uids, content) /\ r.uv = tick.uv /\ r.uid = u
    BY <1>1
  <2> HIDE DEF r
  <2> QED
    BY <2>1 DEF Ids
<1>4. ASSUME NEW r \in rows
      PROVE  <<r.uv, r.uid>> \in Ids(Upserted(uids, content))
  <2>1. CASE r.uv = tick.uv /\ r.uid \in uids
    BY <1>3, <2>1
  <2>2. CASE ~(r.uv = tick.uv /\ r.uid \in uids)
    <3>1. r \in Upserted(uids, content)
      BY <1>1, <2>2
    <3> QED
      BY <3>1 DEF Ids
  <2> QED
    BY <2>1, <2>2
<1> HIDE DEF new
<1> QED
  BY <1>1, <1>2, <1>3, <1>4 DEF Ids

\* An upsert of messages that were fetched keeps what the folder promises.
LEMMA UpsertKeeps ==
  ASSUME TypeInv, DriveInv, NEW uids \in SUBSET Nat, NEW content \in Nat,
         rows' = Upserted(uids, content), UNCHANGED <<gen, box, next, folder, history>>,
         published \subseteq published', folder.uv = tick.uv, tick.uv >= 1,
         tick.uv = gen => content = gen /\ \A u \in uids: u < next
  PROVE  /\ DriveInv'
         /\ \A u: (Covered(u) => Covered(u)') /\ (Accounted(u) => Accounted(u)')
<1>1. /\ \A r \in rows': r \in rows \/ (r.uv = tick.uv /\ r.uid \in uids /\ r.gen = content)
      /\ \A id \in Ids(rows): id \in Ids(rows')
  BY UpsertedRows
<1>2. \A u: (Covered(u) => Covered(u)') /\ (Accounted(u) => Accounted(u)')
  BY <1>1 DEF Covered, Accounted
<1>3. Generations' /\ LegacyHasNoBackfill' /\ CurrentRowsFaithful' /\ NothingAhead'
  BY <1>1 DEF DriveInv, Generations, LegacyHasNoBackfill, CurrentRowsFaithful, NothingAhead
<1>4. CheckpointCovers' /\ AllAccounted'
  BY <1>2 DEF DriveInv, CheckpointCovers, AllAccounted, Covered
<1> QED
  BY <1>2, <1>3, <1>4 DEF DriveInv

LEMMA FetchBatchKeeps ==
  ASSUME TypeInv, DriveInv, TickInv, FetchBatch
  PROVE  DriveInv' /\ TickInv'
<1>1. DriveInv' /\ UNCHANGED <<gen, box, next, folder, rows, published, history>> /\ pc = "fetch"
  BY DriveSame DEF FetchBatch, server, drive
<1>2. CASE Fail
  BY <1>1, <1>2, LeaveKeeps DEF Fail
<1>3. CASE ~Fail
  <2> DEFINE found == {u \in box : From <= u /\ u <= To}
  <2>1. PICK u \in (IF found # {} THEN found
                   ELSE {IF tick.mode = "forward" THEN To ELSE From}):
          tick' = [tick EXCEPT !.seen = found, !.seenGen = gen, !.durable = u]
    BY <1>3 DEF FetchBatch
  <2>2. pc' = (IF found = {} THEN "checkpoint" ELSE "upsert") /\ state' = state
    BY <1>3 DEF FetchBatch
  <2>3. /\ From \in Nat /\ To \in Nat /\ tick.lo <= tick.hi /\ To <= tick.hi
        /\ tick.hi \in Nat /\ box \subseteq Nat
    BY <1>1, BatchInRange DEF Ranges, InRange, TypeInv, TypeOK, Ticks, Uids
  <2>4. /\ tick'.uv = tick.uv /\ tick'.next = tick.next /\ tick'.mode = tick.mode
        /\ tick'.lo = tick.lo /\ tick'.hi = tick.hi /\ tick'.publish = tick.publish
        /\ tick'.seen = found /\ tick'.seenGen = gen /\ tick'.durable = u
    BY <2>1 DEF TypeInv, TypeOK, Ticks
  <2>5. From' = From /\ To' = To
    BY <2>4 DEF From, To
  <2>6. tick.mode = "forward" => u <= To
    BY <2>1, <2>3
  <2>7. found = {} => \A v \in box: ~(From <= v /\ v <= To)
    OBVIOUS
  <2>8. StatusTrue' /\ StateIsFolder' /\ InRange'
    BY <1>1, <2>2, <2>3, <2>4 DEF TickInv, StatusTrue, StateIsFolder, Opening, InRange
  <2>9. ASSUME tick.uv = gen
        PROVE  PassDone(tick, state)' /\ RangeDone' /\ SearchTrue'
    <3>1. PassDone(tick, state) /\ tick.next <= next /\ tick.next \in Nat /\ next \in Nat
      BY <1>1, <2>9 DEF TickInv, Ranges, StatusTrue, TypeInv, TypeOK, Ticks
    <3>2. PassDone(tick, state)'
      BY <1>1, <2>2, <2>4, <3>1 DEF PassDone, Covered, Accounted
    <3>3. \A v \in found: v < next
      BY <2>3, <3>1 DEF PassDone
    <3> HIDE DEF found
    <3>4. RangeDone'
      <4>1. pc' = "upsert" => \A v \in box': From' <= v /\ v <= To' => v \in tick'.seen
        BY <1>1, <2>4, <2>5 DEF found
      <4>2. pc' = "checkpoint" => \A v \in box': ~(From' <= v /\ v <= To')
        BY <1>1, <2>2, <2>5, <2>7
      <4> QED
        BY <1>1, <2>2, <2>4, <2>5, <2>6, <3>3, <4>1, <4>2 DEF RangeDone
    <3>5. SearchTrue'
      BY <2>2 DEF SearchTrue
    <3> QED
      BY <3>2, <3>4, <3>5
  <2> QED
    BY <1>1, <2>4, <2>8, <2>9 DEF TickInv
<1> QED
  BY <1>2, <1>3

LEMMA UpsertBatchKeeps ==
  ASSUME TypeInv, DriveInv, TickInv, UpsertBatch
  PROVE  DriveInv' /\ TickInv'
<1> DEFINE Written == /\ rows' = Upserted(tick.seen, tick.seenGen)
                      /\ published' = IF tick.publish
                                      THEN published \cup ({tick.uv} \X tick.seen)
                                      ELSE published
<1>1. /\ pc = "upsert" /\ UNCHANGED <<gen, box, next, folder, history>>
      /\ Written \/ (rows' = rows /\ published' = published)
  BY DEF UpsertBatch, server
<1>2. /\ folder.uv = tick.uv /\ tick.uv >= 1
      /\ tick.seen \in SUBSET Nat /\ tick.seenGen \in Nat
      /\ tick.uv = gen => tick.seenGen = gen /\ \A u \in tick.seen: u < next
  BY <1>1 DEF TickInv, StatusTrue, StateIsFolder, Opening, RangeDone, TypeInv, TypeOK, Ticks
<1>3. Written => /\ DriveInv'
                 /\ \A u: (Covered(u) => Covered(u)') /\ (Accounted(u) => Accounted(u)')
  BY <1>1, <1>2, UpsertKeeps
<1>4. DriveInv'
  BY <1>1, <1>3, DriveSame
<1>5. CASE Leave
  BY <1>4, <1>5, LeaveKeeps
<1>6. CASE ~Leave
  <2>1. /\ Written /\ pc' = "checkpoint" /\ state' = state
        /\ tick' = [tick EXCEPT !.moved = @ \/ tick.mode = "forward"]
    BY <1>6 DEF UpsertBatch, Fail
  <2>2. /\ tick'.uv = tick.uv /\ tick'.next = tick.next /\ tick'.mode = tick.mode
        /\ tick'.lo = tick.lo /\ tick'.hi = tick.hi /\ tick'.publish = tick.publish
        /\ tick'.durable = tick.durable
    BY <2>1 DEF TypeInv, TypeOK, Ticks
  <2>3. From' = From /\ To' = To
    BY <2>2 DEF From, To
  <2>4. StatusTrue' /\ StateIsFolder' /\ InRange'
    BY <1>1, <2>1, <2>2 DEF TickInv, StatusTrue, StateIsFolder, Opening, InRange, Ranges
  <2>5. ASSUME tick.uv = gen
        PROVE  PassDone(tick, state)' /\ RangeDone' /\ SearchTrue'
    <3>1. PassDone(tick, state) /\ RangeDone
      BY <1>1, <2>5 DEF TickInv, Ranges
    <3>2. PassDone(tick, state)'
      BY <1>1, <1>3, <2>1, <2>2, <3>1 DEF PassDone
    <3>3. \A u \in tick.seen: Covered(u)'
      BY <1>1, <1>2, <2>1, <2>5, UpsertedRows DEF Covered
    <3>4. ASSUME tick.mode = "forward", NEW u \in tick.seen, u \in box, From <= u, u <= To
          PROVE  Accounted(u)'
      <4>1. CASE tick.publish
        BY <1>1, <2>1, <2>5, <4>1 DEF Accounted
      <4>2. CASE ~tick.publish
        <5>1. u \in 1 .. tick.next - 1
          <6>1. To <= tick.hi /\ tick.hi < tick.next /\ u \in Nat /\ u >= 1
            BY <1>1, <3>1, <3>4, BatchInRange DEF PassDone, Ranges, TypeInv, TypeOK, Uids
          <6>2. To \in Nat /\ tick.hi \in Nat /\ tick.next \in Nat
            BY <1>1, BatchInRange DEF Ranges, TypeInv, TypeOK, Ticks
          <6> QED
            BY <3>4, <6>1, <6>2
        <5> QED
          BY <1>1, <3>1, <3>4, <4>2, <5>1 DEF PassDone, Accounted
      <4> QED
        BY <4>1, <4>2
    <3>5. RangeDone'
      BY <1>1, <2>1, <2>2, <2>3, <3>1, <3>3, <3>4 DEF RangeDone
    <3>6. SearchTrue'
      BY <2>1 DEF SearchTrue
    <3> QED
      BY <3>2, <3>5, <3>6
  <2> QED
    BY <1>1, <1>4, <2>2, <2>4, <2>5 DEF TickInv
<1> QED
  BY <1>5, <1>6

\* The checkpoint that follows a range covers no more than the ranges done.
LEMMA AdvancedSound ==
  ASSUME TypeInv, DriveInv, TickInv, pc = "checkpoint"
  PROVE  /\ Advanced.uv = tick.uv
         /\ Advanced.forward \in Nat /\ Advanced.backfill \in Nat
         /\ ~Advanced.legacy
         /\ tick.uv = gen => /\ Advanced.forward < tick.next /\ Advanced.backfill <= tick.next
                             /\ \A u \in box: u <= Advanced.forward =>
                                  Accounted(u) /\ (u >= Advanced.backfill => Covered(u))
<1>1. /\ state = folder /\ state \in Checkpoints /\ folder.uv = tick.uv /\ ~folder.legacy
      /\ tick.durable \in Nat /\ tick.next \in Nat /\ tick.hi \in Nat /\ tick.lo \in Nat
      /\ tick.lo >= 1 /\ tick.mode \in {"forward", "backfill"}
      /\ box \subseteq Nat /\ \A u \in box: u >= 1
  BY DEF TickInv, StateIsFolder, Opening, TypeInv, TypeOK, Ticks, Uids
<1>2. /\ From \in Nat /\ To \in Nat /\ tick.lo <= From /\ From <= To /\ To <= tick.hi
      /\ tick.mode = "forward" => From = tick.lo
      /\ tick.mode = "backfill" => To = tick.hi
  BY BatchInRange DEF Ranges, TypeInv, TickInv
<1>3. CASE tick.mode = "forward"
  <2>1. Advanced = [state EXCEPT !.forward = tick.durable]
    BY <1>3 DEF Advanced
  <2>2. /\ Advanced.uv = tick.uv /\ ~Advanced.legacy
        /\ Advanced.forward = tick.durable /\ Advanced.backfill = folder.backfill
        /\ folder.backfill \in Nat
    BY <1>1, <2>1 DEF Checkpoints
  <2>3. ASSUME tick.uv = gen
        PROVE  /\ tick.durable < tick.next /\ folder.backfill <= tick.next
               /\ \A u \in box: u <= tick.durable =>
                    Accounted(u) /\ (u >= folder.backfill => Covered(u))
    <3>1. PassDone(tick, state) /\ RangeDone
      BY <2>3 DEF TickInv, Ranges
    <3>2. tick.durable <= To /\ tick.hi < tick.next
      BY <1>3, <3>1 DEF RangeDone, PassDone
    <3>3. folder.backfill <= tick.next
      BY <1>1, <2>3 DEF TickInv, StatusTrue
    <3>4. ASSUME NEW u \in box, u <= tick.durable
          PROVE  Accounted(u) /\ (u >= folder.backfill => Covered(u))
      <4>1. CASE u < tick.lo
        BY <1>1, <1>3, <3>1, <4>1 DEF PassDone
      <4>2. CASE From <= u /\ u <= To
        BY <1>3, <3>1, <4>2 DEF RangeDone
      <4> QED
        BY <1>1, <1>2, <1>3, <3>2, <3>4, <4>1, <4>2
    <3> QED
      BY <1>1, <1>2, <3>2, <3>3, <3>4
  <2> QED
    BY <1>1, <2>2, <2>3
<1>4. CASE tick.mode = "backfill"
  <2> DEFINE below == IF From > 1 THEN From ELSE 0
  <2>1. Advanced = [state EXCEPT !.backfill = below]
    BY <1>4 DEF Advanced
  <2>2. /\ Advanced.uv = tick.uv /\ ~Advanced.legacy
        /\ Advanced.forward = folder.forward /\ Advanced.backfill = below
        /\ folder.forward \in Nat /\ below \in Nat
    BY <1>1, <1>2, <2>1 DEF Checkpoints
  <2>3. ASSUME tick.uv = gen
        PROVE  /\ folder.forward < tick.next /\ below <= tick.next
               /\ \A u \in box: u <= folder.forward =>
                    Accounted(u) /\ (u >= below => Covered(u))
    <3>1. PassDone(tick, state) /\ RangeDone
      BY <2>3 DEF TickInv, Ranges
    <3>2. folder.forward < tick.next /\ tick.hi < tick.next
      BY <1>1, <2>3, <3>1 DEF TickInv, StatusTrue, PassDone
    <3>3. below <= tick.next
      BY <1>1, <1>2, <3>2
    <3>4. ASSUME NEW u \in box, u <= folder.forward
          PROVE  Accounted(u) /\ (u >= below => Covered(u))
      <4>1. Accounted(u)
        BY <1>1, <2>3, <3>4 DEF DriveInv, AllAccounted
      <4>2. u > tick.hi => Covered(u)
        BY <1>1, <1>4, <3>1, <3>4 DEF PassDone
      <4>3. From <= u /\ u <= To => Covered(u)
        BY <3>1 DEF RangeDone
      <4> QED
        BY <1>1, <1>2, <1>4, <4>1, <4>2, <4>3
    <3> QED
      BY <3>2, <3>3, <3>4
  <2> QED
    BY <2>2, <2>3
<1> QED
  BY <1>1, <1>3, <1>4

LEMMA WriteCheckpointKeeps ==
  ASSUME TypeInv, TypeInv', DriveInv, TickInv, WriteCheckpoint
  PROVE  DriveInv' /\ TickInv'
<1>1. /\ pc = "checkpoint" /\ UNCHANGED <<gen, box, next, rows, published, history>>
      /\ folder' = Advanced \/ folder' = folder
  BY DEF WriteCheckpoint, server
<1>2. PICK s \in Checkpoints: s = Advanced
  BY <1>1, AdvancedType
<1>3. PICK t \in Ticks: t = NextRange
  BY <1>1, AdvancedType
<1>4. /\ s.uv = tick.uv /\ ~s.legacy /\ s.forward \in Nat /\ s.backfill \in Nat
      /\ tick.uv = gen => /\ s.forward < tick.next /\ s.backfill <= tick.next
                          /\ \A u \in box: u <= s.forward =>
                               Accounted(u) /\ (u >= s.backfill => Covered(u))
  BY <1>1, <1>2, AdvancedSound
<1>5. /\ 1 <= tick.uv /\ tick.uv <= gen /\ folder.uv = tick.uv /\ state = folder
      /\ tick.uv = gen => tick.next <= next /\ PassDone(tick, state) /\ RangeDone
      /\ tick.next \in Nat /\ tick.next >= 1 /\ next \in Nat
      /\ tick.lo \in Nat /\ tick.hi \in Nat /\ box \subseteq Nat
  BY <1>1 DEF TickInv, StatusTrue, StateIsFolder, Opening, Ranges, TypeInv, TypeOK, Ticks, Uids
<1>6. ASSUME folder' = s
      PROVE  DriveInv'
  <2>1. Generations' /\ LegacyHasNoBackfill' /\ CurrentRowsFaithful'
    BY <1>1, <1>4, <1>5, <1>6
       DEF DriveInv, Generations, LegacyHasNoBackfill, CurrentRowsFaithful
  <2>2. NothingAhead'
    BY <1>1, <1>4, <1>5, <1>6 DEF DriveInv, NothingAhead
  <2>3. CheckpointCovers' /\ AllAccounted'
    BY <1>1, <1>4, <1>6 DEF CheckpointCovers, AllAccounted, Covered, Accounted
  <2> QED
    BY <2>1, <2>2, <2>3 DEF DriveInv
<1>7. DriveInv'
  BY <1>1, <1>2, <1>6, DriveSame
<1>8. CASE Leave
  BY <1>7, <1>8, LeaveKeeps
<1>9. CASE ~Leave
  <2>1. folder' = s /\ Continue(t, s)
    BY <1>2, <1>3, <1>9 DEF WriteCheckpoint, Fail
  <2>2. /\ From \in Nat /\ To \in Nat /\ tick.lo <= From /\ From <= To /\ To <= tick.hi
        /\ tick.mode = "forward" => From = tick.lo
        /\ tick.mode = "backfill" => To = tick.hi
        /\ tick.mode \in {"forward", "backfill"}
    BY <1>1, BatchInRange DEF Ranges, TypeInv
  <2>3. /\ t.uv = tick.uv /\ t.next = tick.next /\ t.mode = tick.mode
        /\ t.publish = tick.publish
        /\ tick.mode = "forward" => t.lo = To + 1 /\ t.hi = tick.hi
        /\ tick.mode = "backfill" => t.hi = From - 1
    BY <1>3, <2>2 DEF NextRange, TypeInv, TypeOK, Ticks
  <2>4. /\ tick.mode = "forward" => s.backfill = folder.backfill
        /\ tick.mode = "backfill" => s.forward = folder.forward
    BY <1>2, <1>5 DEF Advanced, TypeInv, TypeOK, Checkpoints
  <2>5. ASSUME tick.uv = gen
        PROVE  PassDone(t, s)'
    <3>1. PassDone(tick, state) /\ RangeDone
      BY <1>5, <2>5
    <3>2. \A u \in box: From <= u /\ u <= To =>
            Covered(u) /\ (tick.mode = "forward" => Accounted(u))
      BY <1>1, <3>1 DEF RangeDone
    <3>3. CASE tick.mode = "forward"
      <4>1. /\ tick.lo <= tick.next /\ tick.hi < tick.next
            /\ \A u \in box: u < tick.lo =>
                 Accounted(u) /\ (u >= folder.backfill => Covered(u))
            /\ ~tick.publish => \A u \in 1 .. tick.next - 1: <<gen, u>> \in history
        BY <1>5, <3>1, <3>3 DEF PassDone
      <4>2. t.lo <= t.next /\ t.hi < t.next
        BY <1>5, <2>2, <2>3, <3>3, <4>1
      <4>3. \A u \in box: u < t.lo => Accounted(u) /\ (u >= s.backfill => Covered(u))
        BY <1>5, <2>2, <2>3, <2>4, <3>2, <3>3, <4>1
      <4> QED
        BY <1>1, <2>3, <3>3, <4>1, <4>2, <4>3 DEF PassDone, Covered, Accounted
    <3>4. CASE tick.mode = "backfill"
      <4>1. /\ tick.hi < tick.next
            /\ \A u \in box: u > tick.hi /\ u <= folder.forward => Covered(u)
        BY <1>5, <3>1, <3>4 DEF PassDone
      <4>2. t.hi < t.next
        BY <1>5, <2>2, <2>3, <3>4, <4>1
      <4>3. \A u \in box: u > t.hi /\ u <= s.forward => Covered(u)
        BY <1>5, <2>2, <2>3, <2>4, <3>2, <3>4, <4>1
      <4> QED
        BY <1>1, <2>3, <3>4, <4>2, <4>3 DEF PassDone, Covered
    <3> QED
      BY <2>2, <3>3, <3>4
  <2>6. TickInv'
    BY <1>1, <1>4, <1>5, <1>7, <2>1, <2>3, <2>5, ContinueKeeps DEF server
  <2> QED
    BY <1>7, <2>6
<1> QED
  BY <1>8, <1>9

-----------------------------------------------------------------------------
(* Flag reconciliation and prune                                           *)

\* A tick that has passed its ranges and goes on with new locals.
LEMMA StatusStays ==
  ASSUME TypeInv, TickInv, pc \notin Opening, pc' \in {"patch", "list", "prune"},
         UNCHANGED <<gen, next, folder>>, state' = state,
         tick'.uv = tick.uv, tick'.next = tick.next
  PROVE  StatusTrue' /\ StateIsFolder' /\ InRange' /\ ~(pc' \in Ranges)
BY DEF TickInv, StatusTrue, StateIsFolder, Opening, InRange, Ranges

LEMMA FetchFlagsKeeps ==
  ASSUME TypeInv, DriveInv, TickInv, FetchFlags
  PROVE  DriveInv' /\ TickInv'
<1>1. DriveInv' /\ UNCHANGED <<gen, box, next, folder, rows, published, history>> /\ pc = "recon"
  BY DriveSame DEF FetchFlags, server, drive
<1>2. CASE Fail
  BY <1>1, <1>2, LeaveKeeps DEF Fail
<1>3. CASE ~Fail
  <2>1. PICK found \in SUBSET box:
          /\ tick' = [tick EXCEPT !.seen = found, !.seenGen = gen]
          /\ \A u \in found: u <= state.forward
    BY <1>3 DEF FetchFlags
  <2>2. pc' \in {"list", "patch"} /\ state' = state
    BY <1>3 DEF FetchFlags
  <2>3. /\ tick'.uv = tick.uv /\ tick'.next = tick.next /\ tick'.mode = tick.mode
        /\ tick'.seen = found /\ tick'.seenGen = gen
    BY <2>1 DEF TypeInv, TypeOK, Ticks
  <2>4. StatusTrue' /\ StateIsFolder' /\ InRange' /\ ~(pc' \in Ranges)
    BY <1>1, <2>2, <2>3, StatusStays DEF Opening
  <2>5. ASSUME tick.uv = gen
        PROVE  RangeDone' /\ SearchTrue'
    <3>1. state.forward < next /\ state.forward \in Nat /\ next \in Nat /\ box \subseteq Nat
      BY <1>1, <2>5 DEF TickInv, StateIsFolder, Opening, DriveInv, NothingAhead,
                        TypeInv, TypeOK, Checkpoints, Uids
    <3>2. \A u \in found: u < next
      BY <2>1, <3>1
    <3> QED
      BY <1>1, <2>2, <2>3, <3>2 DEF RangeDone, SearchTrue
  <2> QED
    BY <1>1, <2>3, <2>4, <2>5 DEF TickInv
<1> QED
  BY <1>2, <1>3

LEMMA PatchFlagsKeeps ==
  ASSUME TypeInv, DriveInv, TickInv, PatchFlags
  PROVE  DriveInv' /\ TickInv'
<1>1. pc = "patch" /\ UNCHANGED <<gen, box, next, folder, published, history>>
  BY DEF PatchFlags, server
<1>2. PICK missing \in SUBSET tick.seen: rows' = Upserted(missing, tick.seenGen) \/ rows' = rows
  BY DEF PatchFlags
<1>3. /\ folder.uv = tick.uv /\ tick.uv >= 1
      /\ missing \in SUBSET Nat /\ tick.seenGen \in Nat
      /\ tick.uv = gen => tick.seenGen = gen /\ \A u \in tick.seen: u < next
  BY <1>1 DEF TickInv, StatusTrue, StateIsFolder, Opening, RangeDone, TypeInv, TypeOK, Ticks
<1>4. DriveInv'
  BY <1>1, <1>2, <1>3, UpsertKeeps, DriveSame
<1>5. CASE Leave
  BY <1>4, <1>5, LeaveKeeps
<1>6. CASE ~Leave
  <2>1. pc' = "list" /\ state' = state /\ tick' = [tick EXCEPT !.seen = {}, !.seenGen = 0]
    BY <1>6 DEF PatchFlags, Fail
  <2>2. tick'.uv = tick.uv /\ tick'.next = tick.next
    BY <2>1 DEF TypeInv, TypeOK, Ticks
  <2>3. StatusTrue' /\ StateIsFolder' /\ InRange' /\ ~(pc' \in Ranges)
    BY <1>1, <2>1, <2>2, StatusStays DEF Opening
  <2>4. RangeDone' /\ SearchTrue'
    BY <2>1 DEF RangeDone, SearchTrue
  <2> QED
    BY <1>4, <2>3, <2>4 DEF TickInv
<1> QED
  BY <1>5, <1>6

LEMMA ListUidsKeeps ==
  ASSUME ~SearchMayFail, TypeInv, DriveInv, TickInv, ListUids
  PROVE  DriveInv' /\ TickInv'
<1>1. DriveInv' /\ UNCHANGED <<gen, box, next, folder, rows, published, history>> /\ pc = "list"
  BY DriveSame DEF ListUids, server, drive
<1>2. CASE Leave
  BY <1>1, <1>2, LeaveKeeps
<1>3. CASE ~Leave
  <2>1. pc' = "prune" /\ state' = state /\ tick' = [tick EXCEPT !.seen = box]
    BY <1>3 DEF ListUids, Fail
  <2>2. tick'.uv = tick.uv /\ tick'.next = tick.next /\ tick'.seen = box
    BY <2>1 DEF TypeInv, TypeOK, Ticks
  <2>3. StatusTrue' /\ StateIsFolder' /\ InRange' /\ ~(pc' \in Ranges)
    BY <1>1, <2>1, <2>2, StatusStays DEF Opening
  <2>4. RangeDone' /\ SearchTrue'
    BY <1>1, <2>1, <2>2 DEF RangeDone, SearchTrue
  <2> QED
    BY <1>1, <2>3, <2>4 DEF TickInv
<1> QED
  BY <1>2, <1>3

LEMMA PruneRowsKeeps ==
  ASSUME TypeInv, DriveInv, TickInv, PruneRows
  PROVE  DriveInv' /\ TickInv'
<1>1. /\ pc = "prune" /\ UNCHANGED <<gen, box, next, folder, published, history>>
      /\ rows' \subseteq rows
      /\ \A r \in rows: r \in rows' \/ r.uid \notin tick.seen
      /\ Leave \/ UNCHANGED <<pc, tick, state>>
  BY DEF PruneRows, server, Stale, Fail
<1>2. folder.uv = tick.uv /\ (tick.uv = gen => SearchTrue)
  BY <1>1 DEF TickInv, StateIsFolder, Opening
<1>3. ASSUME tick.uv = gen, NEW u \in box, Covered(u)
      PROVE  Covered(u)'
  <2>1. PICK r \in rows: r.uv = gen /\ r.uid = u
    BY <1>3 DEF Covered, Ids
  <2>2. r \in rows'
    BY <1>1, <1>2, <1>3, <2>1 DEF SearchTrue
  <2> QED
    BY <1>1, <2>1, <2>2 DEF Covered, Ids
<1>4. DriveInv'
  <2>1. Generations' /\ LegacyHasNoBackfill' /\ CurrentRowsFaithful' /\ NothingAhead'
    BY <1>1 DEF DriveInv, Generations, LegacyHasNoBackfill, CurrentRowsFaithful, NothingAhead
  <2>2. CheckpointCovers' /\ AllAccounted'
    BY <1>1, <1>2, <1>3 DEF DriveInv, CheckpointCovers, AllAccounted, Covered, Accounted
  <2> QED
    BY <2>1, <2>2 DEF DriveInv
<1>5. CASE Leave
  BY <1>4, <1>5, LeaveKeeps
<1>6. CASE UNCHANGED <<pc, tick, state>>
  <2>1. StatusTrue' /\ StateIsFolder' /\ InRange' /\ RangeDone'
    BY <1>1, <1>6 DEF TickInv, StatusTrue, StateIsFolder, Opening, InRange, Ranges, RangeDone
  <2>2. (tick.uv = gen => SearchTrue)'
    BY <1>1, <1>2, <1>6 DEF SearchTrue
  <2> QED
    BY <1>1, <1>4, <1>6, <2>1, <2>2 DEF TickInv, Ranges
<1> QED
  BY <1>1, <1>5, <1>6

-----------------------------------------------------------------------------
(* The folder as a whole                                                   *)

LEMMA FolderInvInit == Init => DriveInv /\ TickInv
<1> SUFFICES ASSUME Init
             PROVE  DriveInv /\ TickInv
  OBVIOUS
<1>1. /\ gen = 1 /\ next \in 1 .. MaxUid + 1 /\ box \in SUBSET (1 .. next - 1)
      /\ pc = "idle" /\ tick = NoTick
  BY DEF Init
<1>2. CASE folder = NoFolder /\ rows = {}
  <2>1. folder.uv = 0 /\ ~folder.legacy
    BY <1>2 DEF NoFolder
  <2> QED
    BY <1>1, <1>2, <2>1, NoTickType
       DEF DriveInv, Generations, LegacyHasNoBackfill, NothingAhead, CheckpointCovers,
           CurrentRowsFaithful, AllAccounted, TickInv, StatusTrue, StateIsFolder, InRange,
           Ranges, Opening, RangeDone, SearchTrue
<1>3. CASE ~(folder = NoFolder /\ rows = {})
  <2>1. PICK n \in 0 .. next - 1:
          /\ folder = [uv |-> 1, forward |-> n, backfill |-> 0, legacy |-> TRUE]
          /\ rows = [uv: {1}, uid: {u \in box : u <= n}, gen: {1}]
          /\ history = {1} \X (1 .. n)
    BY <1>3 DEF Init
  <2>2. folder.uv = 1 /\ folder.forward = n /\ folder.backfill = 0
    BY <2>1
  <2>3. \A r \in rows: r.uv = 1 /\ r.gen = 1 /\ r.uid \in box
    BY <2>1
  <2>4. ASSUME NEW u \in box, u <= n
        PROVE  Covered(u) /\ Accounted(u)
    <3> DEFINE r == [uv |-> 1, uid |-> u, gen |-> 1]
    <3>1. r \in rows /\ r.uv = 1 /\ r.uid = u
      BY <2>1, <2>4
    <3> HIDE DEF r
    <3>2. Covered(u)
      BY <1>1, <3>1 DEF Covered, Ids
    <3>3. Accounted(u)
      BY <1>1, <2>1, <2>4 DEF Accounted
    <3> QED
      BY <3>2, <3>3
  <2>5. DriveInv
    <3>1. /\ n \in Nat /\ next \in Nat /\ n < next
          /\ \A u \in box: u \in Nat /\ u < next
      BY <1>1
    <3>2. Generations /\ LegacyHasNoBackfill /\ CurrentRowsFaithful
      BY <1>1, <2>2, <2>3 DEF Generations, LegacyHasNoBackfill, CurrentRowsFaithful
    <3>3. NothingAhead
      <4>1. folder.forward < next /\ folder.backfill <= next
        BY <2>2, <3>1
      <4>2. \A r \in rows: r.uid < next
        BY <2>3, <3>1
      <4> QED
        BY <4>1, <4>2 DEF NothingAhead
    <3>4. CheckpointCovers /\ AllAccounted
      BY <1>1, <2>2, <2>4 DEF CheckpointCovers, AllAccounted, Covered
    <3> QED
      BY <3>2, <3>3, <3>4 DEF DriveInv
  <2>6. TickInv
    BY <1>1, NoTickType DEF TickInv, StatusTrue, StateIsFolder, InRange, Ranges, Opening,
                            RangeDone, SearchTrue
  <2> QED
    BY <2>5, <2>6
<1> QED
  BY <1>2, <1>3

SyncInv == TypeInv /\ DriveInv /\ TickInv

LEMMA SyncInvNext ==
  ASSUME ~SearchMayFail, SyncInv, [Next]_vars
  PROVE  SyncInv'
<1> USE DEF SyncInv
<1>1. TypeInv'
  BY TypeInvNext
<1>2. CASE Crash
  BY <1>1, <1>2, DriveSame, LeaveKeeps DEF Crash, Fail, server, drive
<1>3. CASE UNCHANGED vars
  <2>1. DriveInv'
    BY <1>3, DriveSame DEF vars
  <2>2. TickInv'
    BY <1>3 DEF vars, TickInv, StatusTrue, StateIsFolder, InRange, PassDone, RangeDone,
                SearchTrue, Covered, Accounted, From, To
  <2> QED
    BY <1>1, <2>1, <2>2
<1> QED
  BY <1>1, <1>2, <1>3, ServerKeeps, ReadStatusKeeps, ReadFolderKeeps, DropFolderKeeps,
     OpenFolderKeeps, FetchBatchKeeps, UpsertBatchKeeps, WriteCheckpointKeeps,
     FetchFlagsKeeps, PatchFlagsKeeps, ListUidsKeeps, PruneRowsKeeps DEF Next, TickStep

LEMMA SyncInvariant == ~SearchMayFail => (Spec => []SyncInv)
<1> SUFFICES ASSUME ~SearchMayFail
             PROVE  Spec => []SyncInv
  OBVIOUS
<1>1. Init => SyncInv
  BY TypeInvInit, FolderInvInit DEF SyncInv
<1>2. SyncInv /\ [Next]_vars => SyncInv'
  BY SyncInvNext
<1> QED
  BY <1>1, <1>2, PTL DEF Spec

\* As long as SEARCH answers, the checkpoint never runs ahead of the mirror: whatever call
\* fails, wherever the process stops and however the mailbox changes meanwhile.
THEOREM CheckpointSound == ~SearchMayFail => (Spec => []CheckpointCovers)
<1> SUFFICES ASSUME ~SearchMayFail
             PROVE  Spec => []CheckpointCovers
  OBVIOUS
<1>1. SyncInv => CheckpointCovers
  BY DEF SyncInv, DriveInv
<1> QED
  BY <1>1, SyncInvariant, PTL

\* Rows of the current generation hold its messages, through any renumbering.
THEOREM RowsFaithful == ~SearchMayFail => (Spec => []CurrentRowsFaithful)
<1> SUFFICES ASSUME ~SearchMayFail
             PROVE  Spec => []CurrentRowsFaithful
  OBVIOUS
<1>1. SyncInv => CurrentRowsFaithful
  BY DEF SyncInv, DriveInv
<1> QED
  BY <1>1, SyncInvariant, PTL

\* A message the checkpoint has passed was announced, or was there before its generation
\* was mirrored.
THEOREM NewMailIsAnnounced == ~SearchMayFail => (Spec => []NewMailAnnounced)
<1> SUFFICES ASSUME ~SearchMayFail
             PROVE  Spec => []NewMailAnnounced
  OBVIOUS
<1>1. SyncInv => NewMailAnnounced
  BY DEF SyncInv, DriveInv, AllAccounted, Accounted, NewMailAnnounced
<1> QED
  BY <1>1, SyncInvariant, PTL

LEMMA RowsStay ==
  ASSUME SyncInv, [Next]_vars, NEW r \in rows, r.uv = gen, r.uid \in box
  PROVE  <<r.uv, r.uid>> \in Ids(rows')
<1> USE DEF SyncInv
<1>1. CASE rows' = rows
  BY <1>1 DEF Ids
<1>2. CASE DropFolder
  <2>1. /\ folder.uv # tick.uv /\ folder.uv <= tick.uv /\ tick.uv <= gen /\ r.uv = folder.uv
    BY <1>2 DEF DropFolder, TickInv, StatusTrue, StateIsFolder, DriveInv, Generations
  <2>2. folder.uv \in Nat /\ tick.uv \in Nat /\ gen \in Nat
    BY DEF TypeInv, TypeOK, Checkpoints, Ticks
  <2> QED
    BY <2>1, <2>2
<1>3. ASSUME NEW uids \in SUBSET tick.seen, rows' = Upserted(uids, tick.seenGen)
      PROVE  <<r.uv, r.uid>> \in Ids(rows')
  <2>1. uids \in SUBSET Nat /\ tick.seenGen \in Nat
    BY DEF TypeInv, TypeOK, Ticks
  <2>2. <<r.uv, r.uid>> \in Ids(rows)
    BY DEF Ids
  <2> QED
    BY <1>3, <2>1, <2>2, UpsertedRows
<1>4. CASE PruneRows
  <2>1. /\ \A x \in rows: x \in rows' \/ x.uid \notin tick.seen
        /\ pc = "prune" /\ r.uv = folder.uv /\ folder.uv = tick.uv
    BY <1>4 DEF PruneRows, Stale, TickInv, StateIsFolder, Opening, DriveInv, Generations
  <2>2. r.uid \in tick.seen
    BY <2>1 DEF TickInv, SearchTrue
  <2> QED
    BY <2>1, <2>2 DEF Ids
<1>5. UpsertBatch => rows' = rows \/ rows' = Upserted(tick.seen, tick.seenGen)
  BY DEF UpsertBatch
<1>6. PatchFlags => rows' = rows \/ \E uids \in SUBSET tick.seen:
                                    rows' = Upserted(uids, tick.seenGen)
  BY DEF PatchFlags
<1> QED
  BY <1>1, <1>2, <1>3, <1>4, <1>5, <1>6
     DEF Next, TickStep, ReadStatus, ReadFolder, OpenFolder, FetchBatch, WriteCheckpoint,
         FetchFlags, ListUids, Crash, Arrive, Expunge, Rollover, vars, drive

\* Drops, upserts and prunes take no row of a message that is still in the mailbox.
THEOREM RowsKept == ~SearchMayFail => (Spec => RowsOutliveNothing)
<1> SUFFICES ASSUME ~SearchMayFail
             PROVE  Spec => RowsOutliveNothing
  OBVIOUS
<1>1. SyncInv /\ [Next]_vars =>
        [\A r \in rows: r.uv = gen /\ r.uid \in box => <<r.uv, r.uid>> \in Ids(rows')]_vars
  BY RowsStay
<1> QED
  BY <1>1, SyncInvariant, PTL DEF Spec, RowsOutliveNothing

=============================================================================
