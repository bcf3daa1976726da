------------------------- MODULE AccountSyncProofs -------------------------
(***************************************************************************)
(* What the ticks of an account leave standing, for any folders, any       *)
(* priorities and allowlist, and any number of changes, faults and ticks.  *)
(***************************************************************************)
EXTENDS AccountSync, FiniteSetTheorems, TLAPS

USE ConstantsAssumption

-----------------------------------------------------------------------------
(* The inductive invariant                                                 *)

\* Only one tick is under way.
OneTick == \A t, u \in Ticks: Running(t) /\ Running(u) => t = u

\* A number that IMAP gives to a folder has not been in use.
NumberingsAreOld ==
  /\ \A f \in Folders: imap[f] <= changes + 1
  /\ \A f \in Paths: drive[f] <= changes + 1
  /\ \A t \in Ticks: tick[t].numbering <= changes + 1

AtFolder ==
  \A t \in Ticks: tick[t].phase \in {"status", "drop", "upsert", "passes"}
                    => tick[t].at \in 1 .. Len(tick[t].list)

UpsertsNumbering ==
  \A t \in Ticks: tick[t].phase \in {"drop", "upsert"} => tick[t].numbering # Absent

\* What Drive mirrors of the folder is gone from IMAP.
Outdated(f) == drive[f] \in Numberings => imap[f] # drive[f]

\* What a tick drops is mirrored, under another number than STATUS gave.
Renumbered(f, numbering) == drive[f] \in Numberings \ {numbering} /\ imap[f] # drive[f]

DropsOutdated ==
  \A t \in Ticks: tick[t].phase = "drop" => Renumbered(Here(t), tick[t].numbering)

\* A folder may come back while the tick runs, but under another number.
LeftOutIsOutdated ==
  \A t \in Ticks: tick[t].phase \in {"status", "drop", "upsert", "passes", "drives", "prune"}
    => \A f \in Folders \ ToSet(tick[t].list): Synced(f) => Outdated(f)

FoundIsLeftOut ==
  \A t \in Ticks: tick[t].found \cap (Managed \cup ToSet(tick[t].list)) = {}

StoppedMeansIdle == stop = "stopped" => \A t \in Ticks: ~Running(t)

SyncInv ==
  /\ OneTick
  /\ NumberingsAreOld
  /\ AtFolder
  /\ UpsertsNumbering
  /\ DropsOutdated
  /\ LeftOutIsOutdated
  /\ FoundIsLeftOut
  /\ StoppedMeansIdle

-----------------------------------------------------------------------------
(* Records and lists                                                       *)

LEMMA TickType ==
  ASSUME NEW phase \in Phases, NEW list \in Seq(Folders), NEW at \in Nat
  PROVE  /\ Tick(phase, list, at) \in Runs
         /\ Tick(phase, list, at).phase = phase
         /\ Tick(phase, list, at).list = list
         /\ Tick(phase, list, at).at = at
         /\ Tick(phase, list, at).numbering = Absent
         /\ Tick(phase, list, at).found = {}
BY DEF Tick, Runs, Numberings

LEMMA NewTickType ==
  ASSUME NEW phase \in Phases
  PROVE  /\ Tick(phase, <<>>, 0) \in Runs
         /\ Tick(phase, <<>>, 0).phase = phase
         /\ Tick(phase, <<>>, 0).numbering = Absent
         /\ Tick(phase, <<>>, 0).found = {}
<1>1. <<>> \in Seq(Folders) /\ 0 \in Nat /\ 0 \in 0 .. MaxOverrun
  OBVIOUS
<1> QED
  BY <1>1 DEF Tick, Runs, Absent, Numberings

LEMMA IdleType ==
  Idle \in Runs /\ Idle.phase = "none" /\ Idle.found = {} /\ Idle.numbering = Absent
<1>1. "none" \in Phases
  BY DEF Phases
<1> QED
  BY <1>1, NewTickType DEF Idle

LEMMA FaultType ==
  ASSUME TypeOK, Fault
  PROVE  faults' \in 0 .. MaxFaults
BY DEF TypeOK, Fault

LEMMA HereIsFolder ==
  ASSUME TypeOK, AtFolder, NEW t \in Ticks,
         tick[t].phase \in {"status", "drop", "upsert", "passes"}
  PROVE  Here(t) \in Folders /\ Here(t) \in ToSet(tick[t].list) /\ Here(t) \in Paths
BY DEF TypeOK, AtFolder, Runs, Here, ToSet, Paths

\* What sortFoldersByPriority returns has the folders it is given, and no others.
LEMMA SortingType ==
  ASSUME TypeOK, NEW list \in Sortings(Filtered)
  PROVE  list \in Seq(Folders) /\ ToSet(list) = Filtered /\ Due(list) \in Nat
<1>1. Filtered \in SUBSET Folders
  BY DEF Filtered
<1>2. Cardinality(Filtered) \in Nat
  BY <1>1, FS_Subset, FS_CardinalityType
<1>3. list \in Seq(Folders) /\ ToSet(list) = Filtered
  BY <1>1, <1>2 DEF Sortings
<1>4. CASE list # <<>>
  <2>1. Len(list) \in Nat \ {0}
    BY <1>3, <1>4
  <2>2. slot \in Nat
    BY DEF TypeOK
  <2> QED
    BY <1>3, <1>4, <2>1, <2>2 DEF Due
<1> QED
  BY <1>3, <1>4 DEF Due

-----------------------------------------------------------------------------
(* The steps of the timer, of the server and of Exchange                   *)

LEMMA FireStep ==
  ASSUME TypeOK, SyncInv, Fire
  PROVE  (TypeOK /\ SyncInv)'
<1>1. CASE MayRun /\ Ticks # {}
  <2> DEFINE free == CHOOSE t \in Ticks: ~Running(t)
             fresh == Tick("mailbox", <<>>, 0)
  <2>1. free \in Ticks
    BY <1>1 DEF MayRun
  <2>2. fresh \in Runs /\ fresh.phase = "mailbox" /\ fresh.found = {} /\ fresh.numbering = Absent
    <3>1. "mailbox" \in Phases
      BY DEF Phases
    <3> QED
      BY <3>1, NewTickType
  <2>3. tick' = [tick EXCEPT ![free] = fresh]
    BY <1>1 DEF Fire
  <2> HIDE DEF free, fresh
  <2>4. TypeOK'
    BY <2>1, <2>2, <2>3 DEF TypeOK, Fire
  <2>5. tick'[free] = fresh /\ \A t \in Ticks \ {free}: tick'[t] = tick[t] /\ tick[t].phase = "none"
    BY <1>1, <2>1, <2>3 DEF TypeOK, MayRun, Running
  <2>6. UNCHANGED <<imap, drive, changes>> /\ stop' = "no"
    BY DEF Fire
  <2>7. changes \in Nat
    BY DEF TypeOK
  <2>8. NumberingsAreOld'
    BY <2>2, <2>5, <2>6, <2>7 DEF SyncInv, NumberingsAreOld, Absent
  <2> QED
    BY <2>2, <2>4, <2>5, <2>6, <2>8
       DEF SyncInv, OneTick, Running, AtFolder, UpsertsNumbering, DropsOutdated,
           LeftOutIsOutdated, FoundIsLeftOut, StoppedMeansIdle
<1>2. CASE ~(MayRun /\ Ticks # {})
  <2>1. UNCHANGED <<imap, drive, changes, stop, tick>>
    <3>1. CASE Ticks = {}
      BY <3>1 DEF Fire, TypeOK
    <3>2. CASE ~MayRun
      BY <3>2 DEF Fire
    <3> QED
      BY <1>2, <3>1, <3>2 DEF Fire
  <2> QED
    BY <2>1 DEF Fire, TypeOK, SyncInv, OneTick, NumberingsAreOld, Running, AtFolder,
           UpsertsNumbering, DropsOutdated, Here, Outdated, Renumbered,
           LeftOutIsOutdated, FoundIsLeftOut, StoppedMeansIdle
<1> QED
  BY <1>1, <1>2

LEMMA ClockStep ==
  ASSUME TypeOK, SyncInv, NextSlot
  PROVE  (TypeOK /\ SyncInv)'
<1>1. TypeOK'
  <2>1. slot' \in 0 .. Period - 1
    BY DEF NextSlot, TypeOK
  <2>2. tick' \in [Ticks -> Runs]
    <3> DEFINE later(t) == IF Running(t) THEN [tick[t] EXCEPT !.crossed = @ + 1] ELSE tick[t]
    <3>1. ASSUME NEW t \in Ticks
          PROVE  later(t) \in Runs
      <4>1. tick[t] \in Runs /\ tick[t].crossed \in Nat
        BY DEF TypeOK, Runs
      <4>2. Running(t) => tick[t].crossed + 1 \in 0 .. MaxOverrun
        BY <4>1 DEF NextSlot
      <4> QED
        BY <4>1, <4>2 DEF Runs
    <3>2. tick' = [t \in Ticks |-> later(t)]
      BY DEF NextSlot
    <3> QED
      BY <3>1, <3>2
  <2> QED
    BY <2>1, <2>2 DEF NextSlot, TypeOK
<1>2. \A t \in Ticks:
        /\ tick'[t].phase = tick[t].phase
        /\ tick'[t].list = tick[t].list
        /\ tick'[t].at = tick[t].at
        /\ tick'[t].numbering = tick[t].numbering
        /\ tick'[t].found = tick[t].found
  BY DEF NextSlot, TypeOK, Runs
<1>3. UNCHANGED <<imap, drive, changes, stop>>
  BY DEF NextSlot
<1> QED
  BY <1>1, <1>2, <1>3
     DEF SyncInv, OneTick, Running, AtFolder, UpsertsNumbering, DropsOutdated, NumberingsAreOld,
         LeftOutIsOutdated, FoundIsLeftOut, StoppedMeansIdle, Here, Outdated, Renumbered

LEMMA StopStep ==
  ASSUME TypeOK, SyncInv, BeginStop \/ EndStop
  PROVE  (TypeOK /\ SyncInv)'
BY DEF BeginStop, EndStop, Drained, clock, TypeOK, SyncInv, OneTick, Running, AtFolder,
       UpsertsNumbering, DropsOutdated, NumberingsAreOld,
       LeftOutIsOutdated, FoundIsLeftOut, StoppedMeansIdle, Here, Outdated, Renumbered

LEMMA ServerStep ==
  ASSUME TypeOK, SyncInv, NEW f \in Folders, ChangeFolder(f)
  PROVE  (TypeOK /\ SyncInv)'
<1>1. PICK n \in {Absent, changes + 2}: imap' = [imap EXCEPT ![f] = n]
  BY DEF ChangeFolder
<1>2. changes' = changes + 1 /\ UNCHANGED <<drive, tick, stop>>
  BY DEF ChangeFolder
<1>3. changes \in Nat /\ changes < MaxChanges /\ MaxChanges \in Nat
  BY DEF TypeOK, ChangeFolder
<1>4. n \in {Absent} \cup Numberings
  BY <1>1, <1>3 DEF Numberings
<1>5. TypeOK'
  BY <1>1, <1>2, <1>3, <1>4 DEF TypeOK, ChangeFolder, clock
<1>6. NumberingsAreOld'
  <2>1. \A g \in Folders: imap[g] \in Nat /\ (imap'[g] = imap[g] \/ imap'[g] = n)
    BY <1>1 DEF TypeOK, Absent, Numberings
  <2>2. \A g \in Paths: drive[g] \in Int
    BY DEF TypeOK, Absent, Unsynced, Numberings
  <2>3. \A t \in Ticks: tick[t].numbering \in Nat
    BY DEF TypeOK, Runs, Absent, Numberings
  <2> QED
    BY <1>2, <1>3, <2>1, <2>2, <2>3 DEF SyncInv, NumberingsAreOld, Absent
<1>7. \A g \in Folders: Outdated(g) => Outdated(g)'
  <2>1. \A g \in Folders: drive[g] \in Numberings => drive[g] # n
    BY <1>1, <1>3 DEF SyncInv, NumberingsAreOld, Absent, Numberings, Paths
  <2> QED
    BY <1>1, <1>2, <2>1 DEF Outdated, TypeOK
<1>8. DropsOutdated'
  <2>1. \A t \in Ticks: tick[t].phase = "drop" => Here(t) \in Folders
    BY HereIsFolder DEF SyncInv
  <2>2. \A g \in Folders: drive[g] \in Numberings /\ imap[g] # drive[g] => imap'[g] # drive[g]
    BY <1>2, <1>7 DEF Outdated
  <2> QED
    BY <1>2, <2>1, <2>2 DEF SyncInv, DropsOutdated, Renumbered, Here
<1> QED
  BY <1>2, <1>5, <1>6, <1>7, <1>8
     DEF SyncInv, OneTick, Running, AtFolder, UpsertsNumbering,
         LeftOutIsOutdated, FoundIsLeftOut, StoppedMeansIdle

LEMMA ExchangeStep ==
  ASSUME TypeOK, SyncInv, NEW f \in Managed, MakeManaged(f)
  PROVE  (TypeOK /\ SyncInv)'
<1>1. Unsynced \notin Numberings /\ f \in Paths
  BY DEF Unsynced, Numberings, Paths
<1>2. drive' = [drive EXCEPT ![f] = Unsynced] /\ UNCHANGED <<imap, tick, changes, stop>>
  BY DEF MakeManaged
<1>3. TypeOK'
  BY <1>1, <1>2 DEF TypeOK, MakeManaged, clock
<1>4. \A g \in Folders: Outdated(g) => Outdated(g)'
  BY <1>1, <1>2 DEF Outdated, TypeOK, Paths
<1>5. NumberingsAreOld'
  BY <1>2 DEF TypeOK, SyncInv, NumberingsAreOld, Unsynced
<1>6. DropsOutdated'
  <2>1. \A t \in Ticks: tick[t].phase = "drop" => drive'[Here(t)] = drive[Here(t)]
    BY <1>2, HereIsFolder
       DEF MakeManaged, TypeOK, SyncInv, DropsOutdated, Renumbered, Absent, Numberings
  <2> QED
    BY <1>2, <2>1 DEF SyncInv, DropsOutdated, Renumbered, Here
<1> QED
  BY <1>2, <1>3, <1>4, <1>5, <1>6
     DEF SyncInv, OneTick, Running, AtFolder, UpsertsNumbering,
         LeftOutIsOutdated, FoundIsLeftOut, StoppedMeansIdle

LEMMA RestartStep ==
  ASSUME TypeOK, SyncInv, Restart
  PROVE  (TypeOK /\ SyncInv)'
<1>1. UNCHANGED <<imap, drive, changes, stop>> /\ \A t \in Ticks: tick'[t] = Idle
  BY DEF Restart
<1>2. TypeOK'
  <2>1. tick' \in [Ticks -> Runs]
    BY IdleType DEF Restart
  <2>2. faults' \in 0 .. MaxFaults
    BY FaultType DEF Restart
  <2> QED
    BY <2>1, <2>2 DEF Restart, TypeOK
<1>3. NumberingsAreOld'
  BY <1>1, IdleType DEF TypeOK, SyncInv, NumberingsAreOld, Absent
<1> QED
  BY <1>1, <1>2, <1>3, IdleType
     DEF SyncInv, OneTick, Running, AtFolder, UpsertsNumbering, DropsOutdated,
         LeftOutIsOutdated, FoundIsLeftOut, StoppedMeansIdle

-----------------------------------------------------------------------------
(* The steps of a tick                                                     *)

\* The invariant of one run.
Fits(run) ==
  /\ run.numbering <= changes + 1
  /\ run.phase \in {"status", "drop", "upsert", "passes"} => run.at \in 1 .. Len(run.list)
  /\ run.phase \in {"drop", "upsert"} => run.numbering # Absent
  /\ run.phase = "drop" => Renumbered(run.list[run.at], run.numbering)
  /\ run.phase \in {"status", "drop", "upsert", "passes", "drives", "prune"}
       => \A f \in Folders \ ToSet(run.list): Synced(f) => Outdated(f)
  /\ run.found \cap (Managed \cup ToSet(run.list)) = {}

LEMMA RunFits ==
  ASSUME SyncInv, NEW t \in Ticks
  PROVE  Fits(tick[t])
BY DEF SyncInv, NumberingsAreOld, AtFolder, UpsertsNumbering, DropsOutdated, Here, Renumbered,
       LeftOutIsOutdated, FoundIsLeftOut, Fits

\* A tick moves on alone: what is to be shown is about its own run.
LEMMA OwnStep ==
  ASSUME TypeOK, SyncInv, NEW t \in Ticks, Running(t), world' = world,
         drive' \in [Paths -> {Absent, Unsynced} \cup Numberings],
         \A f \in Paths: drive'[f] <= changes + 1,
         maintained' \in Folders \cup {None}, faults' \in 0 .. MaxFaults,
         NEW run \in Runs, tick' = [tick EXCEPT ![t] = run], Fits(run)'
  PROVE  (TypeOK /\ SyncInv)'
<1>1. UNCHANGED <<imap, changes, slot, fired, stop>>
  BY DEF world, clock
<1>2. tick'[t] = run /\ \A u \in Ticks \ {t}: tick'[u] = tick[u] /\ tick[u].phase = "none"
  BY DEF TypeOK, SyncInv, OneTick, Running
<1>3. OneTick'
  BY <1>2 DEF OneTick, Running
<1>4. NumberingsAreOld'
  BY <1>1, <1>2 DEF SyncInv, NumberingsAreOld, Fits
<1>5. AtFolder' /\ UpsertsNumbering' /\ DropsOutdated' /\ LeftOutIsOutdated' /\ FoundIsLeftOut'
  BY <1>2 DEF SyncInv, AtFolder, UpsertsNumbering, DropsOutdated, Here, LeftOutIsOutdated,
              FoundIsLeftOut, Fits
<1>6. StoppedMeansIdle'
  BY <1>1, <1>2 DEF SyncInv, StoppedMeansIdle, Running
<1>7. TypeOK'
  <2>1. tick' \in [Ticks -> Runs]
    BY DEF TypeOK
  <2> QED
    BY <1>1, <2>1 DEF TypeOK
<1> QED
  BY <1>3, <1>4, <1>5, <1>6, <1>7 DEF SyncInv

\* While a tick goes through its list, it writes to folders of the list only.
LEMMA ListFits ==
  ASSUME TypeOK, SyncInv, NEW t \in Ticks, world' = world,
         tick[t].phase \in {"status", "drop", "upsert", "passes"},
         \A f \in Folders \ ToSet(tick[t].list): drive'[f] = drive[f],
         NEW run \in Runs, run.list = tick[t].list, run.found = tick[t].found,
         run.numbering <= changes + 1,
         run.phase \in {"status", "drop", "upsert", "passes"} => run.at \in 1 .. Len(run.list),
         run.phase \in {"drop", "upsert"} => run.numbering # Absent,
         run.phase = "drop" => Renumbered(run.list[run.at], run.numbering)'
  PROVE  Fits(run)'
<1>1. UNCHANGED <<imap, changes>>
  BY DEF world
<1>2. \A f \in Folders \ ToSet(run.list): Synced(f) => Outdated(f)'
  BY <1>1, RunFits DEF Fits, Outdated
<1>3. run.found \cap (Managed \cup ToSet(run.list)) = {}
  BY RunFits DEF Fits
<1> QED
  BY <1>1, <1>2, <1>3 DEF Fits, Synced

\* The tick goes on with a folder, whatever the call did to Drive's copy of it.
LEMMA SameFolderStep ==
  ASSUME TypeOK, SyncInv, NEW t \in Ticks, world' = world,
         tick[t].phase \in {"status", "drop", "upsert", "passes"},
         NEW value \in {Absent, Unsynced} \cup Numberings, value <= changes + 1,
         drive' \in {drive, [drive EXCEPT ![Here(t)] = value]},
         maintained' \in Folders \cup {None}, faults' \in 0 .. MaxFaults,
         \/ Goto(t, "upsert") /\ tick[t].numbering # Absent
         \/ Goto(t, "passes")
         \/ NextFolder(t)
  PROVE  (TypeOK /\ SyncInv)'
<1>1. tick[t] \in Runs /\ tick[t].list \in Seq(Folders) /\ tick[t].at \in 1 .. Len(tick[t].list)
  BY DEF TypeOK, SyncInv, AtFolder, Runs
<1>2. Here(t) \in Paths /\ Here(t) \in ToSet(tick[t].list)
  BY HereIsFolder DEF SyncInv
<1>3. drive' \in [Paths -> {Absent, Unsynced} \cup Numberings]
  BY <1>2 DEF TypeOK
<1>4. \A f \in Paths: drive'[f] <= changes + 1
  BY <1>2 DEF TypeOK, SyncInv, NumberingsAreOld
<1>5. \A f \in Folders \ ToSet(tick[t].list): drive'[f] = drive[f]
  BY <1>2 DEF TypeOK, Paths
<1>6. tick[t].numbering <= changes + 1
  BY DEF SyncInv, NumberingsAreOld
<1>7. ASSUME NEW phase \in {"upsert", "passes", "drives"}, Goto(t, phase),
             phase = "upsert" => tick[t].numbering # Absent
      PROVE  (TypeOK /\ SyncInv)'
  <2>1. PICK run \in Runs: run = [tick[t] EXCEPT !.phase = phase]
    <3>1. [tick[t] EXCEPT !.phase = phase] \in Runs
      BY <1>1 DEF Runs, Phases
    <3> QED
      BY <3>1
  <2>2. /\ run.phase = phase /\ run.list = tick[t].list /\ run.at = tick[t].at
        /\ run.numbering = tick[t].numbering /\ run.found = tick[t].found
    BY <1>1, <2>1 DEF Runs
  <2>3. tick' = [tick EXCEPT ![t] = run]
    BY <1>7, <2>1 DEF Goto, TypeOK
  <2>4. Fits(run)'
    BY <1>1, <1>5, <1>6, <1>7, <2>1, <2>2, ListFits
  <2> QED
    BY <1>3, <1>4, <2>1, <2>3, <2>4, OwnStep DEF Running
<1>8. ASSUME tick[t].at < Len(tick[t].list),
             tick' = [tick EXCEPT ![t].phase = "status", ![t].at = @ + 1]
      PROVE  (TypeOK /\ SyncInv)'
  <2>1. PICK run \in Runs: run = [tick[t] EXCEPT !.phase = "status", !.at = @ + 1]
    <3>1. tick[t].at + 1 \in Nat
      BY <1>1
    <3>2. [tick[t] EXCEPT !.phase = "status", !.at = @ + 1] \in Runs
      BY <1>1, <3>1 DEF Runs, Phases
    <3> QED
      BY <3>2
  <2>2. /\ run.phase = "status" /\ run.list = tick[t].list /\ run.at = tick[t].at + 1
        /\ run.numbering = tick[t].numbering /\ run.found = tick[t].found
    BY <1>1, <2>1 DEF Runs
  <2>3. tick' = [tick EXCEPT ![t] = run]
    BY <1>8, <2>1 DEF TypeOK
  <2>4. run.at \in 1 .. Len(run.list)
    BY <1>1, <1>8, <2>2
  <2>5. Fits(run)'
    BY <1>5, <1>6, <2>1, <2>2, <2>4, ListFits
  <2> QED
    BY <1>3, <1>4, <2>1, <2>3, <2>5, OwnStep DEF Running
<1> QED
  BY <1>7, <1>8 DEF NextFolder

\* The tick is over.
LEMMA EndStep ==
  ASSUME TypeOK, SyncInv, NEW t \in Ticks, Running(t), world' = world, End(t),
         drive' \in [Paths -> {Absent, Unsynced} \cup Numberings],
         \A f \in Paths: drive'[f] <= changes + 1,
         maintained' = maintained, faults' \in 0 .. MaxFaults
  PROVE  (TypeOK /\ SyncInv)'
<1>1. PICK run \in Runs: run = Idle
  BY IdleType
<1>2. changes' \in Nat
  BY DEF TypeOK, world
<1>3. Fits(run)'
  <2>1. run.numbering <= changes' + 1
    BY <1>1, <1>2, IdleType DEF Absent
  <2>2. run.phase = "none" /\ run.found = {}
    BY <1>1, IdleType
  <2> QED
    BY <2>1, <2>2 DEF Fits
<1>4. maintained' \in Folders \cup {None}
  BY DEF TypeOK
<1> QED
  BY <1>1, <1>3, <1>4, OwnStep DEF End

LEMMA WorldOnly ==
  ASSUME TypeOK, SyncInv, UNCHANGED <<drive, maintained>>
  PROVE  /\ drive' \in [Paths -> {Absent, Unsynced} \cup Numberings]
         /\ \A f \in Paths: drive'[f] <= changes + 1
         /\ maintained' \in Folders \cup {None}
BY DEF TypeOK, SyncInv, NumberingsAreOld

LEMMA CallType ==
  ASSUME TypeOK, Succeed \/ Fault
  PROVE  faults' \in 0 .. MaxFaults
BY FaultType DEF TypeOK, Succeed

LEMMA EnsureMailboxStep ==
  ASSUME TypeOK, SyncInv, NEW t \in Ticks, EnsureMailbox(t)
  PROVE  (TypeOK /\ SyncInv)'
<1>1. Running(t) /\ world' = world /\ UNCHANGED <<drive, maintained>> /\ (Succeed \/ Fault)
  BY DEF EnsureMailbox, Running
<1>2. CASE End(t)
  BY <1>1, <1>2, WorldOnly, CallType, EndStep
<1>3. CASE Goto(t, "list")
  <2>1. tick[t] \in Runs
    BY DEF TypeOK
  <2>2. PICK run \in Runs: run = [tick[t] EXCEPT !.phase = "list"]
    <3>1. [tick[t] EXCEPT !.phase = "list"] \in Runs
      BY <2>1 DEF Runs, Phases
    <3> QED
      BY <3>1
  <2>3. /\ run.phase = "list" /\ run.list = tick[t].list
        /\ run.numbering = tick[t].numbering /\ run.found = tick[t].found
    BY <2>1, <2>2 DEF Runs
  <2>4. tick' = [tick EXCEPT ![t] = run]
    BY <1>3, <2>2 DEF Goto, TypeOK
  <2>5. Fits(run)'
    BY <1>1, <2>3, RunFits DEF Fits, world
  <2> QED
    BY <1>1, <2>4, <2>5, WorldOnly, CallType, OwnStep
<1> QED
  BY <1>2, <1>3 DEF EnsureMailbox

LEMMA ListFoldersStep ==
  ASSUME TypeOK, SyncInv, NEW t \in Ticks, ListFolders(t)
  PROVE  (TypeOK /\ SyncInv)'
<1>1. Running(t) /\ world' = world /\ UNCHANGED <<drive, maintained>> /\ (Succeed \/ Fault)
  BY DEF ListFolders, Running
<1>2. CASE End(t)
  BY <1>1, <1>2, WorldOnly, CallType, EndStep
<1>3. ASSUME NEW list \in Sortings(Filtered),
             tick' = [tick EXCEPT
               ![t] = [Tick(IF list = <<>> THEN "drives" ELSE "status", list, 1)
                         EXCEPT !.due = Due(list), !.crossed = tick[t].crossed]]
      PROVE  (TypeOK /\ SyncInv)'
  <2>1. PICK phase \in Phases: phase = IF list = <<>> THEN "drives" ELSE "status"
    BY DEF Phases
  <2>2. list \in Seq(Folders) /\ ToSet(list) = Filtered /\ Due(list) \in Nat
    BY SortingType
  <2>3. tick[t].crossed \in 0 .. MaxOverrun
    BY DEF TypeOK, Runs
  <2>4. PICK run \in Runs:
          run = [Tick(phase, list, 1) EXCEPT !.due = Due(list), !.crossed = tick[t].crossed]
    <3>1. PICK new \in Runs: new = Tick(phase, list, 1)
      BY <2>2, TickType
    <3>2. [new EXCEPT !.due = Due(list), !.crossed = tick[t].crossed] \in Runs
      BY <2>2, <2>3 DEF Runs
    <3> QED
      BY <3>1, <3>2
  <2>5. /\ run.phase = phase /\ run.list = list /\ run.at = 1
        /\ run.numbering = Absent /\ run.found = {}
    BY <2>4 DEF Tick
  <2>6. tick' = [tick EXCEPT ![t] = run]
    BY <1>3, <2>1, <2>4
  <2>7. run.phase = "status" => run.at \in 1 .. Len(run.list)
    BY <2>1, <2>2, <2>5
  <2>8. \A f \in Folders \ ToSet(list): Synced(f) => Outdated(f)'
    BY <1>1, <2>2 DEF Filtered, Outdated, Numberings, Absent, world
  <2>9. run.numbering <= changes' + 1
    BY <1>1, <2>5 DEF Absent, world, TypeOK
  <2>10. Fits(run)'
    BY <2>1, <2>5, <2>7, <2>8, <2>9 DEF Fits, Synced
  <2> QED
    BY <1>1, <2>6, <2>10, WorldOnly, CallType, OwnStep
<1> QED
  BY <1>2, <1>3 DEF ListFolders, ListFailed

LEMMA FolderStatusStep ==
  ASSUME TypeOK, SyncInv, NEW t \in Ticks, FolderStatus(t)
  PROVE  (TypeOK /\ SyncInv)'
<1> DEFINE f == Here(t)
<1>1. /\ tick[t].phase = "status" /\ Running(t) /\ world' = world
      /\ UNCHANGED <<drive, maintained>> /\ (Succeed \/ Fault)
  BY DEF FolderStatus, Running
<1>2. f \in Folders
  BY <1>1, HereIsFolder DEF SyncInv
<1>3. CASE NextFolder(t)
  <2>1. changes \in Nat
    BY DEF TypeOK
  <2>2. Absent \in {Absent, Unsynced} \cup Numberings /\ Absent <= changes + 1
    BY <2>1 DEF Absent
  <2> QED
    BY <1>1, <1>3, <2>2, WorldOnly, CallType, SameFolderStep
<1>4. ASSUME imap[f] # Absent,
             tick' = [tick EXCEPT
               ![t].phase = IF Rolled(f) THEN "drop" ELSE "upsert",
               ![t].numbering = imap[f]]
      PROVE  (TypeOK /\ SyncInv)'
  <2>1. tick[t] \in Runs /\ tick[t].at \in 1 .. Len(tick[t].list)
    BY <1>1 DEF TypeOK, SyncInv, AtFolder
  <2>2. imap[f] \in Numberings /\ imap[f] <= changes + 1
    BY <1>2, <1>4 DEF TypeOK, SyncInv, NumberingsAreOld
  <2>3. PICK phase \in {"upsert", "drop"}:
          phase = IF Rolled(f) THEN "drop" ELSE "upsert"
    OBVIOUS
  <2>4. PICK run \in Runs: run = [tick[t] EXCEPT !.phase = phase, !.numbering = imap[f]]
    <3>1. [tick[t] EXCEPT !.phase = phase, !.numbering = imap[f]] \in Runs
      BY <2>1, <2>2 DEF Runs, Phases
    <3> QED
      BY <3>1
  <2>5. /\ run.phase = phase /\ run.list = tick[t].list /\ run.at = tick[t].at
        /\ run.numbering = imap[f] /\ run.found = tick[t].found
    BY <2>1, <2>4 DEF Runs
  <2>6. tick' = [tick EXCEPT ![t] = run]
    BY <1>4, <2>3, <2>4 DEF TypeOK
  <2>7. run.phase = "drop" => Renumbered(run.list[run.at], run.numbering)'
    <3>1. drive[f] \in {Absent, Unsynced} \cup Numberings
      BY <1>2 DEF TypeOK, Paths
    <3> QED
      BY <1>1, <2>3, <2>5, <3>1 DEF Renumbered, Rolled, Here, world
  <2>8. Fits(run)'
    BY <1>1, <1>4, <2>1, <2>2, <2>5, <2>7, ListFits
  <2> QED
    BY <1>1, <2>6, <2>8, WorldOnly, CallType, OwnStep
<1> QED
  BY <1>3, <1>4 DEF FolderStatus

LEMMA DropFolderStep ==
  ASSUME TypeOK, SyncInv, NEW t \in Ticks, DropFolder(t)
  PROVE  (TypeOK /\ SyncInv)'
<1>1. /\ tick[t].phase = "drop" /\ world' = world /\ UNCHANGED maintained
      /\ (Succeed \/ Fault) /\ drive' \in {drive, [drive EXCEPT ![Here(t)] = Absent]}
      /\ (Goto(t, "upsert") \/ NextFolder(t))
  BY DEF DropFolder
<1>2. changes \in Nat /\ maintained' \in Folders \cup {None}
  BY <1>1 DEF TypeOK
<1>3. Absent <= changes + 1
  BY <1>2 DEF Absent
<1>4. faults' \in 0 .. MaxFaults
  BY <1>1, CallType
<1>5. tick[t].numbering # Absent
  BY <1>1 DEF SyncInv, UpsertsNumbering
<1> QED
  BY <1>1, <1>2, <1>3, <1>4, <1>5, SameFolderStep

LEMMA UpsertFolderStep ==
  ASSUME TypeOK, SyncInv, NEW t \in Ticks, UpsertFolder(t)
  PROVE  (TypeOK /\ SyncInv)'
<1>1. PICK value \in {Absent, Unsynced} \cup Numberings: value = tick[t].numbering
  BY DEF TypeOK, Runs
<1>2. /\ tick[t].phase = "upsert" /\ world' = world /\ UNCHANGED maintained
      /\ (Succeed \/ Fault) /\ drive' \in {drive, [drive EXCEPT ![Here(t)] = value]}
      /\ (Goto(t, "passes") \/ NextFolder(t))
  BY <1>1 DEF UpsertFolder
<1>3. value <= changes + 1
  BY <1>1 DEF SyncInv, NumberingsAreOld
<1>4. maintained' \in Folders \cup {None}
  BY <1>2 DEF TypeOK
<1>5. faults' \in 0 .. MaxFaults
  BY <1>2, CallType
<1> QED
  BY <1>2, <1>3, <1>4, <1>5, SameFolderStep

LEMMA SyncMessagesStep ==
  ASSUME TypeOK, SyncInv, NEW t \in Ticks, SyncMessages(t)
  PROVE  (TypeOK /\ SyncInv)'
<1>1. tick[t].phase = "passes" /\ world' = world /\ UNCHANGED drive /\ NextFolder(t)
  BY DEF SyncMessages
<1>2. changes \in Nat
  BY DEF TypeOK
<1>3. Absent <= changes + 1 /\ Absent \in {Absent, Unsynced} \cup Numberings
  BY <1>2 DEF Absent
<1>4. maintained' \in Folders \cup {None}
  BY <1>1, HereIsFolder DEF SyncInv, SyncMessages, TypeOK
<1>5. faults' \in 0 .. MaxFaults
  BY CallType DEF SyncMessages
<1> QED
  BY <1>1, <1>3, <1>4, <1>5, SameFolderStep

LEMMA ListDriveFoldersStep ==
  ASSUME TypeOK, SyncInv, NEW t \in Ticks, ListDriveFolders(t)
  PROVE  (TypeOK /\ SyncInv)'
<1> DEFINE found == {f \in Paths : drive[f] # Absent /\ ShouldPrune(f, tick[t].list)}
<1>1. /\ tick[t].phase = "drives" /\ Running(t) /\ world' = world
      /\ UNCHANGED <<drive, maintained>> /\ (Succeed \/ Fault)
  BY DEF ListDriveFolders, Running
<1>2. CASE End(t)
  BY <1>1, <1>2, WorldOnly, CallType, EndStep
<1>3. CASE tick' = [tick EXCEPT ![t].phase = "prune", ![t].found = found]
  <2>1. tick[t] \in Runs
    BY DEF TypeOK
  <2>2. PICK run \in Runs: run = [tick[t] EXCEPT !.phase = "prune", !.found = found]
    <3>1. [tick[t] EXCEPT !.phase = "prune", !.found = found] \in Runs
      BY <2>1 DEF Runs, Phases
    <3> QED
      BY <3>1
  <2>3. /\ run.phase = "prune" /\ run.list = tick[t].list
        /\ run.numbering = tick[t].numbering /\ run.found = found
    BY <2>1, <2>2 DEF Runs
  <2>4. tick' = [tick EXCEPT ![t] = run]
    BY <1>3, <2>2 DEF TypeOK
  <2>5. run.found \cap (Managed \cup ToSet(run.list)) = {}
    BY <2>3 DEF ShouldPrune
  <2>6. Fits(run)'
    BY <1>1, <2>3, <2>5, RunFits DEF Fits, Outdated, Synced, world
  <2> QED
    BY <1>1, <2>4, <2>6, WorldOnly, CallType, OwnStep
<1> QED
  BY <1>2, <1>3 DEF ListDriveFolders

LEMMA PruneFolderStep ==
  ASSUME TypeOK, SyncInv, NEW t \in Ticks, PruneFolder(t)
  PROVE  (TypeOK /\ SyncInv)'
<1>1. PICK f \in tick[t].found:
        /\ \/ Succeed /\ drive' = [drive EXCEPT ![f] = Absent]
           \/ Fault /\ UNCHANGED drive
        /\ End(t) \/ tick' = [tick EXCEPT ![t].found = @ \ {f}]
  BY DEF PruneFolder
<1>2. /\ tick[t].phase = "prune" /\ Running(t) /\ world' = world /\ UNCHANGED maintained
      /\ tick[t] \in Runs /\ f \in Paths /\ changes \in Nat
  BY DEF PruneFolder, Running, TypeOK, Runs
<1>3. drive' \in [Paths -> {Absent, Unsynced} \cup Numberings]
  BY <1>1, <1>2 DEF TypeOK
<1>4. \A g \in Paths: drive'[g] <= changes + 1
  BY <1>1, <1>2 DEF TypeOK, SyncInv, NumberingsAreOld, Absent
<1>5. maintained' \in Folders \cup {None}
  BY <1>2 DEF TypeOK
<1>6. faults' \in 0 .. MaxFaults
  BY <1>1, CallType
<1>7. CASE End(t)
  BY <1>2, <1>3, <1>4, <1>6, <1>7, EndStep
<1>8. CASE tick' = [tick EXCEPT ![t].found = @ \ {f}]
  <2>1. PICK run \in Runs: run = [tick[t] EXCEPT !.found = @ \ {f}]
    <3>1. [tick[t] EXCEPT !.found = @ \ {f}] \in Runs
      BY <1>2 DEF Runs
    <3> QED
      BY <3>1
  <2>2. /\ run.phase = "prune" /\ run.list = tick[t].list
        /\ run.numbering = tick[t].numbering /\ run.found \subseteq tick[t].found
    BY <1>2, <2>1 DEF Runs
  <2>3. tick' = [tick EXCEPT ![t] = run]
    BY <1>8, <2>1 DEF TypeOK
  <2>4. \A g \in Folders: Outdated(g) => Outdated(g)'
    BY <1>1, <1>2 DEF Outdated, TypeOK, Paths, world, Numberings, Absent
  <2>5. Fits(run)'
    BY <1>2, <2>2, <2>4, RunFits DEF Fits, Synced, world
  <2> QED
    BY <1>2, <1>3, <1>4, <1>5, <1>6, <2>3, <2>5, OwnStep
<1> QED
  BY <1>1, <1>7, <1>8

LEMMA RunSyncOnceStep ==
  ASSUME TypeOK, SyncInv, NEW t \in Ticks, RunSyncOnce(t)
  PROVE  (TypeOK /\ SyncInv)'
BY EnsureMailboxStep, ListFoldersStep, FolderStatusStep, DropFolderStep, UpsertFolderStep,
   SyncMessagesStep, ListDriveFoldersStep, PruneFolderStep
   DEF RunSyncOnce

-----------------------------------------------------------------------------
(* The theorems                                                            *)

LEMMA SyncInvariant == Spec => [](TypeOK /\ SyncInv)
<1>1. Init => TypeOK /\ SyncInv
  <2> SUFFICES ASSUME Init
               PROVE  TypeOK /\ SyncInv
    OBVIOUS
  <2>1. 1 \in Numberings /\ 0 \in 0 .. Period - 1 /\ 0 \in 0 .. MaxChanges /\ 0 \in 0 .. MaxFaults
    BY DEF Numberings
  <2>2. imap \in [Folders -> {Absent} \cup Numberings]
    BY <2>1 DEF Init
  <2>3. drive \in [Paths -> {Absent, Unsynced} \cup Numberings]
    BY <2>1 DEF Init
  <2>4. tick \in [Ticks -> Runs] /\ \A t \in Ticks: tick[t] = Idle
    BY IdleType DEF Init
  <2>5. TypeOK
    BY <2>1, <2>2, <2>3, <2>4 DEF Init, TypeOK
  <2>6. NumberingsAreOld
    <3>1. \A f \in Folders: imap[f] <= 1
      BY DEF Init, Absent
    <3>2. \A f \in Paths: drive[f] <= 1
      BY DEF Init, Absent, Unsynced
    <3> QED
      BY <2>4, <3>1, <3>2, IdleType DEF NumberingsAreOld, Init, Absent
  <2> QED
    BY <2>4, <2>5, <2>6, IdleType
       DEF Init, SyncInv, OneTick, Running, AtFolder, UpsertsNumbering, DropsOutdated,
           LeftOutIsOutdated, FoundIsLeftOut, StoppedMeansIdle
<1>2. TypeOK /\ SyncInv /\ [Next]_vars => (TypeOK /\ SyncInv)'
  <2> SUFFICES ASSUME TypeOK, SyncInv, [Next]_vars
               PROVE  (TypeOK /\ SyncInv)'
    OBVIOUS
  <2>1. CASE Fire \/ NextSlot \/ BeginStop \/ EndStop \/ Restart
    BY <2>1, FireStep, ClockStep, StopStep, RestartStep
  <2>2. CASE \E t \in Ticks: RunSyncOnce(t)
    BY <2>2, RunSyncOnceStep
  <2>3. CASE \E f \in Folders: ChangeFolder(f)
    BY <2>3, ServerStep
  <2>4. CASE \E f \in Managed: MakeManaged(f)
    BY <2>4, ExchangeStep
  <2>5. CASE UNCHANGED vars
    BY <2>5 DEF vars, TypeOK, SyncInv, OneTick, Running, AtFolder,
         UpsertsNumbering, DropsOutdated, NumberingsAreOld,
         LeftOutIsOutdated, FoundIsLeftOut, StoppedMeansIdle, Here, Outdated, Renumbered
  <2> QED
    BY <2>1, <2>2, <2>3, <2>4, <2>5 DEF Next
<1> QED
  BY <1>1, <1>2, PTL DEF Spec

\* A tick is about to delete the Drive folder.
Drops(t, f) ==
  \/ tick[t].phase = "drop" /\ f = Here(t)
  \/ tick[t].phase = "prune" /\ f \in tick[t].found

\* The two calls that take a folder from Drive.
LEMMA WhoDrops ==
  ASSUME TypeOK, SyncInv, [Next]_vars, NEW f \in Paths, drive[f] # Absent, drive'[f] = Absent
  PROVE  \E t \in Ticks: Drops(t, f)
<1>1. CASE Fire \/ NextSlot \/ BeginStop \/ EndStop \/ Restart \/ UNCHANGED vars
  BY <1>1 DEF Fire, NextSlot, BeginStop, EndStop, Restart, vars
<1>2. ASSUME NEW g \in Folders, ChangeFolder(g)
      PROVE  FALSE
  BY <1>2 DEF ChangeFolder
<1>3. ASSUME NEW g \in Managed, MakeManaged(g)
      PROVE  FALSE
  BY <1>3 DEF MakeManaged, TypeOK, Absent, Unsynced
<1>4. ASSUME NEW t \in Ticks, RunSyncOnce(t)
      PROVE  Drops(t, f)
  <2>1. CASE UNCHANGED drive
    BY <2>1
  <2>2. CASE DropFolder(t)
    BY <2>2 DEF DropFolder, TypeOK, Drops
  <2>3. CASE UpsertFolder(t)
    BY <2>3 DEF UpsertFolder, TypeOK, SyncInv, UpsertsNumbering
  <2>4. CASE PruneFolder(t)
    BY <2>4 DEF PruneFolder, TypeOK, Drops
  <2> QED
    BY <1>4, <2>1, <2>2, <2>3, <2>4
       DEF RunSyncOnce, EnsureMailbox, ListFolders, FolderStatus, SyncMessages, ListDriveFolders
<1> QED
  BY <1>1, <1>2, <1>3, <1>4 DEF Next

\* The values of the ticks, of Drive and of everything else are of their types.
THEOREM SyncTypeCorrect == Spec => []TypeOK
BY SyncInvariant, PTL

\* A folder that Exchange owns is deleted only in the drop of a tick that found it mirrored
\* under another UIDVALIDITY: by no prune (shouldPruneDriveFolder spares Review), and never
\* before an IMAP folder of its name was mirrored into it (sync.ts, the rollover).
THEOREM ManagedFoldersStay == Spec => ManagedKept
<1>1. TypeOK /\ SyncInv /\ [Next]_vars
        => [\A f \in Managed: drive[f] # Absent /\ drive'[f] = Absent =>
              \E t \in Ticks: /\ tick[t].phase = "drop" /\ f = Here(t)
                             /\ drive[f] \in Numberings
                             /\ tick[t].numbering \notin {Absent, drive[f]}]_vars
  <2> SUFFICES ASSUME TypeOK, SyncInv, [Next]_vars,
                      NEW f \in Managed, drive[f] # Absent, drive'[f] = Absent
               PROVE  \E t \in Ticks: /\ tick[t].phase = "drop" /\ f = Here(t)
                                      /\ drive[f] \in Numberings
                                      /\ tick[t].numbering \notin {Absent, drive[f]}
    OBVIOUS
  <2>1. f \in Paths
    BY DEF Paths
  <2>2. PICK t \in Ticks: Drops(t, f)
    BY <2>1, WhoDrops
  <2>3. CASE tick[t].phase = "drop" /\ f = Here(t)
    BY <2>3 DEF SyncInv, DropsOutdated, Renumbered, UpsertsNumbering
  <2>4. CASE tick[t].phase = "prune" /\ f \in tick[t].found
    BY <2>4 DEF SyncInv, FoundIsLeftOut
  <2> QED
    BY <2>2, <2>3, <2>4 DEF Drops
<1> QED
  BY <1>1, SyncInvariant, PTL DEF Spec, ManagedKept

\* Neither a folder that was renumbered nor one that LIST left out is deleted from Drive
\* while IMAP has it under the number that Drive mirrors, and the allowlist names it.
THEOREM LiveFoldersStay == Spec => NoLiveFolderDropped
<1>1. TypeOK /\ SyncInv /\ [Next]_vars
        => [\A f \in Folders: drive[f] \in Numberings /\ drive'[f] = Absent
              => imap[f] # drive[f] \/ ~Synced(f)]_vars
  <2> SUFFICES ASSUME TypeOK, SyncInv, [Next]_vars,
                      NEW f \in Folders, drive[f] \in Numberings, drive'[f] = Absent, Synced(f)
               PROVE  imap[f] # drive[f]
    OBVIOUS
  <2>1. f \in Paths /\ drive[f] # Absent
    BY DEF Paths, Numberings, Absent
  <2>2. PICK t \in Ticks: Drops(t, f)
    BY <2>1, WhoDrops
  <2>3. CASE tick[t].phase = "drop" /\ f = Here(t)
    BY <2>3 DEF SyncInv, DropsOutdated, Renumbered
  <2>4. CASE tick[t].phase = "prune" /\ f \in tick[t].found
    <3>1. f \notin ToSet(tick[t].list)
      BY <2>4 DEF SyncInv, FoundIsLeftOut
    <3> QED
      BY <2>4, <3>1 DEF SyncInv, LeftOutIsOutdated, Outdated
  <2> QED
    BY <2>2, <2>3, <2>4 DEF Drops
<1> QED
  BY <1>1, SyncInvariant, PTL DEF Spec, NoLiveFolderDropped

\* Once stop() has returned, no tick makes another call and no tick begins.
THEOREM StopIsFinal == Spec => NoTickAfterStop
<1>1. TypeOK /\ SyncInv /\ [Next]_vars
        => [stop = "stopped" =>
              /\ UNCHANGED <<tick, maintained>>
              /\ \A f \in Paths: drive'[f] # drive[f] => f \in Managed /\ drive[f] = Absent]_vars
  <2> SUFFICES ASSUME TypeOK, SyncInv, [Next]_vars, stop = "stopped"
               PROVE  UNCHANGED <<tick, maintained>>
                      /\ \A f \in Paths: drive'[f] # drive[f] => f \in Managed /\ drive[f] = Absent
    OBVIOUS
  <2>1. \A t \in Ticks: ~Running(t)
    BY DEF SyncInv, StoppedMeansIdle
  <2>2. CASE NextSlot
    BY <2>1, <2>2 DEF NextSlot, TypeOK
  <2>3. ASSUME NEW t \in Ticks, RunSyncOnce(t)
        PROVE  FALSE
    BY <2>1, <2>3
       DEF Running, RunSyncOnce, EnsureMailbox, ListFolders, FolderStatus, DropFolder,
           UpsertFolder, SyncMessages, ListDriveFolders, PruneFolder
  <2>4. CASE \E f \in Folders: ChangeFolder(f)
    BY <2>4 DEF ChangeFolder
  <2>5. CASE \E f \in Managed: MakeManaged(f)
    BY <2>5 DEF MakeManaged, TypeOK, Paths
  <2>6. CASE UNCHANGED vars
    BY <2>6 DEF vars
  <2> QED
    BY <2>2, <2>3, <2>4, <2>5, <2>6 DEF Next, Fire, BeginStop, EndStop, Restart
<1> QED
  BY <1>1, SyncInvariant, PTL DEF Spec, NoTickAfterStop

=============================================================================
