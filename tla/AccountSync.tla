---------------------------- MODULE AccountSync ----------------------------
(***************************************************************************)
(* The ticks of one account: the watcher's timer (src/src/sync/watcher.ts) *)
(* and runSyncOnce (src/src/sync/sync.ts), which walks the folders of the  *)
(* account and then prunes the Drive folders IMAP does not list any more.  *)
(* What a tick does inside a folder is FolderSync; here a folder is its    *)
(* UIDVALIDITY.  Accounts share nothing, and one process runs the watcher. *)
(***************************************************************************)
EXTENDS Integers, Sequences, SequencesExt

CONSTANTS Folders,    \* the paths IMAP folders of the account may have
          Position,   \* place of each in the answer of LIST
          Priority,   \* folderPriority of each
          Allowed,    \* watcher.folders; all when empty
          Managed,    \* PLATFORM_MANAGED_FOLDER_IDS
          Ticks,      \* names for the runs of runForAccount
          Period,     \* bound: intervals are counted modulo Period
          MaxOverrun, \* bound: intervals that may begin during one tick
          MaxChanges, \* bound: folders made, removed or renumbered in IMAP
          MaxFaults,  \* bound: failed calls and crashes
          None        \* no folder

ASSUME ConstantsAssumption ==
  /\ IsFiniteSet(Folders)
  /\ Position \in [Folders -> Nat]
  /\ \A f, g \in Folders: Position[f] = Position[g] => f = g
  /\ Priority \in [Folders -> 0 .. 5]
  /\ Allowed \subseteq Folders
  /\ Period \in Nat \ {0}
  /\ \A n \in 1 .. Cardinality(Folders): Period % n = 0
  /\ {MaxOverrun, MaxChanges, MaxFaults} \subseteq Nat

VARIABLES imap,       \* UIDVALIDITY of each folder of the server, or Absent
          drive,      \* that of the sync state in the metadata of each Drive folder
          tick,       \* the runs
          maintained, \* the folder whose maintenance was the last to be done
          slot,       \* the current interval: now / interval_ms
          fired,      \* the timer has fired in it
          stop,       \* where stop() stands
          changes, faults

vars == <<imap, drive, tick, maintained, slot, fired, stop, changes, faults>>

clock == <<slot, fired>>

Paths == Folders \cup Managed

Absent == 0

\* A Drive folder without a sync state in its metadata.
Unsynced == -1

Numberings == 1 .. MaxChanges + 1

-----------------------------------------------------------------------------
(* Ticks                                                                   *)

Tick(phase, list, at) ==
  [phase |-> phase, list |-> list, at |-> at, due |-> 0, numbering |-> Absent,
   found |-> {}, crossed |-> 0]

Idle == Tick("none", <<>>, 0)

Running(t) == tick[t].phase # "none"

\* The folder a tick is at.
Here(t) == tick[t].list[tick[t].at]

Goto(t, phase) == tick' = [tick EXCEPT ![t].phase = phase]

End(t) == tick' = [tick EXCEPT ![t] = Idle]

\* The loop goes on with the next folder, whatever became of this one.
NextFolder(t) ==
  IF tick[t].at < Len(tick[t].list)
    THEN tick' = [tick EXCEPT ![t].phase = "status", ![t].at = @ + 1]
    ELSE Goto(t, "drives")

Fault == faults < MaxFaults /\ faults' = faults + 1

Succeed == UNCHANGED faults

world == <<imap, changes, clock, stop>>

-----------------------------------------------------------------------------
(* The watcher                                                             *)

\* An account whose last tick is still under way is skipped, not queued.
MayRun == \A t \in Ticks: ~Running(t)

\* The timer fires once in each interval until stop() clears it.
Fire ==
  /\ ~fired
  /\ stop = "no"
  /\ fired' = TRUE
  /\ IF MayRun
       THEN LET free == CHOOSE t \in Ticks: ~Running(t)
            IN  tick' = [tick EXCEPT ![free] = Tick("mailbox", <<>>, 0)]
       ELSE UNCHANGED tick
  /\ UNCHANGED <<imap, drive, maintained, slot, stop, changes, faults>>

NextSlot ==
  /\ fired \/ stop # "no"
  /\ \A t \in Ticks: Running(t) => tick[t].crossed < MaxOverrun
  /\ slot' = (slot + 1) % Period
  /\ fired' = FALSE
  /\ tick' = [t \in Ticks |-> IF Running(t) THEN [tick[t] EXCEPT !.crossed = @ + 1]
                                            ELSE tick[t]]
  /\ UNCHANGED <<imap, drive, maintained, stop, changes, faults>>

\* Mutant: stop() only clears the timer.
NothingAwaited == TRUE

\* stop() awaits the ticks in flight.
Drained == \A t \in Ticks: ~Running(t)

BeginStop ==
  /\ stop = "no"
  /\ stop' = "draining"
  /\ UNCHANGED <<imap, drive, tick, maintained, clock, changes, faults>>

EndStop ==
  /\ stop = "draining"
  /\ Drained
  /\ stop' = "stopped"
  /\ UNCHANGED <<imap, drive, tick, maintained, clock, changes, faults>>

-----------------------------------------------------------------------------
(* runSyncOnce                                                             *)

EnsureMailbox(t) ==
  /\ tick[t].phase = "mailbox"
  /\ \/ Succeed /\ Goto(t, "list")
     \/ Fault /\ End(t)
  /\ UNCHANGED <<drive, maintained, world>>

Before(f, g) ==
  \/ Priority[f] < Priority[g]
  \/ Priority[f] = Priority[g] /\ Position[f] < Position[g]

Synced(f) == Allowed = {} \/ f \in Allowed

Filtered == {f \in Folders : imap[f] # Absent /\ Synced(f)}

\* sortFoldersByPriority
Sortings(S) ==
  {list \in [1 .. Cardinality(S) -> S] :
     ToSet(list) = S /\ \A i, j \in DOMAIN list: i < j => Before(list[i], list[j])}

\* Mutant: the first index is taken for 0.
DueFromZero(list) == IF list = <<>> THEN 0 ELSE slot % Len(list)

\* maintenanceIndex, counted from 1
Due(list) == IF list = <<>> THEN 0 ELSE (slot % Len(list)) + 1

\* Mutant: a LIST that failed is taken for an empty one.
EmptyList(t) == Goto(t, "drives")

ListFailed(t) == End(t)

\* The index is computed when LIST has answered.
ListFolders(t) ==
  /\ tick[t].phase = "list"
  /\ \/ /\ Succeed
        /\ \E list \in Sortings(Filtered):
             tick' = [tick EXCEPT
               ![t] = [Tick(IF list = <<>> THEN "drives" ELSE "status", list, 1)
                         EXCEPT !.due = Due(list), !.crossed = tick[t].crossed]]
     \/ Fault /\ ListFailed(t)
  /\ UNCHANGED <<drive, maintained, world>>

\* Mutant: a folder without a sync state counts as renumbered.
RolledUnsynced(f) == drive[f] \notin {Absent, imap[f]}

\* The sync state in the metadata has another UIDVALIDITY.
Rolled(f) == drive[f] \notin {Absent, Unsynced, imap[f]}

\* folderStatus and getFolder.
FolderStatus(t) ==
  LET f == Here(t)
  IN  /\ tick[t].phase = "status"
      /\ \/ /\ Succeed
            /\ imap[f] # Absent
            /\ tick' = [tick EXCEPT
                 ![t].phase = IF Rolled(f) THEN "drop" ELSE "upsert",
                 ![t].numbering = imap[f]]
         \/ (IF imap[f] = Absent THEN Succeed ELSE Fault) /\ NextFolder(t)
      /\ UNCHANGED <<drive, maintained, world>>

\* The folder was renumbered.  A failed call may have had its effect.
DropFolder(t) ==
  LET f == Here(t)
  IN  /\ tick[t].phase = "drop"
      /\ \/ /\ Succeed
            /\ drive' = [drive EXCEPT ![f] = Absent]
            /\ Goto(t, "upsert")
         \/ /\ Fault
            /\ drive' \in {drive, [drive EXCEPT ![f] = Absent]}
            /\ NextFolder(t)
      /\ UNCHANGED <<maintained, world>>

UpsertFolder(t) ==
  LET f == Here(t)
      written == [drive EXCEPT ![f] = tick[t].numbering]
  IN  /\ tick[t].phase = "upsert"
      /\ \/ Succeed /\ drive' = written /\ Goto(t, "passes")
         \/ Fault /\ drive' \in {drive, written} /\ NextFolder(t)
      /\ UNCHANGED <<maintained, world>>

\* The passes over the messages; maintenance is the last, for one folder of the tick.
SyncMessages(t) ==
  LET f == Here(t)
  IN  /\ tick[t].phase = "passes"
      /\ \/ /\ Succeed
            /\ imap[f] # Absent
            /\ maintained' = IF tick[t].at = tick[t].due THEN f ELSE maintained
         \/ /\ IF imap[f] = Absent THEN Succeed ELSE Fault
            /\ UNCHANGED maintained
      /\ NextFolder(t)
      /\ UNCHANGED <<drive, world>>

\* Mutants: the folders Exchange owns are not spared; the allowlist is not considered.
ShouldPruneAny(f, list) == f \notin ToSet(list)
ShouldPruneUnlisted(f, list) ==
  f \notin ToSet(list) \cup {g \in Folders : imap[g] # Absent} \cup Managed

\* shouldPruneDriveFolder
ShouldPrune(f, list) == f \notin ToSet(list) \cup Managed

ListDriveFolders(t) ==
  LET found == {f \in Paths : drive[f] # Absent /\ ShouldPrune(f, tick[t].list)}
  IN  /\ tick[t].phase = "drives"
      /\ \/ /\ Succeed
            /\ IF found = {}
                 THEN End(t)
                 ELSE tick' = [tick EXCEPT ![t].phase = "prune", ![t].found = found]
         \/ Fault /\ End(t)
      /\ UNCHANGED <<drive, maintained, world>>

\* A failed call leaves the folder, or has had its effect.
PruneFolder(t) ==
  /\ tick[t].phase = "prune"
  /\ \E f \in tick[t].found:
       /\ \/ Succeed /\ drive' = [drive EXCEPT ![f] = Absent]
          \/ Fault /\ UNCHANGED drive
       /\ IF tick[t].found = {f}
            THEN End(t)
            ELSE tick' = [tick EXCEPT ![t].found = @ \ {f}]
  /\ UNCHANGED <<maintained, world>>

RunSyncOnce(t) ==
  \/ EnsureMailbox(t)
  \/ ListFolders(t)
  \/ FolderStatus(t)
  \/ DropFolder(t)
  \/ UpsertFolder(t)
  \/ SyncMessages(t)
  \/ ListDriveFolders(t)
  \/ PruneFolder(t)

-----------------------------------------------------------------------------
(* The server, Exchange and crashes, external: folders are made, removed   *)
(* and renumbered; Exchange makes its own Drive folders; a process that    *)
(* exits is started again and ticks at once.                               *)

ChangeFolder(f) ==
  /\ changes < MaxChanges
  /\ changes' = changes + 1
  /\ \E n \in {Absent, changes + 2}:
       n # imap[f] /\ imap' = [imap EXCEPT ![f] = n]
  /\ UNCHANGED <<drive, tick, maintained, clock, stop, faults>>

MakeManaged(f) ==
  /\ drive[f] = Absent
  /\ drive' = [drive EXCEPT ![f] = Unsynced]
  /\ UNCHANGED <<imap, tick, maintained, clock, stop, changes, faults>>

Restart ==
  /\ stop = "no"
  /\ Fault
  /\ tick' = [t \in Ticks |-> Idle]
  /\ fired' = FALSE
  /\ UNCHANGED <<imap, drive, maintained, slot, stop, changes>>

-----------------------------------------------------------------------------

\* Drive may hold folders of an earlier configuration.  Exchange's own have a sync state only
\* where an IMAP folder has their name.
Init ==
  /\ imap \in [Folders -> {Absent, 1}]
  /\ drive \in [Paths -> {Absent, Unsynced, 1}]
  /\ \A f \in Paths \ Managed: drive[f] # Unsynced
  /\ \A f \in Managed \ Folders: drive[f] # 1
  /\ tick = [t \in Ticks |-> Idle]
  /\ maintained = None
  /\ slot = 0
  /\ fired = FALSE
  /\ stop = "no"
  /\ changes = 0
  /\ faults = 0

Next ==
  \/ Fire
  \/ NextSlot
  \/ BeginStop
  \/ EndStop
  \/ \E t \in Ticks: RunSyncOnce(t)
  \/ \E f \in Folders: ChangeFolder(f)
  \/ \E f \in Managed: MakeManaged(f)
  \/ Restart

Spec == Init /\ [][Next]_vars

\* Time passes, the timer fires, and each call of a tick ends.
Fairness ==
  /\ WF_vars(Fire)
  /\ WF_vars(NextSlot)
  /\ WF_vars(EndStop)
  /\ \A t \in Ticks: WF_vars(RunSyncOnce(t))

FairSpec == Spec /\ Fairness

-----------------------------------------------------------------------------
(* Properties                                                              *)

Phases ==
  {"none", "mailbox", "list", "status", "drop", "upsert", "passes", "drives", "prune"}

Runs ==
  [phase: Phases, list: Seq(Folders), at: Nat, due: Nat,
   numbering: {Absent} \cup Numberings, found: SUBSET Paths, crossed: 0 .. MaxOverrun]

TypeOK ==
  /\ imap \in [Folders -> {Absent} \cup Numberings]
  /\ drive \in [Paths -> {Absent, Unsynced} \cup Numberings]
  /\ tick \in [Ticks -> Runs]
  /\ maintained \in Folders \cup {None}
  /\ slot \in 0 .. Period - 1
  /\ fired \in BOOLEAN
  /\ stop \in {"no", "draining", "stopped"}
  /\ changes \in 0 .. MaxChanges
  /\ faults \in 0 .. MaxFaults

\* A folder Exchange owns is never pruned, and as long as nothing of IMAP was mirrored into
\* it, never deleted at all.  The one way to lose it, drafts and all, is an IMAP folder of
\* its name: once that was mirrored into it, a tick that finds another UIDVALIDITY drops it.
ManagedKept ==
  [][\A f \in Managed: drive[f] # Absent /\ drive'[f] = Absent =>
       \E t \in Ticks: /\ tick[t].phase = "drop" /\ f = Here(t)
                      /\ drive[f] \in Numberings
                      /\ tick[t].numbering \notin {Absent, drive[f]}]_vars

\* Whatever fails, and however folders come and go during a tick, a mirrored folder
\* is deleted only when the numbering it mirrors is gone from the server, or the
\* allowlist does not name it.
NoLiveFolderDropped ==
  [][\A f \in Folders:
       drive[f] \in Numberings /\ drive'[f] = Absent
         => imap[f] # drive[f] \/ ~Synced(f)]_vars

\* "never tear state down mid-batch": once stop() has returned, and the pool is being
\* closed, no tick makes a call any more and none begins; Drive gets folders from Exchange
\* only.
NoTickAfterStop ==
  [][stop = "stopped" =>
       /\ UNCHANGED <<tick, maintained>>
       /\ \A f \in Paths: drive'[f] # drive[f] => f \in Managed /\ drive[f] = Absent]_vars

\* Once IMAP rests, Drive gets to have the folders of the allowlist that are in
\* IMAP, under their numbering, and no others but those Exchange owns.
FoldersConverge ==
  \/ <>[](\A f \in Folders: IF imap[f] # Absent /\ Synced(f)
                              THEN drive[f] = imap[f] ELSE drive[f] = Absent \/ f \in Managed)
  \/ <>(stop # "no")

\* The rotation gives each folder that stays its maintenance again and again, as long
\* as ticks end within their interval.  (Ticks that do not may meet the same half of an
\* even number of folders for ever.)
MaintenanceFair ==
  \A f \in Folders:
    <>[](imap[f] # Absent /\ Synced(f) /\ \A t \in Ticks: tick[t].crossed = 0)
      => []<>(maintained = f) \/ <>(stop # "no")

=============================================================================
