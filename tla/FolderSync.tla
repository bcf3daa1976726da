----------------------------- MODULE FolderSync -----------------------------
(***************************************************************************)
(* Mirroring of the INBOX of one account into Drive: syncFolder of         *)
(* src/src/sync/sync.ts, tick after tick, against an IMAP mailbox that     *)
(* changes under it.  Each call to IMAP or Drive is one step; what the     *)
(* code keeps in local variables is lost when the process stops.           *)
(***************************************************************************)
EXTENDS Naturals, FiniteSets

CONSTANTS BatchSize,       \* BATCH_SIZE
          RecentFirst,     \* recent_first.enabled
          RecentWindow,    \* recent_first.initial_recent_window
          BackfillWindow,  \* recent_first.backfill_window_per_tick
          FlagWindow,      \* flag_reconcile_window
          SearchMayFail,   \* whether the IMAP SEARCH may answer false
          MaxUid,          \* bound: UIDs the server gives out in a generation
          MaxGen,          \* bound: UIDVALIDITY generations
          MaxFaults        \* bound: crashes and failed calls

ASSUME ConstantsAssumption ==
  /\ BatchSize \in Nat \ {0} /\ RecentWindow \in Nat \ {0}
  /\ BackfillWindow \in Nat /\ FlagWindow \in Nat
  /\ MaxUid \in Nat /\ MaxGen \in Nat \ {0} /\ MaxFaults \in Nat
  /\ RecentFirst \in BOOLEAN /\ SearchMayFail \in BOOLEAN

VARIABLES gen,        \* UIDVALIDITY of the mailbox
          box,        \* UIDs of the messages in it
          next,       \* UIDNEXT
          folder,     \* metadata of the Drive folder: the durable checkpoint
          rows,       \* rows of the Drive folder
          published,  \* externalIds announced as exchange.inbox.created
          history,    \* messages already there when their generation was opened
          pc,         \* where the tick stands
          tick,       \* its local variables
          state,      \* its copy of the checkpoint
          faults

vars == <<gen, box, next, folder, rows, published, history, pc, tick, state,
          faults>>

server == <<gen, box, next>>
drive == <<folder, rows, published, history>>

-----------------------------------------------------------------------------

Uids == 1 .. MaxUid

Greater(a, b) == IF a > b THEN a ELSE b
Lesser(a, b) == IF a < b THEN a ELSE b

\* SyncState, without what only reports use.  legacy: written before v2, with
\* lastSyncedUid only.  backfill = 0 is a null backfillBeforeUid, uv = 0 is a
\* folder that does not exist or has no metadata.
Checkpoints == [uv: Nat, forward: Nat, backfill: Nat, legacy: BOOLEAN]

NoFolder == [uv |-> 0, forward |-> 0, backfill |-> 0, legacy |-> FALSE]

\* A row: its externalId "uv:uid" and the generation its content comes from.
Rows == [uv: Nat, uid: Nat, gen: Nat]

Ids(rs) == {<<r.uv, r.uid>> : r \in rs}

Ticks == [uv: Nat, next: Nat, maint: BOOLEAN, boot: BOOLEAN, publish: BOOLEAN,
          mode: {"forward", "backfill"}, lo: Nat \ {0}, hi: Nat, seen: SUBSET Nat,
          seenGen: Nat, durable: Nat, moved: BOOLEAN]

NoTick == [uv |-> 0, next |-> 1, maint |-> FALSE, boot |-> FALSE,
           publish |-> FALSE, mode |-> "forward", lo |-> 1, hi |-> 0,
           seen |-> {}, seenGen |-> 0, durable |-> 0, moved |-> FALSE]

Pcs == {"idle", "folder", "drop", "open", "fetch", "upsert", "checkpoint",
        "recon", "patch", "list", "prune"}

Fault == faults < MaxFaults /\ faults' = faults + 1

\* syncFolder returns, or the process stops: its local variables are gone.
Leave ==
  /\ pc' = "idle"
  /\ tick' = NoTick
  /\ state' = NoFolder

\* An error return.  finishWithError also writes the checkpoint as it stands,
\* which the folder already holds.
Fail == Fault /\ Leave

\* Mutant: externalIds are made with the UIDVALIDITY of the moment.
UpsertedLive(uids, content) ==
  {r \in rows : ~(r.uv = gen /\ r.uid \in uids)}
    \cup {[uv |-> gen, uid |-> u, gen |-> content] : u \in uids}

\* upsertMessages replaces whole rows, found by their externalId.
Upserted(uids, content) ==
  {r \in rows : ~(r.uv = tick.uv /\ r.uid \in uids)}
    \cup {[uv |-> tick.uv, uid |-> u, gen |-> content] : u \in uids}

-----------------------------------------------------------------------------
(* The order of the passes over the folder.                                *)

Latest == tick.next - 1

RecentFrom == IF tick.next > RecentWindow THEN Greater(1, tick.next - RecentWindow)
              ELSE 1

NeedsRecentBootstrap ==
  /\ RecentFirst
  /\ Latest >= 1
  /\ state = NoFolder \/ (state.legacy /\ state.forward < Latest)

\* The checkpoint a tick writes before it fetches anything.
Opened ==
  LET from == IF NeedsRecentBootstrap /\ RecentFrom > 1
              THEN RecentFrom ELSE state.backfill
  IN  [uv |-> tick.uv, forward |-> state.forward, backfill |-> from,
       legacy |-> FALSE]

\* Mutant: the bootstrap announces, and later mail is not announced.
ForwardPassSwapped(boot) ==
  [tick EXCEPT !.boot = boot, !.publish = boot, !.mode = "forward",
               !.lo = IF boot THEN RecentFrom ELSE state.forward + 1,
               !.hi = Latest]

\* Forward: the recent window on a bootstrap, else all UIDs past the checkpoint.
\* Only the latter announces.
ForwardPass(boot) ==
  [tick EXCEPT !.boot = boot, !.publish = ~boot, !.mode = "forward",
               !.lo = IF boot THEN RecentFrom ELSE state.forward + 1,
               !.hi = Latest]

\* Mutant: the last window of old messages is never due.
BackfillDueFullWindow(t, s) ==
  /\ t.mode = "forward"
  /\ t.next > 1
  /\ t.maint /\ ~t.moved /\ ~t.boot
  /\ RecentFirst
  /\ BackfillWindow > 0
  /\ s.backfill > BackfillWindow + 1

BackfillDue(t, s) ==
  /\ t.mode = "forward"
  /\ t.next > 1
  /\ t.maint /\ ~t.moved /\ ~t.boot
  /\ RecentFirst
  /\ BackfillWindow > 0
  /\ s.backfill > 1

BackfillPass(t, s) ==
  [t EXCEPT !.publish = FALSE, !.mode = "backfill",
            !.lo = IF s.backfill > BackfillWindow
                   THEN s.backfill - BackfillWindow ELSE 1,
            !.hi = s.backfill - 1]

ReconDue(t, s) == t.maint /\ ~t.moved /\ FlagWindow > 0 /\ s.forward > 0

\* What comes after the ranges done so far, for the locals t and checkpoint s.
Continue(t, s) ==
  \/ t.lo <= t.hi /\ pc' = "fetch" /\ tick' = t /\ state' = s
  \/ /\ t.lo > t.hi
     /\ BackfillDue(t, s)
     /\ pc' = "fetch" /\ tick' = BackfillPass(t, s) /\ state' = s
  \/ /\ t.lo > t.hi /\ ~BackfillDue(t, s) /\ ReconDue(t, s)
     /\ pc' = "recon" /\ tick' = t /\ state' = s
  \/ /\ t.lo > t.hi /\ ~BackfillDue(t, s) /\ ~ReconDue(t, s)
     /\ IF t.maint THEN pc' = "list" /\ tick' = t /\ state' = s ELSE Leave

-----------------------------------------------------------------------------
(* The tick                                                                *)

\* folderStatus.  Its failure ends the tick before anything has happened.
ReadStatus(maint) ==
  /\ pc = "idle"
  /\ tick' = [NoTick EXCEPT !.uv = gen, !.next = next, !.maint = maint]
  /\ pc' = "folder"
  /\ UNCHANGED <<server, drive, state, faults>>

ReadFolder ==
  /\ pc = "folder"
  /\ \/ /\ state' = folder
        /\ pc' = IF folder # NoFolder /\ folder.uv # tick.uv THEN "drop" ELSE "open"
        /\ UNCHANGED <<tick, faults>>
     \/ Fail
  /\ UNCHANGED <<server, drive>>

\* UIDVALIDITY rolled over: the folder goes, with its rows.
DropFolder ==
  LET Dropped == folder' = NoFolder /\ rows' = {}
  IN  /\ pc = "drop"
      /\ \/ Dropped /\ state' = NoFolder /\ pc' = "open" /\ UNCHANGED <<tick, faults>>
         \/ Fail /\ (Dropped \/ UNCHANGED <<folder, rows>>)
      /\ UNCHANGED <<server, published, history>>

OpenFolder ==
  LET Written == /\ folder' = Opened
                 /\ history' = IF NeedsRecentBootstrap
                               THEN history \cup ({tick.uv} \X (1 .. Latest))
                               ELSE history
  IN  /\ pc = "open"
      /\ \/ /\ Written
            /\ Continue(ForwardPass(NeedsRecentBootstrap), Opened)
            /\ UNCHANGED faults
         \/ Fail /\ (Written \/ UNCHANGED <<folder, history>>)
      /\ UNCHANGED <<server, rows, published>>

From == IF tick.mode = "forward" THEN tick.lo
        ELSE IF tick.hi >= tick.lo + BatchSize THEN tick.hi - BatchSize + 1 ELSE tick.lo

To == IF tick.mode = "forward" THEN Lesser(tick.lo + BatchSize - 1, tick.hi) ELSE tick.hi

\* fetchMetadataRange.  durable is the UID the server answered last, or, when
\* the range is empty, its far end.
FetchBatch ==
  LET found == {u \in box : From <= u /\ u <= To}
      last == IF found # {} THEN found
              ELSE {IF tick.mode = "forward" THEN To ELSE From}
  IN  /\ pc = "fetch"
      /\ \/ /\ \E u \in last:
                 tick' = [tick EXCEPT !.seen = found, !.seenGen = gen, !.durable = u]
            /\ pc' = IF found = {} THEN "checkpoint" ELSE "upsert"
            /\ UNCHANGED <<state, faults>>
         \/ Fail
      /\ UNCHANGED <<server, drive>>

UpsertBatch ==
  LET Written == /\ rows' = Upserted(tick.seen, tick.seenGen)
                 /\ published' = IF tick.publish
                                 THEN published \cup ({tick.uv} \X tick.seen)
                                 ELSE published
  IN  /\ pc = "upsert"
      /\ \/ /\ Written
            /\ tick' = [tick EXCEPT !.moved = @ \/ tick.mode = "forward"]
            /\ pc' = "checkpoint"
            /\ UNCHANGED <<state, faults>>
         \/ Fail /\ (Written \/ UNCHANGED <<rows, published>>)
      /\ UNCHANGED <<server, folder, history>>

\* Mutant: the first batch moves the checkpoint past the whole range.
AdvancedToEnd ==
  IF tick.mode = "forward" THEN [state EXCEPT !.forward = tick.hi]
  ELSE [state EXCEPT !.backfill = IF From > 1 THEN From ELSE 0]

Advanced ==
  IF tick.mode = "forward" THEN [state EXCEPT !.forward = tick.durable]
  ELSE [state EXCEPT !.backfill = IF From > 1 THEN From ELSE 0]

NextRange ==
  LET t == [tick EXCEPT !.seen = {}, !.seenGen = 0, !.durable = 0]
  IN  IF tick.mode = "forward" THEN [t EXCEPT !.lo = To + 1]
      ELSE [t EXCEPT !.hi = From - 1]

WriteCheckpoint ==
  /\ pc = "checkpoint"
  /\ \/ folder' = Advanced /\ Continue(NextRange, Advanced) /\ UNCHANGED faults
     \/ Fail /\ folder' \in {folder, Advanced}
  /\ UNCHANGED <<server, rows, published, history>>

FetchFlags ==
  LET from == IF state.forward >= FlagWindow THEN state.forward - FlagWindow + 1 ELSE 1
      found == {u \in box : from <= u /\ u <= state.forward}
  IN  /\ pc = "recon"
      /\ \/ /\ tick' = [tick EXCEPT !.seen = found, !.seenGen = gen]
            /\ pc' = IF found = {} THEN "list" ELSE "patch"
            /\ UNCHANGED <<state, faults>>
         \/ Fail
      /\ UNCHANGED <<server, drive>>

\* patchMessages leaves the content of rows alone and names those that are
\* missing; they are then upserted, without an announcement.
PatchFlags ==
  LET missing == {u \in tick.seen : <<tick.uv, u>> \notin Ids(rows)}
      Written == rows' = Upserted(missing, tick.seenGen)
  IN  /\ pc = "patch"
      /\ \/ /\ Written
            /\ tick' = [tick EXCEPT !.seen = {}, !.seenGen = 0]
            /\ pc' = "list"
            /\ UNCHANGED <<state, faults>>
         \/ Fail /\ (Written \/ UNCHANGED rows)
      /\ UNCHANGED <<server, folder, published, history>>

\* The SEARCH for all UIDs; server.ts takes an answer of false for no UIDs.
ListUids ==
  /\ pc = "list"
  /\ \/ /\ tick' = [tick EXCEPT !.seen = box]
        /\ pc' = "prune"
        /\ UNCHANGED <<state, faults>>
     \/ /\ SearchMayFail /\ Fault
        /\ tick' = [tick EXCEPT !.seen = {}]
        /\ pc' = "prune"
        /\ UNCHANGED state
     \/ Fail
  /\ UNCHANGED <<server, drive>>

\* Mutant: rows not yet backfilled count as stale.
StaleBelowBackfill(uv, provider, stored) ==
  {r \in stored : r.uv = uv /\ (r.uid \notin provider \/ r.uid < state.backfill)}

\* findStaleExternalIds
Stale(uv, provider, stored) == {r \in stored : r.uv = uv /\ r.uid \notin provider}

\* Stale rows are deleted in batches.
PruneRows ==
  LET stale == Stale(tick.uv, tick.seen, rows)
      Deleted == \E batch \in SUBSET stale:
                   /\ Cardinality(batch) = Lesser(BatchSize, Cardinality(stale))
                   /\ rows' = rows \ batch
  IN  /\ pc = "prune"
      /\ \/ stale = {} /\ Leave /\ UNCHANGED <<rows, faults>>
         \/ stale # {} /\ Deleted /\ UNCHANGED <<pc, tick, state, faults>>
         \/ Fail /\ (Deleted \/ UNCHANGED rows)
      /\ UNCHANGED <<server, folder, published, history>>

Crash ==
  /\ pc # "idle"
  /\ Fail
  /\ UNCHANGED <<server, drive>>

TickStep ==
  \/ ReadFolder \/ DropFolder \/ OpenFolder \/ FetchBatch \/ UpsertBatch
  \/ WriteCheckpoint \/ FetchFlags \/ PatchFlags \/ ListUids \/ PruneRows

-----------------------------------------------------------------------------
(* The IMAP mailbox, external.                                             *)

Arrive ==
  /\ next <= MaxUid
  /\ box' = box \cup {next}
  /\ next' = next + 1
  /\ UNCHANGED <<gen, drive, pc, tick, state, faults>>

Expunge ==
  /\ \E u \in box: box' = box \ {u}
  /\ UNCHANGED <<gen, next, drive, pc, tick, state, faults>>

\* The server numbers its messages anew.
Rollover ==
  /\ gen < MaxGen
  /\ gen' = gen + 1
  /\ box' = 1 .. Cardinality(box)
  /\ next' = Cardinality(box) + 1
  /\ UNCHANGED <<drive, pc, tick, state, faults>>

-----------------------------------------------------------------------------

\* A mailbox never mirrored, or mirrored up to some UID by a version that kept
\* lastSyncedUid only.
Init ==
  /\ gen = 1
  /\ next \in 1 .. MaxUid + 1
  /\ box \in SUBSET (1 .. next - 1)
  /\ \/ folder = NoFolder /\ rows = {} /\ history = {}
     \/ \E n \in 0 .. next - 1:
          /\ folder = [uv |-> 1, forward |-> n, backfill |-> 0, legacy |-> TRUE]
          /\ rows = [uv: {1}, uid: {u \in box : u <= n}, gen: {1}]
          /\ history = {1} \X (1 .. n)
  /\ published = {}
  /\ pc = "idle" /\ tick = NoTick /\ state = NoFolder
  /\ faults = 0

Next ==
  \/ \E maint \in BOOLEAN: ReadStatus(maint)
  \/ TickStep
  \/ Crash
  \/ Arrive \/ Expunge \/ Rollover

Spec == Init /\ [][Next]_vars

\* A started tick runs on; ticks come with the timer, and the rotation gives the
\* folder its maintenance ticks.
Fairness ==
  /\ WF_vars(TickStep)
  /\ WF_vars(ReadStatus(TRUE) \/ ReadStatus(FALSE))
  /\ SF_vars(ReadStatus(TRUE))

FairSpec == Spec /\ Fairness

-----------------------------------------------------------------------------
(* Properties                                                              *)

TypeOK ==
  /\ gen \in 1 .. MaxGen
  /\ box \subseteq Uids
  /\ next \in 1 .. MaxUid + 1
  /\ folder \in Checkpoints
  /\ rows \subseteq Rows
  /\ published \subseteq Nat \X Nat
  /\ history \subseteq Nat \X Nat
  /\ pc \in Pcs
  /\ tick \in Ticks
  /\ state \in Checkpoints
  /\ faults \in 0 .. MaxFaults

\* The checkpoint never runs ahead of the mirror: whatever call fails or wherever
\* the process stops, each message the server still has up to forwardSyncedUid
\* and from backfillBeforeUid on has a row, so no tick needs to fetch it again.
CheckpointCovers ==
  folder.uv = gen =>
    \A u \in box: u <= folder.forward /\ u >= folder.backfill
                    => <<gen, u>> \in Ids(rows)

\* A row with an externalId of the current generation holds that generation's
\* message, however the server renumbers between two calls of a tick.
CurrentRowsFaithful == \A r \in rows: r.uv = gen => r.gen = gen

\* A message still in the mailbox keeps its row: drops, upserts and prunes remove
\* only rows of messages or generations that are gone.
RowsOutliveNothing ==
  [][\A r \in rows: r.uv = gen /\ r.uid \in box
                      => <<r.uv, r.uid>> \in Ids(rows')]_vars

\* No new mail is swallowed: once the checkpoint has passed a message that came
\* after the bootstrap, its row was upserted with an announcement.
NewMailAnnounced ==
  folder.uv = gen /\ ~folder.legacy =>
    \A u \in box: u <= folder.forward /\ <<gen, u>> \notin history
                    => <<gen, u>> \in published

\* Once the mailbox rests and faults end, the mirror becomes and stays equal to
\* it: all messages, old ones by backfill, and nothing else.
EventuallyMirrors ==
  <>[](Ids(rows) = {gen} \X box)

\* tests/unit/sync.test.ts: "requests acknowledged Drive publication only for
\* post-bootstrap forward INBOX messages".
NoHistoricalPublication == published \cap history = {}

=============================================================================
