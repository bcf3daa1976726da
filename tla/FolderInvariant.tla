-------------------------- MODULE FolderInvariant --------------------------
(***************************************************************************)
(* The inductive invariant behind the safety properties of FolderSync.     *)
(* Everything a tick knows of UIDs is worth something only while the       *)
(* mailbox has the UIDVALIDITY that the tick was told (tick.uv = gen).     *)
(***************************************************************************)
EXTENDS FolderSync

Covered(u) == <<gen, u>> \in Ids(rows)

\* Announced, or there before its generation was mirrored.
Accounted(u) == <<gen, u>> \in published \cup history

-----------------------------------------------------------------------------
(* The folder in Drive, between any two calls                              *)

Generations == folder.uv <= gen /\ \A r \in rows: r.uv = folder.uv /\ r.uv >= 1

LegacyHasNoBackfill == folder.legacy => folder.backfill = 0

\* Nothing is mirrored that has not arrived.
NothingAhead ==
  /\ folder.uv = gen => folder.forward < next /\ folder.backfill <= next
  /\ \A r \in rows: r.uv = gen => r.uid < next

\* NewMailAnnounced, for folders of an older version too.
AllAccounted ==
  folder.uv = gen => \A u \in box: u <= folder.forward => Accounted(u)

DriveInv ==
  /\ Generations /\ LegacyHasNoBackfill /\ NothingAhead
  /\ CheckpointCovers /\ CurrentRowsFaithful /\ AllAccounted

-----------------------------------------------------------------------------
(* The tick                                                                *)

Ranges == {"fetch", "upsert", "checkpoint"}

\* Until it drops or opens the folder a tick only knows its checkpoint.
Opening == {"idle", "folder", "drop", "open"}

\* What the status told.
StatusTrue ==
  /\ tick.next >= 1
  /\ pc # "idle" => /\ 1 <= tick.uv /\ tick.uv <= gen /\ folder.uv <= tick.uv
                    /\ tick.uv = gen => tick.next <= next
                    /\ folder.uv = gen =>
                         folder.forward < tick.next /\ folder.backfill <= tick.next

\* The local copy of the checkpoint is the one in Drive.
StateIsFolder ==
  /\ pc \notin {"idle", "folder"} => state = folder
  /\ pc = "drop" => folder.uv # tick.uv
  /\ pc = "open" => folder = NoFolder \/ folder.uv = tick.uv
  /\ pc \notin Opening => folder.uv = tick.uv /\ ~folder.legacy

\* Of the locals t with the checkpoint s: a forward pass has been everywhere below its
\* range, a backfill pass everywhere above.
PassDone(t, s) ==
  /\ t.hi < t.next
  /\ \/ /\ t.mode = "forward"
        /\ t.lo <= t.next
        /\ \A u \in box: u < t.lo => Accounted(u) /\ (u >= s.backfill => Covered(u))
        /\ ~t.publish => \A u \in 1 .. t.next - 1: <<gen, u>> \in history
     \/ /\ t.mode = "backfill"
        /\ \A u \in box: u > t.hi /\ u <= s.forward => Covered(u)

\* The messages fetched are those of the range; a range is passed when they have rows.
RangeDone ==
  /\ pc \in {"upsert", "patch"} =>
       tick.seenGen = gen /\ \A u \in tick.seen: u < next
  /\ pc \in {"upsert", "checkpoint"} /\ tick.mode = "forward" => tick.durable <= To
  /\ pc = "upsert" => \A u \in box: From <= u /\ u <= To => u \in tick.seen
  /\ pc = "checkpoint" => \A u \in box: From <= u /\ u <= To =>
                            Covered(u) /\ (tick.mode = "forward" => Accounted(u))

\* Only rows of messages that are gone will be pruned.
SearchTrue == pc = "prune" => \A r \in rows: r.uid \in box => r.uid \in tick.seen

InRange == pc \in Ranges => tick.lo <= tick.hi

TickInv ==
  /\ StatusTrue /\ StateIsFolder /\ InRange
  /\ tick.uv = gen => /\ pc \in Ranges => PassDone(tick, state)
                      /\ RangeDone /\ SearchTrue

FolderInv == TypeOK /\ DriveInv /\ TickInv

=============================================================================
