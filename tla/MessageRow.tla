----------------------------- MODULE MessageRow -----------------------------
(***************************************************************************)
(* The Drive row of one mirrored message and everybody who writes it: the  *)
(* ticks of its folder (src/src/sync/sync.ts), hydration calls for the     *)
(* body and the attachments (bodyHydration.ts, attachmentHydration.ts) and *)
(* set_email_attributes.  Hydration reads the row, talks to IMAP for       *)
(* seconds, and writes the whole row back; nothing checks a revision.      *)
(* SEARCH answers, UIDs in order and one numbering per tick are assumed;   *)
(* FolderSync shows what happens without them.                             *)
(***************************************************************************)
EXTENDS Integers, FiniteSets

CONSTANTS Atts,        \* attachments of the message
          Workers,     \* hydration and attribute calls under way at a time
          MaxCalls,    \* bound: hydration and attribute calls
          MaxFaults,   \* bound: calls to Drive that fail
          FlagWindow,  \* flag_reconcile_window; 0: no reconciliation
          MaxAbove,    \* bound: UIDs after the message's
          Body,        \* the hydration target that is not an attachment
          NoRow        \* the row does not exist

ASSUME ConstantsAssumption ==
  /\ Body \notin Atts
  /\ MaxCalls \in Nat /\ MaxFaults \in Nat
  /\ FlagWindow \in Nat /\ MaxAbove \in Nat

VARIABLES mail,   \* what became of the message in the mailbox
          seen,   \* its \Seen flag there
          row,    \* the payload of its row
          stored, \* attachments whose bytes Drive holds for the row
          due,    \* the checkpoint of the folder does not cover the message yet
          above,  \* forwardSyncedUid minus the UID of the message; -1: not there yet
          rolled, \* the folder was dropped because of the new numbering
          tick,   \* the tick of the folder
          work,   \* the calls under way
          calls,
          faults

vars == <<mail, seen, row, stored, due, above, rolled, tick, work, calls, faults>>

mailbox == <<mail, seen>>
checkpoint == <<due, above>>
drive == <<row, stored, checkpoint, rolled>>

-----------------------------------------------------------------------------

Targets == Atts \cup {Body}

\* bodyState and storageState; both kinds of failure are one here.
Loads == {"not_loaded", "loaded", "failed"}

\* \Seen stands for the flags and labels.
Payloads == [seen: BOOLEAN, part: [Targets -> Loads]]

\* What the mapper makes of a message when its row is written for the first time.
Fresh(flag) == [seen |-> flag, part |-> [t \in Targets |-> "not_loaded"]]

NoTick == [pc |-> "idle", seen |-> FALSE, listed |-> FALSE]

Ticks == [pc: {"idle", "upsert", "patch", "restore", "prune"}, seen: BOOLEAN, listed: BOOLEAN]

NoCall == [pc |-> "idle", target |-> Body, copy |-> Fresh(FALSE)]

Jobs == [pc: {"idle", "fetch", "upload", "persist", "mirror"}, target: Targets,
         copy: Payloads]

Fault == faults < MaxFaults /\ faults' = faults + 1

\* A write takes effect and answers, or fails before or after it took effect.
Written(change, same) ==
  \/ change /\ UNCHANGED faults
  \/ Fault /\ (change \/ same)

-----------------------------------------------------------------------------
(* The passes of a tick, as far as they concern this row.                  *)

\* A forward or backfill batch with the message is fetched.
FetchMessage ==
  /\ tick.pc = "idle" /\ due /\ mail = "there"
  /\ tick' = [NoTick EXCEPT !.pc = "upsert", !.seen = seen]
  /\ UNCHANGED <<mailbox, drive, work, calls, faults>>

\* The checkpoint covers the batch: the backfill checkpoint, or the forward one, which is
\* then the last UID of the batch.
Covered ==
  /\ due' = FALSE
  /\ IF above = -1 THEN above' \in 0 .. MaxAbove ELSE UNCHANGED above

\* The batch is upserted and the checkpoint written; when either fails, a later
\* tick fetches the batch once more.
UpsertMessage ==
  LET Upserted == row' = Fresh(tick.seen)
  IN  /\ tick.pc = "upsert"
      /\ \/ Upserted /\ Covered /\ UNCHANGED faults
         \/ Fault /\ (Upserted \/ UNCHANGED row) /\ UNCHANGED checkpoint
      /\ tick' = NoTick
      /\ UNCHANGED <<mailbox, stored, rolled, work, calls>>

\* A forward pass covers mail that came after the message.
NewMailSynced ==
  /\ tick.pc = "idle" /\ mail = "there" /\ above >= 0
  /\ above' \in above + 1 .. MaxAbove
  /\ UNCHANGED <<mailbox, row, stored, due, rolled, tick, work, calls, faults>>

\* The last FlagWindow UIDs up to the forward checkpoint.
InWindow == 0 <= above /\ above < FlagWindow

\* The flag reconciliation of a maintenance tick without new mail fetches the window, which
\* may reach below what the backfill has covered.
FetchFlags ==
  /\ tick.pc = "idle" /\ InWindow /\ mail = "there"
  /\ tick' = [NoTick EXCEPT !.pc = "patch", !.seen = seen]
  /\ UNCHANGED <<mailbox, drive, work, calls, faults>>

\* Mutant: the row found missing is not put back, the one found is left alone.
PatchNothing ==
  /\ tick.pc = "patch"
  /\ tick' = NoTick
  /\ UNCHANGED <<mailbox, drive, work, calls, faults>>

\* patchMessages.  When the row is missing, it is upserted next.
PatchFlags ==
  /\ tick.pc = "patch"
  /\ IF row = NoRow
     THEN \/ tick' = [tick EXCEPT !.pc = "restore"] /\ UNCHANGED <<row, faults>>
          \/ Fault /\ tick' = NoTick /\ UNCHANGED row
     ELSE Written(row' = [row EXCEPT !.seen = tick.seen], row' = row) /\ tick' = NoTick
  /\ UNCHANGED <<mailbox, stored, checkpoint, rolled, work, calls>>

\* The fallback of the reconciliation writes no checkpoint.
RestoreRow ==
  /\ tick.pc = "restore"
  /\ Written(row' = Fresh(tick.seen), row' = row)
  /\ tick' = NoTick
  /\ UNCHANGED <<mailbox, stored, checkpoint, rolled, work, calls>>

\* The prune lists the UIDs of the mailbox.
ListUids ==
  /\ tick.pc = "idle" /\ mail # "renumbered"
  /\ tick' = [NoTick EXCEPT !.pc = "prune", !.listed = (mail = "there")]
  /\ UNCHANGED <<mailbox, drive, work, calls, faults>>

\* Mutant: only a row whose folder pass is not complete is stale.
StaleWhileDue == due /\ ~tick.listed

Stale == ~tick.listed

PruneRow ==
  /\ tick.pc = "prune"
  /\ IF Stale /\ row # NoRow
     THEN Written(row' = NoRow /\ stored' = {}, row' = row /\ stored' = stored)
     ELSE UNCHANGED <<row, stored, faults>>
  /\ tick' = NoTick
  /\ UNCHANGED <<mailbox, checkpoint, rolled, work, calls>>

\* A tick finds the new UIDVALIDITY and drops the folder.  From then on ticks ask
\* for externalIds of the new numbering only.
DropFolder ==
  /\ tick.pc = "idle" /\ mail = "renumbered" /\ ~rolled
  /\ rolled' = TRUE
  /\ row' = NoRow /\ stored' = {}
  /\ UNCHANGED <<mailbox, checkpoint, tick, work, calls, faults>>

-----------------------------------------------------------------------------
(* Hydration calls: hydrateStoredMessageBody, hydrateStoredMessageAttachment. *)

Goto(w, label, copy) == work' = [work EXCEPT ![w].pc = label, ![w].copy = copy]

Patched(w, load) ==
  [work[w].copy EXCEPT !.part[work[w].target] = load]

\* getMessage.  A part that is loaded is hydrated again only on refresh.
BeginHydration(w) ==
  /\ work[w].pc = "idle"
  /\ calls < MaxCalls
  /\ calls' = calls + 1
  /\ row # NoRow
  /\ \E t \in Targets: work' = [work EXCEPT ![w] = [pc |-> "fetch", target |-> t, copy |-> row]]
  /\ UNCHANGED <<mailbox, drive, tick, faults>>

\* fetchBody or downloadPart; a body is then complete.  After a renumbering the
\* UID may be another message's.
FetchPart(w) ==
  /\ work[w].pc = "fetch"
  /\ \/ Goto(w, "persist", Patched(w, "failed"))
     \/ /\ mail # "expunged"
        /\ IF work[w].target = Body THEN Goto(w, "persist", Patched(w, "loaded"))
           ELSE Goto(w, "upload", work[w].copy)
  /\ UNCHANGED <<mailbox, drive, tick, calls, faults>>

\* Mutant: an upload that fails counts as loaded.
UploadUnchecked(w) ==
  /\ work[w].pc = "upload"
  /\ \E a \in SUBSET {work[w].target}: stored' = stored \cup a
  /\ Goto(w, "persist", Patched(w, "loaded"))
  /\ UNCHANGED <<mailbox, row, checkpoint, rolled, tick, calls, faults>>

\* uploadAttachment, for a row that is there.  When it fails or takes longer than
\* the timeout, the bytes may be stored all the same.
Upload(w) ==
  LET Commit == row # NoRow /\ stored' = stored \cup {work[w].target}
  IN  /\ work[w].pc = "upload"
      /\ \/ Commit /\ Goto(w, "persist", Patched(w, "loaded"))
         \/ (Commit \/ UNCHANGED stored) /\ Goto(w, "persist", Patched(w, "failed"))
      /\ UNCHANGED <<mailbox, row, checkpoint, rolled, tick, calls, faults>>

\* upsertMessages with the whole payload as it was read, but for the one part.
Persist(w) ==
  /\ work[w].pc = "persist"
  /\ Written(row' = work[w].copy, row' = row)
  /\ work' = [work EXCEPT ![w] = NoCall]
  /\ UNCHANGED <<mailbox, stored, checkpoint, rolled, tick, calls>>

-----------------------------------------------------------------------------
(* set_email_attributes: the flags change in IMAP and are read back under the *)
(* mailbox lock; the mirror is patched after the lock is released.         *)

SetFlags(w) ==
  /\ work[w].pc = "idle"
  /\ calls < MaxCalls
  /\ calls' = calls + 1
  /\ mail = "there"
  /\ seen' \in BOOLEAN
  /\ work' = [work EXCEPT ![w] = [NoCall EXCEPT !.pc = "mirror", !.copy = Fresh(seen')]]
  /\ UNCHANGED <<mail, drive, tick, faults>>

PatchMirror(w) ==
  /\ work[w].pc = "mirror"
  /\ IF row = NoRow THEN UNCHANGED <<row, faults>>
     ELSE Written(row' = [row EXCEPT !.seen = work[w].copy.seen], row' = row)
  /\ work' = [work EXCEPT ![w] = NoCall]
  /\ UNCHANGED <<mailbox, stored, checkpoint, rolled, tick, calls>>

-----------------------------------------------------------------------------
(* The mailbox, changed by other clients and by move_email and bulk_action, *)
(* which leave the mirror to the ticks.                                    *)

FlagsChange ==
  /\ mail = "there"
  /\ calls < MaxCalls
  /\ calls' = calls + 1
  /\ seen' = ~seen
  /\ UNCHANGED <<mail, drive, tick, work, faults>>

Leave ==
  /\ mail = "there"
  /\ mail' = "expunged"
  /\ UNCHANGED <<seen, drive, tick, work, calls, faults>>

\* Not in the middle of a tick.
Renumber ==
  /\ mail = "there" /\ tick.pc = "idle"
  /\ mail' = "renumbered"
  /\ UNCHANGED <<seen, drive, tick, work, calls, faults>>

-----------------------------------------------------------------------------

Init ==
  /\ mail = "there"
  /\ seen \in BOOLEAN
  /\ row = NoRow
  /\ stored = {}
  /\ due = TRUE
  /\ above \in -1 .. MaxAbove    \* from 0 on: it is left to the backfill
  /\ rolled = FALSE
  /\ tick = NoTick
  /\ work = [w \in Workers |-> NoCall]
  /\ calls = 0
  /\ faults = 0

TickStep == UpsertMessage \/ PatchFlags \/ RestoreRow \/ PruneRow

CallStep(w) == FetchPart(w) \/ Upload(w) \/ Persist(w) \/ PatchMirror(w)

Next ==
  \/ FetchMessage \/ NewMailSynced \/ FetchFlags \/ ListUids \/ DropFolder \/ TickStep
  \/ \E w \in Workers: BeginHydration(w) \/ SetFlags(w) \/ CallStep(w)
  \/ FlagsChange \/ Leave \/ Renumber

Spec == Init /\ [][Next]_vars

\* What has begun goes on; the timer and the rotation of the folders bring each
\* pass of a tick again and again.  Backfill is taken to be on, and new mail not to come
\* with every maintenance tick for ever.
Fairness ==
  /\ WF_vars(TickStep)
  /\ SF_vars(FetchMessage) /\ SF_vars(FetchFlags)
  /\ SF_vars(ListUids) /\ SF_vars(DropFolder)
  /\ \A w \in Workers: WF_vars(CallStep(w))

FairSpec == Spec /\ Fairness

-----------------------------------------------------------------------------
(* Properties                                                              *)

TypeOK ==
  /\ mail \in {"there", "expunged", "renumbered"}
  /\ seen \in BOOLEAN
  /\ row \in Payloads \cup {NoRow}
  /\ stored \subseteq Atts
  /\ due \in BOOLEAN /\ rolled \in BOOLEAN
  /\ above \in -1 .. MaxAbove
  /\ tick \in Ticks
  /\ work \in [Workers -> Jobs]
  /\ calls \in 0 .. MaxCalls /\ faults \in 0 .. MaxFaults

\* An attachment shown as loaded can be downloaded: as long as the message is in
\* the mailbox, whatever stale copies are written back, Drive holds its bytes.
LoadedHasBytes ==
  mail = "there" /\ row # NoRow =>
    \A a \in Atts: row.part[a] = "loaded" => a \in stored

\* A message in the mailbox comes to have a row for good, and one that stays among the last
\* FlagWindow UIDs comes to have the flags of the mailbox for good, although hydration
\* writes back flags it read long ago.  (Below the window nothing reconciles: there a change
\* by another client, or an old copy a hydration wrote back, stays.)
FlagsConverge ==
  <>[](mail = "there" => row # NoRow /\ (InWindow => row.seen = seen))

\* A message that left its folder leaves the mirror, for good, although a hydration
\* under way may put its row back.  (After a renumbering it may stay: no prune looks at
\* externalIds of the old numbering.)
GoneRowsGo == <>[](mail = "expunged" => row = NoRow)

=============================================================================
