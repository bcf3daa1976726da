-------------------------- MODULE MessageRowProofs --------------------------
(***************************************************************************)
(* What the row of a message says of its attachments, for any attachments, *)
(* any number of hydration calls under way and any number of failed calls. *)
(***************************************************************************)
EXTENDS MessageRow, TLAPS

USE ConstantsAssumption

-----------------------------------------------------------------------------
(* The inductive invariant                                                 *)

\* Bytes are uploaded for attachments only.
UploadsAttachments == \A w \in Workers: work[w].pc = "upload" => work[w].target \in Atts

\* A prune that listed the mailbox while the message was there spares its row.
ListedIfThere == tick.pc = "prune" /\ mail = "there" => tick.listed

\* The copies calls work with, however old, say loaded only of what is stored.
CopiesHaveBytes ==
  mail = "there" =>
    \A w \in Workers, a \in Atts: work[w].copy.part[a] = "loaded" => a \in stored

RowInv == UploadsAttachments /\ ListedIfThere /\ CopiesHaveBytes /\ LoadedHasBytes

-----------------------------------------------------------------------------
(* Types                                                                   *)

LEMMA FreshType ==
  ASSUME NEW flag \in BOOLEAN
  PROVE  Fresh(flag) \in Payloads /\ \A t \in Targets: Fresh(flag).part[t] = "not_loaded"
BY DEF Fresh, Payloads, Loads

LEMMA NoCallType == NoCall \in Jobs /\ NoCall.pc = "idle" /\ NoCall.copy = Fresh(FALSE)
BY FreshType DEF NoCall, Jobs, Targets

LEMMA NoTickType == NoTick \in Ticks /\ NoTick.pc = "idle"
BY DEF NoTick, Ticks

\* The copy of a call with its target in another state; all else is as it was.
LEMMA PatchedType ==
  ASSUME TypeOK, NEW w \in Workers, NEW load \in Loads
  PROVE  /\ Patched(w, load) \in Payloads
         /\ \A a \in Targets: Patched(w, load).part[a] =
              IF a = work[w].target THEN load ELSE work[w].copy.part[a]
<1>1. work[w].copy \in Payloads /\ work[w].target \in Targets
  BY DEF TypeOK, Jobs
<1> QED
  BY <1>1 DEF Patched, Payloads

\* A call of a worker that goes on.
LEMMA GotoType ==
  ASSUME TypeOK, NEW w \in Workers, NEW label \in {"fetch", "upload", "persist", "mirror"},
         NEW copy \in Payloads, Goto(w, label, copy)
  PROVE  /\ work' \in [Workers -> Jobs]
         /\ work'[w] = [pc |-> label, target |-> work[w].target, copy |-> copy]
         /\ \A v \in Workers \ {w}: work'[v] = work[v]
BY DEF TypeOK, Goto, Jobs

LEMMA TickTypeStep ==
  ASSUME TypeOK, FetchMessage \/ NewMailSynced \/ FetchFlags \/ ListUids \/ DropFolder \/ TickStep
  PROVE  TypeOK'
<1> USE NoTickType
<1>1. CASE FetchMessage
  BY <1>1 DEF FetchMessage, TypeOK, mailbox, drive, checkpoint, Ticks
<1>2. CASE FetchFlags
  BY <1>2 DEF FetchFlags, TypeOK, mailbox, drive, checkpoint, Ticks
<1>3. CASE NewMailSynced
  BY <1>3 DEF NewMailSynced, TypeOK, mailbox
<1>4. CASE ListUids
  BY <1>4 DEF ListUids, TypeOK, mailbox, drive, checkpoint, Ticks
<1>5. CASE DropFolder
  BY <1>5 DEF DropFolder, TypeOK, mailbox, checkpoint
<1>6. CASE UpsertMessage
  <2>1. tick.seen \in BOOLEAN
    BY DEF TypeOK, Ticks
  <2>2. Fresh(tick.seen) \in Payloads
    BY <2>1, FreshType
  <2>3. due' \in BOOLEAN /\ above' \in -1 .. MaxAbove
    <3>1. CASE Covered
      <4>1. above' \in -1 .. MaxAbove
        BY <3>1 DEF Covered, TypeOK
      <4> QED
        BY <3>1, <4>1 DEF Covered
    <3>2. CASE UNCHANGED checkpoint
      BY <3>2 DEF checkpoint, TypeOK
    <3> QED
      BY <1>6, <3>1, <3>2 DEF UpsertMessage
  <2>4. faults' \in 0 .. MaxFaults
    BY <1>6 DEF UpsertMessage, TypeOK, Fault
  <2> QED
    BY <1>6, <2>2, <2>3, <2>4 DEF UpsertMessage, TypeOK, mailbox
<1>7. CASE PatchFlags
  <2>1. row \in Payloads => [row EXCEPT !.seen = tick.seen] \in Payloads
    BY DEF TypeOK, Ticks, Payloads
  <2>2. row' \in Payloads \cup {NoRow} /\ faults' \in 0 .. MaxFaults
    BY <1>7, <2>1 DEF PatchFlags, TypeOK, Written, Fault
  <2>3. tick' \in Ticks
    BY <1>7 DEF PatchFlags, TypeOK, Ticks
  <2> QED
    BY <1>7, <2>2, <2>3 DEF PatchFlags, TypeOK, mailbox, checkpoint
<1>8. CASE RestoreRow
  <2>1. Fresh(tick.seen) \in Payloads
    BY FreshType DEF TypeOK, Ticks
  <2> QED
    BY <1>8, <2>1 DEF RestoreRow, TypeOK, mailbox, checkpoint, Written, Fault
<1>9. CASE PruneRow
  BY <1>9 DEF PruneRow, TypeOK, mailbox, checkpoint, Written, Fault
<1> QED
  BY <1>1, <1>2, <1>3, <1>4, <1>5, <1>6, <1>7, <1>8, <1>9 DEF TickStep

LEMMA CallTypeStep ==
  ASSUME TypeOK, UploadsAttachments, NEW w \in Workers,
         BeginHydration(w) \/ SetFlags(w) \/ CallStep(w)
  PROVE  TypeOK'
<1> USE NoCallType
<1>0. work[w] \in Jobs /\ work[w].copy \in Payloads
  BY DEF TypeOK, Jobs
<1>1. CASE BeginHydration(w)
  <2>1. row \in Payloads
    BY <1>1 DEF BeginHydration, TypeOK
  <2> QED
    BY <1>1, <2>1 DEF BeginHydration, TypeOK, mailbox, drive, checkpoint, Jobs
<1>2. CASE SetFlags(w)
  <2>1. [NoCall EXCEPT !.pc = "mirror", !.copy = Fresh(seen')] \in Jobs
    BY <1>2, FreshType DEF SetFlags, Jobs
  <2> QED
    BY <1>2, <2>1 DEF SetFlags, TypeOK, drive, checkpoint
<1>3. CASE FetchPart(w)
  <2>1. work' \in [Workers -> Jobs]
    BY <1>0, <1>3, PatchedType, GotoType DEF FetchPart, Loads
  <2> QED
    BY <1>3, <2>1 DEF FetchPart, TypeOK, mailbox, drive, checkpoint
<1>4. CASE Upload(w)
  <2>1. work' \in [Workers -> Jobs]
    BY <1>0, <1>4, PatchedType, GotoType DEF Upload, Loads
  <2>2. stored' \subseteq Atts
    BY <1>4 DEF Upload, TypeOK, UploadsAttachments
  <2> QED
    BY <1>4, <2>1, <2>2 DEF Upload, TypeOK, mailbox, checkpoint
<1>5. CASE Persist(w)
  BY <1>0, <1>5 DEF Persist, TypeOK, mailbox, Written, Fault, checkpoint
<1>6. CASE PatchMirror(w)
  <2>1. row \in Payloads => [row EXCEPT !.seen = work[w].copy.seen] \in Payloads
    BY <1>0 DEF Payloads
  <2> QED
    BY <1>6, <2>1 DEF PatchMirror, TypeOK, mailbox, Written, Fault, checkpoint
<1> QED
  BY <1>1, <1>2, <1>3, <1>4, <1>5, <1>6 DEF CallStep

LEMMA MailTypeStep ==
  ASSUME TypeOK, FlagsChange \/ Leave \/ Renumber
  PROVE  TypeOK'
<1>1. CASE FlagsChange
  <2>1. seen' \in BOOLEAN
    BY <1>1 DEF FlagsChange, TypeOK
  <2>2. calls' \in 0 .. MaxCalls
    BY <1>1 DEF FlagsChange, TypeOK
  <2> QED
    BY <1>1, <2>1, <2>2 DEF FlagsChange, TypeOK, drive, checkpoint
<1>2. CASE Leave \/ Renumber
  BY <1>2 DEF TypeOK, Leave, Renumber, drive, checkpoint
<1> QED
  BY <1>1, <1>2

-----------------------------------------------------------------------------
(* The bytes                                                               *)

\* As long as the message is there nothing takes bytes away: only a prune does that, which
\* has seen the message, and a dropped folder.
LEMMA BytesStay ==
  ASSUME TypeOK, ListedIfThere, [Next]_vars, mail' = "there"
  PROVE  mail = "there" /\ stored \subseteq stored'
<1>1. CASE FetchMessage \/ FetchFlags \/ ListUids \/ DropFolder
  BY <1>1 DEF FetchMessage, FetchFlags, ListUids, DropFolder, mailbox, drive, checkpoint
<1>2. CASE NewMailSynced \/ UpsertMessage \/ PatchFlags \/ RestoreRow
  BY <1>2 DEF NewMailSynced, UpsertMessage, PatchFlags, RestoreRow, mailbox
<1>3. CASE PruneRow
  BY <1>3 DEF PruneRow, mailbox, Stale, ListedIfThere
<1>4. ASSUME NEW w \in Workers, BeginHydration(w) \/ SetFlags(w) \/ CallStep(w)
      PROVE  mail = "there" /\ stored \subseteq stored'
  BY <1>4 DEF BeginHydration, SetFlags, CallStep, FetchPart, Upload, Persist, PatchMirror,
              mailbox, drive, checkpoint
<1>5. CASE FlagsChange \/ Leave \/ Renumber
  BY <1>5 DEF FlagsChange, Leave, Renumber, drive
<1> QED
  BY <1>1, <1>2, <1>3, <1>4, <1>5 DEF Next, TickStep, vars

LEMMA RowTickStep ==
  ASSUME TypeOK, RowInv, [Next]_vars,
         FetchMessage \/ NewMailSynced \/ FetchFlags \/ ListUids \/ DropFolder \/ TickStep
  PROVE  RowInv'
<1>1. work' = work /\ (mail' = "there" => mail = "there" /\ stored \subseteq stored')
  BY BytesStay DEF FetchMessage, NewMailSynced, FetchFlags, ListUids, DropFolder, TickStep,
                   UpsertMessage, PatchFlags, RestoreRow, PruneRow, RowInv
<1>2. UploadsAttachments' /\ CopiesHaveBytes'
  BY <1>1 DEF RowInv, UploadsAttachments, CopiesHaveBytes
<1>3. ListedIfThere'
  BY NoTickType DEF RowInv, ListedIfThere, FetchMessage, NewMailSynced, FetchFlags, ListUids,
       DropFolder, TickStep, UpsertMessage, PatchFlags, RestoreRow, PruneRow, mailbox, TypeOK, Ticks
<1>4. LoadedHasBytes'
  <2> USE <1>1 DEF RowInv, LoadedHasBytes
  <2>1. CASE FetchMessage \/ NewMailSynced \/ FetchFlags \/ ListUids
    BY <2>1 DEF FetchMessage, NewMailSynced, FetchFlags, ListUids, drive
  <2>2. CASE UpsertMessage \/ RestoreRow
    <3>1. tick.seen \in BOOLEAN
      BY DEF TypeOK, Ticks
    <3>2. row' = row \/ row' = Fresh(tick.seen)
      BY <2>2 DEF UpsertMessage, RestoreRow, Written
    <3> QED
      BY <3>1, <3>2, FreshType DEF Targets
  <2>3. CASE PatchFlags
    <3>1. row' = row \/ (row # NoRow /\ row' = [row EXCEPT !.seen = tick.seen])
      BY <2>3 DEF PatchFlags, Written
    <3>2. row # NoRow => [row EXCEPT !.seen = tick.seen].part = row.part
      BY DEF TypeOK, Payloads
    <3> QED
      BY <3>1, <3>2
  <2>4. CASE PruneRow \/ DropFolder
    BY <2>4 DEF PruneRow, DropFolder, Written
  <2> QED
    BY <2>1, <2>2, <2>3, <2>4 DEF TickStep
<1> QED
  BY <1>2, <1>3, <1>4 DEF RowInv

\* A call reads the row, loads bytes and writes its copy back: each hands on what is true.
LEMMA RowCallStep ==
  ASSUME TypeOK, RowInv, [Next]_vars, NEW w \in Workers,
         BeginHydration(w) \/ SetFlags(w) \/ CallStep(w)
  PROVE  RowInv'
<1>1. /\ tick' = tick
      /\ mail' = "there" => mail = "there" /\ stored \subseteq stored'
  BY BytesStay DEF BeginHydration, SetFlags, CallStep, FetchPart, Upload, Persist, PatchMirror, RowInv
<1>2. ListedIfThere'
  BY <1>1 DEF RowInv, ListedIfThere
<1>3. \A v \in Workers \ {w}: work'[v] = work[v]
  BY DEF BeginHydration, SetFlags, CallStep, FetchPart, Upload, Persist, PatchMirror, Goto, TypeOK
<1>4. work[w] \in Jobs /\ work[w].copy \in Payloads /\ work[w].target \in Targets
  BY DEF TypeOK, Jobs
<1>5. SUFFICES /\ work'[w].pc = "upload" => work'[w].target \in Atts
               /\ mail' = "there" => \A a \in Atts: work'[w].copy.part[a] = "loaded" => a \in stored'
               /\ LoadedHasBytes'
  BY <1>1, <1>2, <1>3 DEF RowInv, UploadsAttachments, CopiesHaveBytes
<1> USE <1>1 DEF RowInv
<1>6. CASE BeginHydration(w)
  BY <1>6 DEF BeginHydration, LoadedHasBytes, TypeOK, drive, checkpoint
<1>7. CASE SetFlags(w)
  <2>1. work'[w] = [NoCall EXCEPT !.pc = "mirror", !.copy = Fresh(seen')] /\ seen' \in BOOLEAN
    BY <1>7 DEF SetFlags, TypeOK
  <2>2. work'[w].pc = "mirror" /\ work'[w].copy = Fresh(seen')
    BY <2>1 DEF NoCall
  <2> QED
    BY <1>7, <2>1, <2>2, FreshType DEF SetFlags, LoadedHasBytes, Targets, drive
<1>8. CASE FetchPart(w)
  <2>1. \/ work'[w] = [pc |-> "persist", target |-> work[w].target, copy |-> Patched(w, "failed")]
        \/ /\ work[w].target = Body
           /\ work'[w] = [pc |-> "persist", target |-> Body, copy |-> Patched(w, "loaded")]
        \/ /\ work[w].target # Body
           /\ work'[w] = [pc |-> "upload", target |-> work[w].target, copy |-> work[w].copy]
    BY <1>4, <1>8, PatchedType, GotoType DEF FetchPart, Loads
  <2>2. \A a \in Atts: work'[w].copy.part[a] = "loaded" => work[w].copy.part[a] = "loaded"
    BY <2>1, <1>4, PatchedType DEF Loads, Targets
  <2>3. work'[w].pc = "upload" => work'[w].target \in Atts
    BY <2>1, <1>4 DEF Targets
  <2>4. row' = row /\ stored' = stored /\ mail' = mail
    BY <1>8 DEF FetchPart, drive, mailbox
  <2> QED
    BY <2>2, <2>3, <2>4 DEF CopiesHaveBytes, LoadedHasBytes
<1>9. CASE Upload(w)
  <2>1. \/ /\ work[w].target \in stored'
           /\ work'[w] = [pc |-> "persist", target |-> work[w].target, copy |-> Patched(w, "loaded")]
        \/ work'[w] = [pc |-> "persist", target |-> work[w].target, copy |-> Patched(w, "failed")]
    BY <1>4, <1>9, PatchedType, GotoType DEF Upload, Loads
  <2>2. \A a \in Atts: work'[w].copy.part[a] = "loaded" =>
                        work[w].copy.part[a] = "loaded" \/ a \in stored'
    BY <2>1, <1>4, PatchedType DEF Loads, Targets
  <2>3. row' = row /\ mail' = mail
    BY <1>9 DEF Upload, mailbox
  <2> QED
    BY <2>1, <2>2, <2>3 DEF CopiesHaveBytes, LoadedHasBytes
<1>10. CASE Persist(w)
  <2>1. (row' = row \/ row' = work[w].copy) /\ work'[w] = NoCall /\ stored' = stored /\ mail' = mail
    BY <1>10 DEF Persist, Written, mailbox, TypeOK
  <2> QED
    BY <2>1, NoCallType, FreshType DEF CopiesHaveBytes, LoadedHasBytes, Targets
<1>11. CASE PatchMirror(w)
  <2>1. /\ row' = row \/ (row # NoRow /\ row' = [row EXCEPT !.seen = work[w].copy.seen])
        /\ work'[w] = NoCall /\ stored' = stored /\ mail' = mail
    BY <1>11 DEF PatchMirror, Written, mailbox, TypeOK
  <2>2. row # NoRow => [row EXCEPT !.seen = work[w].copy.seen].part = row.part
    BY DEF TypeOK, Payloads
  <2> QED
    BY <2>1, <2>2, NoCallType, FreshType DEF LoadedHasBytes, Targets
<1> QED
  BY <1>6, <1>7, <1>8, <1>9, <1>10, <1>11 DEF CallStep

LEMMA RowMailStep ==
  ASSUME TypeOK, RowInv, FlagsChange \/ Leave \/ Renumber
  PROVE  RowInv'
BY DEF RowInv, UploadsAttachments, ListedIfThere, CopiesHaveBytes, LoadedHasBytes,
       FlagsChange, Leave, Renumber, drive

-----------------------------------------------------------------------------
(* The theorems                                                            *)

LEMMA RowInvariant == Spec => [](TypeOK /\ RowInv)
<1>1. Init => TypeOK /\ RowInv
  <2> SUFFICES ASSUME Init
               PROVE  TypeOK /\ RowInv
    OBVIOUS
  <2>1. TypeOK
    <3>1. due \in BOOLEAN /\ above \in -1 .. MaxAbove /\ rolled \in BOOLEAN /\ seen \in BOOLEAN
      BY DEF Init
    <3> QED
      BY <3>1, NoCallType, NoTickType DEF Init, TypeOK
  <2>2. RowInv
    BY NoCallType, NoTickType, FreshType
       DEF Init, RowInv, UploadsAttachments, ListedIfThere, CopiesHaveBytes, LoadedHasBytes, Targets
  <2> QED
    BY <2>1, <2>2
<1>2. TypeOK /\ RowInv /\ [Next]_vars => (TypeOK /\ RowInv)'
  <2> SUFFICES ASSUME TypeOK, RowInv, [Next]_vars
               PROVE  (TypeOK /\ RowInv)'
    OBVIOUS
  <2>1. CASE FetchMessage \/ NewMailSynced \/ FetchFlags \/ ListUids \/ DropFolder \/ TickStep
    BY <2>1, TickTypeStep, RowTickStep
  <2>2. ASSUME NEW w \in Workers, BeginHydration(w) \/ SetFlags(w) \/ CallStep(w)
        PROVE  (TypeOK /\ RowInv)'
    BY <2>2, CallTypeStep, RowCallStep DEF RowInv
  <2>3. CASE FlagsChange \/ Leave \/ Renumber
    BY <2>3, MailTypeStep, RowMailStep
  <2>4. CASE UNCHANGED vars
    BY <2>4 DEF vars, TypeOK, RowInv, UploadsAttachments, ListedIfThere, CopiesHaveBytes, LoadedHasBytes
  <2> QED
    BY <2>1, <2>2, <2>3, <2>4 DEF Next
<1> QED
  BY <1>1, <1>2, PTL DEF Spec

\* The values of the row, of the copies of it and of everything else are of their types.
THEOREM RowTypeCorrect == Spec => []TypeOK
BY RowInvariant, PTL

\* An attachment that the row of a message shows as loaded has its bytes in Drive, as long
\* as the message is in the mailbox, whatever stale copies of the row are written back.
THEOREM LoadedIsStored == Spec => []LoadedHasBytes
<1>1. RowInv => LoadedHasBytes
  BY DEF RowInv
<1> QED
  BY <1>1, RowInvariant, PTL

=============================================================================
