-------------------------- MODULE AttachmentUpload --------------------------
(***************************************************************************)
(* uploadAttachment of driveStore.ts: calls that store the bytes of one    *)
(* attachment of one message, each Drive call a step.  A hydration that    *)
(* ran into its timeout leaves its upload running, so uploads overlap.     *)
(* What hydration does with the answer is MessageRow.                      *)
(***************************************************************************)
EXTENDS Naturals

CONSTANTS Calls,
          Sizes, Types,
          Generic,   \* GENERIC_CONTENT_TYPES
          Intended,  \* the metadata calls may come with
          Legacy,    \* what Drive may hold of the attachment before, None included
          MaxFaults, \* bound: calls that fail
          None       \* no stored attachment

Metadata == [size: Sizes, type: Types]

ASSUME ConstantsAssumption ==
  /\ Generic \subseteq Types
  /\ Intended \subseteq Metadata
  /\ Legacy \subseteq Metadata \cup {None}
  /\ None \notin Metadata
  /\ MaxFaults \in Nat

VARIABLES before, \* what Drive held at first
          stored, \* the attachment in Drive
          want,   \* the metadata each call came with
          pc,     \* the Drive call each makes next
          tries,  \* which of its calls of uploadStart is next
          answer,
          faults

vars == <<before, stored, want, pc, tries, answer, faults>>

-----------------------------------------------------------------------------

\* Mutants: content types are compared as they are; whatever exists is accepted.
SameMetadata(existing, expected) == existing = expected
AnyMetadata(existing, expected) == TRUE

\* matchExistingAttachment
Matches(existing, expected) ==
  /\ existing.size = expected.size
  /\ existing.type = expected.type \/ {existing.type, expected.type} \cap Generic # {}

Goto(c, step) == pc' = [pc EXCEPT ![c] = step] /\ UNCHANGED answer

Return(c, result) ==
  pc' = [pc EXCEPT ![c] = "done"] /\ answer' = [answer EXCEPT ![c] = result]

Succeed == UNCHANGED faults

Fault == faults < MaxFaults /\ faults' = faults + 1

\* What uploadStart answers, external: an intent, or, when something is stored, CONFLICT
\* or that it is stored already: bare, or with its record if it is the same.
StartAnswers(c) ==
  {"intent"} \cup (IF stored = None THEN {} ELSE {"conflict", "bare"})
             \cup (IF stored = want[c] THEN {"record"} ELSE {})

\* A conflict is resolved after the first uploadStart only, a bare answer once.
UploadStart(c) ==
  /\ pc[c] = "start"
  /\ \/ /\ Succeed
        /\ \E a \in StartAnswers(c):
             \/ a = "intent" /\ Goto(c, "put") /\ UNCHANGED tries
             \/ /\ a = "conflict" /\ tries[c] = "first"
                /\ tries' = [tries EXCEPT ![c] = "afterConflict"]
                /\ Goto(c, "resolve")
             \/ a = "conflict" /\ tries[c] # "first" /\ Return(c, "err") /\ UNCHANGED tries
             \/ a = "record" /\ tries[c] # "last" /\ Return(c, "ok") /\ UNCHANGED tries
             \/ /\ a = "bare" /\ tries[c] # "last"
                /\ tries' = [tries EXCEPT ![c] = "last"]
                /\ Goto(c, "resolve")
             \/ /\ a \in {"record", "bare"} /\ tries[c] = "last"
                /\ Goto(c, "accept")
                /\ UNCHANGED tries
     \/ Fault /\ Return(c, "err") /\ UNCHANGED tries
  /\ UNCHANGED <<before, stored, want>>

\* The attachment that is in the way is listed: a match is the answer, otherwise it
\* is deleted and the call goes on as told.
Resolve(c, step, delete) ==
  /\ pc[c] = step
  /\ \/ /\ Succeed
        /\ \/ stored = None /\ Return(c, "err")
           \/ stored # None /\ Matches(stored, want[c]) /\ Return(c, "ok")
           \/ stored # None /\ ~Matches(stored, want[c]) /\ Goto(c, delete)
     \/ Fault /\ Return(c, "err")
  /\ UNCHANGED <<before, stored, want, tries>>

Remove == stored' = None

\* The delete names the attachment, not the version that was listed.
Delete(c, step, then) ==
  /\ pc[c] = step
  /\ \/ Succeed /\ Remove /\ Goto(c, then)
     \/ Fault /\ stored' \in {stored, None} /\ Return(c, "err")
  /\ UNCHANGED <<before, want, tries>>

\* Still stored already after the last uploadStart: taken as it is.
Accept(c) ==
  /\ pc[c] = "accept"
  /\ \/ Succeed /\ Return(c, IF stored = None THEN "err" ELSE "ok")
     \/ Fault /\ Return(c, "err")
  /\ UNCHANGED <<before, stored, want, tries>>

\* Mutant: the upload is over when the bytes are sent.
PutIsAll(c) == pc[c] = "put" /\ Succeed /\ Return(c, "ok") /\ UNCHANGED <<before, stored, want, tries>>

Put(c) ==
  /\ pc[c] = "put"
  /\ \/ Succeed /\ Goto(c, "commit")
     \/ Fault /\ Return(c, "err")
  /\ UNCHANGED <<before, stored, want, tries>>

\* Mutant: no conflict at the commit is resolved.
GiveUp(c) == Return(c, "err")

\* A conflict at the commit is resolved once.
CommitConflict(c) ==
  IF pc[c] = "commit" THEN Goto(c, "resolveCommit") ELSE Return(c, "err")

\* A commit that fails may have had its effect.
Commit(c) ==
  /\ pc[c] \in {"commit", "recommit"}
  /\ \/ /\ Succeed
        /\ IF stored = None
             THEN stored' = want[c] /\ Return(c, "ok")
             ELSE UNCHANGED stored /\ CommitConflict(c)
     \/ /\ Fault
        /\ stored' \in {stored, IF stored = None THEN want[c] ELSE stored}
        /\ Return(c, "err")
  /\ UNCHANGED <<before, want, tries>>

-----------------------------------------------------------------------------

Init ==
  /\ before \in Legacy
  /\ stored = before
  /\ want \in [Calls -> Intended]
  /\ pc = [c \in Calls |-> "start"]
  /\ tries = [c \in Calls |-> "first"]
  /\ answer = [c \in Calls |-> "none"]
  /\ faults = 0

UploadAttachment(c) ==
  \/ UploadStart(c)
  \/ Resolve(c, "resolve", "delete")
  \/ Delete(c, "delete", "start")
  \/ Accept(c)
  \/ Put(c)
  \/ Commit(c)
  \/ Resolve(c, "resolveCommit", "deleteCommit")
  \/ Delete(c, "deleteCommit", "recommit")

Next == \E c \in Calls: UploadAttachment(c)

Spec == Init /\ [][Next]_vars

-----------------------------------------------------------------------------
(* Properties                                                              *)

Steps == {"start", "resolve", "delete", "accept", "put", "commit", "resolveCommit",
          "deleteCommit", "recommit", "done"}

TypeOK ==
  /\ before \in Metadata \cup {None}
  /\ stored \in Metadata \cup {None}
  /\ want \in [Calls -> Metadata]
  /\ pc \in [Calls -> Steps]
  /\ tries \in [Calls -> {"first", "afterConflict", "last"}]
  /\ answer \in [Calls -> {"none", "ok", "err"}]
  /\ faults \in 0 .. MaxFaults

\* The uploads are of the same bytes, over none or the same ones.
Alike ==
  \E n \in Sizes, t \in Types:
    LET same == [size: {n}, type: {t} \cup Generic]
    IN  before \in same \cup {None} /\ \A c \in Calls: want[c] \in same

\* No other call has begun.
Alone(c) == \A d \in Calls \ {c}: pc[d] = "start" /\ tries[d] = "first"

\* However uploads of a part overlap and fail, its bytes stay once they are stored:
\* a row that says loaded keeps what it speaks of.
StoredStays == [][Alike /\ stored # None => stored' # None]_vars

\* An upload that answers ok leaves bytes of the length it came with, also when it has
\* replaced others.
OkIsStored ==
  \A c \in Calls:
    answer[c] = "ok" /\ (Alike \/ Alone(c)) => stored # None /\ stored.size = want[c].size

\* Even uploads that disagree on the metadata, and delete what the others have stored,
\* leave the attachment stored when all have answered ok.
AllOkIsStored == (\A c \in Calls: answer[c] = "ok") => stored # None

\* The conflicts an upload meets, with what Drive held before and with other uploads,
\* are all resolved: it fails only when some call failed.
FailsOnlyByFault ==
  \A c \in Calls: answer[c] = "err" /\ (Alike \/ Alone(c)) => faults > 0

=============================================================================
