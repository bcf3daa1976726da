----------------------- MODULE AttachmentUploadProofs -----------------------
(***************************************************************************)
(* Safety of AttachmentUpload for any number of overlapping uploads, any   *)
(* metadata and any number of failed calls.                                *)
(***************************************************************************)
EXTENDS AttachmentUpload, TLAPS

USE ConstantsAssumption

-----------------------------------------------------------------------------
(* The inductive invariant                                                 *)

\* What is stored was there before, or some call has brought it.
Origin == stored \in {None, before} \cup {want[c] : c \in Calls}

\* A call has answered when it is over, and never comes back to its first uploadStart.
Progress ==
  \A c \in Calls:
    /\ pc[c] = "done" <=> answer[c] # "none"
    /\ pc[c] \in {"resolve", "delete", "accept"} => tries[c] # "first"

\* Uploads that are alike delete nothing: whatever one of them finds is a match.
AlikeGoesOn ==
  Alike => \A c \in Calls:
    /\ pc[c] \notin {"delete", "accept", "deleteCommit", "recommit"}
    /\ pc[c] = "start" => tries[c] = "first"
    /\ pc[c] \in {"resolve", "resolveCommit"} \/ answer[c] = "ok" => stored # None
    /\ answer[c] = "err" => faults > 0

\* A call that is alone finds what it has found before, and nothing where it has deleted.
AloneGoesOn ==
  \A c \in Calls: Alone(c) =>
    /\ pc[c] # "accept"
    /\ pc[c] \in {"resolve", "delete", "resolveCommit", "deleteCommit"} => stored # None
    /\ (pc[c] = "start" /\ tries[c] # "first") \/ pc[c] = "recommit" => stored = None
    /\ answer[c] = "ok" => stored # None /\ stored.size = want[c].size
    /\ answer[c] = "err" => faults > 0

UploadInv == Origin /\ Progress /\ AlikeGoesOn /\ AloneGoesOn

-----------------------------------------------------------------------------
(* The steps                                                               *)

LEMMA TypeStep ==
  ASSUME TypeOK, NEW c \in Calls, UploadAttachment(c)
  PROVE  TypeOK'
<1> USE DEF TypeOK, Succeed, Fault, Goto, Return, Steps
<1>1. CASE UploadStart(c)
  BY <1>1 DEF UploadStart
<1>2. ASSUME NEW step \in {"resolve", "resolveCommit"}, NEW delete \in {"delete", "deleteCommit"},
             Resolve(c, step, delete)
      PROVE  TypeOK'
  BY <1>2 DEF Resolve
<1>3. ASSUME NEW step \in {"delete", "deleteCommit"}, NEW then \in {"start", "recommit"},
             Delete(c, step, then)
      PROVE  TypeOK'
  BY <1>3 DEF Delete, Remove
<1>4. CASE Accept(c)
  BY <1>4 DEF Accept
<1>5. CASE Put(c)
  BY <1>5 DEF Put
<1>6. CASE Commit(c)
  BY <1>6 DEF Commit, CommitConflict
<1> QED
  BY <1>1, <1>2, <1>3, <1>4, <1>5, <1>6 DEF UploadAttachment

\* A call changes nothing of the others, nor what it and they came with.
LEMMA OwnStep ==
  ASSUME TypeOK, NEW c \in Calls, UploadAttachment(c)
  PROVE  /\ before' = before /\ want' = want /\ faults' >= faults
         /\ \A d \in Calls \ {c}: pc'[d] = pc[d] /\ tries'[d] = tries[d] /\ answer'[d] = answer[d]
<1> USE DEF TypeOK, Succeed, Fault, Goto, Return
<1>1. CASE UploadStart(c)
  BY <1>1 DEF UploadStart
<1>2. CASE Resolve(c, "resolve", "delete") \/ Resolve(c, "resolveCommit", "deleteCommit")
  BY <1>2 DEF Resolve
<1>3. CASE Delete(c, "delete", "start") \/ Delete(c, "deleteCommit", "recommit")
  BY <1>3 DEF Delete
<1>4. CASE Accept(c) \/ Put(c) \/ Commit(c)
  BY <1>4 DEF Accept, Put, Commit, CommitConflict
<1> QED
  BY <1>1, <1>2, <1>3, <1>4 DEF UploadAttachment

\* What is stored changes in two ways: a commit of the call, where nothing was, and a
\* delete.
LEMMA StoreStep ==
  ASSUME TypeOK, Progress, NEW c \in Calls, UploadAttachment(c)
  PROVE  \/ stored' = stored
         \/ stored = None /\ stored' = want[c] /\ pc[c] \in {"commit", "recommit"}
         \/ stored' = None /\ pc[c] \in {"delete", "deleteCommit"} /\ answer'[c] # "ok"
<1> USE DEF TypeOK, Succeed, Fault, Goto, Return
<1>1. CASE UploadStart(c)
  BY <1>1 DEF UploadStart
<1>2. CASE Resolve(c, "resolve", "delete") \/ Resolve(c, "resolveCommit", "deleteCommit")
  BY <1>2 DEF Resolve
<1>3. CASE Delete(c, "delete", "start") \/ Delete(c, "deleteCommit", "recommit")
  BY <1>3 DEF Delete, Remove, Progress
<1>4. CASE Accept(c) \/ Put(c) \/ Commit(c)
  BY <1>4 DEF Accept, Put, Commit, CommitConflict
<1> QED
  BY <1>1, <1>2, <1>3, <1>4 DEF UploadAttachment

\* Whoever answers ok has just seen or made the attachment stored.
LEMMA AnswerStep ==
  ASSUME TypeOK, Progress, NEW c \in Calls, UploadAttachment(c), answer'[c] = "ok"
  PROVE  stored' # None
<1> USE DEF TypeOK, Progress, Succeed, Fault, Goto, Return
<1>1. CASE UploadStart(c)
  BY <1>1 DEF UploadStart, StartAnswers
<1>2. CASE Resolve(c, "resolve", "delete") \/ Resolve(c, "resolveCommit", "deleteCommit")
  BY <1>2 DEF Resolve
<1>3. CASE Delete(c, "delete", "start") \/ Delete(c, "deleteCommit", "recommit")
  BY <1>3 DEF Delete
<1>4. CASE Accept(c) \/ Put(c) \/ Commit(c)
  BY <1>4 DEF Accept, Put, Commit, CommitConflict
<1> QED
  BY <1>1, <1>2, <1>3, <1>4 DEF UploadAttachment

LEMMA OriginStep ==
  ASSUME TypeOK, Progress, Origin, NEW c \in Calls, UploadAttachment(c)
  PROVE  Origin'
BY StoreStep, OwnStep DEF Origin

LEMMA ProgressStep ==
  ASSUME TypeOK, Progress, NEW c \in Calls, UploadAttachment(c)
  PROVE  Progress'
<1> USE DEF TypeOK, Progress, Succeed, Fault, Goto, Return
<1>1. CASE UploadStart(c)
  BY <1>1 DEF UploadStart
<1>2. CASE Resolve(c, "resolve", "delete") \/ Resolve(c, "resolveCommit", "deleteCommit")
  BY <1>2 DEF Resolve
<1>3. CASE Delete(c, "delete", "start") \/ Delete(c, "deleteCommit", "recommit")
  BY <1>3 DEF Delete
<1>4. CASE Accept(c) \/ Put(c) \/ Commit(c)
  BY <1>4 DEF Accept, Put, Commit, CommitConflict
<1> QED
  BY <1>1, <1>2, <1>3, <1>4 DEF UploadAttachment

-----------------------------------------------------------------------------
(* Uploads that are alike                                                  *)

\* matchExistingAttachment takes whatever is stored for the attachment of any of them.
LEMMA AlikeMatch ==
  ASSUME TypeOK, Origin, Alike, stored # None, NEW c \in Calls
  PROVE  Matches(stored, want[c]) /\ stored.size = want[c].size
<1> PICK n \in Sizes, t \in Types:
      LET same == [size: {n}, type: {t} \cup Generic]
      IN  before \in same \cup {None} /\ \A d \in Calls: want[d] \in same
  BY DEF Alike
<1>1. stored \in [size: {n}, type: {t} \cup Generic]
  BY DEF Origin
<1> QED
  BY <1>1 DEF Matches

LEMMA AlikeStays ==
  ASSUME TypeOK, NEW c \in Calls, UploadAttachment(c)
  PROVE  Alike' <=> Alike
BY OwnStep DEF Alike

LEMMA AlikeStep ==
  ASSUME TypeOK, Origin, Progress, AlikeGoesOn, NEW c \in Calls, UploadAttachment(c)
  PROVE  AlikeGoesOn'
<1> SUFFICES ASSUME Alike
             PROVE  \A d \in Calls:
                      /\ pc'[d] \notin {"delete", "accept", "deleteCommit", "recommit"}
                      /\ pc'[d] = "start" => tries'[d] = "first"
                      /\ pc'[d] \in {"resolve", "resolveCommit"} \/ answer'[d] = "ok" => stored' # None
                      /\ answer'[d] = "err" => faults' > 0
  BY AlikeStays DEF AlikeGoesOn
<1>1. stored # None => stored' # None
  BY StoreStep DEF AlikeGoesOn, TypeOK
<1>2. ASSUME NEW d \in Calls \ {c}
      PROVE  /\ pc'[d] \notin {"delete", "accept", "deleteCommit", "recommit"}
             /\ pc'[d] = "start" => tries'[d] = "first"
             /\ pc'[d] \in {"resolve", "resolveCommit"} \/ answer'[d] = "ok" => stored' # None
             /\ answer'[d] = "err" => faults' > 0
  <2>1. pc'[d] = pc[d] /\ tries'[d] = tries[d] /\ answer'[d] = answer[d] /\ faults' >= faults
    BY OwnStep
  <2>2. faults \in Nat /\ faults' \in Nat
    BY TypeStep DEF TypeOK
  <2> QED
    BY <1>1, <2>1, <2>2 DEF AlikeGoesOn
<1>3. /\ pc'[c] \notin {"delete", "accept", "deleteCommit", "recommit"}
      /\ pc'[c] = "start" => tries'[c] = "first"
      /\ pc'[c] \in {"resolve", "resolveCommit"} \/ answer'[c] = "ok" => stored' # None
      /\ answer'[c] = "err" => faults' > 0
  <2> USE DEF TypeOK, Progress, AlikeGoesOn, Succeed, Fault, Goto, Return
  <2>1. CASE UploadStart(c)
    BY <2>1 DEF UploadStart, StartAnswers
  <2>2. CASE Resolve(c, "resolve", "delete") \/ Resolve(c, "resolveCommit", "deleteCommit")
    BY <2>2, AlikeMatch DEF Resolve
  <2>3. CASE Put(c)
    BY <2>3 DEF Put
  <2>4. CASE Commit(c)
    BY <2>4 DEF Commit, CommitConflict
  <2> QED
    BY <2>1, <2>2, <2>3, <2>4 DEF UploadAttachment, Delete, Accept
<1> QED
  BY <1>2, <1>3

-----------------------------------------------------------------------------
(* An upload that is alone                                                 *)

\* It stays alone only by steps of its own.
LEMMA AloneBefore ==
  ASSUME TypeOK, Progress, NEW c \in Calls, UploadAttachment(c), NEW d \in Calls, Alone(d)'
  PROVE  c = d /\ Alone(d)
<1> SUFFICES ASSUME c # d
             PROVE  FALSE
  BY OwnStep DEF Alone
<1>1. pc'[c] = "start" /\ tries'[c] = "first"
  BY DEF Alone
<1> USE DEF TypeOK, Progress, Goto, Return
<1>2. CASE UploadStart(c)
  BY <1>1, <1>2 DEF UploadStart
<1>3. CASE Resolve(c, "resolve", "delete") \/ Resolve(c, "resolveCommit", "deleteCommit")
  BY <1>1, <1>3 DEF Resolve
<1>4. CASE Delete(c, "delete", "start") \/ Delete(c, "deleteCommit", "recommit")
  BY <1>1, <1>4 DEF Delete
<1>5. CASE Accept(c) \/ Put(c) \/ Commit(c)
  BY <1>1, <1>5 DEF Accept, Put, Commit, CommitConflict
<1> QED
  BY <1>2, <1>3, <1>4, <1>5 DEF UploadAttachment

LEMMA AloneStep ==
  ASSUME TypeOK, Progress, AloneGoesOn, NEW c \in Calls, UploadAttachment(c)
  PROVE  AloneGoesOn'
<1> SUFFICES ASSUME Alone(c)
             PROVE  /\ pc'[c] # "accept"
                    /\ pc'[c] \in {"resolve", "delete", "resolveCommit", "deleteCommit"}
                         => stored' # None
                    /\ (pc'[c] = "start" /\ tries'[c] # "first") \/ pc'[c] = "recommit"
                         => stored' = None
                    /\ answer'[c] = "ok" => stored' # None /\ stored'.size = want'[c].size
                    /\ answer'[c] = "err" => faults' > 0
  BY AloneBefore DEF AloneGoesOn
<1>1. want' = want
  BY OwnStep
<1> USE <1>1 DEF TypeOK, Progress, AloneGoesOn, Succeed, Fault, Goto, Return
<1>2. CASE UploadStart(c)
  BY <1>2 DEF UploadStart, StartAnswers
<1>3. CASE Resolve(c, "resolve", "delete") \/ Resolve(c, "resolveCommit", "deleteCommit")
  BY <1>3 DEF Resolve, Matches
<1>4. CASE Delete(c, "delete", "start") \/ Delete(c, "deleteCommit", "recommit")
  BY <1>4 DEF Delete, Remove
<1>5. CASE Put(c)
  BY <1>5 DEF Put
<1>6. CASE Commit(c)
  BY <1>6 DEF Commit, CommitConflict, Metadata
<1> QED
  BY <1>2, <1>3, <1>4, <1>5, <1>6 DEF UploadAttachment, Accept

-----------------------------------------------------------------------------
(* The theorems                                                            *)

\* Uploads that overlap keep their variables in their types.
THEOREM UploadTypeCorrect == Spec => []TypeOK
<1>1. Init => TypeOK
  BY DEF Init, TypeOK, Steps
<1>2. TypeOK /\ [Next]_vars => TypeOK'
  BY TypeStep DEF Next, vars, TypeOK
<1> QED
  BY <1>1, <1>2, PTL DEF Spec

LEMMA UploadInvariant == Spec => []UploadInv
<1>1. Init => UploadInv
  BY DEF Init, UploadInv, Origin, Progress, AlikeGoesOn, AloneGoesOn
<1>2. TypeOK /\ UploadInv /\ [Next]_vars => UploadInv'
  <2> SUFFICES ASSUME TypeOK, UploadInv, [Next]_vars
               PROVE  UploadInv'
    OBVIOUS
  <2>1. ASSUME NEW c \in Calls, UploadAttachment(c)
        PROVE  UploadInv'
    BY <2>1, OriginStep, ProgressStep, AlikeStep, AloneStep DEF UploadInv
  <2>2. CASE UNCHANGED vars
    BY <2>2 DEF vars, UploadInv, Origin, Progress, AlikeGoesOn, AloneGoesOn, Alike, Alone
  <2> QED
    BY <2>1, <2>2 DEF Next
<1> QED
  BY <1>1, <1>2, UploadTypeCorrect, PTL DEF Spec

\* An upload that answers ok leaves bytes of its length, as long as the others are of the
\* same part or have not begun.
THEOREM OkMeansStored == Spec => []OkIsStored
<1>1. TypeOK /\ UploadInv => OkIsStored
  BY AlikeMatch DEF UploadInv, AlikeGoesOn, AloneGoesOn, OkIsStored
<1> QED
  BY <1>1, UploadInvariant, UploadTypeCorrect, PTL

\* No conflict of the like or the lonely is left unresolved: an error is a failed call.
THEOREM ConflictsAreResolved == Spec => []FailsOnlyByFault
<1>1. UploadInv => FailsOnlyByFault
  BY DEF UploadInv, AlikeGoesOn, AloneGoesOn, FailsOnlyByFault
<1> QED
  BY <1>1, UploadInvariant, PTL

\* Uploads of the same part never take away its bytes.
THEOREM StoredForGood == Spec => StoredStays
<1>1. TypeOK /\ UploadInv /\ [Next]_vars => (Alike /\ stored # None => stored' # None)
  <2> SUFFICES ASSUME TypeOK, UploadInv, [Next]_vars, Alike, stored # None
               PROVE  stored' # None
    OBVIOUS
  <2>1. ASSUME NEW c \in Calls, UploadAttachment(c)
        PROVE  stored' # None
    BY <2>1, StoreStep DEF UploadInv, AlikeGoesOn, TypeOK
  <2> QED
    BY <2>1 DEF Next, vars
<1>2. TypeOK /\ UploadInv /\ [Next]_vars => [Alike /\ stored # None => stored' # None]_vars
  BY <1>1
<1> QED
  BY <1>2, UploadInvariant, UploadTypeCorrect, PTL DEF Spec, StoredStays

\* Whatever they delete of each other, when all uploads have answered ok the attachment
\* is stored.
THEOREM AllOkMeansStored ==
  ASSUME Calls # {}
  PROVE  Spec => []AllOkIsStored
<1>1. Init => AllOkIsStored
  BY DEF Init, AllOkIsStored
<1>2. TypeOK /\ UploadInv /\ AllOkIsStored /\ [Next]_vars => AllOkIsStored'
  <2> SUFFICES ASSUME TypeOK, UploadInv, AllOkIsStored, [Next]_vars,
                      \A d \in Calls: answer'[d] = "ok"
               PROVE  stored' # None
    BY DEF AllOkIsStored
  <2>1. ASSUME NEW c \in Calls, UploadAttachment(c)
        PROVE  stored' # None
    BY <2>1, AnswerStep, StoreStep DEF UploadInv, AllOkIsStored
  <2>2. CASE UNCHANGED vars
    BY <2>2 DEF vars, AllOkIsStored
  <2> QED
    BY <2>1, <2>2 DEF Next
<1> QED
  BY <1>1, <1>2, UploadInvariant, UploadTypeCorrect, PTL DEF Spec

=============================================================================
