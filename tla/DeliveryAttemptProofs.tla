----------------------- MODULE DeliveryAttemptProofs -----------------------
(***************************************************************************)
(* What smtpTransport.ts reports of an attempt is true for every mail: the *)
(* number and the sizes of its files do not matter, nor where its SMTP     *)
(* dialogue ends.  And the runtime that has the attempts made stops when   *)
(* it is told to, for any outbox.                                          *)
(***************************************************************************)
EXTENDS DeliveryAttempt, DeliveryRuntime, WellFoundedInduction, TLAPS

-----------------------------------------------------------------------------
(* The attachment loader: its limit holds for mails of any number of files *)
(* of any size.                                                            *)

\* The values of all variables are of their types in every state of load.
THEOREM LoaderTypeCorrect == Spec => []TypeOK
<1> USE ConstantsAssumption DEF Files
<1>1. Init => TypeOK
  BY DEF Init, TypeOK
<1>2. TypeOK /\ [Next]_vars => TypeOK'
  <2> SUFFICES ASSUME TypeOK, [Next]_vars
               PROVE  TypeOK'
    OBVIOUS
  <2> USE DEF TypeOK, files
  <2>1. CASE Download
    <3>1. size[at] \in 0 .. MaxSize
      BY <2>1 DEF Download
    <3> QED
      BY <2>1, <3>1 DEF Download
  <2>2. CASE ReadChunk
    BY <2>2 DEF ReadChunk
  <2>3. CASE ReadFails
    BY <2>3 DEF ReadFails
  <2>4. CASE EndFile
    BY <2>4 DEF EndFile, Counted
  <2>5. CASE Finish
    BY <2>5 DEF Finish
  <2>6. CASE UNCHANGED vars
    BY <2>6 DEF vars
  <2> QED
    BY <2>1, <2>2, <2>3, <2>4, <2>5, <2>6 DEF Next
<1> QED
  BY <1>1, <1>2, PTL DEF Spec

\* What the two tests of readBounded keep: the bytes kept, those of the files before and of
\* the one being read, are within maxTotalBytes after every chunk of every stream.
THEOREM BoundKept == Spec => []Bounded
<1> USE ConstantsAssumption
<1>1. Init => Bounded
  BY DEF Init, Bounded
<1>2. TypeOK /\ Bounded /\ [Next]_vars => Bounded'
  <2> SUFFICES ASSUME TypeOK, Bounded, [Next]_vars
               PROVE  Bounded'
    OBVIOUS
  <2> USE DEF Bounded
  <2>1. CASE Download
    BY <2>1 DEF Download
  <2>2. CASE ReadChunk
    <3>1. PICK k \in 1 .. unread:
            IF TooLarge(chunks + k)
              THEN phase' = "exceeded" /\ UNCHANGED <<unread, chunks>>
              ELSE unread' = unread - k /\ chunks' = chunks + k /\ UNCHANGED phase
      BY <2>2 DEF ReadChunk
    <3>2. bytesLoaded' = bytesLoaded
      BY <2>2 DEF ReadChunk
    <3>3. CASE TooLarge(chunks + k)
      BY <3>1, <3>2, <3>3
    <3>4. CASE ~TooLarge(chunks + k)
      BY <3>1, <3>2, <3>4 DEF TooLarge, TypeOK
    <3> QED
      BY <3>3, <3>4
  <2>3. CASE ReadFails
    BY <2>3 DEF ReadFails
  <2>4. CASE EndFile
    BY <2>4 DEF EndFile, Counted, TypeOK
  <2>5. CASE Finish
    BY <2>5 DEF Finish
  <2>6. CASE UNCHANGED vars
    BY <2>6 DEF vars
  <2> QED
    BY <2>1, <2>2, <2>3, <2>4, <2>5, <2>6 DEF Next
<1> QED
  BY <1>1, <1>2, LoaderTypeCorrect, PTL DEF Spec

-----------------------------------------------------------------------------
(* The sums of sizes, by induction over the files.                         *)

\* A set that has 0, and with each number the next, has all numbers up to n.
LEMMA Reaches ==
  ASSUME NEW n \in Nat, NEW S, 0 \in S, \A k \in 0 .. n - 1: k \in S => k + 1 \in S
  PROVE  \A k \in 0 .. n: k \in S
<1> DEFINE Missing == (0 .. n) \ S
<1> SUFFICES ASSUME Missing # {}
             PROVE  FALSE
  OBVIOUS
<1>1. PICK m \in Missing: \A k \in Missing: ~(k < m)
  <2>1. Missing \subseteq Nat
    OBVIOUS
  <2> HIDE DEF Missing
  <2>2. \E m \in Missing: \A k \in Missing: <<k, m>> \notin OpToRel(<, Nat)
    BY <2>1, NatLessThanWellFounded, WFMin
  <2> QED
    BY <2>1, <2>2 DEF OpToRel
<1>2. m \in 1 .. n /\ m - 1 \in 0 .. n - 1
  BY <1>1
<1>3. m - 1 \in S
  BY <1>1, <1>2
<1> QED
  BY <1>1, <1>2, <1>3

\* There are such sums.
LEMMA SumsExist ==
  ASSUME NEW bytes \in [Files -> Nat]
  PROVE  \E s \in [0 .. N -> Nat]: s[0] = 0 /\ \A i \in Files: s[i] = s[i - 1] + bytes[i]
<1> USE ConstantsAssumption DEF Files
<1> DEFINE Summed(k, s) == s[0] = 0 /\ \A i \in 1 .. k: s[i] = s[i - 1] + bytes[i]
           Ks == {k \in 0 .. N : \E s \in [0 .. k -> Nat]: Summed(k, s)}
<1>1. 0 \in Ks
  <2> DEFINE s == [i \in 0 .. 0 |-> 0]
  <2>1. s \in [0 .. 0 -> Nat] /\ Summed(0, s)
    OBVIOUS
  <2> HIDE DEF s, Summed
  <2> QED
    BY <2>1
<1>2. ASSUME NEW k \in 0 .. N - 1, k \in Ks
      PROVE  k + 1 \in Ks
  <2>1. PICK s \in [0 .. k -> Nat]: Summed(k, s)
    BY <1>2
  <2> DEFINE t == [i \in 0 .. k + 1 |-> IF i = k + 1 THEN s[k] + bytes[k + 1] ELSE s[i]]
  <2>2. t \in [0 .. k + 1 -> Nat]
    OBVIOUS
  <2>3. Summed(k + 1, t)
    BY <2>1
  <2> HIDE DEF t, Summed
  <2>4. k + 1 \in 0 .. N
    OBVIOUS
  <2> QED
    BY <2>2, <2>3, <2>4
<1>3. \A k \in 0 .. N: k \in Ks
  <2> HIDE DEF Ks
  <2> QED
    BY <1>1, <1>2, Reaches
<1>4. PICK s \in [0 .. N -> Nat]: Summed(N, s)
  <2>1. N \in 0 .. N
    OBVIOUS
  <2>2. N \in Ks
    BY <1>3, <2>1
  <2> QED
    BY <2>2
<1> QED
  BY <1>4

\* So Sums is what its equation says.
LEMMA SumsEquation ==
  ASSUME NEW bytes \in [Files -> Nat]
  PROVE  /\ Sums(bytes) \in [0 .. N -> Nat]
         /\ Sums(bytes)[0] = 0
         /\ \A k \in Files: Sums(bytes)[k] = Sums(bytes)[k - 1] + bytes[k]
<1> USE ConstantsAssumption DEF Files
<1> DEFINE S == Sums(bytes)
<1>1. \E s: s = [k \in 0 .. N |-> IF k = 0 THEN 0 ELSE s[k - 1] + bytes[k]]
  <2>1. PICK s \in [0 .. N -> Nat]: s[0] = 0 /\ \A i \in Files: s[i] = s[i - 1] + bytes[i]
    BY SumsExist
  <2>2. s = [k \in 0 .. N |-> IF k = 0 THEN 0 ELSE s[k - 1] + bytes[k]]
    BY <2>1
  <2> QED
    BY <2>2
<1>2. S = [k \in 0 .. N |-> IF k = 0 THEN 0 ELSE S[k - 1] + bytes[k]]
  BY <1>1 DEF Sums
<1> HIDE DEF S
<1>3. S[0] = 0 /\ \A k \in Files: S[k] = S[k - 1] + bytes[k]
  <2>1. \A k \in 0 .. N: S[k] = IF k = 0 THEN 0 ELSE S[k - 1] + bytes[k]
    BY <1>2
  <2>2. 0 \in 0 .. N /\ \A k \in Files: k \in 0 .. N /\ k # 0
    OBVIOUS
  <2> QED
    BY <2>1, <2>2
<1>4. \A k \in 0 .. N: S[k] \in Nat
  <2> DEFINE Ks == {k \in 0 .. N : S[k] \in Nat}
  <2>1. 0 \in Ks /\ \A k \in 0 .. N - 1: k \in Ks => k + 1 \in Ks
    BY <1>3
  <2> HIDE DEF Ks
  <2>2. \A k \in 0 .. N: k \in Ks
    BY <2>1, Reaches
  <2> QED
    BY <2>2 DEF Ks
<1>5. S \in [0 .. N -> Nat]
  BY <1>2, <1>4
<1> QED
  BY <1>3, <1>5 DEF S

\* More files have more bytes.
LEMMA SumsGrow ==
  ASSUME NEW bytes \in [Files -> Nat], NEW j \in 0 .. N
  PROVE  Sums(bytes)[j] <= Sums(bytes)[N]
<1> USE ConstantsAssumption DEF Files
<1> DEFINE S == Sums(bytes)
<1>1. S \in [0 .. N -> Nat] /\ \A k \in 1 .. N: S[k] = S[k - 1] + bytes[k]
  BY SumsEquation
<1> HIDE DEF S
<1> DEFINE Ks == {k \in 0 .. N : k >= j => S[j] <= S[k]}
<1>2. 0 \in Ks
  BY <1>1
<1>3. ASSUME NEW k \in 0 .. N - 1, k \in Ks
      PROVE  k + 1 \in Ks
  <2>1. S[k + 1] = S[k] + bytes[k + 1] /\ bytes[k + 1] \in Nat /\ S[k] \in Nat /\ S[j] \in Nat
    BY <1>1
  <2>2. CASE k + 1 = j
    BY <2>1, <2>2
  <2>3. CASE k + 1 # j
    BY <1>3, <2>1, <2>3
  <2> QED
    BY <2>2, <2>3
<1>4. \A k \in 0 .. N: k \in Ks
  <2> HIDE DEF Ks
  <2> QED
    BY <1>2, <1>3, Reaches
<1> QED
  BY <1>4 DEF S

\* Larger files have more bytes.
LEMMA SumsOrdered ==
  ASSUME NEW bytes \in [Files -> Nat], NEW more \in [Files -> Nat],
         \A f \in Files: bytes[f] <= more[f]
  PROVE  \A k \in 0 .. N: Sums(bytes)[k] <= Sums(more)[k]
<1> USE ConstantsAssumption DEF Files
<1> DEFINE S == Sums(bytes)
           T == Sums(more)
<1>1. /\ S \in [0 .. N -> Nat] /\ S[0] = 0 /\ \A k \in 1 .. N: S[k] = S[k - 1] + bytes[k]
      /\ T \in [0 .. N -> Nat] /\ T[0] = 0 /\ \A k \in 1 .. N: T[k] = T[k - 1] + more[k]
  BY SumsEquation
<1> HIDE DEF S, T
<1> DEFINE Ks == {k \in 0 .. N : S[k] <= T[k]}
<1>2. 0 \in Ks
  BY <1>1
<1>3. ASSUME NEW k \in 0 .. N - 1, k \in Ks
      PROVE  k + 1 \in Ks
  <2>1. /\ S[k + 1] = S[k] + bytes[k + 1] /\ S[k] \in Nat /\ bytes[k + 1] \in Nat
        /\ T[k + 1] = T[k] + more[k + 1] /\ T[k] \in Nat /\ more[k + 1] \in Nat
    BY <1>1
  <2>2. S[k] <= T[k] /\ bytes[k + 1] <= more[k + 1]
    BY <1>3
  <2> QED
    BY <2>1, <2>2
<1>4. \A k \in 0 .. N: k \in Ks
  <2> HIDE DEF Ks
  <2> QED
    BY <1>2, <1>3, Reaches
<1> QED
  BY <1>4 DEF S, T

-----------------------------------------------------------------------------
(* The loader loads all or refuses.                                        *)

\* The bytes of the files before are counted in full, and those of the file being read are
\* either counted or still to come.
Accounted ==
  /\ phase \in {"download", "read", "ok"} => bytesLoaded = Sums(size)[at - 1]
  /\ phase = "read" => chunks + unread = size[at]
  /\ phase = "download" => chunks = 0
  /\ phase = "ok" => at = N + 1
  /\ phase = "exceeded" => Sums(larger)[N] > MaxTotal

\* What a file is found or declared to have is part of the sum.
LEMMA RefusedRightly ==
  ASSUME TypeOK, at \in Files, bytesLoaded = Sums(size)[at - 1],
         NEW n \in Nat, n <= larger[at], TooLarge(n)
  PROVE  Sums(larger)[N] > MaxTotal
<1> USE ConstantsAssumption
<1>1. /\ size \in [Files -> Nat] /\ larger \in [Files -> Nat]
      /\ \A f \in Files: size[f] <= larger[f]
  BY DEF TypeOK, larger
<1>2. at \in 1 .. N /\ at - 1 \in 0 .. N
  BY DEF Files
<1>3. Sums(size)[at - 1] <= Sums(larger)[at - 1]
  BY <1>1, <1>2, SumsOrdered
<1>4. Sums(larger)[at] = Sums(larger)[at - 1] + larger[at]
  BY <1>1, SumsEquation
<1>5. Sums(larger)[at] <= Sums(larger)[N]
  BY <1>1, <1>2, SumsGrow
<1>6. /\ Sums(size)[at - 1] \in Nat /\ Sums(larger)[at - 1] \in Nat /\ Sums(larger)[at] \in Nat
      /\ Sums(larger)[N] \in Nat /\ larger[at] \in Nat
  <2>1. Sums(size) \in [0 .. N -> Nat] /\ Sums(larger) \in [0 .. N -> Nat]
    BY <1>1, SumsEquation
  <2> QED
    BY <1>1, <1>2, <2>1
<1>7. bytesLoaded + n > MaxTotal
  BY DEF TooLarge
<1> QED
  BY <1>3, <1>4, <1>5, <1>6, <1>7

\* A mail is submitted with all bytes of all its files, whatever chunks they come in, and
\* is refused as too large only if they are, or are declared to be.
THEOREM AllLoadedOrRefused == Spec => []LoadsAllOrRefuses
<1> USE ConstantsAssumption
<1>1. Init => Accounted
  <2> SUFFICES ASSUME Init
               PROVE  Accounted
    OBVIOUS
  <2>1. size \in [Files -> Nat]
    BY DEF Init
  <2>2. Sums(size)[0] = 0
    BY <2>1, SumsEquation
  <2> QED
    BY <2>2 DEF Init, Accounted
<1>2. TypeOK /\ Accounted /\ [Next]_vars => Accounted'
  <2> SUFFICES ASSUME TypeOK, Accounted, [Next]_vars
               PROVE  Accounted'
    OBVIOUS
  <2>1. size' = size /\ Sums(size)' = Sums(size) /\ Sums(larger)' = Sums(larger)
    <3>1. size' = size /\ declared' = declared
      BY DEF Next, Download, ReadChunk, ReadFails, EndFile, Finish, files, vars
    <3> QED
      BY <3>1 DEF Sums, larger
  <2>2. size \in [Files -> Nat] /\ declared \in [Files -> Nat]
    BY DEF TypeOK
  <2>3. \A f \in Files: size[f] <= larger[f] /\ declared[f] <= larger[f]
    BY <2>2 DEF larger
  <2>4. CASE Download
    <3>1. CASE TooLarge(declared[at]) /\ phase' = "exceeded"
      <4>1. Sums(larger)[N] > MaxTotal
        BY <2>2, <2>3, <2>4, <3>1, RefusedRightly DEF Download, Accounted
      <4> QED
        BY <2>1, <3>1, <4>1 DEF Accounted
    <3>2. CASE phase' = "read" /\ unread' = size[at]
      <4>1. chunks' + unread' = size[at]
        BY <2>2, <2>4, <3>2 DEF Download, Accounted
      <4> QED
        BY <2>1, <2>4, <3>2, <4>1 DEF Download, Accounted
    <3>3. CASE phase' = "failed"
      BY <3>3 DEF Accounted
    <3> QED
      BY <2>4, <3>1, <3>2, <3>3 DEF Download
  <2>5. CASE ReadChunk
    <3>1. PICK k \in 1 .. unread:
            IF TooLarge(chunks + k)
              THEN phase' = "exceeded" /\ UNCHANGED <<unread, chunks>>
              ELSE unread' = unread - k /\ chunks' = chunks + k /\ UNCHANGED phase
      BY <2>5 DEF ReadChunk
    <3>2. /\ phase = "read" /\ at \in Files /\ at' = at /\ bytesLoaded' = bytesLoaded
          /\ unread \in Nat /\ chunks \in Nat /\ chunks + unread = size[at]
      BY <2>5 DEF ReadChunk, TypeOK, Accounted
    <3>3. CASE TooLarge(chunks + k)
      <4>1. chunks + k \in Nat /\ chunks + k <= size[at]
        BY <3>2
      <4>2. chunks + k <= larger[at]
        BY <2>2, <2>3, <3>2, <4>1 DEF larger
      <4>3. Sums(larger)[N] > MaxTotal
        BY <3>2, <3>3, <4>1, <4>2, RefusedRightly DEF Accounted
      <4> QED
        BY <2>1, <3>1, <3>3, <4>3 DEF Accounted
    <3>4. CASE ~TooLarge(chunks + k)
      <4>1. chunks' + unread' = size[at]
        BY <3>1, <3>2, <3>4
      <4> QED
        BY <2>1, <3>1, <3>2, <3>4, <4>1 DEF Accounted
    <3> QED
      BY <3>3, <3>4
  <2>6. CASE ReadFails
    BY <2>6 DEF ReadFails, Accounted
  <2>7. CASE EndFile
    <3>1. /\ phase' = "download" /\ chunks' = 0 /\ at' = at + 1 /\ at \in Files
          /\ bytesLoaded' = bytesLoaded + chunks
      BY <2>7 DEF EndFile, Counted, TypeOK
    <3>2. bytesLoaded = Sums(size)[at - 1] /\ chunks = size[at]
      BY <2>7 DEF EndFile, Accounted, TypeOK
    <3>3. Sums(size)[at] = Sums(size)[at - 1] + size[at]
      BY <2>2, <3>1, SumsEquation
    <3>4. at' - 1 = at
      BY <3>1 DEF Files
    <3> QED
      BY <2>1, <3>1, <3>2, <3>3, <3>4 DEF Accounted
  <2>8. CASE Finish
    BY <2>1, <2>8 DEF Finish, Accounted
  <2>9. CASE UNCHANGED vars
    BY <2>1, <2>9 DEF vars, Accounted
  <2> QED
    BY <2>4, <2>5, <2>6, <2>7, <2>8, <2>9 DEF Next
<1>3. Accounted => LoadsAllOrRefuses
  BY DEF Accounted, LoadsAllOrRefuses
<1> QED
  BY <1>1, <1>2, <1>3, LoaderTypeCorrect, PTL DEF Spec

-----------------------------------------------------------------------------
(* The attempt                                                             *)

\* The server can have taken the mail only when all of it was sent, and nothing is
\* recorded before the attempt is over.
Recorded ==
  /\ accepted \in BOOLEAN
  /\ accepted => step \in {"body", "over"}
  /\ step # "over" => verdict = "none" /\ refusal = 0

AttemptInv == Recorded /\ VerdictTruthful

\* A reply of the server is classified by its class, or as a failure for good.
LEMMA RepliesClassified ==
  ASSUME NEW e, e.reply \in {4, 5}
  PROVE  /\ Classify(e) \in {"Transient", "Permanent"}
         /\ e.reply = 5 => Classify(e) = "Permanent"
BY DEF Classify

\* No error that can come once all of the mail is under way says that the server has
\* not taken it: none has the code of a failure before it, nor EENVELOPE.
LEMMA BreakAfterBodyIsUnknown ==
  ASSUME NEW e \in Breaking("body")
  PROVE  Classify(e) = "Unknown"
<1>1. e \in {Error("ESOCKET", "CONN", 0, "read"), Error("ECONNECTION", "CONN", 0, "none"),
             Error("ETIMEDOUT", "CONN", 0, "none"), Error("none", "none", 0, "none")}
  BY DEF Breaking
<1>2. /\ e.reply = 0
      /\ e.code \in {"ESOCKET", "ECONNECTION", "ETIMEDOUT", "none"}
      /\ e.syscall \in {"read", "none"}
  BY <1>1 DEF Error
<1> QED
  BY <1>2 DEF Classify, IsPreSubmissionEnvelope

\* Only nodemailer's answer that the mail was sent is recorded as Sent.
LEMMA ClassesWithoutReply ==
  ASSUME NEW e
  PROVE  Classify(e) \in {"Transient", "Permanent", "Unknown"}
BY DEF Classify

-----------------------------------------------------------------------------

LEMMA AttemptInductive == AttemptInv /\ [AttemptNext]_attemptVars => AttemptInv'
<1> SUFFICES ASSUME AttemptInv, [AttemptNext]_attemptVars
             PROVE  AttemptInv'
  OBVIOUS
<1> USE DEF AttemptInv, Recorded, VerdictTruthful
<1>1. CASE Load \/ MarkFails \/ UNCHANGED attemptVars
  BY <1>1 DEF Load, MarkFails, attemptVars
<1>2. CASE LoadEnds
  BY <1>2 DEF LoadEnds, Record, DecideTransportOutcome
<1>3. CASE Compose
  BY <1>3 DEF Compose, Record, DecideTransportOutcome
<1>4. CASE Advance
  <2>1. step # "body" /\ step # "over"
    BY <1>4 DEF Advance, After
  <2> QED
    BY <1>4, <2>1 DEF Advance
<1>5. CASE Accept
  BY <1>5 DEF Accept
<1>6. CASE Resolves
  BY <1>6 DEF Resolves, Record, DecideTransportOutcome
<1>7. CASE Refuse
  <2>1. PICK reply \in {4, 5}:
          /\ refusal' = reply
          /\ Record(Classify(Error(Refusing[step].code, Refusing[step].command, reply, "none")))
    BY <1>7 DEF Refuse
  <2> DEFINE e == Error(Refusing[step].code, Refusing[step].command, reply, "none")
  <2>2. e.reply = reply
    BY DEF Error
  <2> HIDE DEF e
  <2>3. Classify(e) \in {"Transient", "Permanent"} /\ (reply = 5 => Classify(e) = "Permanent")
    BY <2>2, RepliesClassified
  <2>4. step' = "over" /\ verdict' = DecideTransportOutcome[Classify(e)]
    BY <2>1 DEF Record, e
  <2>5. verdict' \in {"Retry", "FailedPermanent"} /\ (reply = 5 => verdict' = "FailedPermanent")
    BY <2>3, <2>4 DEF DecideTransportOutcome
  <2> QED
    BY <1>7, <2>1, <2>4, <2>5 DEF Refuse
<1>8. CASE Break
  <2>1. PICK e \in Breaking(step): Record(Classify(e))
    BY <1>8 DEF Break
  <2>2. step' = "over" /\ verdict' = DecideTransportOutcome[Classify(e)]
    BY <2>1 DEF Record
  <2>3. step # "over" /\ accepted' = accepted /\ refusal' = refusal
    BY <1>8 DEF Break, InDialogue, Refusing
  <2>4. verdict' \in {"Retry", "FailedPermanent", "FailedUnknown"}
    BY <2>2, ClassesWithoutReply DEF DecideTransportOutcome
  <2>5. accepted => verdict' = "FailedUnknown"
    BY <2>2, <2>3, BreakAfterBodyIsUnknown DEF DecideTransportOutcome
  <2> QED
    BY <2>2, <2>3, <2>4, <2>5
<1> QED
  BY <1>1, <1>2, <1>3, <1>4, <1>5, <1>6, <1>7, <1>8 DEF AttemptNext

\* A mail the server has taken is never tried again nor recorded as failed for good, and
\* a refusal is never called unknown, whatever error nodemailer reports.
THEOREM VerdictsAreTrue == AttemptSpec => []VerdictTruthful
<1>1. AttemptInit => AttemptInv
  <2> SUFFICES ASSUME AttemptInit
               PROVE  AttemptInv
    OBVIOUS
  <2>1. step = "load" /\ verdict = "none" /\ refusal = 0
    BY DEF AttemptInit
  <2>2. accepted = FALSE
    BY DEF AttemptInit
  <2>3. Recorded
    BY <2>1, <2>2 DEF Recorded
  <2> QED
    BY <2>1, <2>2, <2>3 DEF AttemptInv, VerdictTruthful
<1>2. AttemptInv => VerdictTruthful
  BY DEF AttemptInv
<1> QED
  BY <1>1, <1>2, AttemptInductive, PTL DEF AttemptSpec

\* The attempt does with the files what the loader does, so the limit of the loader holds
\* until the mail is submitted, and the mail has all bytes of its files.
THEOREM AttemptLoads == AttemptSpec => [](Bounded /\ LoadsAllOrRefuses)
<1>1. AttemptInit => Init
  BY DEF AttemptInit
<1>2. [AttemptNext]_attemptVars => [Next]_vars
  BY DEF AttemptNext, attemptVars, Load, LoadEnds, MarkFails, Compose, Advance, Accept,
         Resolves, Refuse, Break
<1>3. AttemptSpec => Spec
  BY <1>1, <1>2, PTL DEF AttemptSpec, Spec
<1> QED
  BY <1>3, BoundKept, AllLoadedOrRefused, PTL

-----------------------------------------------------------------------------
(* The runtime, which has the attempts made: a timer event is the only     *)
(* beginning of a sweep, and stop() awaits the sweep it finds.             *)

\* Two sweeps; once stop() has returned, the one a timer event began is over.
StopAwaits ==
  /\ DOMAIN sweep = Sweeps
  /\ stop \in {"stopped", "exited"} => ~Active("timer")

\* A step of a sweep is of one that is active, and leaves the other as it is.
LEMMA SweepStep ==
  ASSUME StopAwaits, NEW s \in Sweeps, ReconcilePending(s)
  PROVE  /\ Active(s) /\ stop' = stop /\ DOMAIN sweep' = Sweeps
         /\ \A r \in Sweeps: r # s => sweep'[r] = sweep[r]
<1>1. CASE ListPending(s)
  BY <1>1 DEF ListPending, End, Active, StopAwaits
<1>2. CASE ProcessItem(s)
  BY <1>2 DEF ProcessItem, Active, StopAwaits
<1>3. CASE TurnPage(s)
  BY <1>3 DEF TurnPage, End, Active, StopAwaits
<1> QED
  BY <1>1, <1>2, <1>3 DEF ReconcilePending

LEMMA StopAwaitsAlways == RuntimeSpec => []StopAwaits
<1>1. RuntimeInit => StopAwaits
  BY DEF RuntimeInit, StopAwaits
<1>2. StopAwaits /\ [RuntimeNext]_runtimeVars => StopAwaits'
  <2> SUFFICES ASSUME StopAwaits, [RuntimeNext]_runtimeVars
               PROVE  StopAwaits'
    OBVIOUS
  <2>1. ASSUME NEW s \in Sweeps, ReconcilePending(s)
        PROVE  StopAwaits'
    BY <2>1, SweepStep DEF StopAwaits, Sweeps, Active
  <2>2. CASE BeginReconciliation
    BY <2>2 DEF BeginReconciliation, MayBegin, StopAwaits
  <2>3. CASE BeginStop
    BY <2>3 DEF BeginStop, StopAwaits
  <2>4. CASE EndStop
    BY <2>4 DEF EndStop, Drained, Active, StopAwaits
  <2>5. CASE Exit
    BY <2>5 DEF Exit, Idle, Start, Active, Sweeps, StopAwaits
  <2>6. ASSUME NEW i \in Items,
               BeginRequest(i) \/ EndRequest(i) \/ Arrive(i)
        PROVE  StopAwaits'
    BY <2>6 DEF BeginRequest, EndRequest, Arrive, Active, StopAwaits
  <2>7. CASE UNCHANGED runtimeVars
    BY <2>7 DEF runtimeVars, Active, StopAwaits
  <2> QED
    BY <2>1, <2>2, <2>3, <2>4, <2>5, <2>6, <2>7 DEF RuntimeNext
<1> QED
  BY <1>1, <1>2, PTL DEF RuntimeSpec

\* Once stop() has been called no sweep begins, though start() may set the timer after it.
THEOREM NoneSweepsAfterStop == RuntimeSpec => NoSweepAfterStop
<1>1. StopAwaits /\ [RuntimeNext]_runtimeVars
        => [stop # "no" => \A s \in Sweeps: Active(s)' => Active(s)]_runtimeVars
  <2> SUFFICES ASSUME StopAwaits, [RuntimeNext]_runtimeVars, stop # "no",
                      NEW r \in Sweeps, Active(r)'
               PROVE  Active(r)
    OBVIOUS
  <2>1. ASSUME NEW s \in Sweeps, ReconcilePending(s)
        PROVE  Active(r)
    BY <2>1, SweepStep DEF Active
  <2>2. CASE Exit
    BY <2>2 DEF Exit, Idle, Start, Active
  <2>3. CASE UNCHANGED sweep
    BY <2>3 DEF Active
  <2> QED
    BY <2>1, <2>2, <2>3
       DEF RuntimeNext, BeginReconciliation, MayBegin, BeginStop,
           EndStop, BeginRequest, EndRequest, Arrive, runtimeVars
<1> QED
  BY <1>1, StopAwaitsAlways, PTL DEF RuntimeSpec, NoSweepAfterStop

\* The process does not exit in the midst of a sweep that a timer event began.
THEOREM SweepsAwaited == RuntimeSpec => SweepNotCutOff
<1>1. StopAwaits /\ [RuntimeNext]_runtimeVars
        => [stop' = "exited" => ~Active("timer")]_runtimeVars
  <2> SUFFICES ASSUME StopAwaits, RuntimeNext, stop' = "exited"
               PROVE  stop \in {"stopped", "exited"}
    BY DEF StopAwaits
  <2>1. ASSUME NEW s \in Sweeps, ReconcilePending(s)
        PROVE  stop' = stop
    BY <2>1, SweepStep
  <2> QED
    BY <2>1
       DEF RuntimeNext, BeginReconciliation, BeginStop, EndStop,
           Exit, BeginRequest, EndRequest, Arrive
<1> QED
  BY <1>1, StopAwaitsAlways, PTL DEF RuntimeSpec, SweepNotCutOff

=============================================================================
