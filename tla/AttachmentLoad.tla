--------------------------- MODULE AttachmentLoad ---------------------------
(***************************************************************************)
(* driveAttachmentLoader.ts: before a mail is submitted the files it names *)
(* are read from Drive one after the other, chunk by chunk, up to a total. *)
(* What delivery does with the result is OutboxDelivery.                   *)
(***************************************************************************)
EXTENDS Integers

CONSTANTS N,        \* attachments of the mail
          MaxTotal, \* maxTotalBytes
          MaxSize   \* bound: size of a file

ASSUME ConstantsAssumption ==
  /\ N \in Nat
  /\ MaxTotal \in Nat
  /\ MaxSize \in Nat

Files == 1 .. N

VARIABLES size,        \* bytes each file has in Drive
          declared,    \* what the answer to its download says it has
          at,          \* the attachment load is at
          phase,       \* download, read, or how load ended
          unread,      \* bytes of the file the stream still has
          chunks,      \* bytes of the file read so far
          bytesLoaded  \* bytes of the files before

vars == <<size, declared, at, phase, unread, chunks, bytesLoaded>>

files == <<size, declared>>

-----------------------------------------------------------------------------

\* Mutant: what is loaded already is not counted.
TooLargeAlone(n) == n > MaxTotal

\* Both tests of readBounded: n bytes of this file would make it too much.
TooLarge(n) == bytesLoaded + n > MaxTotal

Download ==
  /\ phase = "download"
  /\ at \in Files
  /\ \/ phase' = "failed" /\ UNCHANGED unread
     \/ IF TooLarge(declared[at])
          THEN phase' = "exceeded" /\ UNCHANGED unread
          ELSE phase' = "read" /\ unread' = size[at]
  /\ UNCHANGED <<files, at, chunks, bytesLoaded>>

\* A chunk of k bytes; the one that is too much is not kept.
ReadChunk ==
  /\ phase = "read"
  /\ \E k \in 1 .. unread:
       IF TooLarge(chunks + k)
         THEN phase' = "exceeded" /\ UNCHANGED <<unread, chunks>>
         ELSE unread' = unread - k /\ chunks' = chunks + k /\ UNCHANGED phase
  /\ UNCHANGED <<files, at, bytesLoaded>>

ReadFails ==
  /\ phase = "read"
  /\ phase' = "failed"
  /\ UNCHANGED <<files, at, unread, chunks, bytesLoaded>>

\* Mutant: the bytes of a file are counted twice.
CountedTwice == bytesLoaded + 2 * chunks

Counted == bytesLoaded + chunks

\* The stream is at its end.
EndFile ==
  /\ phase = "read"
  /\ unread = 0
  /\ bytesLoaded' = Counted
  /\ chunks' = 0
  /\ at' = at + 1
  /\ phase' = "download"
  /\ UNCHANGED <<files, unread>>

Finish ==
  /\ phase = "download"
  /\ at = N + 1
  /\ phase' = "ok"
  /\ UNCHANGED <<files, at, unread, chunks, bytesLoaded>>

-----------------------------------------------------------------------------

Init ==
  /\ size \in [Files -> 0 .. MaxSize]
  /\ declared \in [Files -> 0 .. MaxSize]
  /\ at = 1
  /\ phase = "download"
  /\ unread = 0
  /\ chunks = 0
  /\ bytesLoaded = 0

Next == Download \/ ReadChunk \/ ReadFails \/ EndFile \/ Finish

Spec == Init /\ [][Next]_vars

-----------------------------------------------------------------------------
(* Properties                                                              *)

TypeOK ==
  /\ size \in [Files -> 0 .. MaxSize]
  /\ declared \in [Files -> 0 .. MaxSize]
  /\ at \in IF phase = "read" THEN Files ELSE 1 .. N + 1
  /\ phase \in {"download", "read", "ok", "failed", "exceeded"}
  /\ unread \in 0 .. MaxSize
  /\ chunks \in Nat
  /\ bytesLoaded \in Nat

\* At no point of any download more bytes are kept than the limit, whatever sizes Drive
\* declares.  (The chunk that would be too much, and the copies a buffer is made of, come on
\* top of them.)
Bounded == bytesLoaded + chunks <= MaxTotal

\* Sums(bytes)[k] is what the first k files have together.
Sums(bytes) ==
  LET total[k \in 0 .. N] == IF k = 0 THEN 0 ELSE total[k - 1] + bytes[k]
  IN  total

\* The size of each file, or what is declared of it if that is more.
larger == [f \in Files |-> IF size[f] > declared[f] THEN size[f] ELSE declared[f]]

\* Whatever chunks a stream comes in, a mail is submitted with all bytes of all its
\* files, and refused as too large only if they are, or are declared to be.
LoadsAllOrRefuses ==
  /\ phase = "ok" => bytesLoaded = Sums(size)[N]
  /\ phase = "exceeded" => Sums(larger)[N] > MaxTotal

=============================================================================
