---------------------------- MODULE MailboxLock ----------------------------
(***************************************************************************)
(* The users of an account's connection: the readers of a mailbox (ticks   *)
(* and tools, withMailboxLock in src/src/imap/fetch.ts) and the downloads  *)
(* of attachments (downloadPartByUid there, called by                      *)
(* src/src/sync/attachmentHydration.ts).  They get the connection from the *)
(* pool, take turns with its one mailbox lock, and a download that takes   *)
(* too long is given up by its caller first and by itself later.           *)
(***************************************************************************)
EXTENDS ImapPool, SequencesExt

CONSTANTS Downloads  \* the callers that download an attachment, once

\* Each download may close a connection once.
ASSUME DownloadsAssumption ==
  /\ Downloads \subseteq Callers
  /\ Cardinality(Downloads) <= MaxAborts

Readers == Callers \ Downloads

VARIABLES stage,  \* how far each caller of the pool has come
          on,     \* the client it was given
          queue,  \* those that wait for a mailbox lock, in the order they asked
          taken,  \* clients whose lock is with someone
          call    \* hydrateStoredMessageAttachment, which called the download

lockVars == <<queue, taken>>

userVars == <<stage, on, queue, taken, call>>

allVars == <<vars, userVars>>

-----------------------------------------------------------------------------
(* The mailbox lock, external: one for each client, whatever the mailbox;  *)
(* a release lets the next one in, whoever calls it.                       *)

\* What a stage that waits for the lock becomes with it.
WithLock == [lock |-> "read", probeLock |-> "probe", openLock |-> "open"]

\* ready: the part is open, and holds the lock until its stream is disposed of;
\* stray: so too, but nobody was there to take it.
Holding == {"read", "probe", "open", "ready", "stray"}

Stages == {"idle", "pool", "over"} \cup DOMAIN WithLock \cup Holding

Waits(u) == stage[u] \in DOMAIN WithLock

Holds(u) == stage[u] \in Holding

\* The lock of its client goes to the next, if u has it.
Release(u) == taken' = taken \ {on[u]}

Leave(u) == queue' = Remove(queue, u)

Acquire(u) ==
  /\ Waits(u)
  /\ Connected(on[u])
  /\ on[u] \notin taken
  /\ u = Head(SelectSeq(queue, LAMBDA w : on[w] = on[u]))
  /\ stage' = [stage EXCEPT ![u] = WithLock[@]]
  /\ taken' = taken \cup {on[u]}
  /\ Leave(u)
  /\ UNCHANGED <<vars, on, call>>

-----------------------------------------------------------------------------
(* The connection comes from the pool, which answers asking now or later.  *)

\* The download was still wanted: its caller goes on with what it brought.
Tell(downloads, state) ==
  call' = [d \in Downloads |->
             IF d \in downloads /\ call[d] = "download" THEN state ELSE call[d]]

Asks(u) == IF u \in Readers THEN "lock" ELSE "probeLock"

GivesUp(u) == IF u \in Readers THEN "idle" ELSE "over"

\* Those the pool has just answered line up at the lock of the live client, or
\* end with the error.
Line(asked) ==
  LET told   == asked \ waiting'
      served == {u \in told : answer'[u] = "ok"}
  IN  /\ stage' = [u \in Callers |->
                     IF u \in served THEN Asks(u)
                     ELSE IF u \in told THEN GivesUp(u)
                     ELSE IF u \in asked THEN "pool" ELSE stage[u]]
      /\ on' = [u \in Callers |-> IF u \in served THEN live' ELSE on[u]]
      /\ \E s \in SetToSeqs(served): queue' = queue \o s
      /\ UNCHANGED taken

\* A tick or a tool turns to the mailbox.
Read(r) ==
  /\ stage[r] = "idle"
  /\ Call(r)
  /\ Line(waiting \cup {r})
  /\ UNCHANGED call

\* hydrateStoredMessageAttachment calls downloadPart.
Hydrate(d) ==
  /\ stage[d] = "idle"
  /\ Call(d)
  /\ call' = [call EXCEPT ![d] = "download"]
  /\ Line(waiting \cup {d})

PoolAnswers ==
  /\ Progress
  /\ Line(waiting)
  /\ Tell({d \in Downloads : stage'[d] = "over"}, "answered")

PoolEvent ==
  /\ \/ \E c \in DOMAIN client: Lose(c) \/ Event(c)
     \/ Tick
     \/ BeginCloseAll
     \/ EndCloseAll
  /\ UNCHANGED userVars

-----------------------------------------------------------------------------
(* withMailboxLock                                                         *)

\* The callback returned or threw.
ReadEnds(r) ==
  /\ stage[r] = "read"
  /\ stage' = [stage EXCEPT ![r] = "idle"]
  /\ Release(r)
  /\ UNCHANGED <<vars, on, queue, call>>

\* What waits for a connection that is down, or uses it, fails.  A part that is
\* open is left to its stream.
Breaks(u) ==
  /\ stage[u] \in DOMAIN WithLock \cup (Holding \ {"ready", "stray"})
  /\ ~Connected(on[u])
  /\ stage' = [stage EXCEPT ![u] = GivesUp(u)]
  /\ IF Waits(u) THEN Leave(u) /\ UNCHANGED taken ELSE Release(u) /\ UNCHANGED queue
  /\ Tell({u}, "answered")
  /\ UNCHANGED <<vars, on>>

-----------------------------------------------------------------------------
(* downloadPartByUid                                                       *)

\* The part has been read once to count its bytes; the lock is asked for again.
Probed(d) ==
  /\ stage[d] = "probe"
  /\ stage' = [stage EXCEPT ![d] = "openLock"]
  /\ Release(d)
  /\ queue' = Append(queue, d)
  /\ UNCHANGED <<vars, on, call>>

\* The part is open.  If nobody waits for it any more it is thrown away as it is.
Opened(d) ==
  /\ stage[d] = "open"
  /\ stage' = [stage EXCEPT ![d] = IF call[d] = "download" THEN "ready" ELSE "stray"]
  /\ Tell({d}, "upload")
  /\ UNCHANGED <<vars, on, lockVars>>

\* The server does not give the part, or its stream breaks under the probe.
DownloadFails(d) ==
  /\ stage[d] \in {"probe", "open"}
  /\ stage' = [stage EXCEPT ![d] = "over"]
  /\ Release(d)
  /\ Tell({d}, "answered")
  /\ UNCHANGED <<vars, on, queue>>

\* withDownloadTimeout: the limits of the probe and of the second pass begin no
\* earlier than the caller's, which is as long, so they pass after it.  The
\* connection is closed; what was under way fails with it.
DownloadTimeout(d) ==
  /\ stage[d] \in {"probeLock", "probe", "openLock", "open"}
  /\ call[d] = "timedout"
  /\ Abort(on[d])
  /\ stage' = [stage EXCEPT ![d] = "over"]
  /\ IF Waits(d) THEN Leave(d) /\ UNCHANGED taken ELSE Release(d) /\ UNCHANGED queue
  /\ UNCHANGED <<on, call>>

-----------------------------------------------------------------------------
(* hydrateStoredMessageAttachment                                          *)

\* Mutant: the released flag of openDownloadedPartByUid is missing.
DisposeAgain(d) ==
  /\ stage' = [stage EXCEPT ![d] = "over"]
  /\ Release(d)

\* dispose; the released flag makes the second call do nothing.
Dispose(d) ==
  /\ stage' = [stage EXCEPT ![d] = "over"]
  /\ IF Holds(d) THEN Release(d) ELSE UNCHANGED taken

\* The generator of the content ends, having been read or broken off.
StreamEnds(d) ==
  /\ call[d] = "upload"
  /\ stage[d] = "ready"
  /\ Dispose(d)
  /\ UNCHANGED <<vars, on, queue, call>>

\* uploadAttachment answers or throws; finally disposes of the download.
UploadEnds(d) ==
  /\ call[d] = "upload"
  /\ call' = [call EXCEPT ![d] = "answered"]
  /\ Dispose(d)
  /\ UNCHANGED <<vars, on, queue>>

\* Mutant: the limit of the upload does not dispose of the download.
GiveUpOnly(d) ==
  /\ call[d] \in {"download", "upload"}
  /\ call' = [call EXCEPT ![d] = "timedout"]
  /\ UNCHANGED <<vars, on, queue, stage, taken>>

\* withAttachmentTimeout: the caller is answered; a download goes on alone, an
\* upload loses its stream.
CallTimeout(d) ==
  /\ call[d] \in {"download", "upload"}
  /\ call' = [call EXCEPT ![d] = "timedout"]
  /\ IF call[d] = "upload" THEN Dispose(d) ELSE UNCHANGED <<stage, taken>>
  /\ UNCHANGED <<vars, on, queue>>

-----------------------------------------------------------------------------

LockInit ==
  /\ Init
  /\ stage = [u \in Callers |-> "idle"]
  /\ on = [u \in Callers |-> None]
  /\ queue = <<>>
  /\ taken = {}
  /\ call = [d \in Downloads |-> "none"]

Timeout(d) == CallTimeout(d) \/ DownloadTimeout(d)

Hydration(d) ==
  \/ Hydrate(d) \/ Probed(d) \/ Opened(d) \/ DownloadFails(d)
  \/ StreamEnds(d) \/ UploadEnds(d) \/ Timeout(d)

LockNext ==
  /\ closing # "exited"
  /\ \/ PoolAnswers
     \/ PoolEvent
     \/ \E u \in Callers: Acquire(u) \/ Breaks(u)
     \/ \E r \in Readers: Read(r) \/ ReadEnds(r)
     \/ \E d \in Downloads: Hydration(d)

LockSpec == LockInit /\ [][LockNext]_allVars

\* Limits pass, a free lock is given, what uses a connection that is down fails,
\* ticks come and end; a server that never answers one is left out.  A download
\* or an upload may hang for ever.
LockFairness ==
  /\ WF_allVars(closing # "exited" /\ Tick /\ UNCHANGED userVars)
  /\ WF_allVars(closing # "exited" /\ PoolAnswers)
  /\ \A c \in 1 .. MaxFaults + MaxAborts + 1:
       WF_allVars(closing # "exited" /\ c \in DOMAIN client /\ Event(c) /\ UNCHANGED userVars)
  /\ \A u \in Callers: WF_allVars(closing # "exited" /\ (Acquire(u) \/ Breaks(u)))
  /\ \A r \in Readers: WF_allVars(closing # "exited" /\ (Read(r) \/ ReadEnds(r)))
  /\ \A d \in Downloads: WF_allVars(closing # "exited" /\ Timeout(d))

FairLockSpec == LockSpec /\ LockFairness

-----------------------------------------------------------------------------
(* Properties                                                              *)

UsersTypeOK ==
  /\ TypeOK
  /\ stage \in [Callers -> Stages]
  /\ on \in [Callers -> DOMAIN client \cup {None}]
  /\ queue \in Seq(Callers)
  /\ taken \subseteq DOMAIN client
  /\ call \in [Downloads -> {"none", "download", "upload", "answered", "timedout"}]

\* Two users never work in a mailbox of one connection at once: a download is
\* disposed of by its stream, its limit and its caller, and lets go of the lock once.
OneUser ==
  \A c \in DOMAIN client:
    Connected(c) => Cardinality({u \in Callers : Holds(u) /\ on[u] = c}) <= 1

\* Every tick gets to the mailbox again and again, through lost connections, reconnects
\* and downloads that hang, but for a shutdown and for a part nobody took.
ReadersServed ==
  \A r \in Readers:
    \/ []<>(stage[r] = "read")
    \/ <>(closing # "no")
    \/ <>(\E d \in Downloads: stage[d] = "stray")

\* "closes the IMAP client when attachment download times out": a download
\* that has timed out does not keep the mailbox lock of a connection that is up.
TimedOutLetsGo ==
  \A d \in Downloads:
    call[d] = "timedout" ~>
      \/ ~Holds(d)
      \/ ~Connected(on[d])
      \/ closing # "no"

=============================================================================
