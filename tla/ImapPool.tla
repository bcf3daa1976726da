------------------------------ MODULE ImapPool ------------------------------
(***************************************************************************)
(* The IMAP pool (src/src/imap/pool.ts) for one account: ticks and tools   *)
(* of a process call forAccount and share one connection.  Accounts share  *)
(* nothing.  Time is what is left of each delay, so that deadlines that    *)
(* are equal stay equal.                                                   *)
(***************************************************************************)
EXTENDS Integers, Sequences, FiniteSets

CONSTANTS Callers,   \* callers of forAccount
          Delay,     \* reconnectDelayMs
          MaxFaults, \* bound: tokens refused, connects failed, connections lost
          MaxAborts, \* bound: connections closed by one of their users
          None       \* no client

ASSUME ConstantsAssumption ==
  /\ Delay \in Nat \ {0}
  /\ MaxFaults \in Nat
  /\ MaxAborts \in Nat
  /\ None \notin Nat

VARIABLES client,   \* the ImapFlow clients, in the order they were made
          live,     \* liveById
          window,   \* time left until reconnectAfterById; 0 when past or unset
          quiet,    \* time since it was set, or a connection came up, up to Delay
          attempt,  \* connectingById: where connectFresh stands
          waiting,  \* callers that await it
          answer,   \* the last answer of each caller
          closing,  \* where closeAll stands
          leaving,  \* the client it logs out
          faults,
          aborts

vars == <<client, live, window, quiet, attempt, waiting, answer, closing, leaving,
          faults, aborts>>

shutdownVars == <<closing, leaving>>

-----------------------------------------------------------------------------

\* dead: not usable any more, with its events still to come; closed: so too, but
\* close has been called; gone: all its events have come.
Statuses == {"connecting", "open", "dead", "closed", "gone"}

Connected(c) == client[c] \in {"connecting", "open"}

At(phase, sleep) == [phase |-> phase, sleep |-> sleep]

Idle == At("none", 0)

Attempts == [phase: {"none", "sleep", "auth", "connect"}, sleep: 0 .. Delay]

Fault == faults < MaxFaults /\ faults' = faults + 1

\* delayReconnect
DelayReconnect == window' = Delay /\ quiet' = 0

\* closeClient; closing a client twice does nothing.
Close(c) == client' = [client EXCEPT ![c] = IF @ = "gone" THEN @ ELSE "closed"]

\* connectFresh ends: all who await it get its result, and the first of them
\* clears connectingById.
Settle(result) ==
  /\ attempt' = Idle
  /\ waiting' = {}
  /\ answer' = [c \in Callers |-> IF c \in waiting THEN result ELSE answer[c]]

-----------------------------------------------------------------------------
(* forAccount                                                              *)

Usable == live # None /\ client[live] = "open"

UseLive(c) ==
  /\ c \notin waiting
  /\ Usable
  /\ answer' = [answer EXCEPT ![c] = "ok"]
  /\ UNCHANGED <<client, live, window, quiet, attempt, waiting, shutdownVars, faults, aborts>>

\* connectFresh up to its first await.
Start == IF window > 0 THEN At("sleep", window) ELSE At("auth", 0)

\* Mutant: connectingById is not asked.
StartAnew == attempt' = Start

\* The caller joins the attempt under way or starts one.
JoinOrStart == attempt' = IF attempt = Idle THEN Start ELSE attempt

\* A live client that is not usable is evicted first.
Connect(c) ==
  /\ c \notin waiting
  /\ ~Usable
  /\ live' = None
  /\ IF live = None THEN UNCHANGED client ELSE Close(live)
  /\ waiting' = waiting \cup {c}
  /\ JoinOrStart
  /\ UNCHANGED <<window, quiet, answer, shutdownVars, faults, aborts>>

-----------------------------------------------------------------------------
(* connectFresh                                                            *)

\* Mutant: the reconnect window is not awaited.
SleptEnough(a) == a.phase = "sleep"

SleepOver(a) == a.phase = "sleep" /\ a.sleep = 0

\* waitForReconnectWindow returns; a window set anew meanwhile stays.
Wake ==
  /\ SleepOver(attempt)
  /\ attempt' = At("auth", 0)
  /\ window' = IF window = attempt.sleep THEN 0 ELSE window
  /\ UNCHANGED <<quiet, client, live, waiting, answer, shutdownVars, faults, aborts>>

\* resolveAuth answers; with credentials a new client begins to connect.
Authenticate ==
  /\ attempt.phase = "auth"
  /\ \/ /\ Fault
        /\ DelayReconnect
        /\ Settle("err")
        /\ UNCHANGED client
     \/ /\ client' = Append(client, "connecting")
        /\ attempt' = At("connect", 0)
        /\ UNCHANGED <<window, quiet, waiting, answer, faults>>
  /\ UNCHANGED <<live, shutdownVars, aborts>>

\* client.connect resolves.
ConnectResolves ==
  LET c == Len(client)
  IN  /\ attempt.phase = "connect"
      /\ client[c] = "connecting"
      /\ client' = [client EXCEPT ![c] = "open"]
      /\ live' = c
      /\ window' = 0
      /\ quiet' = Delay
      /\ Settle("ok")
      /\ UNCHANGED <<shutdownVars, faults, aborts>>

\* client.connect rejects, also when the client died or was closed meanwhile.
ConnectRejects ==
  LET c == Len(client)
  IN  /\ attempt.phase = "connect"
      /\ IF client[c] = "connecting" THEN Fault ELSE UNCHANGED faults
      /\ DelayReconnect
      /\ Close(c)
      /\ Settle("err")
      /\ UNCHANGED <<live, shutdownVars, aborts>>

-----------------------------------------------------------------------------
(* The connection, external: modelled from the events the pool listens to.  *)
(* A client that was closed emits no error, only its close.                *)

Lose(c) ==
  /\ Connected(c)
  /\ Fault
  /\ client' = [client EXCEPT ![c] = "dead"]
  /\ UNCHANGED <<live, window, quiet, attempt, waiting, answer, shutdownVars, aborts>>

\* One of its users closes the connection under the others (abortImapOperation in
\* fetch.ts); liveById is told by the close event, or by the next call.
Abort(c) ==
  /\ client[c] # "connecting"
  /\ aborts < MaxAborts
  /\ aborts' = aborts + 1
  /\ Close(c)
  /\ UNCHANGED <<live, window, quiet, attempt, waiting, answer, shutdownVars, faults>>

\* Mutant: whichever client is live is dropped.
DropAny(c) == live' = None

\* Both handlers drop the client only if it is still the live one.
Drop(c) == live' = IF live = c THEN None ELSE live

OnError(c) ==
  /\ client[c] = "dead"
  /\ Drop(c)
  /\ DelayReconnect
  /\ Close(c)
  /\ UNCHANGED <<attempt, waiting, answer, shutdownVars, faults, aborts>>

OnClose(c) ==
  /\ client[c] \in {"dead", "closed"}
  /\ Drop(c)
  /\ client' = [client EXCEPT ![c] = "gone"]
  /\ UNCHANGED <<window, quiet, attempt, waiting, answer, shutdownVars, faults, aborts>>

Pass(t) == IF t > 0 THEN t - 1 ELSE 0

Tick ==
  /\ window > 0 \/ attempt.sleep > 0
  /\ window' = Pass(window)
  /\ quiet' = IF quiet < Delay THEN quiet + 1 ELSE quiet
  /\ attempt' = [attempt EXCEPT !.sleep = Pass(@)]
  /\ UNCHANGED <<client, live, waiting, answer, shutdownVars, faults, aborts>>

-----------------------------------------------------------------------------
(* closeAll, at shutdown; the process exits after it.                      *)

BeginCloseAll ==
  /\ closing = "no"
  /\ closing' = "logout"
  /\ leaving' = live
  /\ UNCHANGED <<client, live, window, quiet, attempt, waiting, answer, faults, aborts>>

\* The client that was live has logged out, or is closed because that failed;
\* the maps are cleared of what came into them meanwhile, too.
EndCloseAll ==
  /\ closing = "logout"
  /\ closing' = "exited"
  /\ leaving' = None
  /\ IF leaving = None THEN UNCHANGED client ELSE Close(leaving)
  /\ live' = None
  /\ window' = 0
  /\ UNCHANGED <<quiet, attempt, waiting, answer, faults, aborts>>

-----------------------------------------------------------------------------

Init ==
  /\ client = <<>>
  /\ live = None
  /\ window = 0
  /\ quiet = Delay
  /\ attempt = Idle
  /\ waiting = {}
  /\ answer = [c \in Callers |-> "none"]
  /\ closing = "no"
  /\ leaving = None
  /\ faults = 0
  /\ aborts = 0

Progress == Wake \/ Authenticate \/ ConnectResolves \/ ConnectRejects

Call(c) == UseLive(c) \/ Connect(c)

Event(c) == OnError(c) \/ OnClose(c)

Next ==
  \/ /\ closing # "exited"
     /\ \/ \E c \in Callers: Call(c)
        \/ Progress
        \/ \E c \in DOMAIN client: Lose(c) \/ Event(c) \/ Abort(c)
        \/ Tick
        \/ BeginCloseAll
  \/ EndCloseAll

Spec == Init /\ [][Next]_vars

-----------------------------------------------------------------------------
(* Properties                                                              *)

TypeOK ==
  /\ client \in Seq(Statuses)
  /\ live \in DOMAIN client \cup {None}
  /\ window \in 0 .. Delay
  /\ quiet \in 0 .. Delay
  /\ attempt \in Attempts
  /\ waiting \subseteq Callers
  /\ answer \in [Callers -> {"none", "ok", "err"}]
  /\ closing \in {"no", "logout", "exited"}
  /\ leaving \in DOMAIN client \cup {None}
  /\ faults \in 0 .. MaxFaults
  /\ aborts \in 0 .. MaxAborts

\* However calls, evictions, reconnects and events interleave, the process never
\* holds two connections of an account at once.
OneConnection == Cardinality({c \in DOMAIN client : Connected(c)}) <= 1

\* No connection is lost sight of: one that is up is the live one or the one
\* being made; late events of its predecessor do not take it out of liveById.
NoStrayConnection ==
  closing # "exited" =>
    \A c \in DOMAIN client: Connected(c) =>
      live = c \/ (attempt.phase = "connect" /\ c = Len(client))

\* After a refused token, a failed connect or an error event no client is made
\* before reconnectDelayMs have passed, whoever calls, unless a connection came up since.
ReconnectThrottled == [][Len(client') > Len(client) => quiet = Delay]_vars

=============================================================================
