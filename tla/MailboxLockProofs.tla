------------------------- MODULE MailboxLockProofs -------------------------
(***************************************************************************)
(* The pool and the users of its connection, for any readers, downloads,   *)
(* reconnect window and number of faults: there is one connection, and it  *)
(* is known; what users do to the pool are steps of the pool, so all that  *)
(* is proved of it holds with them; and the mailbox lock keeps them apart. *)
(***************************************************************************)
EXTENDS MailboxLock, FiniteSetTheorems, TLAPS

-----------------------------------------------------------------------------
(* The pool                                                                *)

\* While a connection is being made no other is live: forAccount evicts the live
\* client before it starts an attempt, and the attempt ends when it sets one.
AttemptAlone ==
  /\ attempt.phase # "none" => live = None
  /\ attempt.phase = "connect" => client # <<>>

\* OneConnection, as a statement about two clients.
OneUp == \A c, d \in DOMAIN client: Connected(c) /\ Connected(d) => c = d

PoolInv == TypeOK /\ AttemptAlone /\ NoStrayConnection /\ OneUp

-----------------------------------------------------------------------------

\* A close changes one client, and no client comes up by it.
LEMMA CloseOnlyCloses ==
  ASSUME TypeOK, NEW c \in DOMAIN client, Close(c)
  PROVE  /\ client' \in Seq(Statuses)
         /\ DOMAIN client' = DOMAIN client
         /\ Len(client') = Len(client)
         /\ client'[c] \in {"closed", "gone"}
         /\ \A d \in DOMAIN client: d # c => client'[d] = client[d]
BY DEF Close, TypeOK, Statuses

\* The values of the variables stay of their types.
LEMMA TypeStep == TypeOK /\ AttemptAlone /\ [Next]_vars => TypeOK'
<1> SUFFICES ASSUME TypeOK, AttemptAlone, [Next]_vars
             PROVE  TypeOK'
  OBVIOUS
<1> USE ConstantsAssumption DEF TypeOK, Attempts, Fault, shutdownVars
<1>1. ASSUME NEW c \in Callers, UseLive(c)
      PROVE  TypeOK'
  BY <1>1 DEF UseLive
<1>2. ASSUME NEW c \in Callers, Connect(c)
      PROVE  TypeOK'
  <2>1. attempt' \in Attempts
    BY <1>2 DEF Connect, JoinOrStart, Start, At
  <2>2. CASE live = None
    BY <1>2, <2>1, <2>2 DEF Connect
  <2>3. CASE live # None
    <3>1. client' \in Seq(Statuses) /\ DOMAIN client' = DOMAIN client
      BY <1>2, <2>3, CloseOnlyCloses DEF Connect
    <3> QED
      BY <1>2, <2>1, <3>1 DEF Connect
  <2> QED
    BY <2>2, <2>3
<1>3. CASE Wake
  BY <1>3 DEF Wake, SleepOver, At
<1>4. CASE Authenticate
  <2>1. CASE client' = Append(client, "connecting") /\ attempt' = At("connect", 0)
             /\ UNCHANGED <<window, quiet, waiting, answer, faults>>
    <3>1. client' \in Seq(Statuses) /\ DOMAIN client \subseteq DOMAIN client'
      BY <2>1 DEF Statuses
    <3> QED
      BY <1>4, <2>1, <3>1 DEF Authenticate, At
  <2>2. CASE Fault /\ DelayReconnect /\ Settle("err") /\ UNCHANGED client
    BY <1>4, <2>2 DEF Authenticate, DelayReconnect, Settle, Idle, At
  <2> QED
    BY <1>4, <2>1, <2>2 DEF Authenticate
<1>5. CASE ConnectResolves
  <2>1. Len(client) \in DOMAIN client
    BY <1>5 DEF ConnectResolves, AttemptAlone
  <2>2. client' \in Seq(Statuses) /\ DOMAIN client' = DOMAIN client
    BY <1>5, <2>1 DEF ConnectResolves, Statuses
  <2> QED
    BY <1>5, <2>1, <2>2 DEF ConnectResolves, Settle, Idle, At
<1>6. CASE ConnectRejects
  <2>1. Len(client) \in DOMAIN client
    BY <1>6 DEF ConnectRejects, AttemptAlone
  <2>2. client' \in Seq(Statuses) /\ DOMAIN client' = DOMAIN client
    BY <1>6, <2>1, CloseOnlyCloses DEF ConnectRejects
  <2> QED
    BY <1>6, <2>2 DEF ConnectRejects, DelayReconnect, Settle, Idle, At
<1>7. ASSUME NEW c \in DOMAIN client, Lose(c)
      PROVE  TypeOK'
  <2>1. client' \in Seq(Statuses) /\ DOMAIN client' = DOMAIN client
    BY <1>7 DEF Lose, Statuses
  <2> QED
    BY <1>7, <2>1 DEF Lose
<1>8. ASSUME NEW c \in DOMAIN client, OnError(c)
      PROVE  TypeOK'
  <2>1. client' \in Seq(Statuses) /\ DOMAIN client' = DOMAIN client
    BY <1>8, CloseOnlyCloses DEF OnError
  <2> QED
    BY <1>8, <2>1 DEF OnError, Drop, DelayReconnect
<1>9. ASSUME NEW c \in DOMAIN client, OnClose(c)
      PROVE  TypeOK'
  <2>1. client' \in Seq(Statuses) /\ DOMAIN client' = DOMAIN client
    BY <1>9 DEF OnClose, Statuses
  <2> QED
    BY <1>9, <2>1 DEF OnClose, Drop
<1>10. ASSUME NEW c \in DOMAIN client, Abort(c)
       PROVE  TypeOK'
  <2>1. client' \in Seq(Statuses) /\ DOMAIN client' = DOMAIN client
    BY <1>10, CloseOnlyCloses DEF Abort
  <2> QED
    BY <1>10, <2>1 DEF Abort
<1>11. CASE Tick
  BY <1>11 DEF Tick, Pass
<1>12. CASE BeginCloseAll
  BY <1>12 DEF BeginCloseAll
<1>13. CASE EndCloseAll
  <2>1. client' \in Seq(Statuses) /\ DOMAIN client' = DOMAIN client
    BY <1>13, CloseOnlyCloses DEF EndCloseAll
  <2> QED
    BY <1>13, <2>1 DEF EndCloseAll
<1>14. CASE UNCHANGED vars
  BY <1>14 DEF vars
<1> QED
  BY <1>1, <1>2, <1>3, <1>4, <1>5, <1>6, <1>7, <1>8, <1>9, <1>10, <1>11, <1>12, <1>13, <1>14
     DEF Next, Call, Progress, Event

-----------------------------------------------------------------------------

\* A step that lets no client come up, and keeps those that are up known, keeps the rest.
LEMMA NoneComesUp ==
  ASSUME PoolInv, closing # "exited", DOMAIN client' = DOMAIN client,
         Len(client') = Len(client), attempt' = attempt, closing' = closing,
         \A d \in DOMAIN client: Connected(d)' => Connected(d) /\ (live' = live \/ live # d),
         live' \in {live, None}
  PROVE  AttemptAlone' /\ NoStrayConnection' /\ OneUp'
<1> USE DEF PoolInv, Connected, TypeOK
<1>1. AttemptAlone'
  BY DEF AttemptAlone
<1>2. NoStrayConnection'
  BY DEF NoStrayConnection
<1>3. OneUp'
  BY DEF OneUp
<1> QED
  BY <1>1, <1>2, <1>3

\* A caller evicts the client that is live and not usable before it starts an attempt.
LEMMA ConnectStep ==
  ASSUME PoolInv, closing # "exited", NEW c \in Callers, Connect(c)
  PROVE  AttemptAlone' /\ NoStrayConnection' /\ OneUp'
<1> USE DEF PoolInv
<1>1. live' = None /\ closing' = closing
  BY DEF Connect, shutdownVars
<1>2. attempt.phase # "none" => attempt' = attempt
  BY DEF Connect, JoinOrStart, Idle, At
<1>3. attempt'.phase = "connect" => attempt' = attempt
  BY DEF Connect, JoinOrStart, Start, At
<1>4. CASE live = None
  <2>1. client' = client
    BY <1>4 DEF Connect
  <2>2. AttemptAlone'
    BY <1>1, <1>3, <2>1 DEF AttemptAlone
  <2>3. NoStrayConnection'
    BY <1>1, <1>2, <1>4, <2>1, ConstantsAssumption
       DEF NoStrayConnection, Connected, TypeOK
  <2>4. OneUp'
    BY <2>1 DEF OneUp, Connected
  <2> QED
    BY <2>2, <2>3, <2>4
<1>5. CASE live # None
  <2>1. live \in DOMAIN client /\ Close(live) /\ client[live] # "open"
    BY <1>5 DEF Connect, Usable, TypeOK
  <2>2. /\ DOMAIN client' = DOMAIN client
        /\ Len(client') = Len(client)
        /\ client'[live] \in {"closed", "gone"}
        /\ \A d \in DOMAIN client: d # live => client'[d] = client[d]
    BY <2>1, CloseOnlyCloses
  <2>3. attempt.phase = "none"
    BY <1>5 DEF AttemptAlone
  <2>4. \A d \in DOMAIN client: Connected(d) => d = live
    BY <2>3 DEF NoStrayConnection
  <2>5. \A d \in DOMAIN client': ~Connected(d)'
    BY <2>2, <2>4 DEF Connected
  <2>6. attempt'.phase # "connect"
    BY <1>3, <2>3
  <2> QED
    BY <1>1, <2>5, <2>6 DEF AttemptAlone, NoStrayConnection, OneUp
<1> QED
  BY <1>4, <1>5

\* A client is made only in an attempt, when no other is up.
LEMMA AuthenticateStep ==
  ASSUME PoolInv, closing # "exited", Authenticate
  PROVE  AttemptAlone' /\ NoStrayConnection' /\ OneUp'
<1> USE DEF PoolInv
<1>1. attempt.phase = "auth" /\ live = None /\ live' = None /\ closing' = closing
  BY DEF Authenticate, AttemptAlone, shutdownVars
<1>2. \A d \in DOMAIN client: ~Connected(d)
  BY <1>1, ConstantsAssumption DEF NoStrayConnection, TypeOK
<1>3. CASE attempt' = Idle /\ client' = client
  BY <1>1, <1>2, <1>3 DEF AttemptAlone, NoStrayConnection, OneUp, Connected, Idle, At
<1>4. CASE client' = Append(client, "connecting") /\ attempt' = At("connect", 0)
  <2>1. /\ Len(client') = Len(client) + 1
        /\ DOMAIN client' = 1 .. Len(client')
        /\ DOMAIN client = 1 .. Len(client)
        /\ \A d \in DOMAIN client: client'[d] = client[d]
    BY <1>4 DEF TypeOK
  <2>2. Len(client) \in Nat
    BY DEF TypeOK
  <2>3. \A d \in DOMAIN client': Connected(d)' => d = Len(client')
    BY <1>2, <2>1, <2>2 DEF Connected
  <2>4. client' # <<>>
    BY <2>1, <2>2
  <2>5. attempt'.phase = "connect"
    BY <1>4 DEF At
  <2> QED
    BY <1>1, <2>3, <2>4, <2>5 DEF AttemptAlone, NoStrayConnection, OneUp
<1> QED
  BY <1>3, <1>4 DEF Authenticate, Settle

\* The end of an attempt: its client is live from now on, or closed.
LEMMA SettleStep ==
  ASSUME PoolInv, closing # "exited", ConnectResolves \/ ConnectRejects
  PROVE  AttemptAlone' /\ NoStrayConnection' /\ OneUp'
<1> USE DEF PoolInv
<1>1. /\ attempt.phase = "connect" /\ live = None /\ client # <<>>
      /\ closing' = closing /\ attempt' = Idle
  BY DEF ConnectResolves, ConnectRejects, Settle, AttemptAlone, shutdownVars
<1>2. Len(client) \in DOMAIN client
  BY <1>1 DEF TypeOK
<1>3. \A d \in DOMAIN client: Connected(d) => d = Len(client)
  BY <1>1, ConstantsAssumption DEF NoStrayConnection, TypeOK
<1>4. AttemptAlone'
  BY <1>1 DEF AttemptAlone, Idle, At
<1>5. CASE ConnectResolves
  <2>1. /\ DOMAIN client' = DOMAIN client
        /\ live' = Len(client)
        /\ \A d \in DOMAIN client: d # Len(client) => client'[d] = client[d]
    BY <1>5 DEF ConnectResolves
  <2>2. \A d \in DOMAIN client': Connected(d)' => d = live'
    BY <1>3, <2>1 DEF Connected
  <2> QED
    BY <1>4, <2>2 DEF NoStrayConnection, OneUp
<1>6. CASE ConnectRejects
  <2>1. Close(Len(client))
    BY <1>6 DEF ConnectRejects
  <2>2. /\ DOMAIN client' = DOMAIN client
        /\ client'[Len(client)] \in {"closed", "gone"}
        /\ \A d \in DOMAIN client: d # Len(client) => client'[d] = client[d]
    BY <1>2, <2>1, CloseOnlyCloses
  <2>3. \A d \in DOMAIN client': ~Connected(d)'
    BY <1>3, <2>2 DEF Connected
  <2> QED
    BY <1>4, <2>3 DEF NoStrayConnection, OneUp
<1> QED
  BY <1>5, <1>6

-----------------------------------------------------------------------------

THEOREM PoolInductive == PoolInv /\ [Next]_vars => PoolInv'
<1> SUFFICES ASSUME PoolInv, [Next]_vars
             PROVE  AttemptAlone' /\ NoStrayConnection' /\ OneUp'
  BY TypeStep DEF PoolInv
<1> USE DEF PoolInv
<1>1. CASE UNCHANGED vars
  BY <1>1 DEF vars, AttemptAlone, NoStrayConnection, OneUp, Connected
<1>2. CASE EndCloseAll
  <2>1. closing' = "exited" /\ live' = None /\ attempt' = attempt
    BY <1>2 DEF EndCloseAll
  <2>2. CASE leaving = None
    BY <1>2, <2>1, <2>2 DEF EndCloseAll, AttemptAlone, NoStrayConnection, OneUp, Connected
  <2>3. CASE leaving # None
    <3>1. leaving \in DOMAIN client /\ Close(leaving)
      BY <1>2, <2>3 DEF EndCloseAll, TypeOK
    <3>2. /\ DOMAIN client' = DOMAIN client
          /\ Len(client') = Len(client)
          /\ client' \in Seq(Statuses)
          /\ client'[leaving] \in {"closed", "gone"}
          /\ \A d \in DOMAIN client: d # leaving => client'[d] = client[d]
      BY <3>1, CloseOnlyCloses
    <3>3. client # <<>> => client' # <<>>
      BY <3>2 DEF TypeOK
    <3>4. OneUp'
      BY <3>2 DEF OneUp, Connected
    <3> QED
      BY <2>1, <3>3, <3>4 DEF AttemptAlone, NoStrayConnection
  <2> QED
    BY <2>2, <2>3
<1>3. ASSUME closing # "exited",
             \/ \E c \in Callers: Call(c)
             \/ Progress
             \/ \E c \in DOMAIN client: Lose(c) \/ Event(c) \/ Abort(c)
             \/ Tick
             \/ BeginCloseAll
      PROVE  AttemptAlone' /\ NoStrayConnection' /\ OneUp'
  <2> USE <1>3
  <2>1. ASSUME NEW c \in Callers, UseLive(c)
        PROVE  AttemptAlone' /\ NoStrayConnection' /\ OneUp'
    BY <2>1 DEF UseLive, shutdownVars, AttemptAlone, NoStrayConnection, OneUp, Connected
  <2>2. ASSUME NEW c \in Callers, Connect(c)
        PROVE  AttemptAlone' /\ NoStrayConnection' /\ OneUp'
    BY <2>2, ConnectStep
  <2>3. CASE Wake
    BY <2>3 DEF Wake, SleepOver, At, shutdownVars, AttemptAlone, NoStrayConnection, OneUp, Connected
  <2>4. CASE Authenticate
    BY <2>4, AuthenticateStep
  <2>5. CASE ConnectResolves \/ ConnectRejects
    BY <2>5, SettleStep
  <2>6. ASSUME NEW c \in DOMAIN client, Lose(c)
        PROVE  AttemptAlone' /\ NoStrayConnection' /\ OneUp'
    <3>1. /\ DOMAIN client' = DOMAIN client /\ Len(client') = Len(client)
          /\ \A d \in DOMAIN client: Connected(d)' => Connected(d)
          /\ live' = live /\ attempt' = attempt /\ closing' = closing
      BY <2>6 DEF Lose, Connected, TypeOK, shutdownVars
    <3> QED
      BY <3>1, NoneComesUp
  <2>7. ASSUME NEW c \in DOMAIN client, Event(c) \/ Abort(c)
        PROVE  AttemptAlone' /\ NoStrayConnection' /\ OneUp'
    <3>1. /\ DOMAIN client' = DOMAIN client /\ Len(client') = Len(client)
          /\ ~Connected(c)'
          /\ \A d \in DOMAIN client: d # c => client'[d] = client[d]
      <4>1. CASE OnClose(c)
        BY <4>1 DEF OnClose, Connected, TypeOK
      <4>2. CASE Close(c)
        BY <4>2, CloseOnlyCloses DEF Connected
      <4> QED
        BY <2>7, <4>1, <4>2 DEF Event, OnError, Abort
    <3>2. \A d \in DOMAIN client: Connected(d)' => Connected(d) /\ d # c
      BY <3>1 DEF Connected
    <3>3. attempt' = attempt /\ closing' = closing
      BY <2>7 DEF Event, OnError, OnClose, Abort, shutdownVars
    <3>4. live' = live \/ (live = c /\ live' = None)
      BY <2>7 DEF Event, OnError, OnClose, Abort, Drop
    <3> QED
      BY <3>1, <3>2, <3>3, <3>4, NoneComesUp
  <2>8. CASE Tick
    <3>1. attempt'.phase = attempt.phase
      BY <2>8 DEF Tick, TypeOK, Attempts
    <3> QED
      BY <2>8, <3>1 DEF Tick, shutdownVars, AttemptAlone, NoStrayConnection, OneUp, Connected
  <2>9. CASE BeginCloseAll
    BY <2>9 DEF BeginCloseAll, AttemptAlone, NoStrayConnection, OneUp, Connected
  <2> QED
    BY <2>1, <2>2, <2>3, <2>4, <2>5, <2>6, <2>7, <2>8, <2>9 DEF Progress, Call
<1> QED
  BY <1>1, <1>2, <1>3 DEF Next

\* Two clients that are up are the same, so there is at most one.
LEMMA OneUpIsOneConnection == OneUp => OneConnection
<1> DEFINE Up == {c \in DOMAIN client : Connected(c)}
<1> SUFFICES ASSUME OneUp
             PROVE  Cardinality(Up) <= 1
  BY DEF OneConnection
<1>1. CASE Up = {}
  BY <1>1, FS_EmptySet
<1>2. CASE Up # {}
  <2>1. PICK c \in Up: TRUE
    BY <1>2
  <2>2. Up = {c}
    BY <2>1 DEF OneUp
  <2>3. Cardinality({c}) = 1
    BY FS_Singleton
  <2> QED
    BY <2>2, <2>3
<1> QED
  BY <1>1, <1>2

LEMMA PoolInitially == Init => PoolInv
BY ConstantsAssumption
   DEF Init, PoolInv, TypeOK, AttemptAlone, NoStrayConnection, OneUp, Idle, At, Attempts, Connected

THEOREM PoolInvariant == Spec => []PoolInv
BY PoolInitially, PoolInductive, PTL DEF Spec

\* The process holds at most one connection of an account, however calls, evictions,
\* reconnects, aborts and the events of old clients interleave.
THEOREM OneConnectionKept == Spec => []OneConnection
<1>1. PoolInv => OneConnection
  BY OneUpIsOneConnection DEF PoolInv
<1> QED
  BY <1>1, PoolInvariant, PTL

\* A connection that is up is the live one or the one being made: none leaks.
THEOREM NoConnectionLost == Spec => []NoStrayConnection
<1>1. PoolInv => NoStrayConnection
  BY DEF PoolInv
<1> QED
  BY <1>1, PoolInvariant, PTL

-----------------------------------------------------------------------------
(* The reconnect window                                                    *)

\* A client whose error event is still to come is known like one that is up, so no such
\* event sets the window anew while an attempt waits for it.
NoStrayDead ==
  \A c \in DOMAIN client:
    client[c] = "dead" => live = c \/ (attempt.phase = "connect" /\ c = Len(client))

\* What is left of the window, or of the sleep, is no less than what the quiet lacks.
WindowInv ==
  closing # "exited" =>
    /\ NoStrayDead
    /\ window + quiet >= Delay
    /\ attempt.phase = "sleep" => attempt.sleep + quiet >= Delay
    /\ attempt.phase = "auth" => quiet = Delay

\* No error event comes between the steps of an attempt but while its client connects.
LEMMA NoErrorInAttempt ==
  ASSUME PoolInv, NoStrayDead, attempt.phase \in {"sleep", "auth"}
  PROVE  \A c \in DOMAIN client: client[c] # "dead"
<1>1. live = None /\ \A c \in DOMAIN client: c \in Nat
  BY DEF PoolInv, AttemptAlone, TypeOK
<1> QED
  BY <1>1, ConstantsAssumption DEF NoStrayDead

\* The attempt and its delays as they were, and no more clients dead than there were.
LEMMA NoneDies ==
  ASSUME PoolInv, WindowInv, closing # "exited", UNCHANGED <<window, quiet, attempt>>,
         DOMAIN client' = DOMAIN client, Len(client') = Len(client),
         \A d \in DOMAIN client: client'[d] = "dead" => client[d] = "dead" /\ (live' = live \/ live # d)
  PROVE  WindowInv'
<1>1. NoStrayDead'
  BY DEF WindowInv, NoStrayDead
<1> QED
  BY <1>1 DEF WindowInv

LEMMA WindowCall ==
  ASSUME PoolInv, WindowInv, closing # "exited", NEW c \in Callers, Call(c)
  PROVE  WindowInv'
<1> USE DEF PoolInv
<1>1. CASE UseLive(c)
  BY <1>1, NoneDies DEF UseLive
<1>2. CASE Connect(c)
  <2>1. live' = None /\ UNCHANGED <<window, quiet>>
    BY <1>2 DEF Connect
  <2>2. \A d \in DOMAIN client': client'[d] = "dead"
          => d \in DOMAIN client /\ client[d] = "dead" /\ d # live
    <3>1. CASE live = None
      BY <1>2, <3>1, ConstantsAssumption DEF Connect, TypeOK
    <3>2. CASE live # None
      BY <1>2, <3>2, CloseOnlyCloses DEF Connect, TypeOK
    <3> QED
      BY <3>1, <3>2
  <2>3. attempt.phase = "connect" => attempt' = attempt /\ client' = client
    BY <1>2 DEF Connect, JoinOrStart, Idle, At, AttemptAlone
  <2>4. NoStrayDead'
    BY <2>2, <2>3 DEF WindowInv, NoStrayDead
  <2>5. CASE attempt' = attempt
    BY <2>1, <2>4, <2>5 DEF WindowInv
  <2>6. CASE attempt' = Start
    <3>1. CASE window > 0
      BY <2>1, <2>4, <2>6, <3>1 DEF WindowInv, Start, At
    <3>2. CASE ~(window > 0)
      <4>1. window = 0 /\ quiet \in 0 .. Delay /\ Delay \in Nat
        BY <3>2, ConstantsAssumption DEF TypeOK
      <4>2. quiet = Delay
        BY <4>1 DEF WindowInv
      <4>3. attempt'.phase = "auth"
        BY <2>6, <3>2 DEF Start, At
      <4>4. window' + quiet' >= Delay
        BY <2>1 DEF WindowInv
      <4> QED
        BY <2>1, <2>4, <4>2, <4>3, <4>4 DEF WindowInv
    <3> QED
      BY <3>1, <3>2
  <2> QED
    BY <1>2, <2>5, <2>6 DEF Connect, JoinOrStart
<1> QED
  BY <1>1, <1>2 DEF Call

LEMMA WindowProgress ==
  ASSUME PoolInv, WindowInv, closing # "exited", Progress
  PROVE  WindowInv'
<1> USE DEF PoolInv
<1>0. Delay \in Nat /\ window \in 0 .. Delay /\ quiet \in 0 .. Delay
  BY ConstantsAssumption DEF TypeOK
<1>1. CASE Wake
  <2>1. quiet = Delay
    BY <1>0, <1>1 DEF Wake, SleepOver, WindowInv
  <2>2. attempt'.phase = "auth" /\ UNCHANGED <<quiet, client, live>>
    BY <1>1 DEF Wake, At
  <2>3. NoStrayDead'
    BY <1>1, <2>2 DEF Wake, SleepOver, WindowInv, NoStrayDead
  <2>4. window' + quiet' >= Delay
    BY <1>0, <1>1, <2>1 DEF Wake
  <2> QED
    BY <2>1, <2>2, <2>3, <2>4 DEF WindowInv
<1>2. CASE Authenticate
  <2>1. \A d \in DOMAIN client: client[d] # "dead"
    BY <1>2, NoErrorInAttempt DEF Authenticate, WindowInv
  <2>2. CASE DelayReconnect /\ attempt' = Idle /\ UNCHANGED client
    BY <1>0, <2>1, <2>2 DEF DelayReconnect, Idle, At, WindowInv, NoStrayDead
  <2>3. CASE client' = Append(client, "connecting") /\ attempt' = At("connect", 0)
             /\ UNCHANGED <<window, quiet>>
    <3>1. \A d \in DOMAIN client': client'[d] # "dead"
      BY <2>1, <2>3 DEF TypeOK
    <3> QED
      BY <2>3, <3>1 DEF At, WindowInv, NoStrayDead
  <2> QED
    BY <1>2, <2>2, <2>3 DEF Authenticate, Settle
<1>3. CASE ConnectResolves \/ ConnectRejects
  <2>1. attempt.phase = "connect" /\ live = None /\ client # <<>> /\ attempt' = Idle
    BY <1>3 DEF ConnectResolves, ConnectRejects, Settle, AttemptAlone
  <2>2. Len(client) \in DOMAIN client
    BY <2>1 DEF TypeOK
  <2>3. \A d \in DOMAIN client: client[d] = "dead" => d = Len(client)
    BY <2>1, ConstantsAssumption DEF WindowInv, NoStrayDead, TypeOK
  <2>4. \A d \in DOMAIN client': client'[d] # "dead"
    <3>1. CASE ConnectResolves
      BY <2>2, <2>3, <3>1 DEF ConnectResolves, TypeOK
    <3>2. CASE ConnectRejects
      BY <2>2, <2>3, <3>2, CloseOnlyCloses DEF ConnectRejects
    <3> QED
      BY <1>3, <3>1, <3>2
  <2>5. window' + quiet' >= Delay
    BY <1>0, <1>3 DEF ConnectResolves, ConnectRejects, DelayReconnect
  <2> QED
    BY <2>1, <2>4, <2>5 DEF WindowInv, NoStrayDead, Idle, At
<1> QED
  BY <1>1, <1>2, <1>3 DEF Progress

LEMMA WindowEvent ==
  ASSUME PoolInv, WindowInv, closing # "exited",
         NEW c \in DOMAIN client, Lose(c) \/ Event(c) \/ Abort(c)
  PROVE  WindowInv'
<1> USE DEF PoolInv
<1>1. CASE Lose(c)
  <2>1. /\ DOMAIN client' = DOMAIN client /\ Len(client') = Len(client)
        /\ UNCHANGED <<window, quiet, attempt, live>>
        /\ \A d \in DOMAIN client: d # c => client'[d] = client[d]
    BY <1>1 DEF Lose, TypeOK
  <2>2. live = c \/ (attempt.phase = "connect" /\ c = Len(client))
    BY <1>1 DEF Lose, NoStrayConnection
  <2>3. NoStrayDead'
    BY <2>1, <2>2 DEF WindowInv, NoStrayDead
  <2> QED
    BY <2>1, <2>3 DEF WindowInv
<1>2. CASE OnError(c)
  <2>1. attempt.phase \notin {"sleep", "auth"} /\ attempt' = attempt
    BY <1>2, NoErrorInAttempt DEF OnError, WindowInv
  <2>2. /\ DOMAIN client' = DOMAIN client /\ Len(client') = Len(client) /\ client'[c] # "dead"
        /\ \A d \in DOMAIN client: d # c => client'[d] = client[d]
    BY <1>2, CloseOnlyCloses DEF OnError
  <2>3. live' = live \/ live = c
    BY <1>2 DEF OnError, Drop
  <2>4. NoStrayDead'
    BY <2>1, <2>2, <2>3 DEF WindowInv, NoStrayDead
  <2>5. window' + quiet' >= Delay
    BY <1>2, ConstantsAssumption DEF OnError, DelayReconnect
  <2> QED
    BY <2>1, <2>4, <2>5 DEF WindowInv
<1>3. CASE OnClose(c)
  <2>1. /\ DOMAIN client' = DOMAIN client /\ Len(client') = Len(client) /\ client'[c] # "dead"
        /\ \A d \in DOMAIN client: d # c => client'[d] = client[d]
        /\ UNCHANGED <<window, quiet, attempt>> /\ (live' = live \/ live = c)
    BY <1>3 DEF OnClose, Drop, TypeOK
  <2> QED
    BY <2>1, NoneDies
<1>4. CASE Abort(c)
  <2>1. /\ DOMAIN client' = DOMAIN client /\ Len(client') = Len(client) /\ client'[c] # "dead"
        /\ \A d \in DOMAIN client: d # c => client'[d] = client[d]
    BY <1>4, CloseOnlyCloses DEF Abort
  <2>2. UNCHANGED <<window, quiet, attempt, live>>
    BY <1>4 DEF Abort
  <2> QED
    BY <2>1, <2>2, NoneDies
<1> QED
  BY <1>1, <1>2, <1>3, <1>4 DEF Event

LEMMA WindowTick ==
  ASSUME PoolInv, WindowInv, closing # "exited", Tick
  PROVE  WindowInv'
<1>1. /\ Delay \in Nat /\ window \in 0 .. Delay /\ quiet \in 0 .. Delay
      /\ attempt \in Attempts /\ attempt.sleep \in 0 .. Delay
  BY ConstantsAssumption DEF PoolInv, TypeOK, Attempts
<1>2. attempt'.phase = attempt.phase /\ attempt'.sleep = Pass(attempt.sleep)
  BY <1>1 DEF Tick, Attempts
<1>3. NoStrayDead'
  BY <1>2 DEF Tick, WindowInv, NoStrayDead
<1>4. window' + quiet' >= Delay
  BY <1>1 DEF Tick, Pass, WindowInv
<1>5. attempt'.phase = "sleep" => attempt'.sleep + quiet' >= Delay
  BY <1>1, <1>2 DEF Tick, Pass, WindowInv
<1>6. attempt'.phase = "auth" => quiet' = Delay
  BY <1>1, <1>2 DEF Tick, WindowInv
<1> QED
  BY <1>3, <1>4, <1>5, <1>6 DEF WindowInv

LEMMA WindowInvariant == Spec => []WindowInv
<1>1. Init => WindowInv
  BY ConstantsAssumption DEF Init, WindowInv, NoStrayDead, Idle, At
<1>2. PoolInv /\ WindowInv /\ [Next]_vars => WindowInv'
  <2> SUFFICES ASSUME PoolInv, WindowInv, [Next]_vars
               PROVE  WindowInv'
    OBVIOUS
  <2>1. CASE UNCHANGED vars
    BY <2>1 DEF vars, WindowInv, NoStrayDead
  <2>2. CASE EndCloseAll
    BY <2>2 DEF EndCloseAll, WindowInv
  <2>3. CASE closing # "exited" /\ BeginCloseAll
    BY <2>3, NoneDies DEF BeginCloseAll
  <2>4. CASE closing # "exited" /\ ~BeginCloseAll /\ ~EndCloseAll /\ Next
    BY <2>4, WindowCall, WindowProgress, WindowEvent, WindowTick DEF Next
  <2> QED
    BY <2>1, <2>2, <2>3, <2>4 DEF Next
<1> QED
  BY <1>1, <1>2, PoolInvariant, PTL DEF Spec

\* No client is made before reconnectDelayMs have passed since a refused token, a failed
\* connect or an error event, whoever calls and whenever, unless a connection came up since.
THEOREM ReconnectsWait == Spec => ReconnectThrottled
<1>1. PoolInv /\ WindowInv /\ [Next]_vars => [Len(client') > Len(client) => quiet = Delay]_vars
  <2> SUFFICES ASSUME PoolInv, WindowInv, Next, Len(client') > Len(client)
               PROVE  quiet = Delay
    OBVIOUS
  <2>1. Len(client) \in Nat
    BY DEF PoolInv, TypeOK
  <2>2. \A c \in DOMAIN client: ~Close(c)
    BY <2>1, CloseOnlyCloses DEF PoolInv
  <2>3. client' # client /\ ~(Len(client') = Len(client))
    BY <2>1
  <2>4. \A c \in DOMAIN client: ~(Lose(c) \/ Event(c) \/ Abort(c))
    BY <2>2, <2>3 DEF Lose, Event, OnError, OnClose, Abort, PoolInv, TypeOK
  <2>5. \A c \in Callers: ~Call(c)
    BY <2>2, <2>3 DEF Call, UseLive, Connect, PoolInv, TypeOK
  <2>6. ~Tick /\ ~BeginCloseAll /\ ~Wake
    BY <2>3 DEF Tick, BeginCloseAll, Wake
  <2>7. ~EndCloseAll
    BY <2>2, <2>3 DEF EndCloseAll, PoolInv, TypeOK
  <2>8. ~(ConnectResolves \/ ConnectRejects)
    <3>1. attempt.phase = "connect" => Len(client) \in DOMAIN client
      BY DEF PoolInv, TypeOK, AttemptAlone
    <3> QED
      BY <2>2, <2>3, <3>1 DEF ConnectResolves, ConnectRejects, PoolInv, TypeOK
  <2>9. closing # "exited" /\ Authenticate
    BY <2>4, <2>5, <2>6, <2>7, <2>8 DEF Next, Progress
  <2> QED
    BY <2>9 DEF Authenticate, WindowInv
<1> QED
  BY <1>1, PoolInvariant, WindowInvariant, PTL DEF Spec, ReconnectThrottled

-----------------------------------------------------------------------------
(* The users of its connection                                             *)

\* Every user that waits for the lock or has it was given a client, those that have
\* it took it, and nobody else took the same.
Given == \A u \in Callers: Waits(u) \/ Holds(u) => on[u] \in DOMAIN client

HoldersTook == \A u \in Callers: Holds(u) => on[u] \in taken

HoldersApart ==
  \A u, w \in Callers: Holds(u) /\ Holds(w) /\ on[u] = on[w] => u = w

UsersInv ==
  /\ PoolInv
  /\ stage \in [Callers -> Stages]
  /\ on \in [Callers -> DOMAIN client \cup {None}]
  /\ Given
  /\ HoldersTook
  /\ HoldersApart

LockParts == Given /\ HoldersTook /\ HoldersApart

UserTypes ==
  /\ stage \in [Callers -> Stages]
  /\ on \in [Callers -> DOMAIN client \cup {None}]

-----------------------------------------------------------------------------

\* Clients are only ever added.
LEMMA ClientsStay == PoolInv /\ [Next]_vars => DOMAIN client \subseteq DOMAIN client'
<1> SUFFICES ASSUME PoolInv, [Next]_vars
             PROVE  DOMAIN client \subseteq DOMAIN client'
  OBVIOUS
<1> USE DEF PoolInv
<1>1. CASE client' = client
  BY <1>1
<1>2. ASSUME NEW c \in DOMAIN client, Close(c)
      PROVE  DOMAIN client \subseteq DOMAIN client'
  BY <1>2, CloseOnlyCloses
<1>3. CASE client' = Append(client, "connecting")
  BY <1>3 DEF TypeOK
<1>4. ASSUME NEW c \in Callers, Call(c)
      PROVE  DOMAIN client \subseteq DOMAIN client'
  BY <1>1, <1>2, <1>4 DEF Call, UseLive, Connect, TypeOK
<1>5. CASE Progress
  <2>1. CASE Wake
    BY <1>1, <2>1 DEF Wake
  <2>2. CASE Authenticate
    BY <1>1, <1>3, <2>2 DEF Authenticate
  <2>3. CASE ConnectResolves
    BY <2>3 DEF ConnectResolves
  <2>4. CASE ConnectRejects
    <3>1. Len(client) \in DOMAIN client
      BY <2>4 DEF ConnectRejects, AttemptAlone, TypeOK
    <3> QED
      BY <1>2, <2>4, <3>1 DEF ConnectRejects
  <2> QED
    BY <1>5, <2>1, <2>2, <2>3, <2>4 DEF Progress
<1>6. ASSUME NEW c \in DOMAIN client, Lose(c) \/ Event(c) \/ Abort(c)
      PROVE  DOMAIN client \subseteq DOMAIN client'
  BY <1>2, <1>6 DEF Lose, Event, OnError, OnClose, Abort
<1>7. CASE Tick \/ BeginCloseAll
  BY <1>1, <1>7 DEF Tick, BeginCloseAll
<1>8. CASE EndCloseAll
  BY <1>1, <1>2, <1>8 DEF EndCloseAll, TypeOK
<1>9. CASE UNCHANGED vars
  BY <1>1, <1>9 DEF vars
<1> QED
  BY <1>4, <1>5, <1>6, <1>7, <1>8, <1>9 DEF Next

\* What users do to the pool, an abort too, is what the pool allows.
LEMMA UsersStepIsPoolStep ==
  ASSUME UsersInv, [LockNext]_allVars
  PROVE  [Next]_vars
<1> USE DEF UsersInv
<1>1. CASE UNCHANGED allVars
  BY <1>1 DEF allVars, vars
<1>2. CASE closing # "exited" /\ PoolAnswers
  BY <1>2 DEF PoolAnswers, Next
<1>3. CASE closing # "exited" /\ PoolEvent
  BY <1>3 DEF PoolEvent, Next
<1>4. ASSUME NEW u \in Callers, Acquire(u) \/ Breaks(u)
      PROVE  UNCHANGED vars
  BY <1>4 DEF Acquire, Breaks
<1>5. ASSUME closing # "exited", NEW r \in Readers, Read(r) \/ ReadEnds(r)
      PROVE  [Next]_vars
  BY <1>5 DEF Read, ReadEnds, Readers, Next
<1>6. ASSUME closing # "exited", NEW d \in Downloads, Hydration(d)
      PROVE  [Next]_vars
  <2>1. d \in Callers
    BY DownloadsAssumption
  <2>2. CASE Hydrate(d)
    BY <1>6, <2>1, <2>2 DEF Hydrate, Next
  <2>3. CASE DownloadTimeout(d)
    <3>1. on[d] \in DOMAIN client
      BY <2>1, <2>3 DEF DownloadTimeout, Given, Waits, Holds, Holding, WithLock
    <3> QED
      BY <1>6, <2>3, <3>1 DEF DownloadTimeout, Next
  <2>4. CASE Probed(d) \/ Opened(d) \/ DownloadFails(d) \/ StreamEnds(d) \/ UploadEnds(d)
               \/ CallTimeout(d)
    BY <2>4 DEF Probed, Opened, DownloadFails, StreamEnds, UploadEnds, CallTimeout
  <2> QED
    BY <1>6, <2>2, <2>3, <2>4 DEF Hydration, Timeout
<1> QED
  BY <1>1, <1>2, <1>3, <1>4, <1>5, <1>6 DEF LockNext

-----------------------------------------------------------------------------
(* The steps, by what they do to the lock                                  *)

\* u lets go of the lock, if it has it.
LEMMA LetsGo ==
  ASSUME UsersInv, NEW u \in Callers, NEW s \in Stages \ Holding,
         s \in DOMAIN WithLock => Waits(u) \/ Holds(u),
         DOMAIN client \subseteq DOMAIN client',
         stage' = [stage EXCEPT ![u] = s], on' = on,
         \/ Holds(u) /\ Release(u)
         \/ ~Holds(u) /\ UNCHANGED taken
  PROVE  UserTypes' /\ LockParts'
<1> USE DEF UsersInv, Waits, Holds
<1>1. UserTypes'
  BY DEF UserTypes
<1>2. Given'
  BY DEF Given
<1>3. \A w \in Callers: Holds(w)' => w # u /\ Holds(w)
  BY DEF Stages
<1>4. HoldersTook'
  BY <1>3 DEF HoldersTook, HoldersApart, Release
<1>5. HoldersApart'
  BY <1>3 DEF HoldersApart
<1> QED
  BY <1>1, <1>2, <1>4, <1>5 DEF LockParts

\* u takes a lock that is free, or goes on with the one it has.
LEMMA Takes ==
  ASSUME UsersInv, NEW u \in Callers, NEW s \in Holding,
         UNCHANGED <<client, on>>, stage' = [stage EXCEPT ![u] = s],
         \/ Waits(u) /\ on[u] \notin taken /\ taken' = taken \cup {on[u]}
         \/ Holds(u) /\ UNCHANGED taken
  PROVE  UserTypes' /\ LockParts'
<1> USE DEF UsersInv, Waits, Holds
<1>1. UserTypes'
  BY DEF UserTypes, Stages
<1>2. Given'
  BY DEF Given
<1>3. HoldersTook'
  BY DEF HoldersTook
<1>4. HoldersApart'
  BY DEF HoldersTook, HoldersApart
<1> QED
  BY <1>1, <1>2, <1>3, <1>4 DEF LockParts

\* The pool answers some with a client that is live; none of them has a lock yet.
LEMMA Lines ==
  ASSUME UsersInv, PoolInv', DOMAIN client \subseteq DOMAIN client', NEW asked, Line(asked),
         (\E u \in asked \ waiting': answer'[u] = "ok") => live' \in DOMAIN client'
  PROVE  UserTypes' /\ LockParts'
<1> DEFINE told == asked \ waiting'
           served == {u \in told : answer'[u] = "ok"}
<1> USE DEF UsersInv
<1>1. /\ stage' = [u \in Callers |->
                     IF u \in served THEN Asks(u)
                     ELSE IF u \in told THEN GivesUp(u)
                     ELSE IF u \in asked THEN "pool" ELSE stage[u]]
      /\ on' = [u \in Callers |-> IF u \in served THEN live' ELSE on[u]]
      /\ taken' = taken
  BY DEF Line
<1> HIDE DEF told
<1>2. \A u \in served: live' \in DOMAIN client'
  BY DEF told
<1> HIDE DEF served
<1>3. \A u \in Callers: /\ Asks(u) \in Stages \ Holding /\ GivesUp(u) \in Stages \ Holding
                        /\ GivesUp(u) \notin DOMAIN WithLock
                        /\ "pool" \in Stages \ Holding /\ "pool" \notin DOMAIN WithLock
  BY DEF Asks, GivesUp, Stages, Holding, WithLock
<1>4. UserTypes'
  <2>1. stage' \in [Callers -> Stages]
    BY <1>1, <1>3
  <2>2. on' \in [Callers -> DOMAIN client' \cup {None}]
    BY <1>1, <1>2
  <2> QED
    BY <2>1, <2>2 DEF UserTypes
<1>5. \A u \in Callers: Holds(u)' => u \notin served /\ Holds(u) /\ on'[u] = on[u]
  BY <1>1, <1>3 DEF Holds
<1>6. Given'
  <2> SUFFICES ASSUME NEW u \in Callers, Waits(u)' \/ Holds(u)'
               PROVE  on'[u] \in DOMAIN client'
    BY DEF Given
  <2>1. CASE u \in served
    BY <1>1, <1>2, <2>1
  <2>2. CASE u \notin served
    BY <1>1, <1>3, <1>5, <2>2 DEF Given, Waits, Holds
  <2> QED
    BY <2>1, <2>2
<1>7. HoldersTook'
  BY <1>1, <1>5 DEF HoldersTook
<1>8. HoldersApart'
  BY <1>5 DEF HoldersApart
<1> QED
  BY <1>4, <1>6, <1>7, <1>8 DEF LockParts

-----------------------------------------------------------------------------

LEMMA PoolAnswersStep ==
  ASSUME UsersInv, PoolInv', [Next]_vars, PoolAnswers
  PROVE  UserTypes' /\ LockParts'
<1> USE DEF UsersInv
<1>1. Line(waiting)
  BY DEF PoolAnswers
<1>2. ASSUME NEW u \in waiting \ waiting', answer'[u] = "ok"
      PROVE  live' \in DOMAIN client'
  <2>1. CASE Wake
    BY <1>2, <2>1 DEF Wake
  <2>2. CASE Authenticate
    BY <1>2, <2>2 DEF Authenticate, Settle, PoolInv, TypeOK
  <2>3. CASE ConnectResolves
    BY <2>3 DEF ConnectResolves, PoolInv, TypeOK, AttemptAlone
  <2>4. CASE ConnectRejects
    BY <1>2, <2>4 DEF ConnectRejects, Settle, PoolInv, TypeOK
  <2> QED
    BY <2>1, <2>2, <2>3, <2>4 DEF PoolAnswers, Progress
<1> QED
  BY <1>1, <1>2, ClientsStay, Lines

LEMMA CallStep ==
  ASSUME UsersInv, PoolInv', [Next]_vars, NEW c \in Callers, Call(c), Line(waiting \cup {c})
  PROVE  UserTypes' /\ LockParts'
<1> USE DEF UsersInv
<1>1. ASSUME NEW u \in (waiting \cup {c}) \ waiting', answer'[u] = "ok"
      PROVE  live' \in DOMAIN client'
  <2>1. CASE UseLive(c)
    BY <2>1 DEF UseLive, Usable, PoolInv, TypeOK
  <2>2. CASE Connect(c)
    BY <1>1, <2>2 DEF Connect
  <2> QED
    BY <2>1, <2>2 DEF Call
<1> QED
  BY <1>1, ClientsStay, Lines

LEMMA HydrationStep ==
  ASSUME UsersInv, PoolInv', [Next]_vars, NEW d \in Downloads, Hydration(d)
  PROVE  UserTypes' /\ LockParts'
<1> USE DEF UsersInv
<1>1. d \in Callers /\ DOMAIN client \subseteq DOMAIN client'
  BY DownloadsAssumption, ClientsStay
<1>2. stage[d] \in {"probe", "open", "ready", "stray"} <=> Holds(d) /\ stage[d] # "read"
  BY DEF Holds, Holding
<1>3. "over" \in Stages \ Holding /\ ~("over" \in DOMAIN WithLock)
  BY DEF Stages, Holding, WithLock
<1>4. CASE Hydrate(d)
  BY <1>1, <1>4, CallStep DEF Hydrate
<1>5. CASE Probed(d)
  <2>1. "openLock" \in Stages \ Holding /\ Holds(d)
    BY <1>5 DEF Probed, Stages, Holding, WithLock, Holds
  <2> QED
    BY <1>1, <1>5, <2>1, LetsGo DEF Probed
<1>6. CASE Opened(d)
  <2>1. Holds(d) /\ {"ready", "stray"} \subseteq Holding
    BY <1>6 DEF Opened, Holds, Holding
  <2>2. CASE call[d] = "download"
    BY <1>1, <1>6, <2>1, <2>2, Takes DEF Opened, vars, lockVars
  <2>3. CASE call[d] # "download"
    BY <1>1, <1>6, <2>1, <2>3, Takes DEF Opened, vars, lockVars
  <2> QED
    BY <2>2, <2>3
<1>7. CASE DownloadFails(d)
  BY <1>1, <1>2, <1>3, <1>7, LetsGo DEF DownloadFails
<1>8. CASE Dispose(d) /\ UNCHANGED on
  BY <1>1, <1>3, <1>8, LetsGo DEF Dispose
<1>9. CASE StreamEnds(d) \/ UploadEnds(d)
  BY <1>8, <1>9 DEF StreamEnds, UploadEnds
<1>10. CASE CallTimeout(d)
  <2>1. CASE UNCHANGED <<stage, taken, on, vars>>
    BY <2>1 DEF UserTypes, LockParts, Given, HoldersTook, HoldersApart, Waits, Holds, vars
  <2> QED
    BY <1>8, <1>10, <2>1 DEF CallTimeout
<1>11. CASE DownloadTimeout(d)
  <2>1. ~(Waits(d) /\ Holds(d))
    BY DEF Waits, Holds, WithLock, Holding
  <2>2. Waits(d) \/ Holds(d)
    BY <1>11 DEF DownloadTimeout, Waits, Holds, WithLock, Holding
  <2> QED
    BY <1>1, <1>3, <1>11, <2>1, <2>2, LetsGo DEF DownloadTimeout
<1> QED
  BY <1>4, <1>5, <1>6, <1>7, <1>9, <1>10, <1>11 DEF Hydration, Timeout

THEOREM UsersInductive == UsersInv /\ [LockNext]_allVars => UsersInv'
<1> SUFFICES ASSUME UsersInv, [LockNext]_allVars
             PROVE  UserTypes' /\ LockParts'
  BY UsersStepIsPoolStep, PoolInductive DEF UsersInv, UserTypes, LockParts
<1> USE DEF UsersInv
<1>1. [Next]_vars /\ PoolInv'
  BY UsersStepIsPoolStep, PoolInductive
<1>2. CASE PoolAnswers
  BY <1>1, <1>2, PoolAnswersStep
<1>3. CASE UNCHANGED <<stage, on, taken>>
  <2>1. DOMAIN client \subseteq DOMAIN client'
    BY <1>1, ClientsStay
  <2> QED
    BY <1>3, <2>1 DEF UserTypes, LockParts, Given, HoldersTook, HoldersApart, Waits, Holds
<1>4. ASSUME NEW u \in Callers, Acquire(u)
      PROVE  UserTypes' /\ LockParts'
  <2>1. WithLock[stage[u]] \in Holding
    BY <1>4 DEF Acquire, Waits, WithLock, Holding
  <2> QED
    BY <1>4, <2>1, Takes DEF Acquire, vars
<1>5. {"over", "idle"} \subseteq Stages \ Holding /\ \A s \in {"over", "idle"} : ~(s \in DOMAIN WithLock)
  BY DEF Stages, Holding, WithLock
<1>6. ASSUME NEW u \in Callers, Breaks(u)
      PROVE  UserTypes' /\ LockParts'
  <2>1. GivesUp(u) \in {"over", "idle"}
    BY DEF GivesUp
  <2>2. ~(Waits(u) /\ Holds(u)) /\ (Waits(u) \/ Holds(u))
    BY <1>6 DEF Breaks, Waits, Holds, WithLock, Holding
  <2> QED
    BY <1>5, <1>6, <2>1, <2>2, LetsGo DEF Breaks, vars
<1>7. ASSUME NEW r \in Readers, Read(r) \/ ReadEnds(r)
      PROVE  UserTypes' /\ LockParts'
  <2>1. r \in Callers
    BY DEF Readers
  <2>2. CASE Read(r)
    BY <1>1, <2>1, <2>2, CallStep DEF Read
  <2>3. CASE ReadEnds(r)
    <3>1. Holds(r)
      BY <2>3 DEF ReadEnds, Holds, Holding
    <3> QED
      BY <1>5, <2>1, <2>3, <3>1, LetsGo DEF ReadEnds, vars
  <2> QED
    BY <1>7, <2>2, <2>3
<1>8. ASSUME NEW d \in Downloads, Hydration(d)
      PROVE  UserTypes' /\ LockParts'
  BY <1>1, <1>8, HydrationStep
<1>9. CASE PoolEvent
  BY <1>3, <1>9 DEF PoolEvent, userVars, lockVars
<1>10. CASE UNCHANGED allVars
  BY <1>3, <1>10 DEF allVars, userVars, lockVars
<1> QED
  BY <1>2, <1>4, <1>6, <1>7, <1>8, <1>9, <1>10 DEF LockNext

-----------------------------------------------------------------------------

THEOREM UsersInvariant == LockSpec => []UsersInv
<1>1. LockInit => UsersInv
  <2> SUFFICES ASSUME LockInit
               PROVE  UsersInv
    OBVIOUS
  <2>1. PoolInv
    BY PoolInitially DEF LockInit
  <2>2. stage = [u \in Callers |-> "idle"] /\ on = [u \in Callers |-> None]
    BY DEF LockInit
  <2>3. "idle" \in Stages \ Holding /\ "idle" \notin DOMAIN WithLock
    BY DEF Stages, Holding, WithLock
  <2> QED
    BY <2>1, <2>2, <2>3 DEF UsersInv, Given, HoldersTook, HoldersApart, Waits, Holds
<1> QED
  BY <1>1, UsersInductive, PTL DEF LockSpec

\* All that readers and downloads do to the pool is what any callers may do to it, the
\* close of a connection under the others included.
THEOREM UsersImplementPool == LockSpec => Spec
<1>1. LockInit => Init
  BY DEF LockInit
<1>2. UsersInv /\ [LockNext]_allVars => [Next]_vars
  BY UsersStepIsPoolStep
<1> QED
  BY <1>1, <1>2, UsersInvariant, PTL DEF LockSpec, Spec

\* So there is one connection at most, and none is lost, with any number of them.
THEOREM UsersShareOneConnection == LockSpec => [](OneConnection /\ NoStrayConnection)
BY UsersImplementPool, OneConnectionKept, NoConnectionLost, PTL

\* Nor do readers and downloads, and the closes of a download, get round the window.
THEOREM UsersWaitToReconnect == LockSpec => ReconnectThrottled
BY UsersImplementPool, ReconnectsWait, PTL

\* Two users never work in a mailbox of one connection at once: the lock that a download
\* has is released once, by whichever of its stream, its limit and its caller is first.
THEOREM UsersApart == LockSpec => []OneUser
<1>1. HoldersApart => OneUser
  <2> SUFFICES ASSUME HoldersApart, NEW c \in DOMAIN client
               PROVE  Cardinality({u \in Callers : Holds(u) /\ on[u] = c}) <= 1
    BY DEF OneUser
  <2> DEFINE Of == {u \in Callers : Holds(u) /\ on[u] = c}
  <2>1. CASE Of = {}
    BY <2>1, FS_EmptySet
  <2>2. CASE Of # {}
    <3>1. PICK u \in Of: TRUE
      BY <2>2
    <3>2. Of = {u}
      BY <3>1 DEF HoldersApart
    <3>3. Cardinality({u}) = 1
      BY FS_Singleton
    <3> QED
      BY <3>2, <3>3
  <2> QED
    BY <2>1, <2>2
<1>2. UsersInv => HoldersApart
  BY DEF UsersInv
<1> QED
  BY <1>1, <1>2, UsersInvariant, PTL

=============================================================================
