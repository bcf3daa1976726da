------------------------- MODULE RateLimiterProofs -------------------------
(***************************************************************************)
(* The rate of perAccountRateLimiter.ts is kept by any number of calls,    *)
(* for any interval.                                                       *)
(***************************************************************************)
EXTENDS RateLimiter, Sequences, TLAPS

UnderWay(t) == phase[t] \in {"chained", "asleep"}

\* The calls under way are one chain q: each but the first waits for the one before, the
\* first alone may sleep, and the last is the one in tails.
Chain(q) ==
  /\ q \in Seq(Turns)
  /\ \A i, j \in 1 .. Len(q): q[i] = q[j] => i = j
  /\ \A t \in Turns: UnderWay(t) <=> \E i \in 1 .. Len(q): q[i] = t
  /\ \A i \in 1 .. Len(q):
       IF i = 1 THEN Resolved(prior[q[i]]) ELSE prior[q[i]] = q[i - 1] /\ phase[q[i]] = "chained"
  /\ IF q = <<>> THEN Resolved(tail) ELSE tail = q[Len(q)]

\* The time of the next turn is an interval after the last one, and whoever sleeps,
\* sleeps until then.
Timed ==
  /\ next + since >= Interval
  /\ \A t \in Turns: phase[t] = "asleep" => asleep[t] = next

RateInv == TypeOK /\ Timed /\ \E q: Chain(q)

-----------------------------------------------------------------------------

\* Whoever may take its turn, or sleeps, is the first of the chain.
LEMMA FirstOfChain ==
  ASSUME TypeOK, NEW q, Chain(q), NEW t \in Turns, UnderWay(t),
         phase[t] = "asleep" \/ Resolved(prior[t])
  PROVE  q # <<>> /\ Len(q) \in Nat \ {0} /\ q[1] = t
<1>1. Len(q) \in Nat
  BY DEF Chain
<1>2. PICK i \in 1 .. Len(q): q[i] = t
  BY DEF Chain
<1>3. CASE i # 1
  <2>1. i - 1 \in 1 .. Len(q)
    BY <1>1, <1>2, <1>3
  <2>2. prior[t] = q[i - 1] /\ phase[t] = "chained"
    BY <1>2, <1>3 DEF Chain
  <2>3. q[i - 1] \in Turns /\ UnderWay(q[i - 1])
    BY <2>1 DEF Chain
  <2>4. ~Resolved(prior[t])
    BY <2>2, <2>3, ConstantsAssumption DEF Resolved, UnderWay
  <2> QED
    BY <2>2, <2>4
<1> QED
  BY <1>1, <1>2, <1>3 DEF Chain

\* The first of the chain takes its turn; the next of it becomes the first.
LEMMA GrantKeepsChain ==
  ASSUME TypeOK, NEW q, Chain(q), NEW t \in Turns, Grant(t), q # <<>>, q[1] = t,
         UNCHANGED <<prior, tail>>
  PROVE  Chain(Tail(q))'
<1> DEFINE r == Tail(q)
<1>1. /\ r \in Seq(Turns)
      /\ Len(r) = Len(q) - 1
      /\ Len(q) \in Nat \ {0}
      /\ \A i \in 1 .. Len(r): r[i] = q[i + 1] /\ i + 1 \in 1 .. Len(q)
  BY DEF Chain
<1>2. phase' = [phase EXCEPT ![t] = "granted"]
  BY DEF Grant
<1>3. \A i \in 1 .. Len(q): q[i] \in Turns /\ (i # 1 => q[i] # t)
  BY DEF Chain
<1> HIDE DEF r
<1>4. \A i, j \in 1 .. Len(r): r[i] = r[j] => i = j
  BY <1>1 DEF Chain
<1>5. \A u \in Turns: UnderWay(u)' <=> u # t /\ UnderWay(u)
  BY <1>2 DEF UnderWay, TypeOK
<1>6. \A u \in Turns: UnderWay(u)' <=> \E i \in 1 .. Len(r): r[i] = u
  <2> SUFFICES ASSUME NEW u \in Turns
               PROVE  (u # t /\ UnderWay(u)) <=> \E i \in 1 .. Len(r): r[i] = u
    BY <1>5
  <2>1. ASSUME u # t, UnderWay(u)
        PROVE  \E i \in 1 .. Len(r): r[i] = u
    <3>1. PICK i \in 1 .. Len(q): q[i] = u
      BY <2>1 DEF Chain
    <3>2. i - 1 \in 1 .. Len(r) /\ r[i - 1] = q[i]
      BY <1>1, <2>1, <3>1
    <3> QED
      BY <3>1, <3>2
  <2>2. ASSUME NEW i \in 1 .. Len(r), r[i] = u
        PROVE  u # t /\ UnderWay(u)
    <3>1. i + 1 \in 1 .. Len(q) /\ q[i + 1] = u /\ i + 1 # 1
      BY <1>1, <2>2
    <3> QED
      BY <1>3, <3>1 DEF Chain
  <2> QED
    BY <2>1, <2>2
<1>7. \A i \in 1 .. Len(r):
        IF i = 1 THEN Resolved(prior[r[i]])'
                 ELSE prior'[r[i]] = r[i - 1] /\ phase'[r[i]] = "chained"
  <2> SUFFICES ASSUME NEW i \in 1 .. Len(r)
               PROVE  IF i = 1 THEN Resolved(prior[r[i]])'
                               ELSE prior'[r[i]] = r[i - 1] /\ phase'[r[i]] = "chained"
    OBVIOUS
  <2>1. prior[q[i + 1]] = q[i] /\ phase[q[i + 1]] = "chained" /\ r[i] = q[i + 1]
    BY <1>1 DEF Chain
  <2>2. CASE i = 1
    <3>1. prior[r[i]] = t
      BY <2>1, <2>2
    <3>2. phase'[t] = "granted"
      BY <1>2 DEF TypeOK
    <3>3. prior' = prior
      OBVIOUS
    <3> QED
      BY <2>2, <3>1, <3>2, <3>3 DEF Resolved
  <2>3. CASE i # 1
    <3>1. i - 1 \in 1 .. Len(r) /\ r[i - 1] = q[i]
      BY <1>1, <2>3
    <3>2. phase'[r[i]] = phase[r[i]]
      BY <1>1, <1>2, <1>3, <2>1 DEF TypeOK
    <3> QED
      BY <2>1, <2>3, <3>1, <3>2
  <2> QED
    BY <2>2, <2>3
<1>8. IF r = <<>> THEN Resolved(tail)' ELSE tail' = r[Len(r)]
  <2>1. tail' = q[Len(q)]
    BY DEF Chain
  <2>2. CASE r = <<>>
    <3>1. Len(q) = 1
      BY <1>1, <2>2
    <3>2. tail' = t /\ phase'[t] = "granted"
      BY <1>2, <2>1, <3>1 DEF TypeOK
    <3> QED
      BY <2>2, <3>2 DEF Resolved
  <2>3. CASE r # <<>>
    <3>1. Len(r) \in 1 .. Len(r) /\ Len(r) + 1 = Len(q)
      BY <1>1, <2>3
    <3> QED
      BY <1>1, <2>1, <2>3, <3>1
  <2> QED
    BY <2>2, <2>3
<1> QED
  BY <1>1, <1>4, <1>6, <1>7, <1>8 DEF Chain, r

\* A call joins the end of the chain.
LEMMA CallKeepsChain ==
  ASSUME TypeOK, NEW q, Chain(q), NEW t \in Turns, Call(t)
  PROVE  Chain(Append(q, t))'
<1> DEFINE r == Append(q, t)
<1>1. /\ r \in Seq(Turns)
      /\ Len(r) = Len(q) + 1
      /\ Len(q) \in Nat
      /\ r[Len(r)] = t
      /\ \A i \in 1 .. Len(q): r[i] = q[i]
  BY DEF Chain
<1>2. /\ phase' = [phase EXCEPT ![t] = "chained"]
      /\ prior' = [prior EXCEPT ![t] = tail]
      /\ tail' = t
      /\ phase[t] = "new"
  BY DEF Call, Prior
<1>3. \A i \in 1 .. Len(q): q[i] \in Turns /\ UnderWay(q[i])
  BY DEF Chain
<1>4. \A i \in 1 .. Len(q): q[i] # t
  BY <1>2, <1>3 DEF UnderWay
<1>5. r # <<>>
  BY <1>1
<1> HIDE DEF r
<1>6. \A i \in 1 .. Len(r): i \in 1 .. Len(q) \/ i = Len(r)
  BY <1>1
<1>7. \A i, j \in 1 .. Len(r): r[i] = r[j] => i = j
  BY <1>1, <1>4, <1>6 DEF Chain
<1>8. \A u \in Turns: UnderWay(u)' <=> \E i \in 1 .. Len(r): r[i] = u
  <2> SUFFICES ASSUME NEW u \in Turns
               PROVE  UnderWay(u)' <=> \E i \in 1 .. Len(r): r[i] = u
    OBVIOUS
  <2>1. Len(r) \in 1 .. Len(r) /\ 1 .. Len(q) \subseteq 1 .. Len(r)
    BY <1>1
  <2>2. UnderWay(u)' <=> u = t \/ UnderWay(u)
    BY <1>2 DEF UnderWay, TypeOK
  <2>3. UnderWay(u) <=> \E i \in 1 .. Len(q): q[i] = u
    BY DEF Chain
  <2> QED
    BY <1>1, <1>6, <2>1, <2>2, <2>3
<1>9. \A i \in 1 .. Len(r):
        IF i = 1 THEN Resolved(prior[r[i]])'
                 ELSE prior'[r[i]] = r[i - 1] /\ phase'[r[i]] = "chained"
  <2> SUFFICES ASSUME NEW i \in 1 .. Len(r)
               PROVE  IF i = 1 THEN Resolved(prior[r[i]])'
                               ELSE prior'[r[i]] = r[i - 1] /\ phase'[r[i]] = "chained"
    OBVIOUS
  <2>1. CASE i \in 1 .. Len(q)
    <3>1. r[i] = q[i] /\ q[i] \in Turns /\ q[i] # t
      BY <1>1, <1>3, <1>4, <2>1
    <3>2. prior'[r[i]] = prior[q[i]] /\ phase'[r[i]] = phase[q[i]]
      BY <1>2, <3>1 DEF TypeOK
    <3>3. CASE i = 1
      <4>1. Resolved(prior[q[i]]) /\ prior[q[i]] \in Turns \cup {NoTurn}
        BY <2>1, <3>1, <3>3 DEF Chain, TypeOK
      <4>2. prior[q[i]] # NoTurn => phase'[prior[q[i]]] \in {"granted", "returned"}
        BY <1>2, <4>1 DEF Resolved, TypeOK
      <4> QED
        BY <3>1, <3>2, <3>3, <4>2 DEF Resolved
    <3>4. CASE i # 1
      <4>1. i - 1 \in 1 .. Len(q)
        BY <1>1, <2>1, <3>4
      <4> QED
        BY <1>1, <2>1, <3>2, <3>4, <4>1 DEF Chain
    <3> QED
      BY <3>3, <3>4
  <2>2. CASE i = Len(r)
    <3>1. r[i] = t /\ prior'[t] = tail /\ phase'[t] = "chained"
      BY <1>1, <1>2, <2>2 DEF TypeOK
    <3>2. CASE i = 1
      <4>1. q = <<>>
        BY <1>1, <2>2, <3>2 DEF Chain
      <4>2. Resolved(tail)
        BY <4>1 DEF Chain
      <4>3. tail # NoTurn => phase'[tail] \in {"granted", "returned"}
        BY <1>2, <4>2 DEF Resolved, TypeOK
      <4> QED
        BY <3>1, <3>2, <4>3 DEF Resolved
    <3>3. CASE i # 1
      <4>1. q # <<>> /\ i - 1 = Len(q) /\ Len(q) \in 1 .. Len(q)
        BY <1>1, <2>2, <3>3
      <4> QED
        BY <1>1, <3>1, <3>3, <4>1 DEF Chain
    <3> QED
      BY <3>2, <3>3
  <2> QED
    BY <1>6, <2>1, <2>2
<1> QED
  BY <1>1, <1>2, <1>5, <1>7, <1>8, <1>9 DEF Chain, r

\* Steps that leave the chain as it is: a sleep begins, a call returns, time passes.
LEMMA ChainStays ==
  ASSUME TypeOK, NEW q, Chain(q), UNCHANGED prior,
         \A u \in Turns: UnderWay(u)' <=> UnderWay(u),
         \A u \in Turns \cup {NoTurn}: u # NoTurn /\ phase[u] \in {"granted", "returned"} =>
                                         phase'[u] \in {"granted", "returned"},
         \A i \in 2 .. Len(q): phase'[q[i]] = phase[q[i]],
         \/ UNCHANGED tail
         \/ q = <<>> /\ tail' = NoTurn
  PROVE  Chain(q)'
<1>1. Len(q) \in Nat /\ q \in Seq(Turns)
  BY DEF Chain
<1>2. \A u \in Turns: UnderWay(u)' <=> \E i \in 1 .. Len(q): q[i] = u
  BY DEF Chain
<1>3. \A i \in 1 .. Len(q):
        IF i = 1 THEN Resolved(prior[q[i]])'
                 ELSE prior'[q[i]] = q[i - 1] /\ phase'[q[i]] = "chained"
  <2> SUFFICES ASSUME NEW i \in 1 .. Len(q)
               PROVE  IF i = 1 THEN Resolved(prior[q[i]])'
                               ELSE prior'[q[i]] = q[i - 1] /\ phase'[q[i]] = "chained"
    OBVIOUS
  <2>1. q[i] \in Turns /\ prior[q[i]] \in Turns \cup {NoTurn}
    BY <1>1 DEF TypeOK
  <2>2. CASE i = 1
    <3>1. Resolved(prior[q[i]])
      BY <2>2 DEF Chain
    <3> QED
      BY <2>1, <2>2, <3>1 DEF Resolved
  <2>3. CASE i # 1
    <3>1. i \in 2 .. Len(q)
      BY <1>1, <2>3
    <3> QED
      BY <2>3, <3>1 DEF Chain
  <2> QED
    BY <2>2, <2>3
<1>4. IF q = <<>> THEN Resolved(tail)' ELSE tail' = q[Len(q)]
  <2>1. CASE q = <<>>
    <3>1. Resolved(tail) /\ tail \in Turns \cup {NoTurn}
      BY <2>1 DEF Chain, TypeOK
    <3> QED
      BY <2>1, <3>1 DEF Resolved
  <2>2. CASE q # <<>>
    BY <2>2 DEF Chain
  <2> QED
    BY <2>1, <2>2
<1> QED
  BY <1>1, <1>2, <1>3, <1>4 DEF Chain

-----------------------------------------------------------------------------

LEMMA TypeStep == TypeOK /\ Timed /\ [Next]_vars => TypeOK'
<1> SUFFICES ASSUME TypeOK, Timed, [Next]_vars
             PROVE  TypeOK'
  OBVIOUS
<1> USE ConstantsAssumption DEF TypeOK
<1>1. ASSUME NEW t \in Turns, Call(t)
      PROVE  TypeOK'
  BY <1>1 DEF Call, Prior
<1>2. ASSUME NEW t \in Turns, Enter(t)
      PROVE  TypeOK'
  BY <1>2 DEF Enter, Grant
<1>3. ASSUME NEW t \in Turns, Wake(t)
      PROVE  TypeOK'
  BY <1>3 DEF Wake, Grant
<1>4. ASSUME NEW t \in Turns, Return(t)
      PROVE  TypeOK'
  BY <1>4 DEF Return, Forget
<1>5. CASE Tick
  BY <1>5 DEF Tick, Less
<1>6. CASE UNCHANGED vars
  BY <1>6 DEF vars
<1> QED
  BY <1>1, <1>2, <1>3, <1>4, <1>5, <1>6 DEF Next, Step

\* A turn is taken only by the first of the chain, when its time has come: then nobody
\* sleeps.
LEMMA TurnTaken ==
  ASSUME RateInv, NEW t \in Turns, (Enter(t) /\ next = 0) \/ Wake(t)
  PROVE  since = Interval /\ Timed' /\ \E q: Chain(q)'
<1> PICK q: Chain(q)
  BY DEF RateInv
<1> USE DEF RateInv
<1>1. UnderWay(t) /\ (phase[t] = "asleep" \/ Resolved(prior[t]))
  BY DEF Enter, Wake, UnderWay
<1>2. q # <<>> /\ Len(q) \in Nat \ {0} /\ q[1] = t
  BY <1>1, FirstOfChain
<1>3. Grant(t) /\ UNCHANGED <<prior, tail>>
  BY DEF Enter, Wake
<1>4. next = 0
  BY DEF Wake, Slept, Timed
<1>5. since = Interval
  BY <1>4, ConstantsAssumption DEF Timed, TypeOK
<1>6. \A u \in Turns: phase'[u] # "asleep"
  <2> SUFFICES ASSUME NEW u \in Turns, phase'[u] = "asleep"
               PROVE  FALSE
    OBVIOUS
  <2>1. u # t /\ phase[u] = "asleep"
    BY <1>3 DEF Grant, TypeOK
  <2>2. q[1] = u
    BY <2>1, FirstOfChain DEF UnderWay
  <2> QED
    BY <1>2, <2>1, <2>2
<1>7. next' + since' >= Interval
  BY <1>3, ConstantsAssumption DEF Grant
<1>8. Timed'
  BY <1>6, <1>7 DEF Timed
<1>9. Chain(Tail(q))'
  BY <1>2, <1>3, GrantKeepsChain
<1> QED
  BY <1>5, <1>8, <1>9

THEOREM RateInductive == RateInv /\ [Next]_vars => RateInv'
<1> SUFFICES ASSUME RateInv, [Next]_vars
             PROVE  Timed' /\ \E q: Chain(q)'
  BY TypeStep DEF RateInv
<1> PICK q: Chain(q)
  BY DEF RateInv
<1> USE DEF RateInv
<1>1. ASSUME NEW t \in Turns, Call(t)
      PROVE  Timed' /\ \E r: Chain(r)'
  <2>1. Timed'
    BY <1>1 DEF Call, Timed, TypeOK
  <2>2. Chain(Append(q, t))'
    BY <1>1, CallKeepsChain
  <2> QED
    BY <2>1, <2>2
<1>2. ASSUME NEW t \in Turns, Enter(t), next # 0
      PROVE  Timed' /\ \E r: Chain(r)'
  <2>1. /\ phase[t] = "chained" /\ Resolved(prior[t])
        /\ phase' = [phase EXCEPT ![t] = "asleep"]
        /\ asleep' = [asleep EXCEPT ![t] = next]
        /\ UNCHANGED <<next, since, prior, tail>>
    BY <1>2 DEF Enter, TypeOK
  <2>2. Timed'
    BY <2>1 DEF Timed, TypeOK
  <2>3. q[1] = t /\ Len(q) \in Nat \ {0}
    BY <2>1, FirstOfChain DEF UnderWay
  <2>4. \A i \in 2 .. Len(q): q[i] # t /\ q[i] \in Turns
    BY <2>3 DEF Chain
  <2>5. \A u \in Turns: UnderWay(u)' <=> UnderWay(u)
    BY <2>1 DEF UnderWay, TypeOK
  <2>6. \A u \in Turns \cup {NoTurn}: u # NoTurn /\ phase[u] \in {"granted", "returned"} =>
                                         phase'[u] \in {"granted", "returned"}
    BY <2>1, ConstantsAssumption DEF TypeOK
  <2>7. \A i \in 2 .. Len(q): phase'[q[i]] = phase[q[i]]
    BY <2>1, <2>4 DEF TypeOK
  <2>8. Chain(q)'
    BY <2>1, <2>5, <2>6, <2>7, ChainStays
  <2> QED
    BY <2>2, <2>8
<1>3. ASSUME NEW t \in Turns, (Enter(t) /\ next = 0) \/ Wake(t)
      PROVE  Timed' /\ \E r: Chain(r)'
  BY <1>3, TurnTaken
<1>4. ASSUME NEW t \in Turns, Return(t)
      PROVE  Timed' /\ \E r: Chain(r)'
  <2>1. /\ phase[t] = "granted"
        /\ phase' = [phase EXCEPT ![t] = "returned"]
        /\ UNCHANGED <<prior, asleep, next, since>>
    BY <1>4 DEF Return
  <2>2. Timed'
    BY <2>1 DEF Timed, TypeOK
  <2>3. \A u \in Turns: UnderWay(u)' <=> UnderWay(u)
    BY <2>1 DEF UnderWay, TypeOK
  <2>4. \A u \in Turns \cup {NoTurn}: u # NoTurn /\ phase[u] \in {"granted", "returned"} =>
                                         phase'[u] \in {"granted", "returned"}
    BY <2>1, ConstantsAssumption DEF TypeOK
  <2>5. \A i \in 1 .. Len(q): q[i] \in Turns /\ q[i] # t
    BY <2>1 DEF Chain, UnderWay
  <2>6. \A i \in 2 .. Len(q): phase'[q[i]] = phase[q[i]]
    BY <2>1, <2>5 DEF TypeOK
  <2>7. UNCHANGED tail \/ (q = <<>> /\ tail' = NoTurn)
    <3>1. CASE tail = t
      <4>1. q = <<>>
        BY <2>5, <3>1 DEF Chain
      <4> QED
        BY <1>4, <3>1, <4>1 DEF Return, Forget
    <3>2. CASE tail # t
      BY <1>4, <3>2 DEF Return, Forget
    <3> QED
      BY <3>1, <3>2
  <2>8. Chain(q)'
    BY <2>1, <2>3, <2>4, <2>6, <2>7, ChainStays
  <2> QED
    BY <2>2, <2>8
<1>5. CASE Tick
  <2>1. UNCHANGED <<phase, prior, tail>>
    BY <1>5 DEF Tick
  <2>2. Chain(q)'
    BY <2>1 DEF Chain, UnderWay, Resolved
  <2>3. next' + since' >= Interval
    BY <1>5, ConstantsAssumption DEF Tick, Less, Timed, TypeOK
  <2>4. \A t \in Turns: phase'[t] = "asleep" => asleep'[t] = next'
    BY <1>5 DEF Tick, Less, Timed, TypeOK
  <2> QED
    BY <2>2, <2>3, <2>4 DEF Timed
<1>6. CASE UNCHANGED vars
  <2>1. Chain(q)'
    BY <1>6 DEF vars, Chain, UnderWay, Resolved
  <2> QED
    BY <1>6, <2>1 DEF vars, Timed
<1> QED
  BY <1>1, <1>2, <1>3, <1>4, <1>5, <1>6 DEF Next, Step, Enter

THEOREM RateInvariant == Spec => []RateInv
<1>1. Init => RateInv
  <2> SUFFICES ASSUME Init
               PROVE  RateInv
    OBVIOUS
  <2>1. TypeOK /\ Timed
    BY ConstantsAssumption DEF Init, TypeOK, Timed
  <2>2. Chain(<<>>)
    BY DEF Init, Chain, UnderWay, Resolved
  <2> QED
    BY <2>1, <2>2 DEF RateInv
<1> QED
  BY <1>1, RateInductive, PTL DEF Spec

\* Two turns of an account are granted at least Interval apart, however many calls there
\* are and however they come together.
THEOREM RateKept == Spec => Spaced
<1> DEFINE Apart == \A t \in Turns: phase'[t] = "granted" /\ phase[t] # "granted" =>
                                      since = Interval
<1>1. RateInv /\ [Next]_vars => Apart
  <2> SUFFICES ASSUME RateInv, [Next]_vars, NEW t \in Turns,
                      phase'[t] = "granted", phase[t] # "granted"
               PROVE  since = Interval
    OBVIOUS
  <2>1. ASSUME NEW u \in Turns, (Enter(u) /\ next = 0) \/ Wake(u)
        PROVE  since = Interval
    BY <2>1, TurnTaken
  <2>2. ASSUME NEW u \in Turns, Call(u) \/ Return(u) \/ (Enter(u) /\ next # 0)
        PROVE  FALSE
    BY <2>2 DEF Call, Return, Enter, RateInv, TypeOK
  <2>3. CASE Tick \/ UNCHANGED vars
    BY <2>3 DEF Tick, vars
  <2> QED
    BY <2>1, <2>2, <2>3 DEF Next, Step
<1>2. RateInv /\ [Next]_vars => [Apart]_vars
  BY <1>1
<1> QED
  BY <1>2, RateInvariant, PTL DEF Spec, Spaced

=============================================================================
