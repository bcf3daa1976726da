---------------------------- MODULE RateLimiter ----------------------------
(***************************************************************************)
(* The turns of one account in perAccountRateLimiter.ts: each call of      *)
(* waitForTurn chains a promise to the last one of the account, and the    *)
(* map forgets the last one when it has resolved.  Time is what is left of *)
(* each delay.                                                             *)
(***************************************************************************)
EXTENDS Integers, FiniteSets

CONSTANTS Turns,    \* the calls of waitForTurn for the account
          Interval, \* intervalMs
          NoTurn    \* no promise in tails

ASSUME ConstantsAssumption ==
  /\ Interval \in Nat \ {0}
  /\ NoTurn \notin Turns

VARIABLES phase,   \* of each call: new, chained, asleep, granted (its turn has
                   \* resolved) or returned
          prior,   \* the turn each call is chained to
          asleep,  \* what is left of the sleep of each call
          tail,    \* tails, for the account
          next,    \* time left until nextAllowedByAccount
          since    \* time since the last turn was granted, up to Interval

vars == <<phase, prior, asleep, tail, next, since>>

Resolved(t) == t # NoTurn => phase[t] \in {"granted", "returned"}

-----------------------------------------------------------------------------

\* Mutant: a call is entered in tails first and waits for itself.
OwnTurn(t) == t

\* The turn a new call waits for.
Prior(t) == tail

Call(t) ==
  /\ phase[t] = "new"
  /\ phase' = [phase EXCEPT ![t] = "chained"]
  /\ prior' = [prior EXCEPT ![t] = Prior(t)]
  /\ tail' = t
  /\ UNCHANGED <<asleep, next, since>>

\* The turn resolves and sets the time of the next one.
Grant(t) ==
  /\ phase' = [phase EXCEPT ![t] = "granted"]
  /\ next' = Interval
  /\ since' = 0

\* The prior turn has resolved: sleep, or take the turn at once.
Enter(t) ==
  /\ phase[t] = "chained"
  /\ Resolved(prior[t])
  /\ IF next > 0
       THEN /\ phase' = [phase EXCEPT ![t] = "asleep"]
            /\ asleep' = [asleep EXCEPT ![t] = next]
            /\ UNCHANGED <<next, since>>
       ELSE Grant(t) /\ UNCHANGED asleep
  /\ UNCHANGED <<prior, tail>>

\* Mutant: the sleep is cut short.
SleptAlmost(t) == asleep[t] <= 1

Slept(t) == asleep[t] = 0

Wake(t) ==
  /\ phase[t] = "asleep"
  /\ Slept(t)
  /\ Grant(t)
  /\ UNCHANGED <<prior, asleep, tail>>

\* Only the last turn of the account is forgotten.
Forget(t) == IF tail = t THEN NoTurn ELSE tail

Return(t) ==
  /\ phase[t] = "granted"
  /\ phase' = [phase EXCEPT ![t] = "returned"]
  /\ tail' = Forget(t)
  /\ UNCHANGED <<prior, asleep, next, since>>

Less(n) == IF n > 0 THEN n - 1 ELSE 0

Tick ==
  /\ next' = Less(next)
  /\ asleep' = [t \in Turns |-> Less(asleep[t])]
  /\ since' = IF since < Interval THEN since + 1 ELSE since
  /\ UNCHANGED <<phase, prior, tail>>

-----------------------------------------------------------------------------

Init ==
  /\ phase = [t \in Turns |-> "new"]
  /\ prior = [t \in Turns |-> NoTurn]
  /\ asleep = [t \in Turns |-> 0]
  /\ tail = NoTurn
  /\ next = 0
  /\ since = Interval

Step(t) == Enter(t) \/ Wake(t) \/ Return(t)

Next == Tick \/ \E t \in Turns: Call(t) \/ Step(t)

Spec == Init /\ [][Next]_vars

\* Time passes and settled promises run on.
FairSpec == Spec /\ WF_vars(Tick) /\ \A t \in Turns: WF_vars(Step(t))

-----------------------------------------------------------------------------
(* Properties                                                              *)

TypeOK ==
  /\ phase \in [Turns -> {"new", "chained", "asleep", "granted", "returned"}]
  /\ prior \in [Turns -> Turns \cup {NoTurn}]
  /\ asleep \in [Turns -> 0 .. Interval]
  /\ tail \in Turns \cup {NoTurn}
  /\ next \in 0 .. Interval
  /\ since \in 0 .. Interval

\* However the calls of an account come together, two turns are granted at least
\* Interval apart: the configured rate is kept.
Spaced ==
  [][\A t \in Turns: phase'[t] = "granted" /\ phase[t] # "granted" => since = Interval]_vars

\* Every call gets its turn.
EveryTurnComes == \A t \in Turns: phase[t] = "chained" ~> phase[t] = "returned"

=============================================================================
