-------------------------- MODULE DeliveryRuntime --------------------------
(***************************************************************************)
(* The runtime of deliver mode (deliveryRuntime.ts, deliveryProtocol.ts):  *)
(* one sweep over the pending items at start-up, one at each timer event   *)
(* after it, and the exchange/deliver requests beside them.  What a call   *)
(* of processor.process does to its item is OutboxDelivery; here it ends   *)
(* the item or leaves it pending.                                          *)
(***************************************************************************)
EXTENDS Integers, FiniteSets, Sequences, SequencesExt

CONSTANTS ItemCount, \* bound: items, numbered in the order Drive lists them
          PageSize,  \* RECONCILIATION_PAGE_SIZE
          Malformed, \* items whose rows parseSdkOutboxItem refuses
          MaxFaults  \* bound: calls of listPending that fail

Items == 1 .. ItemCount

ASSUME RuntimeAssumption ==
  /\ ItemCount \in Nat /\ PageSize \in Nat \ {0} /\ MaxFaults \in Nat
  /\ Malformed \subseteq Items

VARIABLES cursors,  \* what Drive answers for cursors: sound ones, or any
          state,    \* of each item: new, pending or ended
          sweep,    \* the sweep of start() and the one of the timer
          timer,    \* reconciliationTimer is set
          stop,     \* where shutdown stands: no, draining, stopped (pool, senders and
                    \* server are being closed), exited
          handling, \* the items of the requests under way
          swept,    \* the item the last call of a sweep was about
          faults

runtimeVars == <<cursors, state, sweep, timer, stop, handling, swept, faults>>

Sweeps == {"initial", "timer"}

NoCursor == 0

Start == [phase |-> "list", cursor |-> NoCursor, page |-> <<>>, next |-> NoCursor, seen |-> {}]

Idle == [Start EXCEPT !.phase = "none"]

Active(s) == sweep[s].phase # "none"

-----------------------------------------------------------------------------
(* reconcilePending                                                        *)

\* start() sets the timer when its sweep is over, whether or not stop() has been
\* called meanwhile.
End(s) ==
  /\ sweep' = [sweep EXCEPT ![s] = Idle]
  /\ timer' = (timer \/ s = "initial")

\* Drive lists the pending items after the cursor.
PendingAfter(cursor) == {i \in Items : i > cursor /\ state[i] = "pending"}

Page(cursor) ==
  LET rest == SetToSortSeq(PendingAfter(cursor), <)
  IN  SubSeq(rest, 1, IF Len(rest) < PageSize THEN Len(rest) ELSE PageSize)

NextCursor(cursor) ==
  LET page == Page(cursor)
  IN  IF Len(page) < Cardinality(PendingAfter(cursor)) THEN Last(page) ELSE NoCursor

ListPending(s) ==
  LET cursor == sweep[s].cursor
  IN  /\ sweep[s].phase = "list"
      /\ \/ /\ ToSet(Page(cursor)) \cap Malformed = {}
            /\ \E next \in IF cursors = "any" THEN {NoCursor} \cup Items ELSE {NextCursor(cursor)}:
                 sweep' = [sweep EXCEPT ![s].phase = "items", ![s].page = Page(cursor),
                                        ![s].next = next]
            /\ UNCHANGED <<timer, faults>>
         \/ /\ ToSet(Page(cursor)) \cap Malformed # {}
            /\ End(s)
            /\ UNCHANGED faults
         \/ /\ faults < MaxFaults
            /\ faults' = faults + 1
            /\ End(s)
      /\ UNCHANGED <<cursors, state, stop, handling, swept>>

\* An item some request is busy with, or one that is over, is left as it is.
Outcomes(i) == IF i \in handling \/ state[i] # "pending" THEN {state[i]} ELSE {"pending", "ended"}

ProcessItem(s) ==
  /\ sweep[s].phase = "items"
  /\ sweep[s].page # <<>>
  /\ LET i == Head(sweep[s].page)
     IN  /\ swept' = i
         /\ \E o \in Outcomes(i): state' = [state EXCEPT ![i] = o]
         /\ sweep' = [sweep EXCEPT ![s].page = Tail(@)]
  /\ UNCHANGED <<cursors, timer, stop, handling, faults>>

\* Mutants: cursors are not remembered; the next page is asked for without its cursor.
Forgetful(s) == [sweep[s] EXCEPT !.phase = "list", !.cursor = sweep[s].next]
FromTheTop(s) == [sweep[s] EXCEPT !.phase = "list", !.seen = @ \cup {sweep[s].next}]

Turned(s) ==
  [sweep[s] EXCEPT !.phase = "list", !.cursor = sweep[s].next, !.seen = @ \cup {sweep[s].next}]

\* A page is done; a cursor that was seen before ends the sweep.
TurnPage(s) ==
  /\ sweep[s].phase = "items"
  /\ sweep[s].page = <<>>
  /\ IF sweep[s].next \in sweep[s].seen \cup {NoCursor}
       THEN End(s)
       ELSE sweep' = [sweep EXCEPT ![s] = Turned(s)] /\ UNCHANGED timer
  /\ UNCHANGED <<cursors, state, stop, handling, swept, faults>>

ReconcilePending(s) == ListPending(s) \/ ProcessItem(s) \/ TurnPage(s)

-----------------------------------------------------------------------------
(* The timer, stop and requests                                            *)

\* Mutant: stopping is not asked; the timer may have been set after stop().
WhileTimerSet == timer /\ ~Active("timer")

\* A timer event while a sweep is active is skipped.
MayBegin == timer /\ ~Active("timer") /\ stop = "no"

BeginReconciliation ==
  /\ MayBegin
  /\ sweep' = [sweep EXCEPT !["timer"] = Start]
  /\ UNCHANGED <<cursors, state, timer, stop, handling, swept, faults>>

\* stop() clears the timer if it is set already.
BeginStop ==
  /\ stop = "no"
  /\ stop' = "draining"
  /\ timer' = FALSE
  /\ UNCHANGED <<cursors, state, sweep, handling, swept, faults>>

\* Mutants: stop() also awaits the requests; it awaits nothing.
AllDrained == ~Active("timer") /\ handling = {}
NothingDrained == TRUE

\* What stop() awaits: the sweep a timer event began.
Drained == ~Active("timer")

EndStop ==
  /\ stop = "draining"
  /\ Drained
  /\ stop' = "stopped"
  /\ UNCHANGED <<cursors, state, sweep, timer, handling, swept, faults>>

\* pool.closeAll is over, too, and the process exits: the sweep of start() and requests
\* under way are cut off, which is a crash to OutboxDelivery.
Exit ==
  /\ stop = "stopped"
  /\ stop' = "exited"
  /\ sweep' = [s \in Sweeps |-> Idle]
  /\ timer' = FALSE
  /\ handling' = {}
  /\ UNCHANGED <<cursors, state, swept, faults>>

\* Requests are served from the time the transport is connected.
BeginRequest(i) ==
  /\ stop # "exited"
  /\ state[i] # "new"
  /\ i \notin handling
  /\ handling' = handling \cup {i}
  /\ UNCHANGED <<cursors, state, sweep, timer, stop, swept, faults>>

\* A row that does not parse is not delivered by a request either.
EndRequest(i) ==
  /\ i \in handling
  /\ handling' = handling \ {i}
  /\ \/ state[i] = "pending" /\ i \notin Malformed /\ state' = [state EXCEPT ![i] = "ended"]
     \/ UNCHANGED state
  /\ UNCHANGED <<cursors, sweep, timer, stop, swept, faults>>

\* External: Exchange puts an item into the outbox.
Arrive(i) ==
  /\ state[i] = "new"
  /\ state' = [state EXCEPT ![i] = "pending"]
  /\ UNCHANGED <<cursors, sweep, timer, stop, handling, swept, faults>>

-----------------------------------------------------------------------------

\* start() sets the timer after its sweep.
SetFirst == FALSE

RuntimeInit ==
  /\ cursors \in {"sound", "any"}
  /\ state \in [Items -> {"new", "pending"}]
  /\ sweep = [s \in Sweeps |-> IF s = "initial" THEN Start ELSE Idle]
  /\ timer = SetFirst
  /\ stop = "no"
  /\ handling = {}
  /\ swept = 0
  /\ faults = 0

RuntimeNext ==
  \/ \E s \in Sweeps: ReconcilePending(s)
  \/ BeginReconciliation
  \/ BeginStop
  \/ EndStop
  \/ Exit
  \/ \E i \in Items: BeginRequest(i) \/ EndRequest(i) \/ Arrive(i)

RuntimeSpec == RuntimeInit /\ [][RuntimeNext]_runtimeVars

\* The calls of a sweep end, timer events come again and again, and the connections and
\* the server close.  A request may take as long as it likes.
Fairness ==
  /\ \A s \in Sweeps: WF_runtimeVars(ReconcilePending(s))
  /\ WF_runtimeVars(BeginReconciliation)
  /\ WF_runtimeVars(EndStop)
  /\ WF_runtimeVars(Exit)

FairSpec == RuntimeSpec /\ Fairness

-----------------------------------------------------------------------------
(* Properties                                                              *)

RuntimeTypeOK ==
  /\ cursors \in {"sound", "any"}
  /\ state \in [Items -> {"new", "pending", "ended"}]
  /\ DOMAIN sweep = Sweeps
  /\ \A s \in Sweeps:
       /\ sweep[s].phase \in {"none", "list", "items"}
       /\ {sweep[s].cursor, sweep[s].next} \subseteq Items \cup {NoCursor}
       /\ sweep[s].page \in Seq(Items)
       /\ sweep[s].seen \subseteq Items
  /\ timer \in BOOLEAN
  /\ stop \in {"no", "draining", "stopped", "exited"}
  /\ handling \subseteq Items
  /\ swept \in Items \cup {0}
  /\ faults \in 0 .. MaxFaults

\* Once stop() has been called no sweep begins, though start() may set the timer
\* after that.
NoSweepAfterStop == [][stop # "no" => \A s \in Sweeps: Active(s)' => Active(s)]_runtimeVars

\* The process never exits in the midst of a sweep that a timer event began.
SweepNotCutOff == [][stop' = "exited" => ~Active("timer")]_runtimeVars

\* A signal is followed by the exit of the process, whatever requests are under way and
\* whatever Drive answers to the sweep that is awaited.
SignalMeansExit == stop = "draining" ~> stop = "exited"

\* Whatever cursors Drive answers, a sweep ends.
SweepsEnd == \A s \in Sweeps: Active(s) ~> ~Active(s)

\* Without any request an item of the outbox is taken up by a sweep, wherever it
\* stands in the listing and whatever joins or leaves it meanwhile.  A pending row that
\* does not parse fails its page, and may keep all items after it from being swept.
EveryItemSwept ==
  cursors = "sound" =>
    \A i \in Items \ Malformed:
      state[i] = "pending" ~>
        \/ swept = i
        \/ state[i] = "ended"
        \/ stop # "no"
        \/ \E j \in Malformed: state[j] = "pending"

=============================================================================
