----------------------- MODULE EventDispatcher_proofs -----------------------
(***************************************************************************)
(* Channels that only know their predecessor are a queue: the dispatcher   *)
(* implements EventLane, for any number of events and waiters.             *)
(***************************************************************************)
EXTENDS EventDispatcher, TLAPS

-----------------------------------------------------------------------------
(* The inductive invariant.                                                *)

\* Of two pending events one was dispatched before the other.
Ordered ==
  \A e, f \in Pending : e = f \/ e \in ahead[f] \/ f \in ahead[e]

\* The entry of the lane names the event behind all others.
TailIsLast ==
  /\ tail = None => Pending = {}
  /\ tail # None => tail \in Pending /\ Pending = ahead[tail] \cup {tail}

\* Only an event whose predecessor is pending has events ahead of it.
Linked ==
  \A e \in Event :
    /\ stage[e] # "linked" => previous[e] = None /\ ahead[e] = {}
    /\ PreviousDone(e) => ahead[e] = {}
    /\ ~PreviousDone(e) => ahead[e] = ahead[previous[e]] \cup {previous[e]}

\* What a waiter still has to see handled comes before the event it waits for.
WaitsLongEnough ==
  \A w \in Waiter :
    /\ waiting[w] = None => owed[w] = {}
    /\ waiting[w] # None =>
         IF stage[waiting[w]] = "done" THEN owed[w] = {}
         ELSE owed[w] \subseteq ahead[waiting[w]] \cup {waiting[w]}

DispatcherInv ==
  DispatcherTypeOK /\ Ordered /\ TailIsLast /\ Linked /\ WaitsLongEnough

-----------------------------------------------------------------------------

LEMMA DispatcherInit == InitDispatcher => DispatcherInv
<1> SUFFICES ASSUME InitDispatcher
             PROVE  DispatcherInv
  OBVIOUS
<1>1. DispatcherTypeOK
  BY DEF InitDispatcher, DispatcherTypeOK
<1>2. Pending = {}
  BY DEF InitDispatcher, Pending
<1>3. Ordered /\ TailIsLast
  BY <1>2 DEF InitDispatcher, Ordered, TailIsLast
<1>4. Linked
  BY DEF InitDispatcher, Linked, PreviousDone
<1>5. WaitsLongEnough
  BY DEF InitDispatcher, WaitsLongEnough
<1> QED  BY <1>1, <1>3, <1>4, <1>5 DEF DispatcherInv

\* None is the name of no event.
LEMMA EventIsNotNone == \A e \in Event : e # None
BY NoneIsNoEvent

\* A new event is linked behind the last one.
LEMMA DispatchInv ==
  ASSUME DispatcherInv, NEW e \in Event, Dispatch(e)
  PROVE  DispatcherInv'
<1> USE DEF DispatcherInv
<1>1. DispatcherTypeOK'
  BY DEF DispatcherTypeOK, Dispatch, Pending
<1>2. Pending' = Pending \cup {e} /\ e \notin Pending
  BY DEF DispatcherTypeOK, Dispatch, Unused, Pending
<1>3. ahead'[e] = Pending /\ \A x \in Event \ {e} : ahead'[x] = ahead[x]
  BY DEF DispatcherTypeOK, Dispatch
<1>4. /\ stage'[e] = "linked" /\ previous'[e] = tail
      /\ \A x \in Event \ {e} : stage'[x] = stage[x] /\ previous'[x] = previous[x]
  BY DEF DispatcherTypeOK, Dispatch
<1>5. Ordered'
  BY <1>2, <1>3 DEF Ordered, Pending
<1>6. TailIsLast'
  BY <1>2, <1>3, EventIsNotNone DEF TailIsLast, Dispatch
<1>7. ASSUME NEW x \in Event
      PROVE  /\ stage'[x] # "linked" => previous'[x] = None /\ ahead'[x] = {}
             /\ PreviousDone(x)' => ahead'[x] = {}
             /\ ~PreviousDone(x)' => ahead'[x] = ahead'[previous'[x]] \cup {previous'[x]}
  <2>1. CASE x = e
    <3>1. CASE tail = None
      BY <2>1, <3>1, <1>3, <1>4 DEF TailIsLast, PreviousDone
    <3>2. CASE tail # None
      <4>1. tail \in Pending /\ Pending = ahead[tail] \cup {tail} /\ tail # e
        BY <3>2, <1>2 DEF TailIsLast
      <4>2. stage'[tail] # "done" /\ ahead'[tail] = ahead[tail]
        BY <4>1, <1>3, <1>4 DEF Pending
      <4> QED  BY <2>1, <3>2, <4>1, <4>2, <1>3, <1>4 DEF PreviousDone
    <3> QED  BY <3>1, <3>2
  <2>2. CASE x # e
    <3>1. previous[x] # e
      BY DEF Dispatch, Unused
    <3>2. previous[x] # None => stage'[previous[x]] = stage[previous[x]]
                                /\ ahead'[previous[x]] = ahead[previous[x]]
      BY <3>1, <1>3, <1>4 DEF DispatcherTypeOK
    <3> QED  BY <2>2, <3>2, <1>3, <1>4 DEF Linked, PreviousDone
  <2> QED  BY <2>1, <2>2
<1>8. Linked'
  BY <1>7 DEF Linked
<1>9. WaitsLongEnough'
  <2> SUFFICES ASSUME NEW w \in Waiter
               PROVE  /\ waiting'[w] = None => owed'[w] = {}
                      /\ waiting'[w] # None =>
                           IF stage'[waiting'[w]] = "done" THEN owed'[w] = {}
                           ELSE owed'[w] \subseteq ahead'[waiting'[w]] \cup {waiting'[w]}
    BY DEF WaitsLongEnough
  <2>1. waiting'[w] = waiting[w] /\ owed'[w] = owed[w] /\ waiting[w] # e
    BY DEF Dispatch, Unused
  <2>2. waiting[w] # None => stage'[waiting[w]] = stage[waiting[w]]
                             /\ ahead'[waiting[w]] = ahead[waiting[w]]
    BY <2>1, <1>3, <1>4 DEF DispatcherTypeOK
  <2> QED  BY <2>1, <2>2 DEF WaitsLongEnough
<1> QED  BY <1>1, <1>5, <1>6, <1>8, <1>9

\* An event whose handlers run is alone.
LEMMA OneRuns ==
  ASSUME DispatcherInv, NEW e \in Event, stage[e] = "running" \/ Handle(e)
  PROVE  ahead[e] = {} /\ Running \subseteq {e}
<1>1. ahead[e] = {} /\ e \in Pending
  BY DEF DispatcherInv, Linked, Handle, Pending
<1>2. ASSUME NEW f \in Running, f # e
      PROVE  FALSE
  <2>1. f \in Pending /\ ahead[f] = {}
    BY <1>2 DEF DispatcherInv, Linked, Running, Pending
  <2> QED  BY <1>1, <1>2, <2>1 DEF DispatcherInv, Ordered
<1> QED  BY <1>1, <1>2 DEF Running

\* An event takes its turn.
LEMMA HandleInv ==
  ASSUME DispatcherInv, NEW e \in Event, Handle(e)
  PROVE  DispatcherInv'
<1> USE DEF DispatcherInv
<1>1. DispatcherTypeOK'
  BY DEF DispatcherTypeOK, Handle
<1>2. Pending' = Pending
  BY DEF DispatcherTypeOK, Handle, Pending
<1>3. \A x \in Event : (stage'[x] = "done") <=> (stage[x] = "done")
  BY DEF DispatcherTypeOK, Handle
<1>4. Ordered' /\ TailIsLast'
  BY <1>2 DEF Ordered, TailIsLast, Handle
<1>5. ASSUME NEW x \in Event
      PROVE  /\ stage'[x] # "linked" => previous'[x] = None /\ ahead'[x] = {}
             /\ PreviousDone(x)' => ahead'[x] = {}
             /\ ~PreviousDone(x)' => ahead'[x] = ahead'[previous'[x]] \cup {previous'[x]}
  <2>1. CASE x = e
    <3>1. previous'[x] = None /\ ahead'[x] = {}
      BY <2>1, OneRuns DEF DispatcherTypeOK, Handle
    <3> QED  BY <3>1 DEF PreviousDone
  <2>2. CASE x # e
    <3>1. previous'[x] = previous[x] /\ stage'[x] = stage[x] /\ ahead' = ahead
      BY <2>2 DEF DispatcherTypeOK, Handle
    <3>2. PreviousDone(x)' <=> PreviousDone(x)
      BY <3>1, <1>3 DEF PreviousDone, DispatcherTypeOK
    <3> QED  BY <3>1, <3>2 DEF Linked
  <2> QED  BY <2>1, <2>2
<1>6. Linked'
  BY <1>5 DEF Linked
<1>7. WaitsLongEnough'
  BY <1>3 DEF WaitsLongEnough, DispatcherTypeOK, Handle
<1> QED  BY <1>1, <1>4, <1>6, <1>7

\* The first event of the lane has been handled.
LEMMA FinishInv ==
  ASSUME DispatcherInv, NEW e \in Event, Finish(e)
  PROVE  DispatcherInv'
<1> USE DEF DispatcherInv
<1>1. DispatcherTypeOK'
  BY DEF DispatcherTypeOK, Finish, TailAfter
<1>2. ahead[e] = {} /\ stage[e] = "running"
  BY OneRuns DEF Finish
<1>3. /\ \A x \in Event : ahead'[x] = ahead[x] \ {e}
      /\ \A w \in Waiter : owed'[w] = owed[w] \ {e}
      /\ stage'[e] = "done" /\ \A x \in Event \ {e} : stage'[x] = stage[x]
  BY DEF DispatcherTypeOK, Finish
<1>4. Pending' = Pending \ {e}
  BY <1>3 DEF Pending
<1>5. Ordered'
  BY <1>3, <1>4 DEF Ordered, Pending
<1>6. TailIsLast'
  <2>1. CASE tail = e
    BY <2>1, <1>2, <1>4, EventIsNotNone DEF TailIsLast, Finish, TailAfter
  <2>2. CASE tail # e
    BY <2>2, <1>3, <1>4 DEF TailIsLast, Finish, TailAfter, Pending
  <2> QED  BY <2>1, <2>2
<1>7. ASSUME NEW x \in Event
      PROVE  /\ stage'[x] # "linked" => previous'[x] = None /\ ahead'[x] = {}
             /\ PreviousDone(x)' => ahead'[x] = {}
             /\ ~PreviousDone(x)' => ahead'[x] = ahead'[previous'[x]] \cup {previous'[x]}
  <2>1. previous'[x] = previous[x]
    BY DEF Finish
  <2>2. stage'[x] # "linked" => stage[x] # "linked"
    BY <1>2, <1>3
  <2>3. CASE PreviousDone(x)
    BY <2>1, <2>2, <2>3, <1>2, <1>3 DEF Linked, PreviousDone, DispatcherTypeOK
  <2>4. CASE ~PreviousDone(x)
    <3>1. previous[x] \in Event
      BY <2>4 DEF PreviousDone, DispatcherTypeOK
    <3>2. ahead[x] = ahead[previous[x]] \cup {previous[x]} /\ stage[x] = "linked"
      BY <2>4 DEF Linked, PreviousDone
    <3>3. CASE previous[x] = e
      BY <2>1, <2>2, <3>2, <3>3, <1>2, <1>3 DEF PreviousDone
    <3>4. CASE previous[x] # e
      BY <2>1, <2>2, <2>4, <3>1, <3>2, <3>4, <1>2, <1>3 DEF PreviousDone
    <3> QED  BY <3>3, <3>4
  <2> QED  BY <2>3, <2>4
<1>8. Linked'
  BY <1>7 DEF Linked
<1>9. WaitsLongEnough'
  <2> SUFFICES ASSUME NEW w \in Waiter
               PROVE  /\ waiting'[w] = None => owed'[w] = {}
                      /\ waiting'[w] # None =>
                           IF stage'[waiting'[w]] = "done" THEN owed'[w] = {}
                           ELSE owed'[w] \subseteq ahead'[waiting'[w]] \cup {waiting'[w]}
    BY DEF WaitsLongEnough
  <2>1. waiting'[w] = waiting[w] /\ owed'[w] = owed[w] \ {e}
    BY <1>3 DEF Finish
  <2>2. waiting[w] # None => waiting[w] \in Event
    BY DEF DispatcherTypeOK
  <2>3. CASE waiting[w] = e
    BY <2>1, <2>3, <1>2, <1>3 DEF WaitsLongEnough
  <2>4. CASE waiting[w] # e
    BY <2>1, <2>2, <2>4, <1>3 DEF WaitsLongEnough
  <2> QED  BY <2>3, <2>4
<1> QED  BY <1>1, <1>5, <1>6, <1>8, <1>9

\* A caller waits for the last event, sees it handled, or gives up.
LEMMA WaiterInv ==
  ASSUME DispatcherInv, NEW w \in Waiter, Wait(w) \/ Return(w) \/ GiveUp(w)
  PROVE  DispatcherInv'
<1> USE DEF DispatcherInv
<1>1. UNCHANGED <<tail, previous, stage, ahead>>
  BY DEF Wait, Return, GiveUp
<1>2. DispatcherTypeOK'
  BY DEF DispatcherTypeOK, Wait, Return, GiveUp, Pending
<1>3. Pending' = Pending
  BY <1>1 DEF Pending
<1>4. Ordered' /\ TailIsLast' /\ Linked'
  BY <1>1, <1>3 DEF Ordered, TailIsLast, Linked, PreviousDone
<1>5. WaitsLongEnough'
  <2>1. CASE Wait(w)
    BY <2>1, <1>1 DEF WaitsLongEnough, Wait, TailIsLast, DispatcherTypeOK, Pending
  <2>2. CASE Return(w)
    BY <2>2, <1>1 DEF WaitsLongEnough, Return, DispatcherTypeOK
  <2>3. CASE GiveUp(w)
    BY <2>3, <1>1 DEF WaitsLongEnough, GiveUp, DispatcherTypeOK
  <2> QED  BY <2>1, <2>2, <2>3
<1> QED  BY <1>2, <1>4, <1>5

\* The dispatcher's channels, its entry and its callers stay consistent.
THEOREM DispatcherInductive == SpecDispatcher => []DispatcherInv
<1>1. InitDispatcher => DispatcherInv
  BY DispatcherInit
<1>2. DispatcherInv /\ [NextDispatcher]_dispatcherVars => DispatcherInv'
  <2> SUFFICES ASSUME DispatcherInv, [NextDispatcher]_dispatcherVars
               PROVE  DispatcherInv'
    OBVIOUS
  <2>1. ASSUME NEW e \in Event, Dispatch(e) \/ Handle(e) \/ Finish(e)
        PROVE  DispatcherInv'
    BY <2>1, DispatchInv, HandleInv, FinishInv
  <2>2. ASSUME NEW w \in Waiter, Wait(w) \/ Return(w) \/ GiveUp(w)
        PROVE  DispatcherInv'
    BY <2>2, WaiterInv
  <2>3. CASE UNCHANGED dispatcherVars
    BY <2>3 DEF dispatcherVars, DispatcherInv, DispatcherTypeOK, Ordered, TailIsLast,
                Linked, PreviousDone, WaitsLongEnough, Pending
  <2> QED  BY <2>1, <2>2, <2>3 DEF NextDispatcher
<1> QED  BY <1>1, <1>2, PTL DEF SpecDispatcher

-----------------------------------------------------------------------------
(* The refinement.                                                         *)

LEMMA LaneInit == InitDispatcher => Lane!Init
BY DEF InitDispatcher, Lane!Init, Pending, Running, Calling

\* Each step of an event is the step of the queue.
LEMMA EventRefines ==
  ASSUME DispatcherInv, NEW e \in Event, Dispatch(e) \/ Handle(e) \/ Finish(e)
  PROVE  Lane!Dispatch(e) \/ Lane!Handle(e) \/ Lane!Finish(e)
<1>1. CASE Dispatch(e)
  <2>1. e \notin Pending /\ Pending' = Pending \cup {e} /\ Running' = Running
    BY <1>1 DEF DispatcherInv, DispatcherTypeOK, Dispatch, Unused, Pending, Running
  <2>2. Calling' = Calling
    BY <1>1 DEF Dispatch, Calling
  <2> QED  BY <1>1, <2>1, <2>2 DEF Dispatch, Lane!Dispatch
<1>2. CASE Handle(e)
  <2>1. ahead[e] = {} /\ Running \subseteq {e}
    BY <1>2, OneRuns
  <2>2. e \in Pending /\ Pending' = Pending /\ Running = {} /\ Running' = {e}
    BY <1>2, <2>1 DEF DispatcherInv, DispatcherTypeOK, Handle, Pending, Running
  <2>3. Calling' = Calling
    BY <1>2 DEF Handle, Calling
  <2> QED  BY <1>2, <2>1, <2>2, <2>3 DEF Handle, Lane!Handle
<1>3. CASE Finish(e)
  <2>1. Running \subseteq {e}
    BY <1>3, OneRuns DEF Finish
  <2>2. e \in Running /\ Pending' = Pending \ {e} /\ Running' = {}
    BY <1>3, <2>1 DEF DispatcherInv, DispatcherTypeOK, Finish, Pending, Running
  <2>3. Calling' = Calling
    BY <1>3 DEF Finish, Calling
  <2> QED  BY <1>3, <2>2, <2>3 DEF Finish, Lane!Finish
<1> QED  BY <1>1, <1>2, <1>3

\* So is each step of a caller.
LEMMA WaiterRefines ==
  ASSUME DispatcherInv, NEW w \in Waiter, Wait(w) \/ Return(w) \/ GiveUp(w)
  PROVE  Lane!Wait(w) \/ Lane!Return(w) \/ Lane!GiveUp(w)
<1>1. Pending' = Pending /\ Running' = Running
  BY DEF Wait, Return, GiveUp, Pending, Running
<1>2. CASE Wait(w)
  <2>1. w \notin Calling /\ Calling' = Calling \cup {w} /\ Pending # {}
    BY <1>2, EventIsNotNone
    DEF DispatcherInv, DispatcherTypeOK, TailIsLast, Wait, Calling
  <2> QED  BY <1>1, <1>2, <2>1 DEF Wait, Lane!Wait
<1>3. CASE Return(w)
  <2>1. w \in Calling /\ Calling' = Calling \ {w} /\ owed[w] = {}
    BY <1>3 DEF DispatcherInv, DispatcherTypeOK, WaitsLongEnough, Return, Calling
  <2> QED  BY <1>1, <1>3, <2>1 DEF Return, Lane!Return
<1>4. CASE GiveUp(w)
  <2>1. w \in Calling /\ Calling' = Calling \ {w}
    BY <1>4 DEF DispatcherInv, DispatcherTypeOK, GiveUp, Calling
  <2> QED  BY <1>1, <1>4, <2>1 DEF GiveUp, Lane!GiveUp
<1> QED  BY <1>2, <1>3, <1>4

(* The ordered events of a room are handled one at a time and in order,    *)
(* and WaitForOrderedEvents returns only when every event dispatched       *)
(* before the call has been handled, for any number of events and callers. *)
THEOREM DispatcherIsALane == SpecDispatcher => ImplementsLane
<1>1. DispatcherInv /\ [NextDispatcher]_dispatcherVars => [Lane!Next]_(Lane!vars)
  <2> SUFFICES ASSUME DispatcherInv, [NextDispatcher]_dispatcherVars
               PROVE  [Lane!Next]_(Lane!vars)
    OBVIOUS
  <2>1. ASSUME NEW e \in Event, Dispatch(e) \/ Handle(e) \/ Finish(e)
        PROVE  Lane!Next
    BY <2>1, EventRefines DEF Lane!Next
  <2>2. ASSUME NEW w \in Waiter, Wait(w) \/ Return(w) \/ GiveUp(w)
        PROVE  Lane!Next
    BY <2>2, WaiterRefines DEF Lane!Next
  <2>3. CASE UNCHANGED dispatcherVars
    BY <2>3 DEF dispatcherVars, Lane!vars, Pending, Running, Calling
  <2> QED  BY <2>1, <2>2, <2>3 DEF NextDispatcher
<1> QED  BY <1>1, LaneInit, DispatcherInductive, PTL
         DEF SpecDispatcher, ImplementsLane, Lane!Spec

-----------------------------------------------------------------------------
(* Goroutines that each wait for the channel of the one before them never  *)
(* wait for each other in a circle.                                        *)

(* No finiteness is needed: among any pending events one has none of the   *)
(* others before it.                                                       *)
NoCircle ==
  /\ \A e \in Event : ahead[e] \subseteq Pending
  /\ \A S \in SUBSET Pending : S # {} => \E e \in S : ahead[e] \cap S = {}

LEMMA NoCircleByDispatch ==
  ASSUME DispatcherInv, NoCircle, NEW e \in Event, Dispatch(e)
  PROVE  NoCircle'
<1>1. e \notin Pending /\ Pending' = Pending \cup {e}
  BY DEF DispatcherInv, DispatcherTypeOK, Dispatch, Unused, Pending
<1>2. ahead'[e] = Pending /\ \A x \in Event \ {e} : ahead'[x] = ahead[x]
  BY DEF DispatcherInv, DispatcherTypeOK, Dispatch
<1>3. \A x \in Event : ahead'[x] \subseteq Pending'
  BY <1>1, <1>2 DEF NoCircle
<1>4. ASSUME NEW S \in SUBSET Pending', S # {}
      PROVE  \E x \in S : ahead'[x] \cap S = {}
  <2>1. CASE S = {e}
    BY <2>1, <1>1, <1>2
  <2>2. CASE S # {e}
    <3>1. S \ {e} \in SUBSET Pending /\ S \ {e} # {}
      BY <2>2, <1>1, <1>4
    <3>2. PICK x \in S \ {e} : ahead[x] \cap (S \ {e}) = {}
      BY <3>1 DEF NoCircle
    <3>3. x \in Event /\ ahead'[x] = ahead[x] /\ e \notin ahead[x]
      BY <3>1, <3>2, <1>1, <1>2 DEF NoCircle, Pending
    <3> QED  BY <3>2, <3>3
  <2> QED  BY <2>1, <2>2
<1> QED  BY <1>3, <1>4 DEF NoCircle

LEMMA NoCircleByFinish ==
  ASSUME DispatcherInv, NoCircle, NEW e \in Event, Finish(e)
  PROVE  NoCircle'
<1>1. Pending' = Pending \ {e}
  BY DEF DispatcherInv, DispatcherTypeOK, Finish, Pending
<1>2. \A x \in Event : ahead'[x] = ahead[x] \ {e}
  BY DEF Finish
<1>3. \A x \in Event : ahead'[x] \subseteq Pending'
  BY <1>1, <1>2 DEF NoCircle
<1>4. ASSUME NEW S \in SUBSET Pending', S # {}
      PROVE  \E x \in S : ahead'[x] \cap S = {}
  <2>1. PICK x \in S : ahead[x] \cap S = {}
    BY <1>1, <1>4 DEF NoCircle
  <2>2. x \in Event
    BY <1>1, <1>4, <2>1 DEF Pending
  <2> QED  BY <1>2, <2>1, <2>2
<1> QED  BY <1>3, <1>4 DEF NoCircle

LEMMA NoCircleStep ==
  ASSUME DispatcherInv, NoCircle, [NextDispatcher]_dispatcherVars
  PROVE  NoCircle'
<1>1. CASE \/ UNCHANGED dispatcherVars
           \/ \E e \in Event : Handle(e)
           \/ \E w \in Waiter : Wait(w) \/ Return(w) \/ GiveUp(w)
  <2>1. Pending' = Pending /\ ahead' = ahead
    BY <1>1
    DEF dispatcherVars, Handle, Wait, Return, GiveUp, Pending, DispatcherInv, DispatcherTypeOK
  <2> QED  BY <2>1 DEF NoCircle
<1> QED  BY <1>1, NoCircleByDispatch, NoCircleByFinish DEF NextDispatcher

(* As long as the lane has events, handlers run or some event may take its *)
(* turn; and who waits for an event waits for one that is in the lane, or  *)
(* for a channel that is closed already.                                   *)
LaneMoves ==
  /\ Pending # {} =>
       \E e \in Pending : stage[e] = "running" \/ (stage[e] = "linked" /\ PreviousDone(e))
  /\ \A w \in Calling : waiting[w] \in Pending \/ (waiting[w] \in Event /\ owed[w] = {})

LEMMA HeadMoves ==
  ASSUME DispatcherInv, NoCircle
  PROVE  LaneMoves
<1>1. ASSUME Pending # {}
      PROVE  \E e \in Pending : stage[e] = "running" \/ (stage[e] = "linked" /\ PreviousDone(e))
  <2>1. PICK e \in Pending : ahead[e] = {}
    BY <1>1 DEF NoCircle, Pending
  <2>2. PreviousDone(e)
    BY <2>1 DEF DispatcherInv, Linked, Pending
  <2> QED  BY <2>1, <2>2 DEF DispatcherInv, DispatcherTypeOK, Pending
<1>2. ASSUME NEW w \in Calling
      PROVE  waiting[w] \in Pending \/ (waiting[w] \in Event /\ owed[w] = {})
  BY <1>2 DEF DispatcherInv, DispatcherTypeOK, WaitsLongEnough, Calling, Pending
<1> QED  BY <1>1, <1>2 DEF LaneMoves

THEOREM LaneNeverStalls == SpecDispatcher => [](NoCircle /\ LaneMoves)
<1>1. InitDispatcher => NoCircle
  BY DEF InitDispatcher, NoCircle, Pending
<1>2. DispatcherInv /\ NoCircle /\ [NextDispatcher]_dispatcherVars => NoCircle'
  BY NoCircleStep
<1>3. DispatcherInv /\ NoCircle => LaneMoves
  BY HeadMoves
<1> QED  BY <1>1, <1>2, <1>3, DispatcherInductive, PTL DEF SpecDispatcher

=============================================================================
