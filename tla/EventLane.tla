------------------------------ MODULE EventLane ------------------------------
(***************************************************************************)
(* What the dispatcher promises for the ordered events of one room: they   *)
(* are handled one at a time, in the order in which they were dispatched,  *)
(* and a caller that waits returns only when every event dispatched before *)
(* its call has been handled, or when it gives up.                         *)
(***************************************************************************)
CONSTANTS Event, Waiter

VARIABLES
  pending,  \* events that have been dispatched and not yet handled
  running,  \* the event whose handlers run, if any
  ahead,    \* the pending events that come before a pending event
  calls,    \* waiters inside WaitForOrderedEvents
  owed      \* the pending events that a waiter has to see handled

vars == <<pending, running, ahead, calls, owed>>

Init ==
  /\ pending = {} /\ running = {} /\ calls = {}
  /\ ahead = [e \in Event |-> {}]
  /\ owed = [w \in Waiter |-> {}]

Dispatch(e) ==
  /\ e \notin pending
  /\ pending' = pending \cup {e}
  /\ ahead' = [ahead EXCEPT ![e] = pending]
  /\ UNCHANGED <<running, calls, owed>>

Handle(e) ==
  /\ e \in pending
  /\ ahead[e] = {} /\ running = {}
  /\ running' = {e}
  /\ UNCHANGED <<pending, ahead, calls, owed>>

Finish(e) ==
  /\ e \in running
  /\ pending' = pending \ {e}
  /\ running' = {}
  /\ ahead' = [x \in Event |-> ahead[x] \ {e}]
  /\ owed' = [w \in Waiter |-> owed[w] \ {e}]
  /\ UNCHANGED calls

Wait(w) ==
  /\ w \notin calls
  /\ pending # {}
  /\ calls' = calls \cup {w}
  /\ owed' = [owed EXCEPT ![w] = pending]
  /\ UNCHANGED <<pending, running, ahead>>

Return(w) ==
  /\ w \in calls
  /\ owed[w] = {}
  /\ calls' = calls \ {w}
  /\ UNCHANGED <<pending, running, ahead, owed>>

GiveUp(w) ==
  /\ w \in calls
  /\ calls' = calls \ {w}
  /\ owed' = [owed EXCEPT ![w] = {}]
  /\ UNCHANGED <<pending, running, ahead>>

Next ==
  \/ \E e \in Event : Dispatch(e) \/ Handle(e) \/ Finish(e)
  \/ \E w \in Waiter : Wait(w) \/ Return(w) \/ GiveUp(w)

Spec == Init /\ [][Next]_vars

=============================================================================
