--------------------------- MODULE EventDispatcher ---------------------------
(***************************************************************************)
(* pkg/events: the lane of ordered events of one room.  There is no queue: *)
(* each dispatched event gets a goroutine and a channel that is closed     *)
(* when its handlers have returned, and waits for the channel of the event *)
(* before it; the dispatcher only keeps the last channel, tails[OrderKey]. *)
(* An Event is such a goroutine with its channel; a name is used again     *)
(* when nothing refers to its last use any more.                           *)
(***************************************************************************)
CONSTANTS Event,   \* bound: events that are referred to at one time
          Waiter,  \* goroutines that may call WaitForOrderedEvents
          None

ASSUME NoneIsNoEvent == None \notin Event

VARIABLES
  tail,      \* tails[key]: the event dispatched last; None: no entry
  previous,  \* the event whose channel an event's goroutine waits for
  stage,     \* "linked": waits; "running": runs its handlers; "done": closed
  waiting,   \* the event a waiter waits for; None: it is not waiting
  ahead,     \* history: the events dispatched before, and not yet done
  owed       \* history: the events not yet done when the waiter called

dispatcherVars == <<tail, previous, stage, waiting, ahead, owed>>

Pending == {e \in Event : stage[e] # "done"}
Running == {e \in Event : stage[e] = "running"}
Calling == {w \in Waiter : waiting[w] # None}

\* No goroutine holds the channel of e any more.
Unused(e) ==
  /\ stage[e] = "done"
  /\ \A x \in Event : previous[x] # e
  /\ \A w \in Waiter : waiting[w] # e

InitDispatcher ==
  /\ tail = None
  /\ previous = [e \in Event |-> None]
  /\ stage = [e \in Event |-> "done"]
  /\ waiting = [w \in Waiter |-> None]
  /\ ahead = [e \in Event |-> {}]
  /\ owed = [w \in Waiter |-> {}]

(* DispatchEvent links the event behind the last one under the lock.       *)
Dispatch(e) ==
  /\ Unused(e)
  /\ previous' = [previous EXCEPT ![e] = tail]
  /\ tail' = e
  /\ stage' = [stage EXCEPT ![e] = "linked"]
  /\ ahead' = [ahead EXCEPT ![e] = Pending]
  /\ UNCHANGED <<waiting, owed>>

\* Mutant: the goroutine does not wait for the previous event.
NeverWaits(e) == TRUE

\* <-previous
PreviousDone(e) == previous[e] # None => stage[previous[e]] = "done"

Handle(e) ==
  /\ stage[e] = "linked"
  /\ PreviousDone(e)
  /\ stage' = [stage EXCEPT ![e] = "running"]
  /\ previous' = [previous EXCEPT ![e] = None]
  /\ UNCHANGED <<tail, waiting, ahead, owed>>

\* Mutant: the entry is deleted although a later event is linked behind it.
ForgetTail(e) == None

\* The entry of the lane is deleted only by the event it still names.
TailAfter(e) == IF tail = e THEN None ELSE tail

(* The handlers have returned, or one has panicked: the deferred function  *)
(* closes the channel.                                                     *)
Finish(e) ==
  /\ stage[e] = "running"
  /\ tail' = TailAfter(e)
  /\ stage' = [stage EXCEPT ![e] = "done"]
  /\ ahead' = [x \in Event |-> ahead[x] \ {e}]
  /\ owed' = [w \in Waiter |-> owed[w] \ {e}]
  /\ UNCHANGED <<previous, waiting>>

\* WaitForOrderedEvents takes the last channel ...
Wait(w) ==
  /\ waiting[w] = None
  /\ tail # None
  /\ waiting' = [waiting EXCEPT ![w] = tail]
  /\ owed' = [owed EXCEPT ![w] = Pending]
  /\ UNCHANGED <<tail, previous, stage, ahead>>

\* ... and returns when it is closed ...
Return(w) ==
  /\ waiting[w] # None
  /\ stage[waiting[w]] = "done"
  /\ waiting' = [waiting EXCEPT ![w] = None]
  /\ UNCHANGED <<tail, previous, stage, ahead, owed>>

\* ... or when the caller's context ends.
GiveUp(w) ==
  /\ waiting[w] # None
  /\ waiting' = [waiting EXCEPT ![w] = None]
  /\ owed' = [owed EXCEPT ![w] = {}]
  /\ UNCHANGED <<tail, previous, stage, ahead>>

NextDispatcher ==
  \/ \E e \in Event : Dispatch(e) \/ Handle(e) \/ Finish(e)
  \/ \E w \in Waiter : Wait(w) \/ Return(w) \/ GiveUp(w)

SpecDispatcher == InitDispatcher /\ [][NextDispatcher]_dispatcherVars

-----------------------------------------------------------------------------

DispatcherTypeOK ==
  /\ tail \in Event \cup {None}
  /\ previous \in [Event -> Event \cup {None}]
  /\ stage \in [Event -> {"linked", "running", "done"}]
  /\ waiting \in [Waiter -> Event \cup {None}]
  /\ ahead \in [Event -> SUBSET Event]
  /\ owed \in [Waiter -> SUBSET Event]

Lane == INSTANCE EventLane
  WITH pending <- Pending, running <- Running, calls <- Calling

(* Channels that only know their predecessor are a queue: the events of a  *)
(* room are handled one at a time and in order, and WaitForOrderedEvents   *)
(* returns only when every event dispatched before the call is handled.    *)
ImplementsLane == Lane!Spec

=============================================================================
