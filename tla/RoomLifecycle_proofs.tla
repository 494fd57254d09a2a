-------------------------- MODULE RoomLifecycle_proofs --------------------------
(***************************************************************************)
(* Proofs about RoomLifecycle, for any number of events, callers,          *)
(* listeners, recorders and faults.                                        *)
(***************************************************************************)
EXTENDS RoomLifecycle, EventDispatcher_proofs

-----------------------------------------------------------------------------
(* The inductive invariant.                                                *)

Ends == {"LiveEnd", "ListenStop"}

\* How far the handlers are fits the event they handle.
HandlersAt ==
  /\ \A e \in Running :
       /\ at # "begin"
       /\ at = "adding" <=> kind[e] = "LiveStart"
       /\ at \in {"removing", "closing"} <=> kind[e] \in Ends
  /\ Running = {} => at = "begin" /\ target = None

\* Only the recorder in the map has not been told to stop.
OneRecorder ==
  /\ \A x \in Recorder : rstate[x] = "run" => saver = x
  /\ at = "closing" => saver # None /\ saver = target /\ rstate[saver] # "run"
  /\ at # "closing" /\ saver # None => rstate[saver] = "run"

Watched == monitor # None /\ lstate[monitor] # "stopped"

OneListener == \A l \in Listener : lstate[l] # "stopped" => monitor = l

\* The listener has told that the broadcast began, and will tell that it ended.
Seen == Watched /\ (live[monitor] \/ missed)

(* A recorder in the map, and one that an event is going to put there, has *)
(* a listener that will have it removed, or the removal is in the lane.    *)
Attended ==
  /\ saver # None => Removal \/ Seen
  /\ \A e \in Pending :
       kind[e] = "LiveStart" =>
         Seen \/ \E f \in Pending : kind[f] \in Ends /\ e \in ahead[f]

\* What stopListening has achieved by now.
Stopping ==
  /\ cpc \in {"stopping", "removed", "sent", "ending"} \/ halted => runState = "stopped"
  /\ cpc \in {"removed", "sent", "ending", "adding", "undoing"} \/ halted => monitor = None
  /\ cpc = "ending" => Pending \subseteq owed[Control]
  /\ halted => cpc = "idle" /\ Pending = {}

\* A room is re-armed, and gets a new listener.
Starts == {"armed", "adding", "refreshing"}

(* What startListening has found out by now: no event of an earlier stop   *)
(* is left, a recorder that an event is about to start has a session and a *)
(* run, and so has one that runs.                                          *)
NoOldStop ==
  /\ cpc = "starting" => \A e \in Pending : kind[e] = "UserStop" => e \in owed[Control]
  /\ cpc \in {"waited", "free"} \cup Starts => \A e \in Pending : kind[e] # "UserStop"

SessionAhead ==
  cpc \in {"starting", "waited", "free"} /\ at = "adding" /\ current /\ open =>
    \/ bound /\ runState \in Active
    \/ cpc = "starting" /\ Running \subseteq owed[Control]

RunIsHeld ==
  cpc = "free" =>
    \A x \in Recorder : rstate[x] = "run" => bound /\ mine[x] /\ runState \in Active

Starting == NoOldStop /\ SessionAhead /\ RunIsHeld

\* A listener that Start is still polling for is the one being added.
Controlled ==
  /\ \A l \in Listener :
       /\ lpc[l] = "refresh" => lstate[l] = "pending"
       /\ lpc[l] = "refresh" => ~live[l]
       /\ lstate[l] = "pending" => cpc = "refreshing" /\ (own[l] \/ missed)
  /\ cpc \in {"armed", "adding"} => \A l \in Listener : ~own[l]
  /\ cpc = "refreshing" => \A l \in Listener : lstate[l] # "running"

\* The end of a broadcast is never told while its begin is still in the lane.
EndsBehind ==
  /\ \A e \in Pending : ahead[e] \subseteq Pending
  /\ \A e, f \in Pending : kind[e] = "LiveStart" /\ kind[f] = "LiveEnd" => e \notin ahead[f]

EndsWait ==
  \A l \in Listener :
    lpc[l] = "news" /\ news[l] = "LiveEnd" /\ lstate[l] # "stopped" => ~StartPending

\* Nothing ends the run that has just been re-armed.
NewRun ==
  cpc \in Starts =>
    \/ runState = "waiting" /\ ~bound
    \/ /\ runState = "recording" /\ bound /\ open
       /\ \A e \in Pending : kind[e] # "LiveEnd"
       /\ \A l \in Listener :
            lpc[l] = "news" /\ lstate[l] # "stopped" => news[l] # "LiveEnd"

-----------------------------------------------------------------------------
(* The lane of the room is the dispatcher's.                               *)

LEMMA EmitDispatches ==
  ASSUME NEW k, Emit(k)
  PROVE  \E e \in Event : Dispatch(e) /\ kind' = [kind EXCEPT ![e] = k]
<1> DEFINE e == CHOOSE e \in Event : Unused(e)
<1>1. e \in Event
  BY DEF Emit
<1>2. Dispatch(e) /\ kind' = [kind EXCEPT ![e] = k]
  BY DEF Emit
<1> HIDE DEF e
<1> QED  BY <1>1, <1>2

LEMMA CloseEmits ==
  ASSUME NEW l, CloseListener(l)
  PROVE  \E e \in Event : Dispatch(e)
BY EmitDispatches DEF CloseListener

LEMMA StepOfDispatcher == [Next]_vars => [NextDispatcher]_dispatcherVars
<1> SUFFICES ASSUME [Next]_vars
             PROVE  NextDispatcher \/ UNCHANGED dispatcherVars
  OBVIOUS
<1> USE EmitDispatches, CloseEmits, RoomNames DEF NextDispatcher, laneVars
<1>1. CASE UNCHANGED vars \/ Platform \/ Split \/ \E x \in Recorder : Leave(x)
  BY <1>1 DEF vars, Platform, Split, Leave
<1>2. ASSUME NEW l \in Listener,
             ListenerStep(l) \/ \E k \in Kind : PollAnswers(l, k)
      PROVE  NextDispatcher \/ UNCHANGED dispatcherVars
  <2>1. CASE SelfClose(l)
    BY <2>1 DEF SelfClose
  <2>2. CASE FirstPollIsQuiet(l) \/ \E k \in Kind : PollAnswers(l, k)
    BY <2>2 DEF FirstPollIsQuiet, PollAnswers
  <2>3. CASE Announce(l)
    BY <2>3 DEF Announce
  <2> QED  BY <1>2, <2>1, <2>2, <2>3 DEF ListenerStep
<1>3. CASE LaneStep
  BY <1>3
  DEF LaneStep, HandleLiveStart, AddRecorder, HandleLiveEnd, HandleListenStop,
      RemoveRecorder, RecorderRemoved, NoRecorder, HandleUserStop, HandleRoomNameChanged,
      HandlersReturn, Done
<1>4. CASE ControlCalled
  BY <1>4 DEF ControlCalled, StartBegins, StopBegins
<1>5. CASE ControlStep
  <2>1. CASE \/ StartWaited \/ StartChecks \/ StartRearms
             \/ StartListener \/ StartReturns \/ StartUndone
    BY <2>1 DEF StartWaited, StartChecks, StartRearms, StartListener, StartReturns, StartUndone
  <2>2. CASE StartForgets \/ StopRemoves
    BY <2>2 DEF StartForgets, StopRemoves
  <2>3. CASE StopDispatches \/ StopWaits \/ StopReturns
    BY <2>3 DEF StopDispatches, StopWaits, StopReturns
  <2> QED  BY <1>5, <2>1, <2>2, <2>3 DEF ControlStep
<1> QED  BY <1>1, <1>2, <1>3, <1>4, <1>5 DEF Next

(* The events of a room are handled one at a time and in order, and a      *)
(* control call that has waited has seen all earlier ones handled, with    *)
(* any number of listeners, recorders and calls.                           *)
THEOREM RoomIsALane == Spec => ImplementsLane
<1>1. Init => InitDispatcher
  BY DEF Init
<1>2. Spec => SpecDispatcher
  BY <1>1, StepOfDispatcher, PTL DEF Spec, SpecDispatcher
<1> QED  BY <1>2, DispatcherIsALane

THEOREM RoomDispatcher == Spec => []DispatcherInv
<1>1. Init => InitDispatcher
  BY DEF Init
<1>2. Spec => SpecDispatcher
  BY <1>1, StepOfDispatcher, PTL DEF Spec, SpecDispatcher
<1> QED  BY <1>2, DispatcherInductive

-----------------------------------------------------------------------------
(* Types.                                                                  *)

RoomTypes ==
  /\ onAir \in BOOLEAN
  /\ runState \in {"waiting"} \cup Active \cup Terminal
  /\ bound \in BOOLEAN /\ open \in BOOLEAN /\ current \in BOOLEAN
  /\ saver \in Recorder \cup {None}
  /\ rstate \in [Recorder -> {"none", "run", "stop"}]
  /\ mine \in [Recorder -> BOOLEAN]

ListenerTypes ==
  /\ monitor \in Listener \cup {None}
  /\ lstate \in [Listener -> {"pending", "running", "stopped"}]
  /\ own \in [Listener -> BOOLEAN]
  /\ live \in [Listener -> BOOLEAN]
  /\ news \in [Listener -> {None, "LiveStart", "LiveEnd", "RoomNameChanged"}]
  /\ lpc \in [Listener -> {"none", "refresh", "loop", "news"}]

LaneTypes ==
  /\ kind \in [Event -> Kind \cup {None}]
  /\ at \in {"begin", "adding", "removing", "closing", "splitting", "ended"}
  /\ target \in Recorder \cup {None}

ControlTypes ==
  /\ cpc \in {"idle", "starting", "waited", "free", "armed", "adding", "refreshing",
              "undoing", "stopping", "removed", "sent", "ending"}
  /\ halted \in BOOLEAN /\ missed \in BOOLEAN
  /\ faults \in 0..MaxFaults

Types == RoomTypes /\ ListenerTypes /\ LaneTypes /\ ControlTypes

RoomInv ==
  /\ Types
  /\ HandlersAt /\ OneRecorder /\ OneListener /\ Attended /\ Stopping /\ Starting
  /\ Controlled /\ EndsBehind /\ EndsWait /\ NewRun

LEMMA TypesSplit == TypeOK <=> DispatcherTypeOK /\ Types
BY DEF TypeOK, Types, RoomTypes, ListenerTypes, LaneTypes, ControlTypes

\* A new recorder takes a free name; all others are as they were told to be.
LEMMA NewRecorder ==
  ASSUME NEW told, StartRecorder(told)
  PROVE  \E x \in Recorder :
           /\ x \notin Alive /\ x # target
           /\ rstate' = [told EXCEPT ![x] = "run"]
           /\ mine' = [mine EXCEPT ![x] = TRUE]
           /\ saver' = x
<1> DEFINE x == CHOOSE x \in Recorder : Spare(x)
<1>1. x \in Recorder /\ Spare(x)
  BY DEF StartRecorder
<1>2. rstate' = [told EXCEPT ![x] = "run"] /\ mine' = [mine EXCEPT ![x] = TRUE] /\ saver' = x
  BY DEF StartRecorder
<1> HIDE DEF x
<1> QED  BY <1>1, <1>2 DEF Spare

LEMMA NewRecorderTypes ==
  ASSUME RoomTypes, Restart \/ StartRecorder(rstate)
  PROVE  /\ saver' \in Recorder
         /\ rstate' \in [Recorder -> {"none", "run", "stop"}]
         /\ mine' \in [Recorder -> BOOLEAN]
<1>1. PICK told \in [Recorder -> {"none", "run", "stop"}] : StartRecorder(told)
  BY DEF Restart, Told, RoomTypes
<1>2. PICK x \in Recorder : /\ rstate' = [told EXCEPT ![x] = "run"]
                            /\ mine' = [mine EXCEPT ![x] = TRUE]
                            /\ saver' = x
  BY <1>1, NewRecorder
<1> QED  BY <1>2 DEF RoomTypes

LEMMA FaultTypes ==
  ASSUME ControlTypes, Fault \/ CallFails \/ UNCHANGED faultVars
  PROVE  missed' \in BOOLEAN /\ faults' \in 0..MaxFaults
<1>1. CASE Fault \/ CallFails
  <2>1. faults \in Nat /\ faults < MaxFaults /\ faults' = faults + 1 /\ MaxFaults \in Nat
    BY <1>1, RoomNames DEF ControlTypes, Fault, CallFails
  <2>2. faults' \in 0..MaxFaults
    BY <2>1
  <2>3. missed' \in BOOLEAN
    BY <1>1 DEF Fault, CallFails, ControlTypes
  <2> QED  BY <2>2, <2>3
<1>2. CASE UNCHANGED faultVars
  BY <1>2 DEF ControlTypes, faultVars
<1> QED  BY <1>1, <1>2

\* A new listener takes the name of no goroutine.
LEMMA NewListener ==
  ASSUME StartListener
  PROVE  \/ UNCHANGED listenerVars /\ cpc' = "undoing"
         \/ /\ cpc' = "refreshing"
            /\ UNCHANGED news
            /\ \E l \in Listener : /\ Idle(l)
                                   /\ monitor' = l
                                   /\ lstate' = [lstate EXCEPT ![l] = "pending"]
                                   /\ own' = [own EXCEPT ![l] = TRUE]
                                   /\ live' = [live EXCEPT ![l] = FALSE]
                                   /\ lpc' = [lpc EXCEPT ![l] = "refresh"]
<1> DEFINE l == CHOOSE l \in Listener : Idle(l)
<1>1. CASE UNCHANGED listenerVars /\ cpc' = "undoing"
  BY <1>1
<1>2. CASE ~(UNCHANGED listenerVars /\ cpc' = "undoing")
  <2>1. /\ \E x \in Listener : Idle(x)
        /\ monitor' = l
        /\ lstate' = [lstate EXCEPT ![l] = "pending"]
        /\ own' = [own EXCEPT ![l] = TRUE]
        /\ live' = [live EXCEPT ![l] = FALSE]
        /\ lpc' = [lpc EXCEPT ![l] = "refresh"]
        /\ cpc' = "refreshing" /\ UNCHANGED news
    BY <1>2 DEF StartListener, listenerVars, Goto
  <2>2. l \in Listener /\ Idle(l)
    BY <2>1
  <2> HIDE DEF l
  <2> QED  BY <2>1, <2>2
<1> QED  BY <1>1, <1>2

LEMMA RoomTypesStep == RoomTypes /\ [Next]_vars => RoomTypes'
<1> SUFFICES ASSUME RoomTypes, [Next]_vars
             PROVE  RoomTypes'
  OBVIOUS
<1> USE DEF RoomTypes, Active, Terminal, Verdicts, runVars, recorderVars
<1>1. CASE UNCHANGED vars \/ Platform
  BY <1>1 DEF vars, Platform
<1>2. ASSUME NEW l \in Listener,
             ListenerStep(l) \/ \E k \in Kind : PollAnswers(l, k)
      PROVE  RoomTypes'
  BY <1>2 DEF ListenerStep, SelfClose, FirstPollIsQuiet, Announce, PollAnswers
<1>3. CASE Split
  BY <1>3, NewRecorderTypes DEF Split
<1>4. ASSUME NEW x \in Recorder, Leave(x)
      PROVE  RoomTypes'
  BY <1>4 DEF Leave, Verdict
<1>5. ASSUME NEW e \in Event, HandleLiveStart(e)
      PROVE  RoomTypes'
  BY <1>5 DEF HandleLiveStart, OpenRecordingSession, Opens
<1>6. ASSUME NEW e \in Event, AddRecorder(e) \/ HandleRoomNameChanged(e)
      PROVE  RoomTypes'
  BY <1>6, NewRecorderTypes DEF AddRecorder, HandleRoomNameChanged
<1>7. ASSUME NEW e \in Event,
             HandleLiveEnd(e) \/ HandleListenStop(e) \/ HandleUserStop(e)
      PROVE  RoomTypes'
  BY <1>7 DEF HandleLiveEnd, HandleListenStop, HandleUserStop, EndNormally, EndByUser, Verdict
<1>8. ASSUME NEW e \in Event,
             RemoveRecorder(e) \/ RecorderRemoved(e) \/ NoRecorder(e) \/ HandlersReturn(e)
      PROVE  RoomTypes'
  BY <1>8 DEF RemoveRecorder, RecorderRemoved, NoRecorder, HandlersReturn, Told
<1>9. CASE ControlCalled \/ ControlStep
  BY <1>9
  DEF ControlCalled, ControlStep, StartBegins, StopBegins, StartWaited, StartChecks,
      StartRearms, StartForgets, StartListener, StartReturns, StartUndone, StopRemoves,
      StopDispatches, StopWaits, StopReturns
<1> QED  BY <1>1, <1>2, <1>3, <1>4, <1>5, <1>6, <1>7, <1>8, <1>9 DEF Next, LaneStep

LEMMA ListenerTypesStep == ListenerTypes /\ [Next]_vars => ListenerTypes'
<1> SUFFICES ASSUME ListenerTypes, [Next]_vars
             PROVE  ListenerTypes'
  OBVIOUS
<1> USE DEF ListenerTypes, listenerVars
<1>1. CASE UNCHANGED vars \/ Platform \/ Split \/ \E x \in Recorder : Leave(x)
  BY <1>1 DEF vars, Platform, Split, Leave
<1>2. ASSUME NEW l \in Listener, ListenerStep(l)
      PROVE  ListenerTypes'
  BY <1>2 DEF ListenerStep, SelfClose, FirstPollIsQuiet, Announce, CloseListener
<1>3. ASSUME NEW l \in Listener, NEW k \in Kind, PollAnswers(l, k)
      PROVE  ListenerTypes'
  BY <1>3 DEF PollAnswers, Sees
<1>4. CASE LaneStep
  BY <1>4
  DEF LaneStep, HandleLiveStart, AddRecorder, HandleLiveEnd, HandleListenStop,
      RemoveRecorder, RecorderRemoved, NoRecorder, HandleUserStop, HandleRoomNameChanged,
      HandlersReturn
<1>5. CASE StartListener
  BY <1>5, NewListener
<1>6. CASE ControlCalled \/ StartRearms \/ StartForgets \/ StopRemoves
  BY <1>6
  DEF ControlCalled, StartBegins, StopBegins, StartRearms, StartForgets, StopRemoves,
      CloseListener
<1>7. CASE \/ StartWaited \/ StartChecks \/ StartReturns \/ StartUndone
           \/ StopDispatches \/ StopWaits \/ StopReturns
  BY <1>7
  DEF StartWaited, StartChecks, StartReturns, StartUndone, StopDispatches, StopWaits,
      StopReturns
<1> QED  BY <1>1, <1>2, <1>3, <1>4, <1>5, <1>6, <1>7 DEF Next, ControlStep

LEMMA EmitTypes ==
  ASSUME LaneTypes, NEW k \in Kind \cup {None}, Emit(k)
  PROVE  LaneTypes'
<1>1. PICK e \in Event : kind' = [kind EXCEPT ![e] = k]
  BY EmitDispatches
<1> QED  BY <1>1 DEF LaneTypes, Emit

LEMMA LaneTypesStep ==
  ASSUME LaneTypes, RoomTypes, ListenerTypes, [Next]_vars
  PROVE  LaneTypes'
<1>1. CASE UNCHANGED vars \/ Platform \/ Split \/ \E x \in Recorder : Leave(x)
  BY <1>1 DEF LaneTypes, vars, laneVars, Platform, Split, Leave
<1>2. ASSUME NEW k \in {"ListenStop", "UserStop", "LiveStart", "LiveEnd", "RoomNameChanged", None},
             Emit(k)
      PROVE  LaneTypes'
  BY <1>2, EmitTypes DEF Kind
<1>3. CASE UNCHANGED laneVars
  BY <1>3 DEF LaneTypes, laneVars
<1>4. ASSUME NEW l \in Listener,
             ListenerStep(l) \/ \E k \in Kind : PollAnswers(l, k)
      PROVE  LaneTypes'
  BY <1>2, <1>3, <1>4
  DEF ListenerStep, SelfClose, FirstPollIsQuiet, Announce, PollAnswers, CloseListener,
      ListenerTypes
<1>5. ASSUME NEW e \in Event,
             \/ HandleLiveStart(e) \/ HandleLiveEnd(e) \/ HandleListenStop(e)
             \/ HandleUserStop(e) \/ HandleRoomNameChanged(e) \/ RemoveRecorder(e)
      PROVE  LaneTypes'
  BY <1>5
  DEF HandleLiveStart, HandleLiveEnd, HandleListenStop, HandleUserStop, RemoveRecorder,
      HandleRoomNameChanged, LaneTypes, RoomTypes
<1>6. ASSUME NEW e \in Event,
             AddRecorder(e) \/ RecorderRemoved(e) \/ NoRecorder(e) \/ HandlersReturn(e)
      PROVE  LaneTypes'
  BY <1>6 DEF AddRecorder, RecorderRemoved, NoRecorder, HandlersReturn, Done, LaneTypes
<1>7. CASE ControlCalled \/ StartWaited \/ StopWaits \/ StopReturns
  BY <1>3, <1>7
  DEF ControlCalled, StartBegins, StopBegins, StartWaited, StopWaits, StopReturns, LaneTypes
<1>8. CASE \/ StartChecks \/ StartRearms \/ StartForgets \/ StartListener
           \/ StartReturns \/ StartUndone \/ StopRemoves \/ StopDispatches
  BY <1>2, <1>3, <1>8
  DEF StartChecks, StartRearms, StartForgets, StartListener, StartReturns, StartUndone,
      StopRemoves, StopDispatches, CloseListener
<1> QED  BY <1>1, <1>4, <1>5, <1>6, <1>7, <1>8 DEF Next, LaneStep, ControlStep

LEMMA ControlTypesStep ==
  ASSUME ControlTypes, [Next]_vars
  PROVE  ControlTypes'
<1> USE FaultTypes
<1>1. CASE \/ UNCHANGED vars \/ Platform \/ Split \/ \E x \in Recorder : Leave(x)
  BY <1>1 DEF vars, Platform, Split, Leave, ControlTypes, controlVars
<1>2. ASSUME NEW l \in Listener,
             ListenerStep(l) \/ \E k \in Kind : PollAnswers(l, k)
      PROVE  ControlTypes'
  BY <1>2
  DEF ListenerStep, SelfClose, FirstPollIsQuiet, Announce, PollAnswers, ControlTypes,
      controlVars
<1>3. CASE LaneStep
  BY <1>3
  DEF LaneStep, HandleLiveStart, AddRecorder, HandleLiveEnd, HandleListenStop,
      RemoveRecorder, RecorderRemoved, NoRecorder, HandleUserStop, HandleRoomNameChanged,
      HandlersReturn, ControlTypes, controlVars
<1>4. CASE ControlCalled \/ ControlStep
  <2>1. missed' \in BOOLEAN /\ faults' \in 0..MaxFaults
    BY <1>4
  DEF ControlCalled, ControlStep, StartBegins, StopBegins, StartWaited, StartChecks,
      StartRearms, StartForgets, StartListener, StartReturns, StartUndone, StopRemoves,
      StopDispatches, StopWaits, StopReturns
  <2>2. halted' \in BOOLEAN
    BY <1>4
  DEF ControlCalled, ControlStep, StartBegins, StopBegins, StartWaited, StartChecks,
      StartRearms, StartForgets, StartListener, StartReturns, StartUndone, StopRemoves,
      StopDispatches, StopWaits, StopReturns, Goto, ControlTypes
  <2>3. cpc' \in {"idle", "starting", "waited", "free", "armed", "adding", "refreshing",
                  "undoing", "stopping", "removed", "sent", "ending"}
    BY <1>4
  DEF ControlCalled, ControlStep, StartBegins, StopBegins, StartWaited, StartChecks,
      StartRearms, StartForgets, StartListener, StartReturns, StartUndone, StopRemoves,
      StopDispatches, StopWaits, StopReturns, Goto
  <2> QED  BY <2>1, <2>2, <2>3 DEF ControlTypes
<1> QED  BY <1>1, <1>2, <1>3, <1>4 DEF Next

LEMMA TypesStep == Types /\ [Next]_vars => Types'
BY RoomTypesStep, ListenerTypesStep, LaneTypesStep, ControlTypesStep DEF Types

LEMMA TypesInit == Init => Types
<1> SUFFICES ASSUME Init
             PROVE  Types
  OBVIOUS
<1>1. RoomTypes
  BY DEF Init, RoomTypes, Active, Terminal
<1>2. ListenerTypes
  BY DEF Init, ListenerTypes
<1>3. LaneTypes
  BY DEF Init, LaneTypes
<1>4. ControlTypes
  <2>1. faults = 0 /\ faults \in 0..MaxFaults
    BY RoomNames DEF Init
  <2>2. cpc = "idle" /\ halted \in BOOLEAN /\ missed \in BOOLEAN
    BY DEF Init
  <2> QED  BY <2>1, <2>2 DEF ControlTypes
<1> QED  BY <1>1, <1>2, <1>3, <1>4 DEF Types

\* Every variable keeps its type.
THEOREM TypeCorrect == Spec => []TypeOK
<1>1. Spec => []Types
  BY TypesInit, TypesStep, PTL DEF Spec
<1>2. DispatcherInv /\ Types => TypeOK
  BY TypesSplit DEF DispatcherInv
<1> QED  BY <1>1, <1>2, RoomDispatcher, PTL

-----------------------------------------------------------------------------
(* What the steps of the lane do to its events.                            *)

Quiet ==
  UNCHANGED <<dispatcherVars, kind, at, target, runVars, recorderVars, monitor, lstate,
              controlVars, live, missed>>

\* A poll only reads, until its news is announced.
LEMMA PollsAreQuiet ==
  [Next]_vars =>
    \/ Quiet
    \/ \E l \in Listener : SelfClose(l) \/ Announce(l)
    \/ Split \/ \E x \in Recorder : Leave(x)
    \/ LaneStep
    \/ ControlCalled \/ ControlStep
BY DEF Next, vars, listenerVars, laneVars, faultVars, Quiet, Platform, ListenerStep,
       FirstPollIsQuiet, PollAnswers

LEMMA EmitFacts ==
  ASSUME DispatcherInv, LaneTypes, NEW k, Emit(k)
  PROVE  \E e \in Event :
           /\ e \notin Pending /\ Pending' = Pending \cup {e} /\ Running' = Running
           /\ ahead'[e] = Pending /\ kind'[e] = k
           /\ \A x \in Pending : ahead'[x] = ahead[x] /\ kind'[x] = kind[x]
           /\ UNCHANGED <<owed, at, target>>
<1>1. PICK e \in Event : Dispatch(e) /\ kind' = [kind EXCEPT ![e] = k]
  BY EmitDispatches
<1>2. e \notin Pending /\ Pending' = Pending \cup {e} /\ Running' = Running
  BY <1>1 DEF DispatcherInv, DispatcherTypeOK, Dispatch, Unused, Pending, Running
<1>3. ahead'[e] = Pending /\ \A x \in Event \ {e} : ahead'[x] = ahead[x]
  BY <1>1 DEF DispatcherInv, DispatcherTypeOK, Dispatch
<1>4. kind'[e] = k /\ \A x \in Event \ {e} : kind'[x] = kind[x]
  BY <1>1 DEF LaneTypes
<1>5. UNCHANGED <<owed, at, target>>
  BY <1>1 DEF Emit, Dispatch
<1> QED  BY <1>2, <1>3, <1>4, <1>5 DEF Pending

LEMMA HandleFacts ==
  ASSUME DispatcherInv, HandlersAt, NEW e \in Event, Handle(e)
  PROVE  /\ e \in Pending /\ Pending' = Pending
         /\ Running = {} /\ Running' = {e} /\ ahead[e] = {}
         /\ at = "begin" /\ target = None
         /\ UNCHANGED <<ahead, owed>>
<1>1. Running \subseteq {e} /\ ahead[e] = {}
  BY OneRuns
<1>2. e \in Pending /\ Pending' = Pending /\ Running = {} /\ Running' = {e}
  BY <1>1 DEF DispatcherInv, DispatcherTypeOK, Handle, Pending, Running
<1> QED  BY <1>1, <1>2 DEF Handle, HandlersAt

LEMMA RunsAlone ==
  ASSUME DispatcherInv, NEW e \in Event, stage[e] = "running"
  PROVE  e \in Pending /\ Running = {e} /\ ahead[e] = {}
BY OneRuns DEF Running, Pending

LEMMA DoneFacts ==
  ASSUME DispatcherInv, LaneTypes, NEW e \in Event, Done(e)
  PROVE  /\ e \in Pending /\ Pending' = Pending \ {e}
         /\ Running = {e} /\ Running' = {} /\ ahead[e] = {}
         /\ at' = "begin" /\ target' = None
         /\ \A x \in Pending' : ahead'[x] = ahead[x] \ {e} /\ kind'[x] = kind[x]
         /\ \A w \in Waiter : owed'[w] = owed[w] \ {e}
<1>1. e \in Pending /\ Running = {e} /\ ahead[e] = {}
  BY RunsAlone DEF Done, Finish
<1>2. Pending' = Pending \ {e} /\ Running' = {}
  BY <1>1 DEF DispatcherInv, DispatcherTypeOK, Done, Finish, Pending, Running
<1>3. \A x \in Pending' : ahead'[x] = ahead[x] \ {e} /\ kind'[x] = kind[x]
  BY <1>2 DEF Done, Finish, Pending, LaneTypes
<1>4. \A w \in Waiter : owed'[w] = owed[w] \ {e}
  BY DEF Done, Finish
<1> QED  BY <1>1, <1>2, <1>3, <1>4 DEF Done

\* The caller that waits for the lane changes no event.
LEMMA CallFacts ==
  ASSUME DispatcherInv, NEW w \in Waiter, Wait(w) \/ Return(w) \/ GiveUp(w)
  PROVE  /\ Pending' = Pending /\ Running' = Running /\ ahead' = ahead
         /\ Wait(w) => owed'[w] = Pending
         /\ Return(w) => owed[w] = {} /\ owed' = owed
<1>1. Pending' = Pending /\ Running' = Running /\ ahead' = ahead
  BY DEF Wait, Return, GiveUp, Pending, Running
<1>2. Wait(w) => owed'[w] = Pending
  BY DEF Wait, DispatcherInv, DispatcherTypeOK
<1>3. Return(w) => owed[w] = {} /\ owed' = owed
  BY DEF Return, DispatcherInv, WaitsLongEnough
<1> QED  BY <1>1, <1>2, <1>3

LEMMA LaneIsEmpty ==
  ASSUME DispatcherInv, tail = None
  PROVE  Pending = {} /\ Running = {}
BY DEF DispatcherInv, TailIsLast, Pending, Running

LEMMA NothingMoves ==
  ASSUME UNCHANGED dispatcherVars
  PROVE  Pending' = Pending /\ Running' = Running /\ ahead' = ahead /\ owed' = owed
BY DEF dispatcherVars, Pending, Running

-----------------------------------------------------------------------------
(* Each part of the invariant is kept.                                     *)

\* The control process moves only the events it dispatches.
LEMMA ControlMoves ==
  ASSUME ControlCalled \/ ControlStep
  PROVE  \/ UNCHANGED laneVars
         \/ \E k \in {"ListenStop", "UserStop"} : Emit(k)
         \/ /\ Wait(Control) \/ Return(Control) \/ GiveUp(Control)
            /\ UNCHANGED <<kind, at, target>>
BY DEF ControlCalled, ControlStep, StartBegins, StopBegins, StartWaited, StartChecks,
       StartRearms, StartForgets, StartListener, StartReturns, StartUndone, StopRemoves,
       StopDispatches, StopWaits, StopReturns, CloseListener, laneVars

LEMMA HandlersAtStep ==
  ASSUME DispatcherInv, Types, HandlersAt, [Next]_vars
  PROVE  HandlersAt'
<1> USE DEF Types
<1>1. CASE UNCHANGED laneVars
  BY <1>1, NothingMoves DEF laneVars, HandlersAt
<1>2. ASSUME NEW k, Emit(k)
      PROVE  HandlersAt'
  BY <1>2, EmitFacts DEF HandlersAt, Running, Pending
<1>3. ASSUME NEW e \in Event,
             \/ HandleLiveStart(e) \/ HandleLiveEnd(e) \/ HandleListenStop(e)
             \/ HandleUserStop(e) \/ HandleRoomNameChanged(e)
      PROVE  HandlersAt'
  <2>1. Handle(e) /\ kind' = kind /\ Running' = {e}
    BY <1>3, HandleFacts
    DEF HandleLiveStart, HandleLiveEnd, HandleListenStop, HandleUserStop, HandleRoomNameChanged
  <2>2. /\ at' # "begin"
        /\ at' = "adding" <=> kind[e] = "LiveStart"
        /\ at' \in {"removing", "closing"} <=> kind[e] \in Ends
    BY <1>3
    DEF HandleLiveStart, HandleLiveEnd, HandleListenStop, HandleUserStop, HandleRoomNameChanged,
        Ends
  <2> QED  BY <2>1, <2>2 DEF HandlersAt
<1>4. ASSUME NEW e \in Event, RemoveRecorder(e)
      PROVE  HandlersAt'
  <2>1. Running = {e} /\ Running' = {e} /\ kind' = kind
    BY <1>4, RunsAlone, NothingMoves DEF RemoveRecorder
  <2> QED  BY <1>4, <2>1 DEF RemoveRecorder, HandlersAt
<1>5. ASSUME NEW e \in Event, Done(e)
      PROVE  HandlersAt'
  BY <1>5, DoneFacts DEF HandlersAt
<1>6. CASE ControlCalled \/ ControlStep
  BY <1>1, <1>2, <1>6, ControlMoves, CallFacts, RoomNames DEF HandlersAt
<1>7. CASE Quiet
  BY <1>1, <1>7 DEF Quiet, laneVars
<1>8. CASE LaneStep
  BY <1>3, <1>4, <1>5, <1>8 DEF LaneStep, AddRecorder, RecorderRemoved, NoRecorder, HandlersReturn
<1>9. CASE \/ Split \/ \E x \in Recorder : Leave(x)
           \/ \E l \in Listener : SelfClose(l) \/ Announce(l)
  BY <1>1, <1>2, <1>9 DEF Split, Leave, SelfClose, Announce, CloseListener
<1> QED  BY <1>6, <1>7, <1>8, <1>9, PollsAreQuiet

\* Names of listeners and recorders are not None.
LEMMA NamesAreNotNone == \A x \in Listener \cup Recorder : x # None
BY RoomNames

\* A split puts a new recorder in the map and tells the old one to stop.
LEMMA RestartFacts ==
  ASSUME Types, OneRecorder, Restart, saver # None, at # "closing"
  PROVE  \E x \in Recorder :
           /\ rstate[x] = "none" /\ x # target /\ x # saver /\ saver' = x
           /\ rstate'[x] = "run" /\ mine'[x]
           /\ \A y \in Recorder \ {x} : rstate'[y] # "run" /\ mine'[y] = mine[y]
<1> USE DEF Types, RoomTypes
<1>1. PICK x \in Recorder : /\ x \notin Alive /\ x # target
                            /\ rstate' = [Told EXCEPT ![x] = "run"]
                            /\ mine' = [mine EXCEPT ![x] = TRUE]
                            /\ saver' = x
  BY NewRecorder DEF Restart
<1>2. saver \in Recorder /\ rstate[saver] = "run" /\ rstate[x] = "none"
  BY <1>1 DEF OneRecorder, Alive
<1>3. \A y \in Recorder \ {x} : rstate'[y] # "run" /\ mine'[y] = mine[y]
  BY <1>1, <1>2 DEF OneRecorder, Told
<1>4. rstate'[x] = "run" /\ mine'[x]
  BY <1>1 DEF Told
<1> QED  BY <1>1, <1>2, <1>3, <1>4

\* So does an event that finds no recorder.
LEMMA AddFacts ==
  ASSUME Types, OneRecorder, StartRecorder(rstate), saver = None
  PROVE  \E x \in Recorder :
           /\ saver' = x /\ rstate'[x] = "run" /\ mine'[x]
           /\ \A y \in Recorder \ {x} : rstate'[y] # "run" /\ mine'[y] = mine[y]
<1> USE DEF Types, RoomTypes
<1>1. PICK x \in Recorder : /\ x \notin Alive
                            /\ rstate' = [rstate EXCEPT ![x] = "run"]
                            /\ mine' = [mine EXCEPT ![x] = TRUE]
                            /\ saver' = x
  BY NewRecorder
<1>2. \A y \in Recorder : rstate[y] # "run"
  BY NamesAreNotNone DEF OneRecorder
<1> QED  BY <1>1, <1>2

LEMMA OneRecorderStep ==
  ASSUME DispatcherInv, Types, HandlersAt, OneRecorder, [Next]_vars
  PROVE  OneRecorder'
<1> USE NamesAreNotNone DEF Types, RoomTypes
<1>1. CASE UNCHANGED <<saver, rstate, at, target>>
  BY <1>1 DEF OneRecorder
<1>2. CASE Split
  BY <1>2, RestartFacts DEF Split, NotStopping, laneVars, OneRecorder
<1>3. ASSUME NEW x \in Recorder, Leave(x)
      PROVE  OneRecorder'
  BY <1>3 DEF Leave, laneVars, OneRecorder
<1>4. ASSUME NEW e \in Event,
             HandleLiveStart(e) \/ HandleLiveEnd(e) \/ HandleListenStop(e) \/ HandleUserStop(e)
      PROVE  OneRecorder'
  <2>1. at = "begin" /\ at' # "closing" /\ saver' = saver /\ rstate' = rstate
    BY <1>4, HandleFacts
    DEF HandleLiveStart, HandleLiveEnd, HandleListenStop, HandleUserStop, recorderVars
  <2> QED  BY <2>1 DEF OneRecorder
<1>5. ASSUME NEW e \in Event, HandleRoomNameChanged(e)
      PROVE  OneRecorder'
  <2>1. at = "begin" /\ at' # "closing"
    BY <1>5, HandleFacts DEF HandleRoomNameChanged
  <2>2. CASE saver # None /\ Restart
    BY <2>1, <2>2, RestartFacts DEF OneRecorder
  <2>3. CASE UNCHANGED recorderVars
    BY <2>1, <2>3 DEF recorderVars, OneRecorder
  <2> QED  BY <1>5, <2>2, <2>3 DEF HandleRoomNameChanged
<1>6. ASSUME NEW e \in Event, AddRecorder(e)
      PROVE  OneRecorder'
  <2>1. at = "adding" /\ at' = "begin"
    BY <1>6 DEF AddRecorder, Done
  <2>2. CASE saver = None /\ StartRecorder(rstate)
    BY <2>1, <2>2, AddFacts DEF OneRecorder
  <2>3. CASE UNCHANGED recorderVars
    BY <2>1, <2>3 DEF recorderVars, OneRecorder
  <2> QED  BY <1>6, <2>2, <2>3 DEF AddRecorder
<1>7. ASSUME NEW e \in Event, RemoveRecorder(e)
      PROVE  OneRecorder'
  BY <1>7 DEF RemoveRecorder, Told, OneRecorder
<1>8. ASSUME NEW e \in Event, RecorderRemoved(e)
      PROVE  OneRecorder'
  BY <1>8 DEF RecorderRemoved, Done, OneRecorder
<1>9. ASSUME NEW e \in Event, NoRecorder(e) \/ HandlersReturn(e)
      PROVE  OneRecorder'
  BY <1>9 DEF NoRecorder, HandlersReturn, Done, recorderVars, OneRecorder
<1>10. CASE ControlCalled \/ ControlStep
  BY <1>1, <1>10
  DEF ControlCalled, ControlStep, StartBegins, StopBegins, StartWaited, StartChecks,
      StartRearms, StartForgets, StartListener, StartReturns, StartUndone, StopRemoves,
      StopDispatches, StopWaits, StopReturns, CloseListener, Emit, laneVars, recorderVars
<1>11. CASE Quiet \/ \E l \in Listener : SelfClose(l) \/ Announce(l)
  BY <1>1, <1>11 DEF Quiet, SelfClose, Announce, CloseListener, Emit, laneVars, recorderVars
<1> QED  BY <1>2, <1>3, <1>4, <1>5, <1>6, <1>7, <1>8, <1>9, <1>10, <1>11, PollsAreQuiet DEF LaneStep

\* Only the calls of a room change its listener, and a listener closes itself.
LEMMA ListenersKept ==
  ASSUME [Next]_vars
  PROVE  \/ UNCHANGED <<monitor, lstate>>
         \/ \E l \in Listener : SelfClose(l)
         \/ StartForgets \/ StopRemoves \/ StartListener \/ StartReturns
<1>1. CASE \/ Quiet \/ Split \/ \E x \in Recorder : Leave(x)
           \/ \E l \in Listener : SelfClose(l) \/ Announce(l)
  BY <1>1 DEF Quiet, Split, Leave, Announce, listenerVars
<1>2. CASE LaneStep
  BY <1>2
  DEF LaneStep, HandleLiveStart, AddRecorder, HandleLiveEnd, HandleListenStop,
      RemoveRecorder, RecorderRemoved, NoRecorder, HandleUserStop, HandleRoomNameChanged,
      HandlersReturn, listenerVars
<1>3. CASE ControlCalled \/ ControlStep
  BY <1>3
  DEF ControlCalled, ControlStep, StartBegins, StopBegins, StartWaited, StartChecks,
      StartRearms, StartUndone, StopDispatches, StopWaits, StopReturns, listenerVars
<1> QED  BY <1>1, <1>2, <1>3, PollsAreQuiet

LEMMA OneListenerStep ==
  ASSUME Types, OneListener, Stopping, [Next]_vars
  PROVE  OneListener'
<1> USE NamesAreNotNone DEF Types, ListenerTypes
<1>1. CASE UNCHANGED <<monitor, lstate>>
  BY <1>1 DEF OneListener
<1>2. ASSUME NEW l \in Listener, SelfClose(l)
      PROVE  OneListener'
  BY <1>2 DEF SelfClose, CloseListener, OneListener
<1>3. CASE StartForgets \/ StopRemoves
  BY <1>3 DEF StartForgets, StopRemoves, CloseListener, OneListener
<1>4. CASE StartListener
  BY <1>1, <1>4, NewListener DEF StartListener, Stopping, OneListener, listenerVars
<1>5. CASE StartReturns
  BY <1>5 DEF StartReturns, OneListener
<1> QED  BY <1>1, <1>2, <1>3, <1>4, <1>5, ListenersKept

\* What has been missed stays missed.
LEMMA MissedStays ==
  ASSUME missed, [Next]_vars
  PROVE  missed'
<1>1. missed' = missed \/ missed' = TRUE
  <2> USE DEF Fault, CallFails, faultVars
  <2>1. CASE \/ Quiet \/ Split \/ \E x \in Recorder : Leave(x)
             \/ \E l \in Listener : SelfClose(l) \/ Announce(l)
    BY <2>1 DEF Quiet, Split, Leave, SelfClose, Announce
  <2>2. CASE LaneStep
    BY <2>2
    DEF LaneStep, HandleLiveStart, AddRecorder, HandleLiveEnd, HandleListenStop,
        RemoveRecorder, RecorderRemoved, NoRecorder, HandleUserStop, HandleRoomNameChanged,
        HandlersReturn
  <2>3. CASE ControlCalled \/ ControlStep
    BY <2>3
    DEF ControlCalled, ControlStep, StartBegins, StopBegins, StartWaited, StartChecks,
        StartRearms, StartForgets, StartListener, StartReturns, StartUndone, StopRemoves,
        StopDispatches, StopWaits, StopReturns
  <2> QED  BY <2>1, <2>2, <2>3, PollsAreQuiet
<1> QED  BY <1>1

\* The end of a broadcast, or of its listener, is behind everything in the lane.
LEMMA AttendedByEnd ==
  ASSUME DispatcherInv, Types, NEW k \in Ends, Emit(k)
  PROVE  Attended'
<1>1. PICK f \in Event : /\ f \notin Pending /\ Pending' = Pending \cup {f}
                         /\ ahead'[f] = Pending /\ kind'[f] = k
  BY EmitFacts DEF Types
<1>2. f \in Pending' /\ kind'[f] \in Ends
  BY <1>1
<1>3. Removal'
  BY <1>1, <1>2 DEF Removal, Ends
<1>4. ASSUME NEW e \in Pending', kind'[e] = "LiveStart"
      PROVE  e \in ahead'[f]
  BY <1>1, <1>4 DEF Ends
<1> QED  BY <1>2, <1>3, <1>4 DEF Attended

\* An event is dispatched that no recorder depends on, or whose listener works.
LEMMA AttendedByMore ==
  ASSUME DispatcherInv, Types, Attended, NEW k, Emit(k), k = "LiveStart" => Seen',
         Seen => Seen', saver' = saver
  PROVE  Attended'
<1>1. PICK f \in Event : /\ f \notin Pending /\ Pending' = Pending \cup {f}
                         /\ kind'[f] = k /\ at' = at
                         /\ \A x \in Pending : ahead'[x] = ahead[x] /\ kind'[x] = kind[x]
  BY EmitFacts DEF Types
<1>2. Removal => Removal'
  BY <1>1 DEF Removal
<1>3. ASSUME NEW e \in Pending', kind'[e] = "LiveStart"
      PROVE  Seen' \/ \E g \in Pending' : kind'[g] \in Ends /\ e \in ahead'[g]
  BY <1>1, <1>3 DEF Attended
<1> QED  BY <1>2, <1>3 DEF Attended

\* The lane is as it was, and a listener still works.
LEMMA AttendedStill ==
  ASSUME Attended, Pending' = Pending, ahead' = ahead, kind' = kind,
         at = "closing" => at' = "closing", Seen => Seen', saver' # None => saver # None
  PROVE  Attended'
BY DEF Attended, Removal

\* An event has been handled that does not remove a recorder.
LEMMA AttendedByDone ==
  ASSUME DispatcherInv, Types, HandlersAt, Attended, NEW e \in Event, Done(e),
         Seen => Seen',
         \/ saver' = None
         \/ saver' = saver /\ kind[e] \notin Ends
         \/ kind[e] = "LiveStart"
  PROVE  Attended'
<1>1. /\ e \in Pending /\ Pending' = Pending \ {e} /\ ahead[e] = {} /\ Running = {e}
      /\ \A x \in Pending' : ahead'[x] = ahead[x] \ {e} /\ kind'[x] = kind[x]
  BY DoneFacts DEF Types
<1>2. Seen => Seen'
  OBVIOUS
<1>3. ASSUME NEW x \in Pending', kind'[x] = "LiveStart"
      PROVE  Seen' \/ \E f \in Pending' : kind'[f] \in Ends /\ x \in ahead'[f]
  <2>1. CASE Seen
    BY <2>1, <1>2
  <2>2. CASE ~Seen
    <3>1. PICK f \in Pending : kind[f] \in Ends /\ x \in ahead[f]
      BY <2>2, <1>1, <1>3 DEF Attended
    <3>2. f \in Pending' /\ x # e
      BY <3>1, <1>1, <1>3
    <3> QED  BY <3>1, <3>2, <1>1
  <2> QED  BY <2>1, <2>2
<1>4. ASSUME saver' # None
      PROVE  Removal' \/ Seen'
  <2>1. CASE kind[e] = "LiveStart"
    <3>1. Seen \/ \E f \in Pending : kind[f] \in Ends /\ e \in ahead[f]
      BY <2>1, <1>1 DEF Attended
    <3>2. ASSUME NEW f \in Pending, kind[f] \in Ends
          PROVE  Removal'
      BY <2>1, <3>2, <1>1 DEF Removal, Ends
    <3> QED  BY <3>1, <3>2, <1>2
  <2>2. CASE saver' = saver /\ kind[e] \notin Ends
    <3>1. at # "closing"
      BY <2>2, <1>1 DEF HandlersAt
    <3>2. Seen \/ \E f \in Pending : kind[f] \in Ends
      BY <2>2, <1>4, <3>1 DEF Attended, Removal, Ends
    <3>3. ASSUME NEW f \in Pending, kind[f] \in Ends
          PROVE  Removal'
      BY <2>2, <3>3, <1>1 DEF Removal, Ends
    <3> QED  BY <3>2, <3>3, <1>2
  <2> QED  BY <1>4, <2>1, <2>2
<1> QED  BY <1>3, <1>4 DEF Attended

LEMMA AttendedStep ==
  ASSUME DispatcherInv, Types, HandlersAt, OneListener, Attended, Stopping, Controlled,
         NewRun, [Next]_vars
  PROVE  Attended'
<1> USE NamesAreNotNone, MissedStays DEF Types, ListenerTypes
<1>1. CASE /\ UNCHANGED laneVars
           /\ Seen => Seen'
           /\ saver' # None => saver # None
  BY <1>1, NothingMoves, AttendedStill DEF laneVars
<1>2. ASSUME UNCHANGED <<monitor, lstate, live>>
      PROVE  Seen => Seen'
  BY <1>2 DEF Seen, Watched
<1>3. ASSUME NEW l \in Listener, SelfClose(l)
      PROVE  Attended'
  <2>1. CASE Emit("ListenStop")
    BY <2>1, AttendedByEnd DEF Ends
  <2>2. CASE lstate[l] # "running" /\ UNCHANGED <<lstate, laneVars>>
    <3>1. saver' = saver /\ monitor' = monitor
      BY <1>3 DEF SelfClose, recorderVars
    <3>2. \A x \in Listener \ {l} : live'[x] = live[x]
      BY <1>3 DEF SelfClose
    <3>3. lstate[l] = "pending" => missed'
      <4>1. CASE Monitoring(l)
        BY <1>3, <4>1 DEF SelfClose, Fault
      <4>2. CASE ~Monitoring(l) /\ lstate[l] = "pending"
        <5>1. runState \notin Terminal /\ (own[l] \/ missed)
          BY <4>2 DEF Controlled, NewRun, Starts, Terminal
        <5> QED  BY <4>2, <5>1 DEF Monitoring
      <4> QED  BY <4>1, <4>2
    <3>4. Seen => Seen'
      BY <2>2, <3>1, <3>2, <3>3 DEF Seen, Watched
    <3> QED  BY <1>1, <2>2, <3>1, <3>4
  <2> QED  BY <1>3, <2>1, <2>2 DEF SelfClose, CloseListener
<1>4. ASSUME NEW l \in Listener, Announce(l)
      PROVE  Attended'
  <2>1. saver' = saver /\ UNCHANGED <<monitor, lstate>>
    BY <1>4 DEF Announce, recorderVars
  <2>2. CASE MayDispatch(l) /\ Emit(news[l])
    <3>1. CASE news[l] = "LiveEnd"
      BY <2>2, <3>1, AttendedByEnd DEF Ends
    <3>2. CASE news[l] # "LiveEnd"
      <4>1. monitor = l /\ lstate[l] # "stopped" /\ live'[l]
        BY <1>4, <2>2, <3>2 DEF Announce, MayDispatch, OneListener
      <4>2. Seen'
        BY <2>1, <4>1 DEF Seen, Watched
      <4> QED  BY <2>1, <2>2, <4>2, AttendedByMore
    <3> QED  BY <3>1, <3>2
  <2>3. CASE ~MayDispatch(l) /\ UNCHANGED laneVars
    <3>1. \A x \in Listener \ {l} : live'[x] = live[x]
      BY <1>4 DEF Announce
    <3>2. Seen => Seen'
      BY <2>1, <2>3, <3>1 DEF MayDispatch, Seen, Watched
    <3> QED  BY <1>1, <2>1, <2>3, <3>2
  <2> QED  BY <1>4, <2>2, <2>3 DEF Announce
<1>5. CASE Quiet \/ Split \/ \E x \in Recorder : Leave(x)
  BY <1>1, <1>2, <1>5 DEF Quiet, Split, Leave, listenerVars, laneVars, recorderVars
<1>6. ASSUME NEW e \in Event,
             \/ HandleLiveStart(e) \/ HandleLiveEnd(e) \/ HandleListenStop(e)
             \/ HandleUserStop(e) \/ HandleRoomNameChanged(e)
      PROVE  Attended'
  <2>1. /\ Handle(e) /\ kind' = kind /\ (saver' # None => saver # None)
        /\ UNCHANGED <<monitor, lstate, live>>
    BY <1>6
    DEF HandleLiveStart, HandleLiveEnd, HandleListenStop, HandleUserStop, HandleRoomNameChanged,
        recorderVars, listenerVars
  <2>2. Pending' = Pending /\ ahead' = ahead /\ at = "begin"
    BY <2>1, HandleFacts
  <2> QED  BY <1>2, <2>1, <2>2, AttendedStill
<1>7. ASSUME NEW e \in Event, AddRecorder(e)
      PROVE  Attended'
  BY <1>2, <1>7, AttendedByDone DEF AddRecorder, listenerVars
<1>8. ASSUME NEW e \in Event, RemoveRecorder(e)
      PROVE  Attended'
  BY <1>2, <1>8, NothingMoves, AttendedStill DEF RemoveRecorder, listenerVars
<1>9. ASSUME NEW e \in Event, RecorderRemoved(e) \/ NoRecorder(e)
      PROVE  Attended'
  BY <1>2, <1>9, AttendedByDone DEF RecorderRemoved, NoRecorder, recorderVars, listenerVars
<1>10. ASSUME NEW e \in Event, HandlersReturn(e)
       PROVE  Attended'
  <2>1. kind[e] \notin Ends
    BY <1>10, RunsAlone DEF HandlersReturn, HandlersAt
  <2> QED  BY <1>2, <1>10, <2>1, AttendedByDone DEF HandlersReturn, recorderVars, listenerVars
<1>11. CASE StartForgets \/ StopRemoves
  <2>1. CASE Emit("ListenStop")
    BY <2>1, AttendedByEnd DEF Ends
  <2>2. CASE UNCHANGED laneVars /\ ~Watched /\ saver' = saver
    BY <1>1, <2>2 DEF Seen
  <2> QED  BY <1>11, <2>1, <2>2 DEF StartForgets, StopRemoves, CloseListener, Watched, recorderVars
<1>12. CASE StartListener
  <2>1. ~Seen
    BY <1>12 DEF StartListener, Stopping, Seen, Watched
  <2> QED  BY <1>1, <1>12, <2>1 DEF StartListener, recorderVars
<1>13. CASE StartReturns
  BY <1>1, <1>13 DEF StartReturns, Seen, Watched, recorderVars
<1>14. CASE StopDispatches
  BY <1>2, <1>14, AttendedByMore DEF StopDispatches, listenerVars, recorderVars
<1>15. CASE StartChecks \/ StartRearms \/ StartUndone
  BY <1>1, <1>2, <1>15
  DEF StartChecks, StartRearms, StartUndone, listenerVars, recorderVars
<1>16. CASE ControlCalled \/ StartWaited \/ StopWaits \/ StopReturns
  <2>1. (Seen => Seen') /\ saver' = saver
    BY <1>2, <1>16
    DEF ControlCalled, StartBegins, StopBegins, StartWaited, StopWaits, StopReturns,
        listenerVars, recorderVars
  <2>2. CASE UNCHANGED laneVars
    BY <1>1, <2>1, <2>2
  <2>3. CASE Wait(Control) \/ Return(Control) \/ GiveUp(Control)
    <3>1. UNCHANGED <<kind, at>>
      BY <1>16
      DEF ControlCalled, StartBegins, StopBegins, StartWaited, StopWaits, StopReturns, laneVars
    <3> QED  BY <2>1, <2>3, <3>1, CallFacts, RoomNames, AttendedStill
  <2> QED  BY <1>16, <2>2, <2>3
           DEF ControlCalled, StartBegins, StopBegins, StartWaited, StopWaits, StopReturns, laneVars
<1> QED
  BY <1>3, <1>4, <1>5, <1>6, <1>7, <1>8, <1>9, <1>10, <1>11, <1>12, <1>13, <1>14,
     <1>15, <1>16, PollsAreQuiet
  DEF LaneStep, ControlStep

\* A verdict leaves a stopped run alone.
LEMMA StoppedStays ==
  ASSUME NEW left, runState = "stopped", runState' \in Verdict(left)
  PROVE  runState' = "stopped"
BY DEF Verdict, Active

LEMMA StoppingStep ==
  ASSUME DispatcherInv, Types, OneListener, Stopping, [Next]_vars
  PROVE  Stopping'
<1> USE RoomNames, NamesAreNotNone
<1>1. CASE /\ UNCHANGED <<controlVars, monitor, dispatcherVars>>
           /\ runState = "stopped" => runState' = "stopped"
  BY <1>1, NothingMoves DEF controlVars, Stopping
<1>2. CASE Quiet
  BY <1>1, <1>2 DEF Quiet, runVars
<1>3. ASSUME NEW l \in Listener, SelfClose(l) \/ Announce(l)
      PROVE  Stopping'
  <2>1. UNCHANGED <<controlVars, monitor, runState>>
    BY <1>3 DEF SelfClose, Announce, runVars
  <2>2. CASE UNCHANGED laneVars
    BY <1>1, <2>1, <2>2 DEF laneVars
  <2>3. CASE lstate[l] # "stopped"
    <3>1. monitor = l
      BY <2>3 DEF OneListener
    <3> QED  BY <2>1, <3>1 DEF Stopping, controlVars
  <2> QED  BY <1>3, <2>2, <2>3 DEF SelfClose, Announce, CloseListener, MayDispatch
<1>4. CASE Split
  BY <1>1, <1>4 DEF Split, runVars, listenerVars, laneVars
<1>5. ASSUME NEW x \in Recorder, Leave(x)
      PROVE  Stopping'
  BY <1>1, <1>5, StoppedStays DEF Leave, listenerVars, laneVars
<1>6. ASSUME NEW e \in Event,
             \/ HandleLiveStart(e) \/ HandleLiveEnd(e) \/ HandleListenStop(e)
             \/ HandleUserStop(e) \/ HandleRoomNameChanged(e)
      PROVE  Stopping'
  <2>1. Handle(e) /\ UNCHANGED <<controlVars, monitor>>
    BY <1>6
    DEF HandleLiveStart, HandleLiveEnd, HandleListenStop, HandleUserStop, HandleRoomNameChanged,
        listenerVars
  <2>2. Pending' = Pending /\ owed' = owed
    BY <2>1 DEF Handle, DispatcherInv, DispatcherTypeOK, Pending
  <2>3. runState = "stopped" => runState' = "stopped"
    BY <1>6, StoppedStays
    DEF HandleLiveStart, HandleLiveEnd, HandleListenStop, HandleUserStop, HandleRoomNameChanged,
        OpenRecordingSession, Opens, EndNormally, EndByUser, runVars
  <2> QED  BY <2>1, <2>2, <2>3 DEF Stopping, controlVars
<1>7. ASSUME NEW e \in Event,
             AddRecorder(e) \/ RecorderRemoved(e) \/ NoRecorder(e) \/ HandlersReturn(e)
      PROVE  Stopping'
  <2>1. Done(e) /\ UNCHANGED <<controlVars, monitor, runState>>
    BY <1>7 DEF AddRecorder, RecorderRemoved, NoRecorder, HandlersReturn, listenerVars, runVars
  <2>2. Pending' = Pending \ {e} /\ owed'[Control] = owed[Control] \ {e}
    BY <2>1, DoneFacts DEF Types
  <2> QED  BY <2>1, <2>2 DEF Stopping, controlVars
<1>8. ASSUME NEW e \in Event, RemoveRecorder(e)
      PROVE  Stopping'
  BY <1>1, <1>8 DEF RemoveRecorder, listenerVars, runVars
<1>9. CASE StartBegins \/ StartWaited \/ StartChecks \/ StartRearms \/ StartUndone
  <2>1. halted' = FALSE /\ cpc' \in {"waited", "starting", "idle", "free", "armed"}
    BY <1>9 DEF StartBegins, StartWaited, StartChecks, StartRearms, StartUndone, Goto
  <2> QED  BY <2>1 DEF Stopping
<1>10. CASE StartForgets \/ StartListener \/ StartReturns
  <2>1. /\ halted' = FALSE /\ cpc' \in {"adding", "refreshing", "undoing", "idle"}
        /\ cpc' \in {"adding", "undoing"} => monitor' = None
    BY <1>10, NewListener DEF StartForgets, StartListener, StartReturns, Goto, Stopping,
                              listenerVars
  <2> QED  BY <2>1 DEF Stopping
<1>11. CASE StopBegins \/ StopRemoves \/ StopDispatches
  <2>1. /\ halted' = FALSE /\ cpc' \in {"idle", "stopping", "removed", "sent"}
        /\ cpc' # "idle" => runState' = "stopped" /\ (cpc' # "stopping" => monitor' = None)
    BY <1>11 DEF StopBegins, StopRemoves, StopDispatches, Goto, Stopping, runVars, listenerVars
  <2> QED  BY <2>1 DEF Stopping
<1>12. CASE StopWaits \/ StopReturns
  <2>1. runState = "stopped" /\ monitor = None /\ UNCHANGED <<runState, monitor>>
    BY <1>12 DEF StopWaits, StopReturns, Stopping, runVars, listenerVars
  <2>2. cpc' = "ending" => Pending' \subseteq owed'[Control]
    BY <1>12, CallFacts DEF StopWaits, StopReturns
  <2>3. halted' => cpc' = "idle" /\ Pending' = {}
    <3>1. CASE halted
      BY <1>12, <3>1 DEF StopWaits, StopReturns, Stopping
    <3>2. CASE ~halted
      BY <1>12, <3>2, CallFacts, LaneIsEmpty, NothingMoves DEF StopWaits, StopReturns, Stopping
    <3> QED  BY <3>1, <3>2
  <2> QED  BY <2>1, <2>2, <2>3 DEF Stopping
<1> QED
  BY <1>2, <1>3, <1>4, <1>5, <1>6, <1>7, <1>8, <1>9, <1>10, <1>11, <1>12, PollsAreQuiet
  DEF LaneStep, ControlCalled, ControlStep

\* Outside startListening there is nothing to show.
LEMMA StartsElsewhere ==
  ASSUME cpc' \notin {"starting", "waited", "free"}
  PROVE  /\ SessionAhead' /\ RunIsHeld'
         /\ cpc' \notin Starts => NoOldStop'
BY DEF NoOldStop, SessionAhead, RunIsHeld

\* While startListening is under way, only the lane and the recorders move.
LEMMA OtherSteps ==
  ASSUME [Next]_vars, UNCHANGED cpc
  PROVE  \/ Quiet
         \/ \E l \in Listener : SelfClose(l) \/ Announce(l)
         \/ Split \/ \E x \in Recorder : Leave(x)
         \/ LaneStep
         \/ cpc \notin {"starting", "waited", "free"} \cup Starts
<1>1. CASE ControlCalled \/ ControlStep
  BY <1>1
  DEF ControlCalled, ControlStep, StartBegins, StopBegins, StartWaited, StartChecks,
      StartRearms, StartForgets, StartListener, StartReturns, StartUndone, StopRemoves,
      StopDispatches, StopWaits, StopReturns, Goto, Starts
<1> QED  BY <1>1, PollsAreQuiet

LEMMA NoOldStopStep ==
  ASSUME DispatcherInv, Types, HandlersAt, NoOldStop, [Next]_vars, UNCHANGED cpc
  PROVE  NoOldStop'
<1> USE RoomNames
<1>1. CASE UNCHANGED laneVars
  BY <1>1, NothingMoves DEF laneVars, NoOldStop
<1>2. ASSUME NEW k, Emit(k), k # "UserStop"
      PROVE  NoOldStop'
  BY <1>2, EmitFacts DEF Types, NoOldStop
<1>3. ASSUME NEW l \in Listener, SelfClose(l) \/ Announce(l)
      PROVE  NoOldStop'
  <2>1. news[l] # "UserStop"
    BY DEF Types, ListenerTypes, Kind
  <2> QED  BY <1>1, <1>2, <1>3, <2>1 DEF SelfClose, Announce, CloseListener
<1>4. ASSUME NEW e \in Event,
             \/ HandleLiveStart(e) \/ HandleLiveEnd(e) \/ HandleListenStop(e)
             \/ HandleUserStop(e) \/ HandleRoomNameChanged(e)
      PROVE  NoOldStop'
  <2>1. Handle(e) /\ kind' = kind
    BY <1>4
    DEF HandleLiveStart, HandleLiveEnd, HandleListenStop, HandleUserStop, HandleRoomNameChanged
  <2> QED  BY <2>1, HandleFacts DEF NoOldStop
<1>5. ASSUME NEW e \in Event, Done(e)
      PROVE  NoOldStop'
  BY <1>5, DoneFacts DEF Types, NoOldStop
<1>6. ASSUME NEW e \in Event, RemoveRecorder(e)
      PROVE  NoOldStop'
  BY <1>6, NothingMoves DEF RemoveRecorder, NoOldStop
<1>7. CASE Quiet \/ Split \/ \E x \in Recorder : Leave(x)
  BY <1>1, <1>7 DEF Quiet, Split, Leave, laneVars
<1>8. CASE cpc \notin {"starting", "waited", "free"} \cup Starts
  BY <1>8 DEF NoOldStop
<1> QED  BY <1>3, <1>4, <1>5, <1>6, <1>7, <1>8, OtherSteps
         DEF LaneStep, AddRecorder, RecorderRemoved, NoRecorder, HandlersReturn

LEMMA SessionAheadStep ==
  ASSUME DispatcherInv, Types, SessionAhead, [Next]_vars, UNCHANGED cpc
  PROVE  SessionAhead'
<1>1. CASE /\ UNCHANGED <<at, current, open, bound>> /\ Running' = Running /\ owed' = owed
           /\ open => runState' = runState
  BY <1>1 DEF SessionAhead
<1>2. ASSUME NEW k, Emit(k)
      PROVE  UNCHANGED at /\ Running' = Running /\ owed' = owed
  BY <1>2, EmitFacts DEF Types
<1>3. ASSUME UNCHANGED laneVars
      PROVE  UNCHANGED at /\ Running' = Running /\ owed' = owed
  BY <1>3, NothingMoves DEF laneVars
<1>4. ASSUME NEW l \in Listener, SelfClose(l) \/ Announce(l)
      PROVE  SessionAhead'
  BY <1>1, <1>2, <1>3, <1>4 DEF SelfClose, Announce, CloseListener, runVars
<1>5. CASE Quiet \/ Split
  BY <1>1, <1>3, <1>5 DEF Quiet, Split, runVars, laneVars
<1>6. ASSUME NEW x \in Recorder, Leave(x)
      PROVE  SessionAhead'
  BY <1>1, <1>3, <1>6 DEF Leave
<1>7. ASSUME NEW e \in Event, HandleLiveStart(e)
      PROVE  SessionAhead'
  <2>1. current' => bound' /\ runState' = "recording"
    BY <1>7 DEF HandleLiveStart, OpenRecordingSession, Opens
  <2> QED  BY <2>1 DEF SessionAhead, Active
<1>8. CASE at' # "adding"
  BY <1>8 DEF SessionAhead
<1>9. CASE LaneStep
  BY <1>7, <1>8, <1>9
  DEF LaneStep, AddRecorder, HandleLiveEnd, HandleListenStop, RemoveRecorder,
      RecorderRemoved, NoRecorder, HandleUserStop, HandleRoomNameChanged, HandlersReturn, Done
<1>10. CASE cpc \notin {"starting", "waited", "free"}
  BY <1>10 DEF SessionAhead
<1> QED  BY <1>4, <1>5, <1>6, <1>9, <1>10, OtherSteps

\* A verdict waits for the recorders that are still to leave.
LEMMA VerdictWaits ==
  ASSUME NEW left, left # {}, runState \in Active, runState' \in Verdict(left)
  PROVE  runState' \in Active
BY DEF Verdict, Active

LEMMA RunIsHeldStep ==
  ASSUME DispatcherInv, Types, HandlersAt, OneRecorder, NoOldStop, SessionAhead, RunIsHeld,
         [Next]_vars, UNCHANGED cpc
  PROVE  RunIsHeld'
<1> SUFFICES ASSUME cpc = "free"
             PROVE  \A x \in Recorder : rstate'[x] = "run" =>
                      bound' /\ mine'[x] /\ runState' \in Active
  BY DEF RunIsHeld
<1>0. \A x \in Recorder : rstate[x] = "run" => bound /\ mine[x] /\ runState \in Active
  BY DEF RunIsHeld
<1> USE NamesAreNotNone DEF Types, RoomTypes
<1>1. CASE UNCHANGED <<bound, runState, mine, rstate>>
  BY <1>0, <1>1
<1>2. CASE Quiet \/ \E l \in Listener : SelfClose(l) \/ Announce(l)
  BY <1>1, <1>2 DEF Quiet, SelfClose, Announce, runVars, recorderVars
<1>3. ASSUME Restart, saver # None, at # "closing", UNCHANGED <<bound, runState>>
      PROVE  \A x \in Recorder : rstate'[x] = "run" =>
               bound' /\ mine'[x] /\ runState' \in Active
  <2>1. bound /\ runState \in Active
    BY <1>0, <1>3 DEF OneRecorder
  <2> QED  BY <1>3, <2>1, RestartFacts
<1>4. CASE Split
  BY <1>3, <1>4 DEF Split, NotStopping, runVars
<1>5. ASSUME NEW y \in Recorder, Leave(y)
      PROVE  \A x \in Recorder : rstate'[x] = "run" =>
               bound' /\ mine'[x] /\ runState' \in Active
  <2> SUFFICES ASSUME NEW x \in Recorder, rstate'[x] = "run"
               PROVE  bound' /\ mine'[x] /\ runState' \in Active
    OBVIOUS
  <2>1. x # y /\ rstate[x] = "run"
    BY <1>5 DEF Leave
  <2>2. x \in Producing \ {y}
    BY <1>0, <2>1 DEF Producing, Alive
  <2>3. runState' \in Active
    BY <1>0, <1>5, <2>1, <2>2, VerdictWaits DEF Leave
  <2> QED  BY <1>0, <1>5, <2>1, <2>3 DEF Leave
<1>6. ASSUME NEW e \in Event, HandleLiveStart(e)
      PROVE  \A x \in Recorder : rstate'[x] = "run" =>
               bound' /\ mine'[x] /\ runState' \in Active
  <2>1. rstate' = rstate
    BY <1>6 DEF HandleLiveStart
  <2>2. runState \in Active => UNCHANGED <<runState, bound, mine>>
    BY <1>6 DEF HandleLiveStart, OpenRecordingSession, Opens, Active
  <2> QED  BY <1>0, <2>1, <2>2
<1>7. ASSUME NEW e \in Event, HandleLiveEnd(e)
      PROVE  \A x \in Recorder : rstate'[x] = "run" =>
               bound' /\ mine'[x] /\ runState' \in Active
  <2> SUFFICES ASSUME NEW x \in Recorder, rstate'[x] = "run"
               PROVE  bound' /\ mine'[x] /\ runState' \in Active
    OBVIOUS
  <2>1. rstate[x] = "run" /\ UNCHANGED <<bound, mine>>
    BY <1>7 DEF HandleLiveEnd, EndNormally, recorderVars, runVars
  <2>2. x \in Producing
    BY <1>0, <2>1 DEF Producing, Alive
  <2>3. runState' \in Active
    BY <1>0, <1>7, <2>1, <2>2, VerdictWaits DEF HandleLiveEnd, EndNormally, runVars
  <2> QED  BY <1>0, <2>1, <2>3
<1>8. ASSUME NEW e \in Event, HandleUserStop(e)
      PROVE  FALSE
  BY <1>8, HandleFacts DEF HandleUserStop, NoOldStop
<1>9. ASSUME NEW e \in Event, HandleRoomNameChanged(e)
      PROVE  \A x \in Recorder : rstate'[x] = "run" =>
               bound' /\ mine'[x] /\ runState' \in Active
  BY <1>1, <1>3, <1>9, HandleFacts DEF HandleRoomNameChanged, runVars, recorderVars
<1>10. ASSUME NEW e \in Event, AddRecorder(e)
       PROVE  \A x \in Recorder : rstate'[x] = "run" =>
                bound' /\ mine'[x] /\ runState' \in Active
  <2>1. UNCHANGED <<bound, runState>> /\ at = "adding"
    BY <1>10 DEF AddRecorder, runVars
  <2>2. CASE saver = None /\ Accepts /\ StartRecorder(rstate)
    <3>1. bound /\ runState \in Active
      BY <2>1, <2>2 DEF Accepts, SessionAhead
    <3> QED  BY <2>1, <2>2, <3>1, AddFacts
  <2>3. CASE UNCHANGED recorderVars
    BY <1>1, <2>1, <2>3 DEF recorderVars
  <2> QED  BY <1>10, <2>2, <2>3 DEF AddRecorder
<1>11. ASSUME NEW e \in Event, RemoveRecorder(e)
       PROVE  \A x \in Recorder : rstate'[x] = "run" =>
                bound' /\ mine'[x] /\ runState' \in Active
  BY <1>0, <1>11 DEF RemoveRecorder, Told, runVars
<1>12. ASSUME NEW e \in Event,
              HandleListenStop(e) \/ RecorderRemoved(e) \/ NoRecorder(e) \/ HandlersReturn(e)
       PROVE  UNCHANGED <<bound, runState, mine, rstate>>
  BY <1>12 DEF HandleListenStop, RecorderRemoved, NoRecorder, HandlersReturn, runVars, recorderVars
<1> QED  BY <1>1, <1>2, <1>4, <1>5, <1>6, <1>7, <1>8, <1>9, <1>10, <1>11, <1>12, OtherSteps
         DEF LaneStep

LEMMA StartingStep ==
  ASSUME DispatcherInv, Types, HandlersAt, OneRecorder, Starting, [Next]_vars
  PROVE  Starting'
<1> USE RoomNames, NamesAreNotNone DEF Starting
<1>1. CASE UNCHANGED cpc
  BY <1>1, NoOldStopStep, SessionAheadStep, RunIsHeldStep
<1>2. CASE cpc' \notin {"starting", "waited", "free"} \cup Starts
  BY <1>2, StartsElsewhere
<1>3. CASE StartBegins
  <2>1. CASE tail = None /\ Goto("waited") /\ UNCHANGED laneVars
    <3>1. Pending' = {} /\ Running = {} /\ at' = at
      BY <2>1, LaneIsEmpty, NothingMoves DEF laneVars
    <3>2. at' # "adding"
      BY <3>1 DEF HandlersAt
    <3> QED  BY <2>1, <3>1, <3>2 DEF Goto, NoOldStop, SessionAhead, RunIsHeld
  <2>2. CASE Wait(Control) /\ Goto("starting")
    <3>1. Pending' = Pending /\ owed'[Control] = Pending /\ Running' \subseteq Pending
      BY <2>2, CallFacts DEF Running, Pending
    <3> QED  BY <2>2, <3>1 DEF Goto, NoOldStop, SessionAhead, RunIsHeld, Starts
  <2> QED  BY <1>3, <2>1, <2>2 DEF StartBegins
<1>4. CASE StartWaited
  <2>1. CASE Return(Control) /\ Goto("waited")
    <3>1. /\ Pending' = Pending /\ Running' = Running /\ owed[Control] = {}
          /\ UNCHANGED <<kind, at, current, open, bound, runState>>
      BY <1>4, <2>1, CallFacts DEF StartWaited, runVars
    <3>2. at = "adding" => Running # {}
      BY DEF HandlersAt
    <3> QED  BY <1>4, <2>1, <3>1, <3>2 DEF StartWaited, Goto, NoOldStop, SessionAhead, RunIsHeld
  <2>2. CASE Goto("idle")
    BY <1>2, <2>2 DEF Goto, Starts
  <2> QED  BY <1>4, <2>1, <2>2 DEF StartWaited
<1>5. CASE StartChecks
  <2>1. CASE saver = None /\ cpc' = "free"
    <3>1. /\ Pending' = Pending /\ Running' = Running /\ cpc = "waited"
          /\ UNCHANGED <<kind, at, current, open, bound, runState, rstate>>
      BY <1>5, NothingMoves DEF StartChecks, laneVars, runVars, recorderVars
    <3>2. \A x \in Recorder : rstate[x] # "run"
      BY <2>1 DEF OneRecorder
    <3> QED  BY <2>1, <3>1, <3>2 DEF NoOldStop, SessionAhead, RunIsHeld
  <2>2. CASE cpc' = "idle"
    BY <1>2, <2>2 DEF Starts
  <2> QED  BY <1>5, <2>1, <2>2 DEF StartChecks, Goto
<1>6. CASE \/ StartReturns \/ StartUndone \/ (ControlCalled /\ ~StartBegins)
           \/ StopRemoves \/ StopDispatches \/ StopWaits \/ StopReturns
  BY <1>2, <1>6
  DEF StartReturns, StartUndone, ControlCalled, StopBegins, StopRemoves, StopDispatches,
      StopWaits, StopReturns, Goto, Starts
<1>7. CASE ~(ControlCalled \/ ControlStep)
  <2>1. UNCHANGED cpc
    BY <1>7, PollsAreQuiet
    DEF Quiet, SelfClose, Announce, Split, Leave, LaneStep, HandleLiveStart, AddRecorder,
        HandleLiveEnd, HandleListenStop, RemoveRecorder, RecorderRemoved, NoRecorder,
        HandleUserStop, HandleRoomNameChanged, HandlersReturn, controlVars
  <2> QED  BY <1>1, <2>1
<1>8. CASE StartRearms \/ StartForgets \/ StartListener
  <2>1. cpc \in {"free"} \cup Starts /\ cpc' \notin {"starting", "waited", "free"}
    BY <1>8, NewListener DEF StartRearms, StartForgets, StartListener, Goto, Starts
  <2>2. CASE UNCHANGED laneVars
    BY <2>1, <2>2, NothingMoves, StartsElsewhere DEF laneVars, NoOldStop
  <2>3. CASE Emit("ListenStop")
    BY <2>1, <2>3, EmitFacts, StartsElsewhere DEF NoOldStop, Types
  <2> QED  BY <1>8, <2>2, <2>3 DEF StartRearms, StartForgets, StartListener, CloseListener
<1> QED  BY <1>3, <1>4, <1>5, <1>6, <1>7, <1>8 DEF ControlStep

\* The listener's variables change by its own steps and by startListening.
LEMMA ListenerFrame ==
  ASSUME [Next]_vars
  PROVE  \/ UNCHANGED listenerVars
         \/ \E l \in Listener :
              ListenerStep(l) \/ \E k \in Kind : PollAnswers(l, k)
         \/ StartRearms \/ StartForgets \/ StopRemoves \/ StartListener \/ StartReturns
<1>1. CASE UNCHANGED vars \/ Platform \/ Split \/ \E x \in Recorder : Leave(x)
  BY <1>1 DEF vars, Platform, Split, Leave
<1>2. CASE LaneStep
  BY <1>2
  DEF LaneStep, HandleLiveStart, AddRecorder, HandleLiveEnd, HandleListenStop,
      RemoveRecorder, RecorderRemoved, NoRecorder, HandleUserStop, HandleRoomNameChanged,
      HandlersReturn
<1>3. CASE ControlCalled \/ ControlStep
  BY <1>3
  DEF ControlCalled, ControlStep, StartBegins, StopBegins, StartWaited, StartChecks,
      StartUndone, StopDispatches, StopWaits, StopReturns
<1> QED  BY <1>1, <1>2, <1>3 DEF Next

\* The control process goes from a state of Starts only by startListening.
LEMMA ControlFrame ==
  ASSUME [Next]_vars
  PROVE  \/ cpc' = cpc
         \/ StartRearms \/ StartForgets \/ StartListener \/ StartReturns
         \/ cpc \notin Starts /\ cpc' \notin Starts
<1>1. CASE ControlCalled \/ ControlStep
  BY <1>1
  DEF ControlCalled, ControlStep, StartBegins, StopBegins, StartWaited, StartChecks,
      StartUndone, StopRemoves, StopDispatches, StopWaits, StopReturns, Goto, Starts
<1>2. CASE ~(ControlCalled \/ ControlStep)
  BY <1>2, PollsAreQuiet
  DEF Quiet, SelfClose, Announce, Split, Leave, LaneStep, HandleLiveStart, AddRecorder,
      HandleLiveEnd, HandleListenStop, RemoveRecorder, RecorderRemoved, NoRecorder,
      HandleUserStop, HandleRoomNameChanged, HandlersReturn, controlVars
<1> QED  BY <1>1, <1>2

LEMMA ControlledStep ==
  ASSUME Types, OneListener, Stopping, NewRun, Controlled, [Next]_vars
  PROVE  Controlled'
<1> USE MissedStays, NamesAreNotNone DEF Types, ListenerTypes
<1>1. CASE UNCHANGED listenerVars /\ cpc' = cpc
  BY <1>1 DEF listenerVars, Controlled
<1>2. CASE UNCHANGED listenerVars /\ cpc \notin Starts /\ cpc' \notin Starts
  BY <1>2 DEF listenerVars, Controlled, Starts
<1>3. ASSUME NEW l \in Listener, SelfClose(l)
      PROVE  Controlled'
  <2>1. /\ cpc' = cpc /\ lpc[l] = "loop" /\ lpc'[l] = "none" /\ UNCHANGED <<own, live>>
        /\ lstate'[l] = lstate[l] \/ lstate'[l] = "stopped"
    BY <1>3 DEF SelfClose, CloseListener, controlVars
  <2>2. \A x \in Listener \ {l} :
          /\ lpc'[x] = lpc[x] /\ own'[x] = own[x] /\ live'[x] = live[x] /\ lstate'[x] = lstate[x]
    BY <1>3 DEF SelfClose, CloseListener
  <2>3. lstate'[l] = "pending" => cpc = "refreshing" /\ missed'
    <3>1. CASE Monitoring(l)
      BY <1>3, <2>1, <3>1 DEF SelfClose, Fault, Controlled
    <3>2. CASE ~Monitoring(l) /\ lstate[l] = "pending"
      <4>1. cpc = "refreshing" /\ runState \notin Terminal /\ (own[l] \/ missed)
        BY <3>2 DEF Controlled, NewRun, Starts, Terminal
      <4> QED  BY <3>2, <4>1 DEF Monitoring
    <3> QED  BY <2>1, <3>1, <3>2
  <2> QED  BY <2>1, <2>2, <2>3 DEF Controlled
<1>4. ASSUME NEW l \in Listener,
             FirstPollIsQuiet(l) \/ Announce(l) \/ \E k \in Kind : PollAnswers(l, k)
      PROVE  Controlled'
  <2>1. /\ UNCHANGED <<cpc, lstate, own>> /\ lpc'[l] \in {"loop", "news"}
        /\ \A x \in Listener \ {l} : lpc'[x] = lpc[x] /\ live'[x] = live[x]
    BY <1>4 DEF FirstPollIsQuiet, Announce, PollAnswers, controlVars
  <2> QED  BY <2>1 DEF Controlled
<1>5. ASSUME cpc # "refreshing"
      PROVE  \A l \in Listener : lstate[l] # "pending" /\ lpc[l] # "refresh"
  BY <1>5 DEF Controlled
<1>6. CASE StartRearms
  <2>1. /\ cpc = "free" /\ cpc' \in {"armed", "idle"} /\ UNCHANGED <<lstate, live, lpc>>
        /\ cpc' = "armed" => \A l \in Listener : ~own'[l]
    BY <1>6 DEF StartRearms, Goto
  <2> QED  BY <1>5, <2>1 DEF Controlled
<1>7. CASE StartForgets \/ StopRemoves
  <2>1. /\ \/ cpc = "armed" /\ cpc' = "adding"
           \/ cpc = "stopping" /\ cpc' = "removed"
        /\ UNCHANGED <<live, lpc, own>>
    BY <1>7 DEF StartForgets, StopRemoves, Goto
  <2>2. \A l \in Listener : lstate'[l] = lstate[l] \/ lstate'[l] = "stopped"
    BY <1>7 DEF StartForgets, StopRemoves, CloseListener
  <2> QED  BY <1>5, <2>1, <2>2 DEF Controlled
<1>8. CASE StartListener
  <2>1. cpc = "adding" /\ \A x \in Listener : lstate[x] = "stopped"
    BY <1>8 DEF StartListener, Stopping, OneListener
  <2>2. CASE UNCHANGED listenerVars /\ cpc' = "undoing"
    BY <2>1, <2>2 DEF listenerVars, Controlled
  <2>3. CASE ~(UNCHANGED listenerVars /\ cpc' = "undoing")
    <3>1. PICK l \in Listener : /\ cpc' = "refreshing"
                                /\ live' = [live EXCEPT ![l] = FALSE]
                                /\ lstate' = [lstate EXCEPT ![l] = "pending"]
                                /\ own' = [own EXCEPT ![l] = TRUE]
                                /\ lpc' = [lpc EXCEPT ![l] = "refresh"]
      BY <1>8, <2>3, NewListener
    <3>2. ~live'[l] /\ lpc'[l] = "refresh" /\ lstate'[l] = "pending" /\ own'[l]
      BY <3>1
    <3>3. \A x \in Listener \ {l} :
            lstate'[x] = "stopped" /\ lpc'[x] = lpc[x] /\ lpc[x] # "refresh"
      BY <1>5, <2>1, <3>1
    <3> QED  BY <3>1, <3>2, <3>3 DEF Controlled
  <2> QED  BY <2>2, <2>3
<1>9. CASE StartReturns
  <2>1. /\ cpc = "refreshing" /\ cpc' = "idle" /\ UNCHANGED <<live, lpc, own>>
        /\ lpc[monitor] # "refresh"
    BY <1>9 DEF StartReturns, Goto
  <2>2. \A l \in Listener : lstate'[l] # "pending"
    BY <1>9 DEF StartReturns, OneListener
  <2>3. \A l \in Listener : lpc[l] # "refresh"
    BY <2>1 DEF Controlled, OneListener
  <2> QED  BY <2>1, <2>2, <2>3 DEF Controlled
<1> QED  BY <1>1, <1>2, <1>3, <1>4, <1>6, <1>7, <1>8, <1>9, ListenerFrame, ControlFrame
         DEF ListenerStep

LEMMA EndsBehindStep ==
  ASSUME DispatcherInv, Types, HandlersAt, EndsBehind, EndsWait, [Next]_vars
  PROVE  EndsBehind'
<1>1. CASE UNCHANGED laneVars
  BY <1>1, NothingMoves DEF laneVars, EndsBehind
<1>2. ASSUME NEW k, Emit(k), k = "LiveEnd" => ~StartPending
      PROVE  EndsBehind'
  <2>1. PICK e \in Event : /\ e \notin Pending /\ Pending' = Pending \cup {e}
                           /\ ahead'[e] = Pending /\ kind'[e] = k
                           /\ \A x \in Pending : ahead'[x] = ahead[x] /\ kind'[x] = kind[x]
    BY <1>2, EmitFacts DEF Types
  <2> QED  BY <1>2, <2>1 DEF EndsBehind, StartPending
<1>3. ASSUME NEW e \in Event, Handle(e), kind' = kind
      PROVE  EndsBehind'
  BY <1>3, HandleFacts DEF EndsBehind
<1>4. ASSUME NEW e \in Event, Done(e)
      PROVE  EndsBehind'
  BY <1>4, DoneFacts DEF Types, EndsBehind
<1>5. ASSUME NEW e \in Event, RemoveRecorder(e)
      PROVE  EndsBehind'
  BY <1>5, NothingMoves DEF RemoveRecorder, EndsBehind
<1>6. CASE LaneStep
  BY <1>3, <1>4, <1>5, <1>6
  DEF LaneStep, HandleLiveStart, AddRecorder, HandleLiveEnd, HandleListenStop,
      RecorderRemoved, NoRecorder, HandleUserStop, HandleRoomNameChanged, HandlersReturn
<1>7. ASSUME NEW l \in Listener, SelfClose(l) \/ Announce(l)
      PROVE  EndsBehind'
  BY <1>1, <1>2, <1>7 DEF SelfClose, Announce, CloseListener, MayDispatch, EndsWait
<1>8. CASE Quiet \/ Split \/ \E x \in Recorder : Leave(x)
  BY <1>1, <1>8 DEF Quiet, Split, Leave, laneVars
<1>9. CASE ControlCalled \/ ControlStep
  BY <1>1, <1>2, <1>9, ControlMoves, CallFacts, RoomNames DEF EndsBehind
<1> QED  BY <1>6, <1>7, <1>8, <1>9, PollsAreQuiet

LEMMA EndsWaitStep ==
  ASSUME DispatcherInv, Types, HandlersAt, OneListener, EndsWait, [Next]_vars
  PROVE  EndsWait'
<1> USE NamesAreNotNone DEF Types, ListenerTypes
<1>1. CASE /\ StartPending' => StartPending
           /\ \A l \in Listener :
                lpc'[l] = "news" /\ lstate'[l] # "stopped" =>
                  lpc[l] = "news" /\ lstate[l] # "stopped" /\ news'[l] = news[l]
  BY <1>1 DEF EndsWait
<1>2. ASSUME UNCHANGED laneVars
      PROVE  StartPending' => StartPending
  BY <1>2, NothingMoves DEF laneVars, StartPending
<1>3. ASSUME NEW k, Emit(k), k # "LiveStart"
      PROVE  StartPending' => StartPending
  BY <1>3, EmitFacts DEF StartPending
<1>4. ASSUME NEW l \in Listener, SelfClose(l)
      PROVE  EndsWait'
  <2>1. StartPending' => StartPending
    BY <1>2, <1>3, <1>4 DEF SelfClose, CloseListener
  <2>2. \A x \in Listener :
          lpc'[x] = "news" /\ lstate'[x] # "stopped" =>
            lpc[x] = "news" /\ lstate[x] # "stopped" /\ news'[x] = news[x]
    BY <1>4 DEF SelfClose, CloseListener
  <2> QED  BY <1>1, <2>1, <2>2
<1>5. ASSUME NEW l \in Listener, Announce(l)
      PROVE  EndsWait'
  <2>1. CASE MayDispatch(l)
    <3>1. \A x \in Listener : lpc'[x] = "news" => lstate'[x] = "stopped"
      BY <1>5, <2>1 DEF Announce, MayDispatch, OneListener
    <3> QED  BY <3>1 DEF EndsWait
  <2>2. CASE ~MayDispatch(l)
    <3>1. \A x \in Listener :
            lpc'[x] = "news" /\ lstate'[x] # "stopped" =>
              lpc[x] = "news" /\ lstate[x] # "stopped" /\ news'[x] = news[x]
      BY <1>5, <2>2 DEF Announce
    <3> QED  BY <1>1, <1>2, <1>5, <2>2, <3>1 DEF Announce
  <2> QED  BY <2>1, <2>2
<1>6. ASSUME NEW l \in Listener, NEW k \in Kind, PollAnswers(l, k)
      PROVE  EndsWait'
  <2>1. k = "LiveEnd" => ~StartPending
    BY <1>6 DEF PollAnswers, Sees
  <2>2. StartPending' => StartPending
    BY <1>2, <1>6 DEF PollAnswers
  <2> QED  BY <1>6, <2>1, <2>2 DEF PollAnswers, EndsWait
<1>7. ASSUME NEW l \in Listener, FirstPollIsQuiet(l)
      PROVE  EndsWait'
  BY <1>1, <1>2, <1>7 DEF FirstPollIsQuiet
<1>8. ASSUME UNCHANGED listenerVars
      PROVE  EndsWait'
  <2>1. CASE UNCHANGED laneVars
    BY <1>1, <1>2, <1>8, <2>1 DEF listenerVars
  <2>2. CASE LaneStep
    <3>1. ASSUME NEW e \in Event, Done(e)
          PROVE  StartPending' => StartPending
      BY <3>1, DoneFacts DEF StartPending
    <3>2. ASSUME NEW e \in Event, Handle(e), kind' = kind
          PROVE  StartPending' => StartPending
      BY <3>2, HandleFacts DEF StartPending
    <3>3. ASSUME NEW e \in Event, RemoveRecorder(e)
          PROVE  StartPending' => StartPending
      BY <3>3, NothingMoves DEF RemoveRecorder, StartPending
    <3>4. StartPending' => StartPending
      BY <2>2, <3>1, <3>2, <3>3
      DEF LaneStep, HandleLiveStart, AddRecorder, HandleLiveEnd, HandleListenStop,
          RecorderRemoved, NoRecorder, HandleUserStop, HandleRoomNameChanged, HandlersReturn
    <3> QED  BY <1>1, <1>8, <3>4 DEF listenerVars
  <2>3. CASE ControlCalled \/ ControlStep
    <3>1. StartPending' => StartPending
      BY <1>2, <1>3, <2>3, ControlMoves, CallFacts, RoomNames DEF StartPending
    <3> QED  BY <1>1, <1>8, <3>1 DEF listenerVars
  <2>4. ASSUME NEW l \in Listener, Announce(l)
        PROVE  FALSE
    BY <1>8, <2>4 DEF Announce, listenerVars
  <2> QED  BY <1>4, <2>1, <2>2, <2>3, <2>4, PollsAreQuiet DEF Quiet, Split, Leave, laneVars
<1>9. CASE StartRearms \/ StartForgets \/ StopRemoves \/ StartListener \/ StartReturns
  <2>1. StartPending' => StartPending
    BY <1>2, <1>3, <1>9
    DEF StartRearms, StartForgets, StopRemoves, StartListener, StartReturns, CloseListener
  <2>2. CASE StartRearms \/ StartForgets \/ StopRemoves
    <3>1. \A x \in Listener :
            lpc'[x] = "news" /\ lstate'[x] # "stopped" =>
              lpc[x] = "news" /\ lstate[x] # "stopped" /\ news'[x] = news[x]
      BY <2>2 DEF StartRearms, StartForgets, StopRemoves, CloseListener
    <3> QED  BY <1>1, <2>1, <3>1
  <2>3. CASE StartListener
    <3>1. \A x \in Listener :
            lpc'[x] = "news" /\ lstate'[x] # "stopped" =>
              lpc[x] = "news" /\ lstate[x] # "stopped" /\ news'[x] = news[x]
      BY <2>3, NewListener DEF listenerVars
    <3> QED  BY <1>1, <2>1, <3>1
  <2>4. CASE StartReturns
    <3>1. \A x \in Listener :
            lpc'[x] = "news" /\ lstate'[x] # "stopped" =>
              lpc[x] = "news" /\ lstate[x] # "stopped" /\ news'[x] = news[x]
      BY <2>4 DEF StartReturns
    <3> QED  BY <1>1, <2>1, <3>1
  <2> QED  BY <1>9, <2>2, <2>3, <2>4
<1> QED  BY <1>4, <1>5, <1>6, <1>7, <1>8, <1>9, ListenerFrame DEF ListenerStep

\* The states that NewRun allows, and what keeps each of them.
Waits == runState = "waiting" /\ ~bound

Records ==
  /\ runState = "recording" /\ bound /\ open
  /\ \A e \in Pending : kind[e] # "LiveEnd"
  /\ \A l \in Listener : lpc[l] = "news" /\ lstate[l] # "stopped" => news[l] # "LiveEnd"

\* A run that waits, and has no session, only changes when a session opens.
LEMMA WaitsStays ==
  ASSUME DispatcherInv, Types, HandlersAt, EndsBehind, EndsWait, NoOldStop, Waits,
         cpc \in Starts, UNCHANGED cpc, [Next]_vars
  PROVE  Waits' \/ Records'
<1>1. CASE UNCHANGED <<runState, bound>>
  BY <1>1 DEF Waits
<1>2. ASSUME NEW e \in Event, HandleLiveStart(e)
      PROVE  Waits' \/ Records'
  <2>1. CASE OpenRecordingSession
    <3>1. runState' = "recording" /\ bound' /\ open'
      BY <2>1 DEF OpenRecordingSession, Opens, Waits
    <3>2. /\ Handle(e) /\ kind' = kind /\ kind[e] = "LiveStart"
          /\ UNCHANGED <<lpc, lstate, news>>
      BY <1>2 DEF HandleLiveStart, listenerVars
    <3>3. e \in Pending /\ Pending' = Pending /\ ahead[e] = {}
      BY <3>2, HandleFacts
    <3>4. \A f \in Pending : kind[f] # "LiveEnd"
      BY <3>2, <3>3 DEF EndsBehind, DispatcherInv, Ordered
    <3>5. \A l \in Listener : lpc[l] = "news" /\ lstate[l] # "stopped" => news[l] # "LiveEnd"
      BY <3>2, <3>3 DEF EndsWait, StartPending
    <3> QED  BY <3>1, <3>2, <3>3, <3>4, <3>5 DEF Records
  <2>2. CASE UNCHANGED <<runState, bound>>
    BY <1>1, <2>2
  <2> QED  BY <1>2, <2>1, <2>2 DEF HandleLiveStart
<1>3. ASSUME NEW left, runState' \in Verdict(left)
      PROVE  runState' = runState
  BY <1>3 DEF Verdict, Waits
<1>4. ASSUME NEW e \in Event, HandleLiveEnd(e)
      PROVE  Waits'
  BY <1>3, <1>4 DEF HandleLiveEnd, EndNormally, runVars, Waits
<1>5. ASSUME NEW x \in Recorder, Leave(x)
      PROVE  Waits'
  BY <1>3, <1>5 DEF Leave, Waits
<1>6. ASSUME NEW e \in Event, HandleUserStop(e)
      PROVE  FALSE
  BY <1>6, HandleFacts DEF HandleUserStop, NoOldStop
<1>7. CASE LaneStep
  BY <1>1, <1>2, <1>4, <1>6, <1>7
  DEF LaneStep, AddRecorder, HandleListenStop, RemoveRecorder, RecorderRemoved, NoRecorder,
      HandleRoomNameChanged, HandlersReturn, runVars
<1>8. CASE Quiet \/ Split \/ \E l \in Listener : SelfClose(l) \/ Announce(l)
  BY <1>1, <1>8 DEF Quiet, Split, SelfClose, Announce, runVars
<1> QED  BY <1>5, <1>7, <1>8, OtherSteps

\* A run that has just begun to record is not ended while its room is started.
LEMMA RecordsStays ==
  ASSUME DispatcherInv, Types, HandlersAt, OneListener, Controlled, NoOldStop, Records,
         cpc \in Starts, UNCHANGED cpc, [Next]_vars
  PROVE  Records'
<1> USE NamesAreNotNone DEF Types, ListenerTypes, Records
<1>1. ASSUME UNCHANGED laneVars
      PROVE  \A e \in Pending' : kind'[e] # "LiveEnd"
  BY <1>1, NothingMoves DEF laneVars
<1>2. ASSUME NEW k, Emit(k), k # "LiveEnd"
      PROVE  \A e \in Pending' : kind'[e] # "LiveEnd"
  BY <1>2, EmitFacts
<1>3. ASSUME NEW l \in Listener, SelfClose(l) \/ Announce(l)
      PROVE  Records'
  <2>1. UNCHANGED <<runState, bound, open>>
    BY <1>3 DEF SelfClose, Announce, runVars
  <2>2. \A x \in Listener :
          lpc'[x] = "news" /\ lstate'[x] # "stopped" =>
            lpc[x] = "news" /\ lstate[x] # "stopped" /\ news'[x] = news[x]
    BY <1>3 DEF SelfClose, Announce, CloseListener
  <2>3. \A e \in Pending' : kind'[e] # "LiveEnd"
    BY <1>1, <1>2, <1>3 DEF SelfClose, Announce, CloseListener, MayDispatch
  <2> QED  BY <2>1, <2>2, <2>3
<1>4. ASSUME NEW l \in Listener, NEW k \in Kind, PollAnswers(l, k)
      PROVE  Records'
  <2>1. lstate[l] # "stopped" => k # "LiveEnd"
    <3>1. CASE lpc[l] = "refresh"
      BY <1>4, <3>1 DEF PollAnswers, Sees, Controlled
    <3>2. CASE lpc[l] = "loop" /\ own[l] /\ lstate[l] = "running"
      BY <3>2 DEF Controlled, Starts
    <3> QED  BY <1>4, <3>1, <3>2 DEF PollAnswers, Polls, Monitoring
  <2>2. \A e \in Pending' : kind'[e] # "LiveEnd"
    BY <1>1, <1>4 DEF PollAnswers
  <2> QED  BY <1>4, <2>1, <2>2 DEF PollAnswers, runVars
<1>5. ASSUME NEW l \in Listener, FirstPollIsQuiet(l)
      PROVE  Records'
  BY <1>1, <1>5 DEF FirstPollIsQuiet, runVars
<1>6. CASE UNCHANGED vars \/ Platform \/ Split \/ \E x \in Recorder : Leave(x)
  BY <1>1, <1>6 DEF vars, Platform, Split, Leave, runVars, listenerVars
<1>7. ASSUME NEW e \in Event, Handle(e), kind' = kind
      PROVE  /\ \A f \in Pending' : kind'[f] # "LiveEnd"
             /\ kind[e] \notin {"LiveEnd", "UserStop"}
  BY <1>7, HandleFacts DEF NoOldStop
<1>8. ASSUME NEW e \in Event, Done(e)
      PROVE  \A f \in Pending' : kind'[f] # "LiveEnd"
  BY <1>8, DoneFacts
<1>9. CASE LaneStep
  <2>1. UNCHANGED <<runState, bound, open>>
    BY <1>7, <1>9
    DEF LaneStep, HandleLiveStart, AddRecorder, HandleLiveEnd, HandleListenStop,
        RemoveRecorder, RecorderRemoved, NoRecorder, HandleUserStop, HandleRoomNameChanged,
        HandlersReturn, OpenRecordingSession, Opens, runVars
  <2>2. UNCHANGED <<lpc, lstate, news>>
    BY <1>9
    DEF LaneStep, HandleLiveStart, AddRecorder, HandleLiveEnd, HandleListenStop,
        RemoveRecorder, RecorderRemoved, NoRecorder, HandleUserStop, HandleRoomNameChanged,
        HandlersReturn, listenerVars
  <2>3. ASSUME NEW e \in Event, RemoveRecorder(e)
        PROVE  \A f \in Pending' : kind'[f] # "LiveEnd"
    BY <2>3, NothingMoves DEF RemoveRecorder
  <2>4. \A f \in Pending' : kind'[f] # "LiveEnd"
    BY <1>7, <1>8, <1>9, <2>3
    DEF LaneStep, HandleLiveStart, AddRecorder, HandleLiveEnd, HandleListenStop,
        RecorderRemoved, NoRecorder, HandleUserStop, HandleRoomNameChanged, HandlersReturn
  <2> QED  BY <2>1, <2>2, <2>4
<1>10. CASE ControlCalled \/ ControlStep
  BY <1>10
  DEF ControlCalled, ControlStep, StartBegins, StopBegins, StartWaited, StartChecks,
      StartRearms, StartForgets, StartListener, StartReturns, StartUndone, StopRemoves,
      StopDispatches, StopWaits, StopReturns, Goto, Starts
<1> QED  BY <1>3, <1>4, <1>5, <1>6, <1>9, <1>10 DEF Next, ListenerStep

LEMMA NewRunStep ==
  ASSUME DispatcherInv, Types, HandlersAt, OneListener, Controlled, NoOldStop, EndsBehind,
         EndsWait, NewRun, [Next]_vars
  PROVE  NewRun'
<1> USE NamesAreNotNone DEF Types, ListenerTypes
<1>1. NewRun <=> (cpc \in Starts => Waits \/ Records)
  BY DEF NewRun, Waits, Records
<1>2. (cpc' \in Starts => Waits' \/ Records') => NewRun'
  BY DEF NewRun, Waits, Records
<1>3. CASE cpc' = cpc
  BY <1>1, <1>2, <1>3, WaitsStays, RecordsStays
<1>4. CASE cpc' \notin Starts
  BY <1>2, <1>4
<1>5. CASE StartRearms
  BY <1>2, <1>4, <1>5 DEF StartRearms, Goto, Waits, Starts
<1>6. CASE StartForgets \/ StartListener
  <2>1. Waits \/ Records
    BY <1>1, <1>6 DEF StartForgets, StartListener, Starts
  <2>2. UNCHANGED <<runState, bound, open>>
    BY <1>6 DEF StartForgets, StartListener, runVars
  <2>3. \A x \in Listener :
          lpc'[x] = "news" /\ lstate'[x] # "stopped" =>
            lpc[x] = "news" /\ lstate[x] # "stopped" /\ news'[x] = news[x]
    BY <1>6, NewListener DEF StartForgets, CloseListener, listenerVars
  <2>4. CASE UNCHANGED laneVars
    <3>1. Pending' = Pending /\ kind' = kind
      BY <2>4, NothingMoves DEF laneVars
    <3> QED  BY <1>2, <2>1, <2>2, <2>3, <3>1 DEF Waits, Records
  <2>5. CASE Emit("ListenStop")
    <3>1. (\A e \in Pending : kind[e] # "LiveEnd") => \A e \in Pending' : kind'[e] # "LiveEnd"
      BY <2>5, EmitFacts
    <3> QED  BY <1>2, <2>1, <2>2, <2>3, <3>1 DEF Waits, Records
  <2> QED  BY <1>6, <2>4, <2>5 DEF StartForgets, StartListener, CloseListener
<1>7. CASE StartReturns
  BY <1>4, <1>7 DEF StartReturns, Goto, Starts
<1> QED  BY <1>3, <1>4, <1>5, <1>6, <1>7, ControlFrame

-----------------------------------------------------------------------------
(* What the room promises.                                                 *)

LEMMA RoomInit == Init => RoomInv
<1> SUFFICES ASSUME Init
             PROVE  RoomInv
  OBVIOUS
<1>1. Types
  BY TypesInit
<1>2. Pending = {} /\ Running = {}
  BY DEF Init, InitDispatcher, Pending, Running
<1>3. HandlersAt
  BY <1>2 DEF Init, HandlersAt
<1>4. OneRecorder /\ OneListener
  BY DEF Init, OneRecorder, OneListener
<1>5. Attended /\ Stopping /\ Starting
  BY <1>2 DEF Init, Attended, Stopping, Starting, NoOldStop, SessionAhead, RunIsHeld, Starts
<1>6. Controlled
  BY DEF Init, Controlled
<1>7. EndsBehind /\ EndsWait /\ NewRun
  BY <1>2 DEF Init, EndsBehind, EndsWait, NewRun, Starts
<1> QED  BY <1>1, <1>3, <1>4, <1>5, <1>6, <1>7 DEF RoomInv

(* The invariant behind the room's promises holds in every state.          *)
THEOREM RoomInductive == Spec => [](RoomInv /\ DispatcherInv)
<1>1. RoomInv /\ DispatcherInv /\ [Next]_vars => RoomInv'
  BY TypesStep, HandlersAtStep, OneRecorderStep, OneListenerStep, AttendedStep, StoppingStep,
     StartingStep, ControlledStep, EndsBehindStep, EndsWaitStep, NewRunStep
  DEF RoomInv, Starting
<1> QED  BY <1>1, RoomInit, RoomDispatcher, PTL DEF Spec

(* When stopListening has returned without an error, the room is at rest   *)
(* until it is started again, whatever its listeners, its recorders and    *)
(* the events in its lane were doing.                                      *)
THEOREM StopLeavesNothing == Spec => []StopIsComplete
<1>1. RoomInv => StopIsComplete
  <2> SUFFICES ASSUME RoomInv, halted
               PROVE  /\ runState = "stopped"
                      /\ saver = None
                      /\ \A x \in Alive : rstate[x] = "stop"
                      /\ \A l \in Listener : lstate[l] = "stopped"
                      /\ ~StartPending
    BY DEF StopIsComplete
  <2> USE NamesAreNotNone DEF RoomInv
  <2>1. runState = "stopped" /\ monitor = None /\ Pending = {}
    BY DEF Stopping
  <2>2. Running = {} /\ at = "begin"
    BY <2>1 DEF HandlersAt, Pending, Running
  <2>3. saver = None
    BY <2>1, <2>2 DEF Attended, Removal, Seen, Watched
  <2>4. \A x \in Alive : rstate[x] = "stop"
    BY <2>3 DEF OneRecorder, Alive, Types, RoomTypes
  <2>5. \A l \in Listener : lstate[l] = "stopped"
    BY <2>1 DEF OneListener
  <2> QED  BY <2>1, <2>3, <2>4, <2>5 DEF StartPending
<1> QED  BY <1>1, RoomInductive, PTL

(* When startListening re-arms the run, every recorder that still runs has *)
(* been told to stop, although it only looked for the one in the map.      *)
THEOREM StartLeavesNoRecorder == Spec => StartIsClean
<1>1. ASSUME RoomInv, [Next]_vars, cpc = "free", cpc' = "armed"
      PROVE  \A x \in Alive : rstate[x] = "stop"
  <2>1. CASE ControlCalled \/ ControlStep
    <3>1. runState \notin Active
      BY <1>1, <2>1
      DEF ControlCalled, ControlStep, StartBegins, StopBegins, StartWaited, StartChecks,
          StartRearms, StartForgets, StartListener, StartReturns, StartUndone, StopRemoves,
          StopDispatches, StopWaits, StopReturns, Goto
    <3> QED  BY <1>1, <3>1 DEF RoomInv, Starting, RunIsHeld, Alive, Types, RoomTypes
  <2>2. CASE ~(ControlCalled \/ ControlStep)
    BY <1>1, <2>2, PollsAreQuiet
    DEF Quiet, SelfClose, Announce, Split, Leave, LaneStep, HandleLiveStart, AddRecorder,
        HandleLiveEnd, HandleListenStop, RemoveRecorder, RecorderRemoved, NoRecorder,
        HandleUserStop, HandleRoomNameChanged, HandlersReturn, controlVars
  <2> QED  BY <2>1, <2>2
<1>2. RoomInv /\ [Next]_vars
        => [cpc = "free" /\ cpc' = "armed" => \A x \in Alive : rstate[x] = "stop"]_vars
  BY <1>1
<1> QED  BY <1>2, RoomInductive, PTL DEF Spec, StartIsClean

(* A recorder in the map is never forgotten: a listener that has seen the  *)
(* broadcast begin will see it end, or the removal is already in the lane. *)
THEOREM NoRecorderIsForgotten == Spec => []OrphanFree
<1>1. RoomInv => OrphanFree
  BY DEF RoomInv, Attended, Seen, Watched, OrphanFree
<1> QED  BY <1>1, RoomInductive, PTL

-----------------------------------------------------------------------------
(* The safety half of EndStopsRecording: whoever waits in a room waits for *)
(* something that is on its way.                                           *)

\* A poll with news has some, and every event in the lane has a handler.
Announced ==
  /\ \A l \in Listener : lpc[l] = "news" => news[l] \in Kind
  /\ \A e \in Pending : kind[e] \in Kind

\* A handler that waits for a recorder waits for one that was told to stop.
WaitsForTold ==
  at \in {"closing", "splitting"} =>
    /\ target # None /\ rstate[target] # "run"
    /\ at = "splitting" => saver # target

\* A call waits for the lane, or for the listener it has added.
CallsWait ==
  /\ cpc \in {"starting", "ending"} <=> waiting[Control] # None
  /\ cpc = "refreshing" => monitor # None /\ lstate[monitor] = "pending"

LEMMA AnnouncedStep ==
  ASSUME DispatcherInv, Types, HandlersAt, Announced, [Next]_vars
  PROVE  Announced'
<1> USE DEF Types
<1> DEFINE Polled == \A l \in Listener : lpc'[l] = "news" => news'[l] \in Kind
           Known == \A e \in Pending' : kind'[e] \in Kind
<1>1. Polled
  <2>1. CASE UNCHANGED listenerVars \/ StartRearms \/ StartForgets \/ StopRemoves \/ StartReturns
    BY <2>1 DEF StartRearms, StartForgets, StopRemoves, StartReturns, listenerVars, Announced
  <2>2. ASSUME NEW l \in Listener, ListenerStep(l)
        PROVE  Polled
    BY <2>2 DEF ListenerStep, SelfClose, FirstPollIsQuiet, Announce, ListenerTypes, Announced
  <2>3. ASSUME NEW l \in Listener, NEW k \in Kind, PollAnswers(l, k)
        PROVE  Polled
    BY <2>3 DEF PollAnswers, ListenerTypes, Announced
  <2>4. CASE StartListener
    BY <2>4, NewListener DEF listenerVars, ListenerTypes, Announced
  <2> QED  BY <2>1, <2>2, <2>3, <2>4, ListenerFrame
<1>2. Known
  <2>1. CASE UNCHANGED <<dispatcherVars, kind>>
    BY <2>1, NothingMoves DEF Announced
  <2>2. ASSUME NEW k \in Kind, Emit(k)
        PROVE  Known
    BY <2>2, EmitFacts DEF Announced
  <2>3. ASSUME NEW e \in Event, Handle(e), kind' = kind
        PROVE  Known
    BY <2>3, HandleFacts DEF Announced
  <2>4. ASSUME NEW e \in Event, Done(e)
        PROVE  Known
    BY <2>4, DoneFacts DEF Announced
  <2>5. CASE LaneStep
    BY <2>1, <2>3, <2>4, <2>5
    DEF LaneStep, HandleLiveStart, AddRecorder, HandleLiveEnd, HandleListenStop,
        RemoveRecorder, RecorderRemoved, NoRecorder, HandleUserStop, HandleRoomNameChanged,
        HandlersReturn
  <2>6. CASE ControlCalled \/ ControlStep
    <3>1. ASSUME Wait(Control) \/ Return(Control) \/ GiveUp(Control), kind' = kind
          PROVE  Known
      BY <3>1, CallFacts, RoomNames DEF Announced
    <3> QED  BY <2>1, <2>2, <2>6, <3>1, ControlMoves DEF Kind, laneVars
  <2>7. ASSUME NEW l \in Listener, SelfClose(l) \/ Announce(l)
        PROVE  Known
    BY <2>1, <2>2, <2>7 DEF SelfClose, Announce, CloseListener, Kind, laneVars, Announced
  <2>8. CASE Quiet \/ Split \/ \E x \in Recorder : Leave(x)
    BY <2>1, <2>8 DEF Quiet, Split, Leave, laneVars
  <2> QED  BY <2>5, <2>6, <2>7, <2>8, PollsAreQuiet
<1> QED  BY <1>1, <1>2 DEF Announced

LEMMA WaitsForToldStep ==
  ASSUME DispatcherInv, Types, HandlersAt, OneRecorder, WaitsForTold, [Next]_vars
  PROVE  WaitsForTold'
<1> USE NamesAreNotNone DEF Types, RoomTypes, LaneTypes
<1>1. CASE UNCHANGED <<at, target, saver, rstate>>
  BY <1>1 DEF WaitsForTold
<1>2. CASE at' \notin {"closing", "splitting"}
  BY <1>2 DEF WaitsForTold
<1>3. CASE Split
  BY <1>3, RestartFacts DEF Split, NotStopping, laneVars, WaitsForTold
<1>4. ASSUME NEW x \in Recorder, Leave(x)
      PROVE  WaitsForTold'
  BY <1>4 DEF Leave, laneVars, WaitsForTold
<1>5. ASSUME NEW e \in Event, HandleRoomNameChanged(e)
      PROVE  WaitsForTold'
  <2>1. CASE at' = "ended"
    BY <1>2, <2>1
  <2>2. CASE saver # None /\ Restart /\ at' = "splitting" /\ target' = saver
    <3>1. at = "begin"
      BY <1>5, HandleFacts DEF HandleRoomNameChanged
    <3>2. PICK x \in Recorder : /\ x # saver /\ saver' = x
                                /\ \A y \in Recorder \ {x} : rstate'[y] # "run"
      BY <2>2, <3>1, RestartFacts
    <3> QED  BY <2>2, <3>2 DEF WaitsForTold
  <2> QED  BY <1>5, <2>1, <2>2 DEF HandleRoomNameChanged
<1>6. ASSUME NEW e \in Event, RemoveRecorder(e)
      PROVE  WaitsForTold'
  BY <1>6 DEF RemoveRecorder, Told, WaitsForTold
<1>7. ASSUME NEW e \in Event,
             \/ HandleLiveStart(e) \/ AddRecorder(e) \/ HandleLiveEnd(e) \/ HandleListenStop(e)
             \/ RecorderRemoved(e) \/ NoRecorder(e) \/ HandleUserStop(e) \/ HandlersReturn(e)
      PROVE  WaitsForTold'
  <2>1. at' \in {"begin", "adding", "removing", "ended"}
    BY <1>7
    DEF HandleLiveStart, AddRecorder, HandleLiveEnd, HandleListenStop, RecorderRemoved,
        NoRecorder, HandleUserStop, HandlersReturn, Done
  <2> QED  BY <1>2, <2>1
<1>8. CASE ControlCalled \/ ControlStep
  BY <1>1, <1>8
  DEF ControlCalled, ControlStep, StartBegins, StopBegins, StartWaited, StartChecks,
      StartRearms, StartForgets, StartListener, StartReturns, StartUndone, StopRemoves,
      StopDispatches, StopWaits, StopReturns, CloseListener, Emit, laneVars, recorderVars
<1>9. CASE Quiet \/ \E l \in Listener : SelfClose(l) \/ Announce(l)
  BY <1>1, <1>9 DEF Quiet, SelfClose, Announce, CloseListener, Emit, laneVars, recorderVars
<1> QED  BY <1>3, <1>4, <1>5, <1>6, <1>7, <1>8, <1>9, PollsAreQuiet DEF LaneStep

\* Only the control process waits for the lane.
LEMMA WaitersFrame ==
  ASSUME [Next]_vars
  PROVE  UNCHANGED <<cpc, waiting>> \/ ControlCalled \/ ControlStep
<1>1. ASSUME NEW k, Emit(k)
      PROVE  waiting' = waiting
  BY <1>1, EmitDispatches DEF Dispatch
<1>2. CASE LaneStep
  BY <1>2
  DEF LaneStep, HandleLiveStart, AddRecorder, HandleLiveEnd, HandleListenStop,
      RemoveRecorder, RecorderRemoved, NoRecorder, HandleUserStop, HandleRoomNameChanged,
      HandlersReturn, Done, Handle, Finish, controlVars, dispatcherVars
<1>3. ASSUME NEW l \in Listener, SelfClose(l) \/ Announce(l)
      PROVE  UNCHANGED <<cpc, waiting>>
  BY <1>1, <1>3 DEF SelfClose, Announce, CloseListener, controlVars, laneVars, dispatcherVars
<1>4. CASE Quiet \/ Split \/ \E x \in Recorder : Leave(x)
  BY <1>4 DEF Quiet, Split, Leave, controlVars, laneVars, dispatcherVars
<1> QED  BY <1>2, <1>3, <1>4, PollsAreQuiet

LEMMA CallsWaitStep ==
  ASSUME DispatcherInv, Types, Controlled, CallsWait, [Next]_vars
  PROVE  CallsWait'
<1> USE NamesAreNotNone DEF Types, ListenerTypes
<1> DEFINE Calls == cpc \in {"starting", "ending"} <=> waiting[Control] # None
           Adds == cpc = "refreshing" => monitor # None /\ lstate[monitor] = "pending"
<1>1. Calls'
  <2> USE RoomNames, EventIsNotNone DEF CallsWait, DispatcherInv, DispatcherTypeOK
  <2>1. CASE UNCHANGED <<cpc, waiting>>
    BY <2>1
  <2>2. ASSUME NEW k, Emit(k), cpc \notin {"starting", "ending"},
               cpc' \notin {"starting", "ending"}
        PROVE  Calls'
    BY <2>2, EmitDispatches DEF Dispatch
  <2>3. CASE StartBegins \/ StopWaits
    BY <2>3 DEF StartBegins, StopWaits, Wait, Goto, laneVars, dispatcherVars
  <2>4. CASE StartWaited \/ StopReturns
    BY <2>4 DEF StartWaited, StopReturns, Return, GiveUp, Goto
  <2>5. CASE \/ StartChecks \/ StartRearms \/ StartListener
             \/ StartReturns \/ StartUndone \/ StopBegins
    BY <2>5
    DEF StartChecks, StartRearms, StartListener, StartReturns, StartUndone, StopBegins, Goto,
        laneVars, dispatcherVars
  <2>6. CASE StartForgets \/ StopRemoves \/ StopDispatches
    BY <2>2, <2>6
    DEF StartForgets, StopRemoves, StopDispatches, CloseListener, Goto, laneVars, dispatcherVars
  <2> QED  BY <2>1, <2>3, <2>4, <2>5, <2>6, WaitersFrame DEF ControlCalled, ControlStep
<1>2. Adds'
  <2> USE DEF CallsWait
  <2>1. CASE StartListener
    BY <2>1, NewListener
  <2>2. CASE ~StartListener /\ cpc' = "refreshing"
    <3>1. cpc = "refreshing" /\ ~(StartForgets \/ StopRemoves \/ StartReturns)
      <4>1. CASE ControlCalled \/ ControlStep
        BY <2>2, <4>1
        DEF ControlCalled, ControlStep, StartBegins, StopBegins, StartWaited, StartChecks,
            StartRearms, StartForgets, StartReturns, StartUndone, StopRemoves,
            StopDispatches, StopWaits, StopReturns, Goto
      <4>2. CASE UNCHANGED <<cpc, waiting>>
        BY <2>2, <4>2 DEF StartForgets, StopRemoves, StartReturns, Goto
      <4> QED  BY <4>1, <4>2, WaitersFrame
    <3>2. CASE UNCHANGED <<monitor, lstate>>
      BY <3>1, <3>2
    <3>3. ASSUME NEW l \in Listener, SelfClose(l)
          PROVE  Adds'
      BY <3>1, <3>3 DEF SelfClose, CloseListener
    <3> QED  BY <2>2, <3>1, <3>2, <3>3, ListenersKept
  <2> QED  BY <2>1, <2>2
<1> QED  BY <1>1, <1>2 DEF CallsWait

THEOREM WaitsInductive == Spec => [](Announced /\ WaitsForTold /\ CallsWait)
<1>1. Init => Announced /\ WaitsForTold /\ CallsWait
  BY RoomNames
  DEF Init, InitDispatcher, Announced, WaitsForTold, CallsWait, Pending
<1>2. DispatcherInv /\ RoomInv /\ Announced /\ WaitsForTold /\ CallsWait /\ [Next]_vars
        => (Announced /\ WaitsForTold /\ CallsWait)'
  BY AnnouncedStep, WaitsForToldStep, CallsWaitStep DEF RoomInv
<1> QED  BY <1>1, <1>2, RoomInductive, PTL DEF Spec

(* No goroutine of a room waits for another one in a circle.  While its    *)
(* lane has events one of them may take its turn, or the handlers of one   *)
(* run; these wait for nothing but a recorder that has been told to stop,  *)
(* and that no split has put back.  A call waits for events that are in    *)
(* the lane, or for the listener it has just added; and it never meets a   *)
(* listener that is not running yet, which Close would pass over.          *)
RoomMoves ==
  /\ Pending # {} =>
       \/ /\ Running = {} /\ at = "begin"
          /\ \E e \in Pending : stage[e] = "linked" /\ PreviousDone(e) /\ kind[e] \in Kind
       \/ /\ Running # {} /\ at # "begin"
          /\ at \in {"closing", "splitting"} =>
               target \in Recorder /\ rstate[target] \in {"stop", "none"}
  /\ cpc \in {"starting", "ending"} =>
       waiting[Control] \in Pending \/ (waiting[Control] \in Event /\ owed[Control] = {})
  /\ cpc = "refreshing" => monitor # None /\ lstate[monitor] = "pending"
  /\ cpc \in {"armed", "stopping"} /\ monitor # None => lstate[monitor] # "pending"

THEOREM RoomNeverStalls == Spec => []RoomMoves
<1>1. ASSUME DispatcherInv, RoomInv, Announced, WaitsForTold, CallsWait, LaneMoves
      PROVE  RoomMoves
  <2> USE <1>1 DEF RoomInv, Types
  <2>1. ASSUME Pending # {}, Running = {}
        PROVE  /\ at = "begin"
               /\ \E e \in Pending : stage[e] = "linked" /\ PreviousDone(e) /\ kind[e] \in Kind
    BY <2>1 DEF LaneMoves, HandlersAt, Announced, Pending, Running
  <2>2. ASSUME Running # {}
        PROVE  /\ at # "begin"
               /\ at \in {"closing", "splitting"} =>
                    target \in Recorder /\ rstate[target] \in {"stop", "none"}
    BY <2>2 DEF HandlersAt, WaitsForTold, LaneTypes, RoomTypes
  <2>3. ASSUME cpc \in {"starting", "ending"}
        PROVE  waiting[Control] \in Pending \/ (waiting[Control] \in Event /\ owed[Control] = {})
    BY <2>3, RoomNames DEF CallsWait, LaneMoves, Calling
  <2>4. cpc = "refreshing" => monitor # None /\ lstate[monitor] = "pending"
    BY DEF CallsWait
  <2>5. ASSUME cpc \in {"armed", "stopping"}, monitor # None
        PROVE  lstate[monitor] # "pending"
    BY <2>5 DEF Controlled, ListenerTypes
  <2> QED  BY <2>1, <2>2, <2>3, <2>4, <2>5 DEF RoomMoves
<1>2. DispatcherInv /\ RoomInv /\ Announced /\ WaitsForTold /\ CallsWait /\ LaneMoves => RoomMoves
  BY <1>1
<1>3. Spec => []LaneMoves
  <2>1. Init => InitDispatcher
    BY DEF Init
  <2>2. Spec => SpecDispatcher
    BY <2>1, StepOfDispatcher, PTL DEF Spec, SpecDispatcher
  <2> QED  BY <2>2, LaneNeverStalls, PTL
<1> QED  BY <1>2, <1>3, RoomInductive, WaitsInductive, PTL

-----------------------------------------------------------------------------
(* A broadcast that has been announced is recorded.                        *)

\* The listener has seen a broadcast begin, and is about to tell.
Asking(l) == lpc[l] = "news" /\ news[l] = "LiveStart" /\ lstate[l] # "stopped"

\* The ends in the lane are those of earlier broadcasts.
EndsAreOld ==
  Watched /\ live[monitor] =>
    \A f \in Pending :
      kind[f] \in Ends => \E e \in Pending : kind[e] = "LiveStart" /\ f \in ahead[e]

\* Only the name of a broadcast changes that the listener knows of.
NameOfLive ==
  \A l \in Listener :
    lpc[l] = "news" /\ news[l] \notin {"LiveStart", "LiveEnd"} =>
      news[l] = "RoomNameChanged" /\ live[l]

\* While a listener asks, the run waits for it and no other broadcast is on its way.
AskedOnce ==
  ~missed => \A l \in Listener :
    Asking(l) => ~StartPending /\ (cpc = "stopping" \/ (own[l] /\ runState = "waiting"))

\* A start finds nobody who works for the room, and leaves no earlier broadcast behind.
NoOldStart ==
  ~missed =>
    /\ cpc \in {"starting", "waited", "free"} => ~Monitored
    /\ cpc = "starting" => \A e \in Pending : kind[e] = "LiveStart" => e \in owed[Control]
    /\ cpc \in {"waited", "free", "armed", "adding"} => ~StartPending

\* A broadcast in the lane is the one that the room's listener has told of.
StartIsSeen ==
  ~missed =>
    /\ Watched /\ StartPending => live[monitor]
    /\ \A e, f \in Pending : kind[e] = "LiveStart" /\ kind[f] = "LiveStart" => e = f

\* Its run waits for it until its session is open.
SessionReady ==
  ~missed /\ Monitored =>
    /\ StartPending /\ at # "adding" => runState = "waiting"
    /\ at = "adding" => current /\ open

Recorded == ~missed /\ Monitored /\ live[monitor] /\ ~StartPending => saver # None

SeenInv ==
  EndsAreOld /\ NameOfLive /\ AskedOnce /\ NoOldStart /\ StartIsSeen /\ SessionReady /\ Recorded

\* The broadcasts in the lane are those that were there, but for a new one.
StartsKept == \A e \in Pending' : kind'[e] = "LiveStart" => e \in Pending /\ kind[e] = "LiveStart"

LEMMA NewStarts ==
  ASSUME DispatcherInv, Types, HandlersAt, [Next]_vars
  PROVE  StartsKept \/ \E l \in Listener : Announce(l) /\ Asking(l) /\ Emit("LiveStart")
<1> USE DEF Types
<1>1. ASSUME UNCHANGED laneVars
      PROVE  StartsKept
  BY <1>1, NothingMoves DEF laneVars, StartsKept
<1>2. ASSUME NEW k, Emit(k), k # "LiveStart"
      PROVE  StartsKept
  BY <1>2, EmitFacts DEF StartsKept
<1>3. ASSUME NEW e \in Event, Handle(e), kind' = kind
      PROVE  StartsKept
  BY <1>3, HandleFacts DEF StartsKept
<1>4. ASSUME NEW e \in Event, Done(e)
      PROVE  StartsKept
  BY <1>4, DoneFacts DEF StartsKept
<1>5. CASE LaneStep
  <2>1. ASSUME NEW e \in Event, RemoveRecorder(e)
        PROVE  StartsKept
    BY <2>1, NothingMoves DEF RemoveRecorder, StartsKept
  <2> QED
    BY <1>3, <1>4, <1>5, <2>1
    DEF LaneStep, HandleLiveStart, AddRecorder, HandleLiveEnd, HandleListenStop,
        RecorderRemoved, NoRecorder, HandleUserStop, HandleRoomNameChanged, HandlersReturn
<1>6. ASSUME NEW l \in Listener, SelfClose(l)
      PROVE  StartsKept
  <2>1. Emit("ListenStop") \/ UNCHANGED laneVars
    BY <1>6 DEF SelfClose, CloseListener
  <2> QED  BY <1>1, <1>2, <2>1
<1>7. ASSUME NEW l \in Listener, Announce(l)
      PROVE  StartsKept \/ (Asking(l) /\ Emit("LiveStart"))
  <2>1. CASE MayDispatch(l) /\ Emit(news[l]) /\ news[l] = "LiveStart"
    BY <1>7, <2>1 DEF Announce, MayDispatch, Asking
  <2>2. CASE Emit(news[l]) /\ news[l] # "LiveStart"
    BY <1>2, <2>2
  <2> QED  BY <1>1, <1>7, <2>1, <2>2 DEF Announce
<1>8. CASE Quiet \/ Split \/ \E x \in Recorder : Leave(x)
  BY <1>1, <1>8 DEF Quiet, Split, Leave, laneVars
<1>9. CASE ControlCalled \/ ControlStep
  <2>1. ASSUME Wait(Control) \/ Return(Control) \/ GiveUp(Control), kind' = kind
        PROVE  StartsKept
    BY <2>1, CallFacts, RoomNames DEF StartsKept
  <2> QED  BY <1>1, <1>2, <1>9, <2>1, ControlMoves
<1> QED  BY <1>5, <1>6, <1>7, <1>8, <1>9, PollsAreQuiet

\* A run is left by its broadcasts, its verdicts and the calls of its room.
LEMMA RunChanges ==
  ASSUME [Next]_vars, runState' # runState
  PROVE  \/ \E e \in Event : HandleLiveStart(e) /\ runState = "waiting" /\ runState' = "recording"
         \/ runState \in Active
         \/ StopBegins \/ StartRearms \/ StartUndone
<1>1. CASE Quiet \/ Split \/ \E l \in Listener : SelfClose(l) \/ Announce(l)
  BY <1>1 DEF Quiet, Split, SelfClose, Announce, runVars
<1>2. ASSUME NEW x \in Recorder, Leave(x)
      PROVE  runState \in Active
  BY <1>2 DEF Leave, Verdict
<1>3. CASE LaneStep
  BY <1>3
  DEF LaneStep, HandleLiveStart, OpenRecordingSession, Opens, AddRecorder, HandleLiveEnd,
      EndNormally, Verdict, HandleListenStop, RemoveRecorder, RecorderRemoved, NoRecorder,
      HandleUserStop, EndByUser, HandleRoomNameChanged, HandlersReturn, runVars
<1>4. CASE ControlCalled \/ ControlStep
  BY <1>4
  DEF ControlCalled, ControlStep, StartBegins, StartWaited, StartChecks, StartForgets,
      StartListener, StartReturns, StopRemoves, StopDispatches, StopWaits, StopReturns, runVars
<1> QED  BY <1>1, <1>2, <1>3, <1>4, PollsAreQuiet

\* Who listens for a room has done so before, or has just been added.
LEMMA WatchedStays ==
  ASSUME Types, CallsWait, [Next]_vars, Watched', ~StartListener
  PROVE  Watched /\ monitor' = monitor
<1> USE NamesAreNotNone DEF Types, ListenerTypes, Watched
<1>1. CASE UNCHANGED <<monitor, lstate>>
  BY <1>1
<1>2. ASSUME NEW l \in Listener, SelfClose(l)
      PROVE  Watched /\ monitor' = monitor
  BY <1>2 DEF SelfClose, CloseListener
<1>3. CASE StartForgets \/ StopRemoves
  BY <1>3 DEF StartForgets, StopRemoves
<1>4. CASE StartReturns
  BY <1>4 DEF StartReturns, CallsWait
<1> QED  BY <1>1, <1>2, <1>3, <1>4, ListenersKept

\* A listener comes to own the run only when it is added.
LEMMA OwnStays ==
  ASSUME Types, [Next]_vars, NEW l \in Listener, own'[l], ~StartListener
  PROVE  own[l]
BY ListenerFrame
DEF ListenerStep, SelfClose, FirstPollIsQuiet, Announce, PollAnswers, StartRearms, StartForgets,
    StopRemoves, StartReturns, listenerVars, Types, ListenerTypes

LEMMA MonitoredStays ==
  ASSUME Types, CallsWait, [Next]_vars, Monitored', ~StartListener
  PROVE  Monitored /\ monitor' = monitor
<1>1. Watched /\ monitor' = monitor /\ monitor \in Listener
  BY WatchedStays, RoomNames DEF Monitored, Monitoring, Watched, Types, ListenerTypes
<1>2. own[monitor]
  BY <1>1, OwnStays DEF Monitored, Monitoring
<1>3. runState \notin Terminal
  <2>1. CASE runState' = runState
    BY <2>1 DEF Monitored, Monitoring
  <2>2. CASE runState' # runState
    <3>1. ~StartRearms
      BY <1>1, <2>2 DEF StartRearms, Monitored, Monitoring, runVars
    <3>2. ~(StopBegins \/ StartUndone)
      BY <2>2 DEF StopBegins, StartUndone, Monitored, Monitoring, Terminal
    <3> QED  BY <2>2, <3>1, <3>2, RunChanges DEF Active, Terminal
  <2> QED  BY <2>1, <2>2
<1> QED  BY <1>1, <1>2, <1>3 DEF Watched, Monitored, Monitoring

\* A listener's view of the room changes when it tells; a new listener has none.
LEMMA LiveFrame ==
  ASSUME Types, [Next]_vars, NEW l \in Listener
  PROVE  \/ live'[l] = live[l]
         \/ Announce(l) /\ live'[l] = (news[l] # "LiveEnd")
         \/ StartListener /\ ~live'[l] /\ lpc'[l] = "refresh"
<1> USE DEF Types, ListenerTypes
<1>1. CASE UNCHANGED live
  BY <1>1
<1>2. CASE StartListener
  <2>1. CASE UNCHANGED listenerVars
    BY <2>1 DEF listenerVars
  <2>2. ASSUME NEW x \in Listener, live' = [live EXCEPT ![x] = FALSE],
               lpc' = [lpc EXCEPT ![x] = "refresh"]
        PROVE  live'[l] = live[l] \/ (~live'[l] /\ lpc'[l] = "refresh")
    BY <2>2
  <2> QED  BY <1>2, <2>1, <2>2, NewListener
<1>3. ASSUME NEW x \in Listener, Announce(x)
      PROVE  live'[l] = live[l] \/ (Announce(l) /\ live'[l] = (news[l] # "LiveEnd"))
  <2>1. live' = [live EXCEPT ![x] = news[x] # "LiveEnd"]
    BY <1>3 DEF Announce
  <2> QED  BY <1>3, <2>1
<1>4. \/ UNCHANGED live
      \/ StartListener \/ \E x \in Listener : Announce(x)
  BY ListenerFrame
  DEF ListenerStep, SelfClose, FirstPollIsQuiet, PollAnswers, StartRearms, StartForgets,
      StopRemoves, StartReturns, listenerVars
<1> QED  BY <1>1, <1>2, <1>3, <1>4

\* A listener that has just been added knows of no broadcast.
LEMMA NewIsQuiet ==
  ASSUME Types, Stopping, StartListener, Watched'
  PROVE  /\ monitor' \in Listener /\ ~live'[monitor']
         /\ cpc = "adding" /\ UNCHANGED <<dispatcherVars, kind>>
<1> USE DEF Types, ListenerTypes
<1>1. cpc = "adding" /\ monitor = None /\ UNCHANGED <<dispatcherVars, kind>>
  BY DEF StartListener, Stopping, laneVars
<1>2. ~UNCHANGED listenerVars
  BY <1>1 DEF listenerVars, Watched
<1>3. PICK l \in Listener : monitor' = l /\ live' = [live EXCEPT ![l] = FALSE]
  BY <1>2, NewListener
<1> QED  BY <1>1, <1>3

OldEnds ==
  \A f \in Pending :
    kind[f] \in Ends => \E e \in Pending : kind[e] = "LiveStart" /\ f \in ahead[e]

\* Ends stay behind nothing new, but for one that a listener tells.
LEMMA OldEndsStay ==
  ASSUME DispatcherInv, Types, HandlersAt, OldEnds, [Next]_vars
  PROVE  \/ OldEnds'
         \/ \E l \in Listener : SelfClose(l) /\ CloseListener(l)
         \/ \E l \in Listener : Announce(l) /\ MayDispatch(l) /\ Emit(news[l])
         \/ StartForgets \/ StopRemoves
<1> USE DEF Types
<1>1. ASSUME UNCHANGED laneVars
      PROVE  OldEnds'
  BY <1>1, NothingMoves DEF laneVars, OldEnds
<1>2. ASSUME Emit("UserStop")
      PROVE  OldEnds'
  BY <1>2, EmitFacts DEF OldEnds, Ends
<1>3. ASSUME NEW e \in Event, Handle(e), kind' = kind
      PROVE  OldEnds'
  BY <1>3, HandleFacts DEF OldEnds
<1>4. ASSUME NEW e \in Event, Done(e)
      PROVE  OldEnds'
  <2>1. /\ Pending' = Pending \ {e} /\ ahead[e] = {}
        /\ \A x \in Pending' : ahead'[x] = ahead[x] \ {e} /\ kind'[x] = kind[x]
    BY <1>4, DoneFacts
  <2>2. ASSUME NEW f \in Pending', kind'[f] \in Ends
        PROVE  \E x \in Pending' : kind'[x] = "LiveStart" /\ f \in ahead'[x]
    <3>1. PICK x \in Pending : kind[x] = "LiveStart" /\ f \in ahead[x]
      BY <2>1, <2>2 DEF OldEnds
    <3>2. x \in Pending' /\ f # e
      BY <2>1, <2>2, <3>1
    <3> QED  BY <2>1, <3>1, <3>2
  <2> QED  BY <2>2 DEF OldEnds
<1>5. CASE LaneStep
  <2>1. ASSUME NEW e \in Event, RemoveRecorder(e)
        PROVE  OldEnds'
    BY <2>1, NothingMoves DEF RemoveRecorder, OldEnds
  <2> QED
    BY <1>3, <1>4, <1>5, <2>1
    DEF LaneStep, HandleLiveStart, AddRecorder, HandleLiveEnd, HandleListenStop,
        RecorderRemoved, NoRecorder, HandleUserStop, HandleRoomNameChanged, HandlersReturn
<1>6. ASSUME NEW l \in Listener, SelfClose(l)
      PROVE  OldEnds' \/ CloseListener(l)
  BY <1>1, <1>6 DEF SelfClose
<1>7. ASSUME NEW l \in Listener, Announce(l)
      PROVE  OldEnds' \/ (MayDispatch(l) /\ Emit(news[l]))
  BY <1>1, <1>7 DEF Announce
<1>8. CASE Quiet \/ Split \/ \E x \in Recorder : Leave(x)
  BY <1>1, <1>8 DEF Quiet, Split, Leave, laneVars
<1>9. CASE ControlCalled \/ ControlStep
  <2>1. ASSUME Wait(Control) \/ Return(Control) \/ GiveUp(Control), kind' = kind
        PROVE  OldEnds'
    BY <2>1, CallFacts, RoomNames DEF OldEnds
  <2> QED
    BY <1>1, <1>2, <1>9, <2>1
    DEF ControlCalled, ControlStep, StartBegins, StopBegins, StartWaited, StartChecks,
        StartRearms, StartListener, StartReturns, StartUndone, StopDispatches, StopWaits,
        StopReturns, laneVars
<1> QED  BY <1>5, <1>6, <1>7, <1>8, <1>9, PollsAreQuiet

LEMMA EndsAreOldStep ==
  ASSUME DispatcherInv, Types, HandlersAt, OneListener, Stopping, Controlled, CallsWait,
         NameOfLive, EndsAreOld, [Next]_vars
  PROVE  EndsAreOld'
<1> USE NamesAreNotNone DEF Types, ListenerTypes
<1> SUFFICES ASSUME Watched', live'[monitor']
             PROVE  OldEnds'
  BY DEF EndsAreOld, OldEnds
<1>1. /\ ~StartListener /\ Watched /\ monitor' = monitor
      /\ monitor \in Listener /\ live'[monitor] /\ lstate'[monitor] # "stopped"
  BY NewIsQuiet, WatchedStays DEF Watched
<1>2. CASE Announce(monitor)
  <2>1. Emit(news[monitor]) /\ news[monitor] # "LiveEnd"
    BY <1>1, <1>2 DEF Announce, MayDispatch, Watched
  <2>2. PICK e \in Event : /\ e \notin Pending /\ Pending' = Pending \cup {e}
                           /\ ahead'[e] = Pending /\ kind'[e] = news[monitor]
                           /\ \A x \in Pending : ahead'[x] = ahead[x] /\ kind'[x] = kind[x]
    BY <2>1, EmitFacts
  <2>3. CASE news[monitor] = "LiveStart"
    BY <2>2, <2>3 DEF OldEnds, Ends
  <2>4. CASE news[monitor] # "LiveStart"
    <3>1. news[monitor] = "RoomNameChanged" /\ live[monitor]
      BY <1>1, <1>2, <2>1, <2>4 DEF Announce, NameOfLive
    <3>2. OldEnds
      BY <1>1, <3>1 DEF EndsAreOld, OldEnds
    <3> QED  BY <2>2, <3>1, <3>2 DEF OldEnds, Ends
  <2> QED  BY <2>3, <2>4
<1>3. CASE ~Announce(monitor)
  <2>1. live[monitor]
    BY <1>1, <1>3, LiveFrame
  <2>2. OldEnds
    BY <1>1, <2>1 DEF EndsAreOld, OldEnds
  <2>3. ASSUME NEW l \in Listener, SelfClose(l), CloseListener(l)
        PROVE  FALSE
    BY <1>1, <2>3 DEF CloseListener, OneListener
  <2>4. ASSUME NEW l \in Listener, Announce(l), MayDispatch(l)
        PROVE  FALSE
    BY <1>3, <2>4 DEF MayDispatch, OneListener
  <2>5. ~(StartForgets \/ StopRemoves)
    BY <1>1 DEF StartForgets, StopRemoves
  <2> QED  BY <2>2, <2>3, <2>4, <2>5, OldEndsStay
<1> QED  BY <1>2, <1>3

\* What a listener is about to tell, a poll has just found out.
LEMMA NewsFrame ==
  ASSUME Types, [Next]_vars, NEW l \in Listener, lpc'[l] = "news"
  PROVE  \/ lpc[l] = "news" /\ news'[l] = news[l]
         \/ \E k \in Kind : PollAnswers(l, k)
<1> USE DEF Types, ListenerTypes
<1>1. CASE UNCHANGED <<lpc, news>>
  BY <1>1
<1>2. ASSUME NEW x \in Listener, ListenerStep(x)
      PROVE  lpc[l] = "news" /\ news'[l] = news[l]
  BY <1>2 DEF ListenerStep, SelfClose, FirstPollIsQuiet, Announce
<1>3. ASSUME NEW x \in Listener, NEW k \in Kind, PollAnswers(x, k), x # l
      PROVE  lpc[l] = "news" /\ news'[l] = news[l]
  BY <1>3 DEF PollAnswers
<1>4. CASE StartListener
  <2>1. CASE UNCHANGED listenerVars
    BY <1>1, <2>1 DEF listenerVars
  <2>2. CASE ~UNCHANGED listenerVars
    <3>1. PICK x \in Listener : lpc' = [lpc EXCEPT ![x] = "refresh"] /\ news' = news
      BY <1>4, <2>2, NewListener
    <3> QED  BY <3>1
  <2> QED  BY <2>1, <2>2
<1> QED
  BY <1>1, <1>2, <1>3, <1>4, ListenerFrame
  DEF StartRearms, StartForgets, StopRemoves, StartReturns, listenerVars

LEMMA NameOfLiveStep ==
  ASSUME Types, NameOfLive, [Next]_vars
  PROVE  NameOfLive'
<1> USE DEF Types, ListenerTypes
<1> SUFFICES ASSUME NEW l \in Listener, lpc'[l] = "news", news'[l] \notin {"LiveStart", "LiveEnd"}
             PROVE  news'[l] = "RoomNameChanged" /\ live'[l]
  BY DEF NameOfLive
<1>1. live'[l] = live[l]
  BY LiveFrame DEF Announce, SelfClose
<1>2. CASE lpc[l] = "news" /\ news'[l] = news[l]
  BY <1>1, <1>2 DEF NameOfLive
<1>3. ASSUME NEW k \in Kind, PollAnswers(l, k)
      PROVE  news'[l] = "RoomNameChanged" /\ live'[l]
  BY <1>1, <1>3 DEF PollAnswers, Sees
<1> QED  BY <1>2, <1>3, NewsFrame

\* Who asks has asked before, and has not told yet, or has just found out.
LEMMA AskedBefore ==
  ASSUME Types, CallsWait, [Next]_vars, NEW l \in Listener, Asking(l)'
  PROVE  \/ Asking(l) /\ ~Announce(l) /\ ~SelfClose(l)
         \/ PollAnswers(l, "LiveStart") /\ lstate[l] # "stopped"
<1> USE DEF Types, ListenerTypes
<1>1. lpc'[l] = "news" /\ news'[l] = "LiveStart" /\ lstate'[l] # "stopped"
  BY DEF Asking
<1>2. lstate[l] # "stopped"
  <2>1. ASSUME NEW x \in Listener, SelfClose(x)
        PROVE  lstate[l] # "stopped"
    BY <1>1, <2>1 DEF SelfClose, CloseListener
  <2>2. CASE StartForgets \/ StopRemoves
    BY <1>1, <2>2 DEF StartForgets, StopRemoves, CloseListener
  <2>3. CASE StartListener
    BY <1>1, <2>3, NewListener DEF listenerVars
  <2>4. CASE StartReturns
    BY <1>1, <2>4 DEF StartReturns, CallsWait
  <2> QED  BY <1>1, <2>1, <2>2, <2>3, <2>4, ListenersKept
<1>3. ~Announce(l) /\ ~SelfClose(l)
  BY <1>1 DEF Announce, SelfClose
<1>4. ASSUME NEW k \in Kind, PollAnswers(l, k)
      PROVE  k = "LiveStart"
  BY <1>1, <1>4 DEF PollAnswers
<1> QED  BY <1>1, <1>2, <1>3, <1>4, NewsFrame DEF Asking

\* The run of a listener is taken from it when the room is re-armed.
LEMMA OwnLost ==
  ASSUME Types, [Next]_vars, NEW l \in Listener, own[l], ~own'[l]
  PROVE  StartRearms /\ cpc = "free" /\ cpc' = "armed"
<1> USE DEF Types, ListenerTypes
<1>1. CASE UNCHANGED own
  BY <1>1
<1>2. CASE StartRearms
  BY <1>2 DEF StartRearms, Goto
<1>3. CASE StartListener
  BY <1>3, NewListener DEF listenerVars
<1> QED
  BY <1>1, <1>2, <1>3, ListenerFrame
  DEF ListenerStep, SelfClose, FirstPollIsQuiet, Announce, PollAnswers, StartForgets, StopRemoves,
      StartReturns, listenerVars

\* A stop goes on to close the listener.
LEMMA StoppingGoesOn ==
  ASSUME [Next]_vars, cpc = "stopping"
  PROVE  cpc' = "stopping" \/ StopRemoves
<1>1. CASE ControlCalled \/ ControlStep
  BY <1>1
  DEF ControlCalled, ControlStep, StartBegins, StopBegins, StartWaited, StartChecks,
      StartRearms, StartForgets, StartListener, StartReturns, StartUndone, StopDispatches,
      StopWaits, StopReturns
<1>2. CASE ~(ControlCalled \/ ControlStep)
  BY <1>2, PollsAreQuiet
  DEF Quiet, SelfClose, Announce, Split, Leave, LaneStep, HandleLiveStart, AddRecorder,
      HandleLiveEnd, HandleListenStop, RemoveRecorder, RecorderRemoved, NoRecorder,
      HandleUserStop, HandleRoomNameChanged, HandlersReturn, controlVars
<1> QED  BY <1>1, <1>2

LEMMA AskedOnceStep ==
  ASSUME DispatcherInv, Types, HandlersAt, OneListener, Stopping, CallsWait,
         AskedOnce, NoOldStart, StartIsSeen, [Next]_vars
  PROVE  AskedOnce'
<1> USE NamesAreNotNone DEF Types, ListenerTypes
<1> SUFFICES ASSUME ~missed', NEW l \in Listener, Asking(l)'
             PROVE  ~StartPending' /\ (cpc' = "stopping" \/ (own'[l] /\ runState' = "waiting"))
  BY DEF AskedOnce, Asking
<1>1. ~missed
  BY MissedStays
<1>2. CASE Asking(l) /\ ~Announce(l) /\ ~SelfClose(l)
  <2>1. ~StartPending /\ monitor = l /\ lstate[l] # "stopped"
    BY <1>1, <1>2 DEF AskedOnce, Asking, OneListener
  <2>2. ~StartPending'
    <3>1. StartsKept
      BY <1>2, <2>1, NewStarts DEF Asking, OneListener
    <3> QED  BY <2>1, <3>1 DEF StartsKept, StartPending
  <2>3. CASE cpc = "stopping"
    <3>1. ~StopRemoves
      <4>1. lstate'[l] # "stopped"
        BY DEF Asking
      <4> QED  BY <2>1, <4>1 DEF StopRemoves, CloseListener
    <3> QED  BY <2>2, <2>3, <3>1, StoppingGoesOn
  <2>4. CASE own[l] /\ runState = "waiting"
    <3>1. Monitored
      BY <2>1, <2>4 DEF Monitored, Monitoring, Terminal
    <3>2. own'[l]
      BY <1>1, <1>2, <2>4, <3>1, OwnLost DEF NoOldStart
    <3>3. CASE runState' = runState
      BY <2>2, <2>4, <3>2, <3>3
    <3>4. CASE runState' # runState
      <4>1. ASSUME NEW e \in Event, HandleLiveStart(e)
            PROVE  FALSE
        BY <2>1, <4>1, HandleFacts DEF HandleLiveStart, StartPending
      <4>2. ~StartRearms /\ ~StartUndone
        BY <1>1, <2>1, <2>4, <3>1, <3>4 DEF StartRearms, StartUndone, Stopping
      <4>3. StopBegins
        BY <2>4, <3>4, <4>1, <4>2, RunChanges DEF Active
      <4> QED  BY <2>2, <3>4, <4>3 DEF StopBegins, Goto
    <3> QED  BY <3>3, <3>4
  <2> QED  BY <1>1, <1>2, <2>3, <2>4 DEF AskedOnce
<1>3. CASE PollAnswers(l, "LiveStart") /\ lstate[l] # "stopped"
  <2>1. own'[l] /\ runState' = "waiting"
    BY <1>3 DEF PollAnswers, Sees, Admits, runVars
  <2>2. ~live[l] /\ monitor = l /\ UNCHANGED <<dispatcherVars, kind>>
    BY <1>3 DEF PollAnswers, Sees, OneListener, laneVars
  <2>3. ~StartPending
    BY <1>1, <1>3, <2>2 DEF StartIsSeen, Watched
  <2>4. ~StartPending'
    BY <2>2, <2>3, NothingMoves DEF StartPending
  <2> QED  BY <2>1, <2>4
<1> QED  BY <1>2, <1>3, AskedBefore

\* How startListening comes to where it is.
LEMMA StartFrame ==
  ASSUME [Next]_vars, cpc' # cpc
  PROVE  /\ cpc' \in {"starting", "waited"} =>
              \/ StartBegins /\ cpc' = "starting" /\ Wait(Control) /\ UNCHANGED kind
              \/ StartBegins /\ cpc' = "waited" /\ tail = None /\ UNCHANGED laneVars
              \/ cpc = "starting" /\ cpc' = "waited" /\ Return(Control) /\ UNCHANGED kind
         /\ cpc' = "free" => cpc = "waited"
         /\ cpc' = "armed" => cpc = "free"
         /\ cpc' = "adding" => cpc = "armed"
<1>1. CASE ControlCalled \/ ControlStep
  <2>1. CASE StartBegins
    BY <2>1 DEF StartBegins, Goto
  <2>2. CASE StartWaited \/ StartChecks \/ StartRearms \/ StartForgets \/ StartListener
    BY <2>2 DEF StartWaited, StartChecks, StartRearms, StartForgets, StartListener, Goto
  <2> QED
    BY <1>1, <2>1, <2>2
    DEF ControlCalled, ControlStep, StopBegins, StartReturns, StartUndone, StopRemoves,
        StopDispatches, StopWaits, StopReturns, Goto
<1>2. CASE ~(ControlCalled \/ ControlStep)
  BY <1>2, PollsAreQuiet
  DEF Quiet, SelfClose, Announce, Split, Leave, LaneStep, HandleLiveStart, AddRecorder,
      HandleLiveEnd, HandleListenStop, RemoveRecorder, RecorderRemoved, NoRecorder,
      HandleUserStop, HandleRoomNameChanged, HandlersReturn, controlVars
<1> QED  BY <1>1, <1>2

\* A call that still waits has been promised what it was promised before.
LEMMA OwedKept ==
  ASSUME DispatcherInv, [NextDispatcher]_dispatcherVars, NEW w \in Waiter, NEW e \in Pending',
         e \in owed[w], waiting[w] # None, waiting'[w] # None
  PROVE  e \in owed'[w]
<1> USE DEF DispatcherInv, DispatcherTypeOK
<1>1. CASE UNCHANGED dispatcherVars
  BY <1>1 DEF dispatcherVars
<1>2. ASSUME NEW f \in Event, Dispatch(f) \/ Handle(f)
      PROVE  e \in owed'[w]
  BY <1>2 DEF Dispatch, Handle
<1>3. ASSUME NEW f \in Event, Finish(f)
      PROVE  e \in owed'[w]
  <2>1. f # e
    BY <1>3 DEF Finish, Pending
  <2> QED  BY <1>3, <2>1 DEF Finish
<1>4. ASSUME NEW x \in Waiter, Wait(x) \/ Return(x) \/ GiveUp(x)
      PROVE  e \in owed'[w]
  BY <1>4 DEF Wait, Return, GiveUp
<1> QED  BY <1>1, <1>2, <1>3, <1>4 DEF NextDispatcher

LEMMA NoOldStartStep ==
  ASSUME DispatcherInv, Types, HandlersAt, OneListener, Controlled, CallsWait, CallsWait',
         AskedOnce, NoOldStart, [Next]_vars
  PROVE  NoOldStart'
<1> USE RoomNames, NamesAreNotNone DEF Types, ListenerTypes
<1> DEFINE Before == {"starting", "waited", "free", "armed", "adding"}
<1> SUFFICES ASSUME ~missed'
             PROVE  /\ cpc' \in {"starting", "waited", "free"} => ~Monitored'
                    /\ cpc' = "starting" =>
                         \A e \in Pending' : kind'[e] = "LiveStart" => e \in owed'[Control]
                    /\ cpc' \in {"waited", "free", "armed", "adding"} => ~StartPending'
  BY DEF NoOldStart
<1>1. ~missed /\ ~Fault
  BY MissedStays DEF Fault
<1>2. ASSUME cpc \in Before
      PROVE  StartsKept
  <2>1. ASSUME NEW l \in Listener, Asking(l)
        PROVE  FALSE
    <3>1. own[l] /\ runState = "waiting" /\ monitor = l /\ lstate[l] # "stopped"
      BY <1>1, <1>2, <2>1 DEF AskedOnce, Asking, OneListener
    <3>2. Monitored
      BY <3>1 DEF Monitored, Monitoring, Terminal
    <3> QED  BY <1>1, <1>2, <3>1, <3>2 DEF NoOldStart, Controlled
  <2> QED  BY <2>1, NewStarts
<1>3. ASSUME cpc' \in {"starting", "waited", "free"}
      PROVE  ~Monitored'
  <2>1. ~Monitored
    <3>1. CASE cpc' = cpc
      BY <1>1, <1>3, <3>1 DEF NoOldStart
    <3>2. CASE StartBegins
      BY <1>1, <3>2 DEF StartBegins
    <3> QED  BY <1>1, <1>3, <3>1, <3>2, StartFrame DEF NoOldStart
  <2>2. ~StartListener
    BY <1>3, NewListener DEF StartListener
  <2> QED  BY <2>1, <2>2, MonitoredStays
<1>4. ASSUME cpc' = "starting", NEW e \in Pending', kind'[e] = "LiveStart"
      PROVE  e \in owed'[Control]
  <2>1. CASE cpc = "starting"
    <3>1. e \in owed[Control]
      BY <1>1, <1>2, <1>4, <2>1 DEF NoOldStart, StartsKept
    <3> QED  BY <1>4, <2>1, <3>1, OwedKept, StepOfDispatcher DEF CallsWait
  <2>2. CASE Wait(Control)
    BY <2>2, CallFacts
  <2> QED  BY <1>4, <2>1, <2>2, StartFrame
<1>5. ASSUME cpc' \in {"waited", "free", "armed", "adding"}
      PROVE  ~StartPending'
  <2>1. CASE cpc \in {"waited", "free", "armed", "adding"}
    BY <1>1, <1>2, <2>1 DEF NoOldStart, StartsKept, StartPending
  <2>2. CASE tail = None /\ UNCHANGED laneVars
    BY <2>2, LaneIsEmpty, NothingMoves DEF laneVars, StartPending
  <2>3. CASE cpc = "starting" /\ Return(Control) /\ UNCHANGED kind
    BY <1>1, <2>3, CallFacts DEF NoOldStart, StartPending
  <2> QED  BY <1>5, <2>1, <2>2, <2>3, StartFrame
<1> QED  BY <1>3, <1>4, <1>5

LEMMA StartIsSeenStep ==
  ASSUME DispatcherInv, Types, HandlersAt, OneListener, Stopping, Controlled, NewRun, EndsWait,
         CallsWait, AskedOnce, NoOldStart, StartIsSeen, [Next]_vars
  PROVE  StartIsSeen'
<1> USE NamesAreNotNone DEF Types, ListenerTypes
<1> SUFFICES ASSUME ~missed'
             PROVE  /\ Watched' /\ StartPending' => live'[monitor']
                    /\ \A e, f \in Pending' :
                         kind'[e] = "LiveStart" /\ kind'[f] = "LiveStart" => e = f
  BY DEF StartIsSeen
<1>1. ~missed
  BY MissedStays
<1>2. \A e, f \in Pending' : kind'[e] = "LiveStart" /\ kind'[f] = "LiveStart" => e = f
  <2>1. CASE StartsKept
    BY <1>1, <2>1 DEF StartsKept, StartIsSeen
  <2>2. ASSUME NEW l \in Listener, Asking(l), Emit("LiveStart")
        PROVE  \A e, f \in Pending' : kind'[e] = "LiveStart" /\ kind'[f] = "LiveStart" => e = f
    <3>1. \A e \in Pending : kind[e] # "LiveStart"
      BY <1>1, <2>2 DEF AskedOnce, StartPending
    <3> QED  BY <2>2, <3>1, EmitFacts
  <2> QED  BY <2>1, <2>2, NewStarts
<1>3. ASSUME Watched', StartPending'
      PROVE  live'[monitor']
  <2>1. ~StartListener
    <3>1. CASE StartListener
      <4>1. cpc = "adding" /\ UNCHANGED <<dispatcherVars, kind>>
        BY <1>3, <3>1, NewIsQuiet
      <4>2. ~StartPending
        BY <1>1, <4>1 DEF NoOldStart
      <4> QED  BY <1>3, <4>1, <4>2, NothingMoves DEF StartPending
    <3> QED  BY <3>1
  <2>2. Watched /\ monitor' = monitor /\ monitor \in Listener /\ lstate'[monitor] # "stopped"
    BY <1>3, <2>1, WatchedStays DEF Watched
  <2>3. CASE StartsKept
    <3>1. StartPending /\ live[monitor]
      BY <1>1, <1>3, <2>2, <2>3 DEF StartsKept, StartPending, StartIsSeen
    <3>2. CASE Announce(monitor)
      <4>1. news[monitor] # "LiveEnd"
        BY <2>2, <3>1, <3>2 DEF Announce, EndsWait, Watched
      <4> QED  BY <2>2, <3>2, <4>1 DEF Announce
    <3> QED  BY <2>1, <2>2, <3>1, <3>2, LiveFrame
  <2>4. ASSUME NEW l \in Listener, Announce(l), Asking(l)
        PROVE  live'[monitor']
    <3>1. l = monitor
      BY <2>4 DEF Asking, OneListener
    <3> QED  BY <2>2, <2>4, <3>1 DEF Announce, Asking
  <2> QED  BY <2>3, <2>4, NewStarts
<1> QED  BY <1>2, <1>3

\* While a broadcast is being handled its session stays as it has been opened.
LEMMA AddingFrame ==
  ASSUME DispatcherInv, HandlersAt, [Next]_vars
  PROVE  /\ at = "adding" =>
              \/ at' = "adding" /\ UNCHANGED <<current, open>>
              \/ \E e \in Event : AddRecorder(e)
         /\ at # "adding" /\ at' = "adding" => \E e \in Event : HandleLiveStart(e)
<1>1. ASSUME NEW e \in Event, Handle(e)
      PROVE  at = "begin"
  BY <1>1, HandleFacts
<1>2. CASE LaneStep
  BY <1>1, <1>2
  DEF LaneStep, HandleLiveStart, AddRecorder, HandleLiveEnd, HandleListenStop, RemoveRecorder,
      RecorderRemoved, NoRecorder, HandleUserStop, HandleRoomNameChanged, HandlersReturn, Done
<1>3. CASE UNCHANGED <<at, current, open>>
  BY <1>3
<1>4. CASE \/ Quiet \/ Split \/ \E x \in Recorder : Leave(x)
           \/ \E l \in Listener : SelfClose(l) \/ Announce(l)
  BY <1>3, <1>4
  DEF Quiet, Split, Leave, SelfClose, Announce, CloseListener, Emit, runVars, laneVars
<1>5. CASE ControlCalled \/ ControlStep
  BY <1>3, <1>5
  DEF ControlCalled, ControlStep, StartBegins, StopBegins, StartWaited, StartChecks,
      StartRearms, StartForgets, StartListener, StartReturns, StartUndone, StopRemoves,
      StopDispatches, StopWaits, StopReturns, CloseListener, Emit, runVars, laneVars
<1> QED  BY <1>2, <1>4, <1>5, PollsAreQuiet

\* A broadcast leaves the lane when the recorder manager has heard of it.
LEMMA StartLost ==
  ASSUME DispatcherInv, Types, HandlersAt, StartPending, ~StartPending', [Next]_vars
  PROVE  \E e \in Event : AddRecorder(e)
<1> USE DEF Types
<1>1. PICK f \in Pending : kind[f] = "LiveStart" /\ (f \notin Pending' \/ kind'[f] # "LiveStart")
  BY DEF StartPending
<1>2. ~UNCHANGED laneVars
  BY <1>1, NothingMoves DEF laneVars
<1>3. ASSUME NEW k, Emit(k)
      PROVE  FALSE
  BY <1>1, <1>3, EmitFacts
<1>4. ASSUME NEW e \in Event, Handle(e), kind' = kind
      PROVE  FALSE
  BY <1>1, <1>4, HandleFacts
<1>5. ASSUME NEW e \in Event, RemoveRecorder(e)
      PROVE  FALSE
  BY <1>1, <1>5, NothingMoves DEF RemoveRecorder
<1>6. ASSUME NEW e \in Event, RecorderRemoved(e) \/ NoRecorder(e) \/ HandlersReturn(e)
      PROVE  FALSE
  <2>1. Done(e) /\ at # "adding"
    BY <1>6 DEF RecorderRemoved, NoRecorder, HandlersReturn
  <2>2. kind[e] # "LiveStart"
    BY <2>1, DoneFacts DEF HandlersAt
  <2> QED  BY <1>1, <2>1, <2>2, DoneFacts
<1>7. CASE LaneStep
  BY <1>4, <1>5, <1>6, <1>7
  DEF LaneStep, HandleLiveStart, HandleLiveEnd, HandleListenStop, HandleUserStop,
      HandleRoomNameChanged
<1>8. CASE \/ Quiet \/ Split \/ \E x \in Recorder : Leave(x)
           \/ \E l \in Listener : SelfClose(l) \/ Announce(l)
  BY <1>2, <1>3, <1>8 DEF Quiet, Split, Leave, SelfClose, Announce, CloseListener, laneVars
<1>9. CASE ControlCalled \/ ControlStep
  <2>1. ASSUME Wait(Control) \/ Return(Control) \/ GiveUp(Control), kind' = kind
        PROVE  FALSE
    BY <1>1, <2>1, CallFacts, RoomNames
  <2> QED  BY <1>2, <1>3, <1>9, <2>1, ControlMoves
<1> QED  BY <1>7, <1>8, <1>9, PollsAreQuiet

LEMMA SessionReadyStep ==
  ASSUME DispatcherInv, Types, HandlersAt, OneListener, Stopping, Controlled, CallsWait,
         AskedOnce, NoOldStart, StartIsSeen, SessionReady, [Next]_vars
  PROVE  SessionReady'
<1> USE NamesAreNotNone DEF Types, ListenerTypes
<1> SUFFICES ASSUME ~missed', Monitored'
             PROVE  /\ StartPending' /\ at' # "adding" => runState' = "waiting"
                    /\ at' = "adding" => current' /\ open'
  BY DEF SessionReady
<1>1. ~missed /\ ~Fault
  BY MissedStays DEF Fault
<1>2. at = "adding" => StartPending
  BY DEF HandlersAt, Running, Pending, StartPending
<1>3. CASE StartListener
  <2>1. cpc = "adding" /\ UNCHANGED <<dispatcherVars, kind>>
    BY <1>3, NewIsQuiet DEF Monitored, Monitoring, Watched
  <2>2. ~StartPending
    BY <1>1, <2>1 DEF NoOldStart
  <2>3. ~StartPending' /\ at' # "adding"
    BY <1>2, <1>3, <2>1, <2>2, NothingMoves DEF StartListener, laneVars, StartPending
  <2> QED  BY <2>3
<1>4. CASE ~StartListener
  <2>1. Monitored /\ monitor' = monitor
    BY <1>4, MonitoredStays
  <2>2. ASSUME NEW e \in Event, HandleLiveStart(e)
        PROVE  runState = "waiting" /\ at' = "adding" /\ current' /\ open'
    <3>1. StartPending /\ at = "begin"
      BY <2>2, HandleFacts DEF HandleLiveStart, StartPending
    <3>2. runState = "waiting"
      BY <1>1, <2>1, <3>1 DEF SessionReady
    <3> QED  BY <1>1, <2>2, <3>2 DEF HandleLiveStart, OpenRecordingSession, Opens
  <2>3. ASSUME at' = "adding"
        PROVE  current' /\ open'
    <3>1. CASE at # "adding"
      BY <2>2, <2>3, <3>1, AddingFrame
    <3>2. CASE at = "adding"
      <4>1. current /\ open
        BY <1>1, <2>1, <3>2 DEF SessionReady
      <4>2. ASSUME NEW e \in Event, AddRecorder(e)
            PROVE  FALSE
        BY <2>3, <4>2 DEF AddRecorder, Done
      <4> QED  BY <3>2, <4>1, <4>2, AddingFrame
    <3> QED  BY <3>1, <3>2
  <2>4. ASSUME StartPending', at' # "adding"
        PROVE  runState' = "waiting"
    <3>1. CASE StartsKept
      <4>1. PICK e \in Pending' : kind'[e] = "LiveStart"
        BY <2>4 DEF StartPending
      <4>2. e \in Pending /\ kind[e] = "LiveStart" /\ StartPending
        BY <3>1, <4>1 DEF StartsKept, StartPending
      <4>3. at # "adding"
        <5>1. ASSUME NEW f \in Event, AddRecorder(f)
              PROVE  FALSE
          <6>1. Done(f) /\ kind[f] = "LiveStart"
            BY <5>1 DEF AddRecorder
          <6>2. f \in Pending /\ Pending' = Pending \ {f}
            BY <6>1, DoneFacts
          <6> QED  BY <1>1, <4>1, <4>2, <6>1, <6>2 DEF StartIsSeen
        <5> QED  BY <2>4, <5>1, AddingFrame
      <4>4. runState = "waiting"
        BY <1>1, <2>1, <4>2, <4>3 DEF SessionReady
      <4>5. CASE runState' # runState
        <5>1. ~(StopBegins \/ StartUndone \/ StartRearms)
          BY <4>4, <4>5 DEF StopBegins, StartUndone, StartRearms, Monitored, Monitoring, Terminal
        <5> QED  BY <2>2, <2>4, <4>4, <4>5, <5>1, RunChanges DEF Active
      <4> QED  BY <4>4, <4>5
    <3>2. ASSUME NEW l \in Listener, Announce(l), Asking(l)
          PROVE  runState' = "waiting"
      <4>1. cpc # "stopping"
        BY <2>1 DEF Stopping, Monitored, Monitoring, Terminal
      <4>2. runState = "waiting"
        BY <1>1, <3>2, <4>1 DEF AskedOnce
      <4> QED  BY <3>2, <4>2 DEF Announce, runVars
    <3> QED  BY <3>1, <3>2, NewStarts
  <2> QED  BY <2>3, <2>4
<1> QED  BY <1>3, <1>4

\* The room's recorder leaves the map only when it has been removed.
LEMMA SaverFrame ==
  ASSUME Types, [Next]_vars, saver # None, saver' = None
  PROVE  \E e \in Event : RecorderRemoved(e)
<1> USE NamesAreNotNone DEF Types
<1>1. ASSUME Restart \/ StartRecorder(rstate)
      PROVE  FALSE
  BY <1>1, NewRecorderTypes
<1>2. CASE LaneStep
  BY <1>1, <1>2
  DEF LaneStep, HandleLiveStart, AddRecorder, HandleLiveEnd, HandleListenStop, RemoveRecorder,
      NoRecorder, HandleUserStop, HandleRoomNameChanged, HandlersReturn, recorderVars
<1>3. CASE \/ Quiet \/ Split \/ \E x \in Recorder : Leave(x)
           \/ \E l \in Listener : SelfClose(l) \/ Announce(l)
  BY <1>1, <1>3 DEF Quiet, Split, Leave, SelfClose, Announce, recorderVars
<1>4. CASE ControlCalled \/ ControlStep
  BY <1>4
  DEF ControlCalled, ControlStep, StartBegins, StopBegins, StartWaited, StartChecks,
      StartRearms, StartForgets, StartListener, StartReturns, StartUndone, StopRemoves,
      StopDispatches, StopWaits, StopReturns, recorderVars
<1> QED  BY <1>2, <1>3, <1>4, PollsAreQuiet

LEMMA RecordedStep ==
  ASSUME DispatcherInv, Types, HandlersAt, OneListener, Stopping, Controlled, CallsWait,
         EndsAreOld, NameOfLive, SessionReady, Recorded, [Next]_vars
  PROVE  Recorded'
<1> USE NamesAreNotNone DEF Types, ListenerTypes
<1> SUFFICES ASSUME ~missed', Monitored', live'[monitor'], ~StartPending'
             PROVE  saver' # None
  BY DEF Recorded
<1>1. ~missed /\ ~Fault
  BY MissedStays DEF Fault
<1>2. ~StartListener
  BY NewIsQuiet DEF Monitored, Monitoring, Watched
<1>3. Monitored /\ monitor' = monitor /\ monitor \in Listener /\ lstate[monitor] # "stopped"
  BY <1>2, MonitoredStays DEF Monitored, Monitoring
<1>4. live[monitor]
  <2>1. CASE Announce(monitor)
    <3>1. Emit(news[monitor]) /\ lpc[monitor] = "news" /\ news[monitor] # "LiveEnd"
      BY <1>3, <2>1 DEF Announce, MayDispatch
    <3>2. news[monitor] # "LiveStart"
      BY <3>1, EmitFacts DEF StartPending
    <3> QED  BY <1>3, <3>1, <3>2 DEF NameOfLive
  <2> QED  BY <1>3, <2>1, LiveFrame
<1>5. CASE ~StartPending
  <2>1. saver # None
    BY <1>1, <1>3, <1>4, <1>5 DEF Recorded
  <2>2. ASSUME NEW e \in Event, RecorderRemoved(e)
        PROVE  FALSE
    <3>1. e \in Pending /\ kind[e] \in Ends
      BY <2>2 DEF RecorderRemoved, Running, Pending, HandlersAt
    <3> QED  BY <1>3, <1>4, <1>5, <3>1 DEF EndsAreOld, StartPending, Watched
  <2> QED  BY <2>1, <2>2, SaverFrame
<1>6. CASE StartPending
  <2>1. PICK e \in Event : AddRecorder(e)
    BY <1>6, StartLost
  <2>2. Accepts
    BY <1>1, <1>3, <2>1 DEF AddRecorder, SessionReady, Accepts
  <2>3. CASE StartRecorder(rstate)
    BY <2>3, NewRecorderTypes
  <2>4. CASE saver # None /\ UNCHANGED recorderVars
    BY <2>4 DEF recorderVars
  <2> QED  BY <1>1, <2>1, <2>2, <2>3, <2>4 DEF AddRecorder
<1> QED  BY <1>5, <1>6

LEMMA SeenInit == Init => SeenInv
<1> SUFFICES ASSUME Init
             PROVE  SeenInv
  OBVIOUS
<1>1. Pending = {}
  BY DEF Init, InitDispatcher, Pending
<1> QED
  BY <1>1
  DEF Init, SeenInv, EndsAreOld, NameOfLive, AskedOnce, NoOldStart, StartIsSeen, SessionReady,
      Recorded, Asking, Watched, Monitored, StartPending

THEOREM SeenInductive == Spec => []SeenInv
<1>1. RoomInv /\ DispatcherInv /\ CallsWait /\ CallsWait' /\ SeenInv /\ [Next]_vars => SeenInv'
  BY EndsAreOldStep, NameOfLiveStep, AskedOnceStep, NoOldStartStep, StartIsSeenStep,
     SessionReadyStep, RecordedStep
  DEF SeenInv, RoomInv
<1> QED  BY <1>1, SeenInit, RoomInductive, WaitsInductive, PTL DEF Spec

(* A broadcast that the room's listener has told of has a recorder, or the *)
(* event that starts one, for as long as the listener works for the run    *)
(* and takes the room for live.                                            *)
THEOREM AnnouncedIsRecorded == Spec => []SeenIsRecorded
<1>1. SeenInv => SeenIsRecorded
  BY DEF SeenInv, Recorded, SeenIsRecorded
<1> QED  BY <1>1, SeenInductive, PTL

=============================================================================
