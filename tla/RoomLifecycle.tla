---------------------------- MODULE RoomLifecycle ----------------------------
(***************************************************************************)
(* One room from the user's switch to the recorder: the listener that      *)
(* polls the platform (listeners/listener.go), its manager, the handlers   *)
(* that its events have in the lane of the room, startListening and        *)
(* stopListening (servers/recording_mode.go).  What the recording ledger   *)
(* and the recorder manager do is here as far as these components see it.  *)
(*                                                                         *)
(* The control calls of a room hold its mutex from their first to their    *)
(* last statement, so one control process stands for all callers.          *)
(***************************************************************************)
EXTENDS EventDispatcher, Naturals

CONSTANTS Listener,   \* bound: listener goroutines at one time
          Recorder,   \* bound: recorders that still run at one time
          Control,    \* the goroutine that holds lockRecordingControl
          MaxFaults   \* bound: store calls that fail

Kind == {"LiveStart", "LiveEnd", "RoomNameChanged", "ListenStop", "UserStop"}

ASSUME RoomNames ==
  /\ None \notin Listener \cup Recorder \cup Kind
  /\ Control \in Waiter
  /\ MaxFaults \in Nat

VARIABLES
  onAir,      \* the platform: the room is live
  runState,   \* the recording run of the room
  bound,      \* the run's SessionID is the room's latest session
  open,       \* the latest session has no end reason yet
  current,    \* the pipeline manager remembers an opened session
  monitor,    \* manager.savers of the listeners: the room's listener
  lstate,     \* listener.state; "begin" and "pending" are one
  own,        \* the listener's recordingRunID is the run's RunID
  live,       \* listener.status.roomStatus
  news,       \* the event that processInfo is about to dispatch
  lpc,        \* where the listener's goroutine is; "refresh": its Start polls
  saver,      \* manager.savers of the recorders: the room's recorder
  rstate,     \* a recorder: "none", "run", or told to "stop"
  mine,       \* the recorder's producer belongs to the latest session
  kind,       \* the type of an event
  at,         \* how far the handlers of the running event are
  target,     \* the recorder that a handler waits for
  cpc,        \* where the control process is
  halted,     \* history: the last control call was a stop, and it succeeded
  missed,     \* history: a fault left a broadcast or a room unattended
  faults      \* store calls that failed so far

runVars      == <<runState, bound, open, current>>
listenerVars == <<monitor, lstate, own, live, news, lpc>>
recorderVars == <<saver, rstate, mine>>
laneVars     == <<dispatcherVars, kind, at, target>>
controlVars  == <<cpc, halted>>
faultVars    == <<missed, faults>>
vars == <<onAir, runVars, listenerVars, recorderVars, laneVars, controlVars, faultVars>>

Active == {"recording", "finalizing"}
Terminal == {"completed", "paused", "stopped"}
Verdicts == {"waiting", "completed", "paused"}

Alive == {x \in Recorder : rstate[x] # "none"}

\* listener.monitoring: the listener still works for the run of the room.
Monitoring(l) == lstate[l] # "stopped" /\ own[l] /\ runState \notin Terminal

Init ==
  /\ InitDispatcher
  /\ onAir \in BOOLEAN
  /\ runState \in {"waiting", "completed", "paused", "stopped"}
  /\ bound = FALSE /\ open = FALSE /\ current = FALSE
  /\ monitor = None
  /\ lstate = [l \in Listener |-> "stopped"]
  /\ own = [l \in Listener |-> FALSE]
  /\ live = [l \in Listener |-> FALSE]
  /\ news = [l \in Listener |-> None]
  /\ lpc = [l \in Listener |-> "none"]
  /\ saver = None
  /\ rstate = [x \in Recorder |-> "none"]
  /\ mine = [x \in Recorder |-> FALSE]
  /\ kind = [e \in Event |-> None]
  /\ at = "begin" /\ target = None
  /\ cpc = "idle" /\ halted = FALSE
  /\ missed = FALSE /\ faults = 0

\* A store call fails; of the control calls the caller is told, and may repeat.
CallFails == faults < MaxFaults /\ faults' = faults + 1 /\ UNCHANGED missed

\* A store call fails, and nobody repeats what it was for.
Fault == faults < MaxFaults /\ faults' = faults + 1 /\ missed' = TRUE

(* DispatchEvent of an ordered event, under a name that is free: names are *)
(* interchangeable, so any of them will do.                                *)
Emit(k) ==
  /\ \E e \in Event : Unused(e)
  /\ LET e == CHOOSE e \in Event : Unused(e)
     IN  Dispatch(e) /\ kind' = [kind EXCEPT ![e] = k]
  /\ UNCHANGED <<at, target>>

\* Mutant: a closed listener still dispatches what it has seen.
MayAlways(l) == TRUE

\* processInfo checks the state again under eventMu, which Close holds too.
MayDispatch(l) == lstate[l] # "stopped"

\* Mutant: Close tells nobody.
CloseSilently(l) ==
  /\ lstate[l] = "running"
  /\ lstate' = [lstate EXCEPT ![l] = "stopped"]
  /\ UNCHANGED laneVars

(* listener.Close of a running listener: state and event change together,  *)
(* under eventMu.                                                          *)
CloseListener(l) ==
  /\ lstate[l] = "running"
  /\ lstate' = [lstate EXCEPT ![l] = "stopped"]
  /\ Emit("ListenStop")

-----------------------------------------------------------------------------
(* The platform.                                                           *)

Platform ==
  /\ onAir' = ~onAir
  /\ UNCHANGED <<runVars, listenerVars, recorderVars, laneVars, controlVars, faultVars>>

-----------------------------------------------------------------------------
(* The listener's goroutine.  A poll that brings no news changes nothing.  *)
(* offlineSince is not kept: the end of a broadcast may be confirmed at    *)
(* any poll of a room that is off air, once its LiveStart has been handled *)
(* (assumed: this takes less than the three minutes of the confirmation).  *)

(* run(): the run is over, has been re-armed, or cannot be read, or the    *)
(* listener has been closed: it closes itself and the goroutine returns.   *)
(* Close does nothing to a listener that is still pending: Start makes it  *)
(* running all the same, and then nobody polls for it.                     *)
SelfClose(l) ==
  /\ lpc[l] = "loop"
  /\ \/ ~Monitoring(l) /\ UNCHANGED faultVars
     \/ Monitoring(l) /\ Fault
  /\ \/ CloseListener(l)
     \/ lstate[l] # "running" /\ UNCHANGED <<lstate, laneVars>>
  /\ lpc' = [lpc EXCEPT ![l] = "none"]
  /\ UNCHANGED <<monitor, own, live, news, onAir, runVars, recorderVars, controlVars>>

\* refresh, inside Start: the first poll fails or has no news.
FirstPollIsQuiet(l) ==
  /\ lpc[l] = "refresh"
  /\ lpc' = [lpc EXCEPT ![l] = "loop"]
  /\ UNCHANGED <<monitor, lstate, own, live, news>>
  /\ UNCHANGED <<onAir, runVars, recorderVars, laneVars, controlVars, faultVars>>

\* The poll inside Start, or one of run(), an interval after Start returned.
Polls(l) ==
  \/ lpc[l] = "refresh"
  \/ lpc[l] = "loop" /\ Monitoring(l) /\ lstate[l] = "running"

\* Mutant: a new broadcast is announced whatever the run is doing.
AdmitsAlways(l) == TRUE

\* A broadcast is announced only to the listener's own, waiting run.
Admits(l) == own[l] /\ runState = "waiting"

StartPending == \E e \in Pending : kind[e] = "LiveStart"

\* What processInfo makes of an answer of the platform.
Sees(l, k) ==
  \/ onAir /\ ~live[l] /\ Admits(l) /\ k = "LiveStart"
  \/ onAir /\ live[l] /\ k = "RoomNameChanged"
  \/ ~onAir /\ live[l] /\ k = "LiveEnd" /\ ~StartPending

PollAnswers(l, k) ==
  /\ Polls(l)
  /\ Sees(l, k)
  /\ news' = [news EXCEPT ![l] = k]
  /\ lpc' = [lpc EXCEPT ![l] = "news"]
  /\ UNCHANGED <<monitor, lstate, own, live>>
  /\ UNCHANGED <<onAir, runVars, recorderVars, laneVars, controlVars, faultVars>>

(* The last part of processInfo: the event is dispatched unless the        *)
(* listener has been closed meanwhile; the status is stored either way.    *)
Announce(l) ==
  /\ lpc[l] = "news"
  /\ \/ MayDispatch(l) /\ Emit(news[l])
     \/ ~MayDispatch(l) /\ UNCHANGED laneVars
  /\ live' = [live EXCEPT ![l] = news[l] # "LiveEnd"]
  /\ news' = [news EXCEPT ![l] = None]
  /\ lpc' = [lpc EXCEPT ![l] = "loop"]
  /\ UNCHANGED <<monitor, lstate, own>>
  /\ UNCHANGED <<onAir, runVars, recorderVars, controlVars, faultVars>>

ListenerStep(l) == SelfClose(l) \/ FirstPollIsQuiet(l) \/ Announce(l)

-----------------------------------------------------------------------------
(* The recording run and the recorders, as the handlers below use them.    *)

\* The recorders of the latest session that have not left.
Producing == {x \in Alive : mine[x]}

\* Mutant: a verdict that no reader of the row knows.
VerdictUnknown(left) ==
  IF ~bound \/ runState \notin Active THEN {runState}
  ELSE IF left # {} THEN {"finalizing"}
  ELSE {"failed"}

(* finishRecordingRunCapture: the states that an ended session gives its   *)
(* run.  Which of the verdicts is the business of the recording ledger.    *)
Verdict(left) ==
  IF ~bound \/ runState \notin Active THEN {runState}
  ELSE IF left # {} THEN {"finalizing"}
  ELSE Verdicts

\* Mutant: a stopped run opens a session all the same.
OpensAlways == TRUE

\* OpenRecordingSession opens one only for a run that waits for a broadcast.
Opens == runState = "waiting"

OpenRecordingSession ==
  /\ current' = Opens
  /\ runState' = IF Opens THEN "recording" ELSE runState
  /\ bound' = (bound \/ Opens)
  /\ open' = (open \/ Opens)
  /\ mine' = [x \in Recorder |-> mine[x] /\ ~Opens]

\* EndRecordingSession at the end of a broadcast, and when the user stops.
EndNormally ==
  /\ open' = FALSE
  /\ runState' \in Verdict(Producing)
  /\ UNCHANGED <<bound, current>>

EndByUser ==
  /\ open' = FALSE
  /\ runState' = IF bound /\ runState \in Active THEN "stopped" ELSE runState
  /\ UNCHANGED <<bound, current>>

\* BeginRecordingProducer accepts a recorder.
Accepts == current /\ open

\* A name that no recorder has, and no handler waits for.
Spare(x) == x \notin Alive /\ x # target

\* addRecorderLocked: the recorder is in the map and its goroutine runs.
StartRecorder(told) ==
  /\ \E x \in Recorder : Spare(x)
  /\ LET x == CHOOSE x \in Recorder : Spare(x)
     IN  /\ rstate' = [told EXCEPT ![x] = "run"]
         /\ mine' = [mine EXCEPT ![x] = TRUE]
         /\ saver' = x

\* Close of the recorder in the map.
Told == [rstate EXCEPT ![saver] = "stop"]

\* RestartRecorder: a new recorder first, then the old one is told to stop.
Restart == Accepts /\ StartRecorder(Told)

\* Mutant: a split does not ask whether the recorder is being removed.
SplitsAlways == TRUE

\* stopping has no entry for the room.
NotStopping == at # "closing"

\* The chain that splits recordings by time.
Split ==
  /\ saver # None
  /\ NotStopping
  /\ Restart
  /\ UNCHANGED <<runVars, onAir, listenerVars>>
  /\ UNCHANGED <<laneVars, controlVars, faultVars>>

(* recorder.run returns: FinishRecordingProducer.                          *)
Leave(x) ==
  /\ rstate[x] = "stop"
  /\ rstate' = [rstate EXCEPT ![x] = "none"]
  /\ mine' = [mine EXCEPT ![x] = FALSE]
  /\ IF mine[x] /\ ~open THEN runState' \in Verdict(Producing \ {x})
                          ELSE UNCHANGED runState
  /\ UNCHANGED <<bound, open, current, saver, onAir>>
  /\ UNCHANGED <<listenerVars, laneVars, controlVars, faultVars>>

-----------------------------------------------------------------------------
(* The handlers of an ordered event, in the order of their registration:   *)
(* first the pipeline (livestate/events.go), then the recorder manager.    *)

Done(e) ==
  /\ Finish(e)
  /\ kind' = [kind EXCEPT ![e] = None]
  /\ at' = "begin" /\ target' = None

HandleLiveStart(e) ==
  /\ kind[e] = "LiveStart"
  /\ Handle(e)
  /\ at' = "adding"
  /\ \/ OpenRecordingSession /\ UNCHANGED faultVars
     \/ /\ Fault
        /\ current' = FALSE
        /\ UNCHANGED <<runState, bound, open, mine>>
  /\ UNCHANGED <<saver, rstate, kind, target, onAir, listenerVars, controlVars>>

AddRecorder(e) ==
  /\ kind[e] = "LiveStart" /\ at = "adding"
  /\ Done(e)
  /\ \/ /\ saver = None /\ Accepts
        /\ StartRecorder(rstate)
        /\ UNCHANGED faultVars
     \/ /\ ~(saver = None /\ Accepts)
        /\ UNCHANGED <<recorderVars, faultVars>>
     \/ Fault /\ UNCHANGED recorderVars
  /\ UNCHANGED <<runVars, onAir, listenerVars, controlVars>>

HandleLiveEnd(e) ==
  /\ kind[e] = "LiveEnd"
  /\ Handle(e)
  /\ at' = "removing"
  /\ \/ EndNormally /\ UNCHANGED faultVars
     \/ Fault /\ UNCHANGED runVars
  /\ UNCHANGED <<recorderVars, kind, target, onAir, listenerVars, controlVars>>

\* Mutant: a listener that closes leaves the recorder alone.
IgnoreListenStop(e) ==
  /\ kind[e] = "ListenStop"
  /\ Handle(e)
  /\ at' = "ended"
  /\ UNCHANGED <<runVars, recorderVars, kind, target, onAir, listenerVars>>
  /\ UNCHANGED <<controlVars, faultVars>>

HandleListenStop(e) ==
  /\ kind[e] = "ListenStop"
  /\ Handle(e)
  /\ at' = "removing"
  /\ UNCHANGED <<runVars, recorderVars, kind, target, onAir, listenerVars>>
  /\ UNCHANGED <<controlVars, faultVars>>

(* RemoveRecorder: the recorder is told to stop, and stays in the map      *)
(* until it has.                                                           *)
RemoveRecorder(e) ==
  /\ stage[e] = "running" /\ at = "removing"
  /\ saver # None
  /\ rstate' = Told
  /\ target' = saver
  /\ at' = "closing"
  /\ UNCHANGED <<dispatcherVars, kind, saver, mine, onAir, runVars>>
  /\ UNCHANGED <<listenerVars, controlVars, faultVars>>

RecorderRemoved(e) ==
  /\ stage[e] = "running" /\ at = "closing"
  /\ rstate[target] = "none"
  /\ saver' = None
  /\ Done(e)
  /\ UNCHANGED <<rstate, mine, onAir, runVars, listenerVars, controlVars, faultVars>>

NoRecorder(e) ==
  /\ stage[e] = "running" /\ at = "removing"
  /\ saver = None
  /\ Done(e)
  /\ UNCHANGED <<recorderVars, onAir, runVars, listenerVars, controlVars, faultVars>>

HandleUserStop(e) ==
  /\ kind[e] = "UserStop"
  /\ Handle(e)
  /\ at' = "ended"
  /\ \/ EndByUser /\ UNCHANGED faultVars
     \/ Fault /\ UNCHANGED runVars
  /\ UNCHANGED <<recorderVars, kind, target, onAir, listenerVars, controlVars>>

(* The room's name has changed: a new recorder, and the handler waits for  *)
(* the old one.                                                            *)
HandleRoomNameChanged(e) ==
  /\ kind[e] = "RoomNameChanged"
  /\ Handle(e)
  /\ \/ /\ saver # None
        /\ Restart
        /\ at' = "splitting" /\ target' = saver
     \/ /\ ~(saver # None /\ Accepts)
        /\ at' = "ended"
        /\ UNCHANGED <<recorderVars, target>>
  /\ UNCHANGED <<kind, runVars, onAir, listenerVars>>
  /\ UNCHANGED <<controlVars, faultVars>>

HandlersReturn(e) ==
  /\ stage[e] = "running"
  /\ at = "ended" \/ (at = "splitting" /\ rstate[target] = "none")
  /\ Done(e)
  /\ UNCHANGED <<recorderVars, onAir, runVars, listenerVars, controlVars, faultVars>>

LaneStep ==
  \E e \in Event :
    \/ HandleLiveStart(e) \/ AddRecorder(e)
    \/ HandleLiveEnd(e) \/ HandleListenStop(e)
    \/ RemoveRecorder(e) \/ RecorderRemoved(e) \/ NoRecorder(e)
    \/ HandleUserStop(e) \/ HandleRoomNameChanged(e) \/ HandlersReturn(e)

-----------------------------------------------------------------------------
(* startListening.                                                         *)

Goto(pc) == cpc' = pc /\ halted' = FALSE

Monitored == monitor # None /\ Monitoring(monitor)

(* HasListener denies; a store that fails makes it deny, too, and then a   *)
(* broadcast that the old listener is telling of can be lost.              *)
StartBegins ==
  /\ cpc = "idle"
  /\ \/ ~Monitored /\ UNCHANGED faultVars
     \/ Monitored /\ Fault
  /\ \/ tail = None /\ Goto("waited") /\ UNCHANGED laneVars
     \/ Wait(Control) /\ Goto("starting") /\ UNCHANGED <<kind, at, target>>
  /\ UNCHANGED <<onAir, runVars, listenerVars, recorderVars>>

\* WaitForOrderedEvents returns, or the 90 seconds are over.
StartWaited ==
  /\ cpc = "starting"
  /\ \/ Return(Control) /\ Goto("waited")
     \/ GiveUp(Control) /\ Goto("idle")
  /\ UNCHANGED <<kind, at, target>>
  /\ UNCHANGED <<onAir, runVars, listenerVars, recorderVars, faultVars>>

\* HasRecorder: "the last recording is still being finished".
StartChecks ==
  /\ cpc = "waited"
  /\ Goto(IF saver = None THEN "free" ELSE "idle")
  /\ UNCHANGED <<onAir, runVars, listenerVars, recorderVars, laneVars, faultVars>>

\* RestartRecordingRun: a new RunID, so no listener owns the run.
StartRearms ==
  /\ cpc = "free"
  /\ \/ /\ runState \notin Active
        /\ runState' = "waiting" /\ bound' = FALSE
        /\ own' = [l \in Listener |-> FALSE]
        /\ Goto("armed")
        /\ UNCHANGED faultVars
     \/ /\ runState \in Active \/ faults < MaxFaults
        /\ Goto("idle")
        /\ UNCHANGED <<runState, bound, own>>
        /\ IF runState \in Active THEN UNCHANGED faultVars ELSE CallFails
  /\ UNCHANGED <<open, current, monitor, lstate, live, news, lpc>>
  /\ UNCHANGED <<onAir, recorderVars, laneVars>>

\* AddListener closes the listener that it finds, and forgets it ...
StartForgets ==
  /\ cpc = "armed"
  /\ \/ monitor # None /\ CloseListener(monitor)
     \/ /\ monitor # None => lstate[monitor] = "stopped"
        /\ UNCHANGED <<lstate, laneVars>>
  /\ monitor' = None
  /\ Goto("adding")
  /\ UNCHANGED <<own, live, news, lpc>>
  /\ UNCHANGED <<onAir, runVars, recorderVars, faultVars>>

\* A name that no goroutine uses.
Idle(l) == lpc[l] = "none" /\ lstate[l] = "stopped"

\* ... and starts a new one, which remembers the RunID.
StartListener ==
  /\ cpc = "adding"
  /\ \/ /\ \E l \in Listener : Idle(l)
        /\ LET l == CHOOSE l \in Listener : Idle(l)
           IN  /\ monitor' = l
               /\ lstate' = [lstate EXCEPT ![l] = "pending"]
               /\ own' = [own EXCEPT ![l] = TRUE]
               /\ live' = [live EXCEPT ![l] = FALSE]
               /\ lpc' = [lpc EXCEPT ![l] = "refresh"]
        /\ Goto("refreshing")
        /\ UNCHANGED faultVars
     \/ /\ CallFails
        /\ Goto("undoing")
        /\ UNCHANGED <<monitor, lstate, own, live, lpc>>
  /\ UNCHANGED <<news, onAir, runVars, recorderVars, laneVars>>

\* The first poll is over and the goroutine of run() has been started.
StartReturns ==
  /\ cpc = "refreshing"
  /\ lpc[monitor] \notin {"refresh", "news"}
  /\ lstate' = [lstate EXCEPT ![monitor] = "running"]
  /\ Goto("idle")
  /\ UNCHANGED <<monitor, own, live, news, lpc>>
  /\ UNCHANGED <<onAir, runVars, recorderVars, laneVars, faultVars>>

\* The listener could not be started: StopRecordingRun, which may fail, too.
StartUndone ==
  /\ cpc = "undoing"
  /\ \/ runState' = "stopped" /\ UNCHANGED faultVars
     \/ CallFails /\ UNCHANGED runState
  /\ Goto("idle")
  /\ UNCHANGED <<bound, open, current, onAir, listenerVars>>
  /\ UNCHANGED <<recorderVars, laneVars>>

-----------------------------------------------------------------------------
(* stopListening.                                                          *)

\* StopRecordingRun, whatever the run is doing; if it fails the call returns.
StopBegins ==
  /\ cpc = "idle"
  /\ \/ runState' = "stopped" /\ Goto("stopping") /\ UNCHANGED faultVars
     \/ CallFails /\ Goto("idle") /\ UNCHANGED runState
  /\ UNCHANGED <<bound, open, current, onAir, listenerVars>>
  /\ UNCHANGED <<recorderVars, laneVars>>

\* RemoveListener.
StopRemoves ==
  /\ cpc = "stopping"
  /\ \/ monitor # None /\ CloseListener(monitor)
     \/ /\ monitor # None => lstate[monitor] = "stopped"
        /\ UNCHANGED <<lstate, laneVars>>
  /\ monitor' = None
  /\ Goto("removed")
  /\ UNCHANGED <<own, live, news, lpc>>
  /\ UNCHANGED <<onAir, runVars, recorderVars, faultVars>>

StopDispatches ==
  /\ cpc = "removed"
  /\ Emit("UserStop")
  /\ Goto("sent")
  /\ UNCHANGED <<onAir, runVars, listenerVars, recorderVars, faultVars>>

StopWaits ==
  /\ cpc = "sent"
  /\ \/ Wait(Control) /\ cpc' = "ending" /\ UNCHANGED halted
     \/ tail = None /\ cpc' = "idle" /\ halted' = TRUE /\ UNCHANGED dispatcherVars
  /\ UNCHANGED <<kind, at, target>>
  /\ UNCHANGED <<onAir, runVars, listenerVars, recorderVars, faultVars>>

StopReturns ==
  /\ cpc = "ending"
  /\ cpc' = "idle"
  /\ \/ Return(Control) /\ halted' = TRUE
     \/ GiveUp(Control) /\ UNCHANGED halted
  /\ UNCHANGED <<kind, at, target>>
  /\ UNCHANGED <<onAir, runVars, listenerVars, recorderVars, faultVars>>

ControlCalled == StartBegins \/ StopBegins

ControlStep ==
  \/ StartWaited \/ StartChecks \/ StartRearms \/ StartForgets
  \/ StartListener
  \/ StartReturns \/ StartUndone
  \/ StopRemoves \/ StopDispatches \/ StopWaits \/ StopReturns

Next ==
  \/ Platform
  \/ \E l \in Listener :
       ListenerStep(l) \/ \E k \in Kind : PollAnswers(l, k)
  \/ Split
  \/ \E x \in Recorder : Leave(x)
  \/ LaneStep
  \/ ControlCalled \/ ControlStep

Spec == Init /\ [][Next]_vars

(* Goroutines are scheduled, a recorder that is told to stop stops, and a  *)
(* platform that is polled for ever answers again and again, in the end    *)
(* for the three minutes that confirm the end of a broadcast.              *)
Fairness ==
  /\ SF_vars(LaneStep)
  /\ WF_vars(ControlStep)
  /\ \A x \in Recorder : WF_vars(Leave(x))
  /\ \A l \in Listener :
       /\ WF_vars(ListenerStep(l))
       /\ SF_vars(PollAnswers(l, "LiveStart"))
       /\ SF_vars(PollAnswers(l, "LiveEnd"))

FairSpec == Spec /\ Fairness

-----------------------------------------------------------------------------
(* What the room promises.                                                 *)

TypeOK ==
  /\ DispatcherTypeOK
  /\ onAir \in BOOLEAN
  /\ runState \in {"waiting"} \cup Active \cup Terminal
  /\ bound \in BOOLEAN /\ open \in BOOLEAN /\ current \in BOOLEAN
  /\ monitor \in Listener \cup {None}
  /\ lstate \in [Listener -> {"pending", "running", "stopped"}]
  /\ own \in [Listener -> BOOLEAN]
  /\ live \in [Listener -> BOOLEAN]
  /\ news \in [Listener -> {None, "LiveStart", "LiveEnd", "RoomNameChanged"}]
  /\ lpc \in [Listener -> {"none", "refresh", "loop", "news"}]
  /\ saver \in Recorder \cup {None}
  /\ rstate \in [Recorder -> {"none", "run", "stop"}]
  /\ mine \in [Recorder -> BOOLEAN]
  /\ kind \in [Event -> Kind \cup {None}]
  /\ at \in {"begin", "adding", "removing", "closing", "splitting", "ended"}
  /\ target \in Recorder \cup {None}
  /\ cpc \in {"idle", "starting", "waited", "free", "armed", "adding", "refreshing",
              "undoing", "stopping", "removed", "sent", "ending"}
  /\ halted \in BOOLEAN /\ missed \in BOOLEAN
  /\ faults \in 0..MaxFaults

(* When stopListening has returned without an error the room is at rest    *)
(* until it is started again: its run is stopped, no recorder is in the    *)
(* map, those that a split replaced have been told to stop, no listener    *)
(* works for the run, and no event in the lane can start a recorder.       *)
StopIsComplete ==
  halted =>
    /\ runState = "stopped"
    /\ saver = None
    /\ \A x \in Alive : rstate[x] = "stop"
    /\ \A l \in Listener : lstate[l] = "stopped"
    /\ ~StartPending

\* A handler removes the room's recorder, or an event in the lane will.
Removal ==
  \/ at = "closing"
  \/ \E e \in Pending : kind[e] \in {"LiveEnd", "ListenStop"}

(* A recorder in the map is never forgotten: a listener that has seen the  *)
(* broadcast begin will see it end, or the removal is already in the lane. *)
OrphanFree ==
  saver # None =>
    \/ Removal
    \/ /\ monitor # None
       /\ lstate[monitor] # "stopped"
       /\ live[monitor] \/ missed

(* A broadcast that the listener of a room has told of is not lost: while  *)
(* the listener works for the run and takes the room for live, the room    *)
(* has a recorder or the event that will start one is in the lane, however *)
(* the ends of earlier broadcasts, stops and new starts overlap with it.   *)
(* The listener would not tell again.                                      *)
SeenIsRecorded ==
  Monitored /\ live[monitor] => saver # None \/ StartPending \/ missed

(* startListening refuses while the room has a recorder, but does not ask  *)
(* for one that a split has replaced: when it re-arms the run, every       *)
(* recorder that still runs has been told to stop.                         *)
StartIsClean ==
  [][cpc = "free" /\ cpc' = "armed" => \A x \in Alive : rstate[x] = "stop"]_vars

(* While a monitored room stays on air it is recorded again and again,     *)
(* whatever was in its lane before: the listener keeps asking while the    *)
(* verdict on the last broadcast is out.                                   *)
LiveIsRecorded ==
  <>[](onAir /\ Monitored) => []<>(saver # None \/ missed)

\* When a room stays off air its recorder is removed for good.
EndStopsRecording == <>[]~onAir => <>[](saver = None \/ missed)

=============================================================================
