-------------------------- MODULE RecordingLedger --------------------------
(***************************************************************************)
(* The durable recording ledger of src/src/pipeline: one recording run per *)
(* room (the user's "record once" or "record continuously" grant) and the  *)
(* recording sessions opened under it, with their producers (recorder      *)
(* goroutines), the evidence each one left and the registered tasks.       *)
(*                                                                         *)
(* Every row lives in SQLite and is changed by one transaction under the   *)
(* store's mutex, so one transaction is one action.  What spans two        *)
(* transactions or is read before the lock is taken is two actions.  The   *)
(* fields of a row are functions of its key; a producer and a task belong  *)
(* to one session, so the JSON maps of a session are recovered from        *)
(* home/owner.  pause_reason only words the state and is left out.         *)
(***************************************************************************)
EXTENDS Naturals, FiniteSets

CONSTANTS Room, Session, Producer, Task,
          None,    \* no session
          MaxRun,  \* bound on the run ids a room can be given (uuid.NewV4)
          MaxCrash \* bound on the times the process dies

ASSUME NoneIsNoRow == None \notin Session \cup Room
ASSUME BoundsAreNatural == MaxRun \in Nat \ {0} /\ MaxCrash \in Nat

Mode     == {"once", "continuous"}
Active   == {"recording", "finalizing"}
Terminal == {"completed", "paused", "stopped"}
RunState == {"absent", "waiting"} \cup Active \cup Terminal
Evidence == {"empty", "unknown", "playable"}

VARIABLES
  \* recording_runs, one row per room
  mode, state, runId, runSession,
  \* pipeline_recording_sessions, one row per session
  room, ended, blocked, ready,
  latest,       \* the last row a room inserted (ORDER BY rowid DESC LIMIT 1)
  home, fin, evid,      \* the producers of a session
  owner, media,         \* the tasks of a session and whether their media is ready
  published,            \* the tasks whose media a public aggregate was built of
  \* memory of the process
  up,           \* Manager.Start has run since the last crash
  current,      \* Manager.recordingSessions
  initialized,  \* Manager.initializedRecordingRuns
  held,         \* producers whose recorder goroutine is running
  ending,       \* the session an EndRecordingSession call has looked up
  snapshot,     \* the sources a publishing task has read
  grant,        \* history: the run id a session was opened under
  crashes       \* history: how often the process died

runVars     == <<mode, state, runId, runSession>>
sessionVars == <<room, ended, blocked, latest, home, fin, evid, owner, media>>
memoryVars  == <<up, current, initialized, held, ending, snapshot>>
vars == <<runVars, sessionVars, ready, published, memoryVars, grant, crashes>>

-----------------------------------------------------------------------------
(* Facts read from the rows.                                               *)

Producers(s) == {p \in Producer : home[p] = s}
Tasks(s)     == {t \in Task : owner[t] = s}
AllFinished(s) == \A p \in Producers(s) : fin[p]

\* Mutant: the confirmed end seals a session, whether or not recorders still run.
SealedOnEnd(s) == ended[s] # "open" /\ ~blocked[s] /\ Producers(s) # {}

\* RecordingSession.Sealed: no further input can reach the session.
Sealed(s) ==
  /\ ended[s] # "open"
  /\ ~blocked[s]
  /\ Producers(s) # {}
  /\ AllFinished(s)

\* RecordingSession.Ready: sealed, and every registered task has its media.
Ready(s) ==
  /\ Sealed(s)
  /\ Tasks(s) # {}
  /\ \A t \in Tasks(s) : media[t]

\* Mutants: an unverifiable recording completes the run; an unknown state is stored.
OutcomeUnverified(s) ==
  IF mode[room[s]] = "once" /\ Producers(s) # {} THEN "completed" ELSE "waiting"
OutcomeFailed(s) ==
  IF mode[room[s]] = "once" /\ Producers(s) = {} THEN "failed" ELSE "waiting"

\* resolveRecordingOutcome on the evidence of a session whose producers left.
Outcome(s) ==
  LET playable == \E p \in Producers(s) : evid[p] = "playable"
      failure  == \/ Producers(s) = {}
                  \/ \E p \in Producers(s) : evid[p] = "unknown"
  IN  IF playable /\ mode[room[s]] = "once" THEN "completed"
      ELSE IF ~playable /\ failure /\ mode[room[s]] = "once" THEN "paused"
      ELSE "waiting"

(* Mutants of Verdict: a late verdict overrides a stop; the end of the     *)
(* broadcast settles the run while recorders are still running; a session  *)
(* without producers waits for one to finish.                              *)
VerdictLate(s) ==
  LET r == room[s] IN
  IF runSession[r] # s \/ ended'[s] = "open" THEN state[r]
  ELSE IF ended'[s] = "user_stop" THEN "stopped"
  ELSE IF ~AllFinished(s)' THEN "finalizing" ELSE Outcome(s)'
VerdictAtEnd(s) ==
  LET r == room[s] IN
  IF runSession[r] # s \/ state[r] \notin Active \/ ended'[s] = "open" THEN state[r]
  ELSE IF ended'[s] = "user_stop" THEN "stopped" ELSE Outcome(s)'
VerdictAwaitsProducer(s) ==
  LET r == room[s] IN
  IF runSession[r] # s \/ state[r] \notin Active \/ ended'[s] = "open" THEN state[r]
  ELSE IF ended'[s] = "user_stop" THEN "stopped"
  ELSE IF Producers(s)' = {} \/ ~AllFinished(s)' THEN "finalizing" ELSE Outcome(s)'

(* finishRecordingRunCapture: the state the run of session s moves to when *)
(* the session row is saved.  The run row is the one read inside the       *)
(* transaction, the session is the one about to be written.                *)
Verdict(s) ==
  LET r == room[s] IN
  IF runSession[r] # s \/ state[r] \notin Active \/ ended'[s] = "open"
    THEN state[r]
  ELSE IF ended'[s] = "user_stop" THEN "stopped"
  ELSE IF ~AllFinished(s)' THEN "finalizing"
  ELSE Outcome(s)'

\* Mutant: the ready flag is computed before the row is changed.
SaveSessionStale(s) ==
  /\ state' = [state EXCEPT ![room[s]] = Verdict(s)]
  /\ ready' = [ready EXCEPT ![s] = Ready(s)]

\* saveRecordingSession: settle the run, then store the row with its ready flag.
SaveSession(s) ==
  /\ state' = [state EXCEPT ![room[s]] = Verdict(s)]
  /\ ready' = [ready EXCEPT ![s] = Ready(s)']

Init ==
  /\ mode = [r \in Room |-> "continuous"]
  /\ state = [r \in Room |-> "absent"]
  /\ runId = [r \in Room |-> 0]
  /\ runSession = [r \in Room |-> None]
  /\ room = [s \in Session |-> None]
  /\ ended = [s \in Session |-> "open"]
  /\ blocked = [s \in Session |-> FALSE]
  /\ ready = [s \in Session |-> FALSE]
  /\ latest = [r \in Room |-> None]
  /\ home = [p \in Producer |-> None]
  /\ fin = [p \in Producer |-> FALSE]
  /\ evid = [p \in Producer |-> "empty"]
  /\ owner = [t \in Task |-> None]
  /\ media = [t \in Task |-> FALSE]
  /\ published = [s \in Session |-> {}]
  /\ up = FALSE
  /\ current = [r \in Room |-> None]
  /\ initialized = {}
  /\ held = {}
  /\ ending = [r \in Room |-> None]
  /\ snapshot = [t \in Task |-> {}]
  /\ grant = [s \in Session |-> 0]
  /\ crashes = 0

-----------------------------------------------------------------------------
(* The recording run of a room.                                            *)

\* Mutant: a once run whose verdict died with the process just waits again.
RecoveredWaiting(m) == "waiting"

(* RecoverRecordingRun: the verdict on an active run died with its process; *)
(* a once run must not record another broadcast unasked.                   *)
Recovered(m) == IF m = "once" THEN "paused" ELSE "waiting"

(* EnsureRecordingRun, the first transaction of ConfigureRecordingRun,      *)
(* inserts the row or only syncs its mode.  In the first call for a room   *)
(* other transactions of the run can come between it and the second, or    *)
(* the second fails and the room is not initialized.                       *)
EnsureRun(r, m) ==
  /\ up
  /\ r \notin initialized
  /\ mode' = [mode EXCEPT ![r] = m]
  /\ runId' = [runId EXCEPT ![r] = IF state[r] = "absent" THEN 1 ELSE @]
  /\ state' = [state EXCEPT ![r] = IF @ = "absent" THEN "waiting" ELSE @]
  /\ UNCHANGED <<runSession, sessionVars, ready, published, memoryVars, grant, crashes>>

(* Manager.ConfigureRecordingRun as a whole: a room that is initialized    *)
(* only has its mode synced; the first call in a process also runs         *)
(* RecoverRecordingRun, which settles a run left active by a dead process  *)
(* in the mode just stored.                                                *)
Configure(r, m) ==
  /\ up
  /\ UNCHANGED <<sessionVars, ready, published, grant, crashes>>
  /\ UNCHANGED <<runSession, up, current, held, ending, snapshot>>
  /\ mode' = [mode EXCEPT ![r] = m]
  /\ runId' = [runId EXCEPT ![r] = IF state[r] = "absent" THEN 1 ELSE @]
  /\ state' = [state EXCEPT ![r] =
       IF @ = "absent" THEN "waiting"
       ELSE IF @ \in Active /\ r \notin initialized
         THEN Recovered(m)
       ELSE @]
  /\ initialized' = initialized \cup {r}

\* Manager.StopRecordingRun: unconditional once the row exists.
StopRun(r) ==
  /\ up
  /\ state[r] # "absent"
  /\ state' = [state EXCEPT ![r] = "stopped"]
  /\ UNCHANGED <<mode, runId, runSession, sessionVars, ready, published>>
  /\ UNCHANGED <<memoryVars, grant, crashes>>

\* Manager.RestartRecordingRun: a new run id, refused while a run is active.
RestartRun(r) ==
  /\ up
  /\ state[r] \notin {"absent"} \cup Active
  /\ runId[r] < MaxRun
  /\ runId' = [runId EXCEPT ![r] = @ + 1]
  /\ state' = [state EXCEPT ![r] = "waiting"]
  /\ runSession' = [runSession EXCEPT ![r] = None]
  /\ UNCHANGED <<mode, sessionVars, ready, published, memoryVars, grant, crashes>>

-----------------------------------------------------------------------------
(* Sessions and their producers.                                           *)

(* Manager.OpenRecordingSession.  The LiveStart event that leads to it is  *)
(* dispatched only after this process configured the run                   *)
(* (listener.processInfo), so the room is initialized and its row exists.  *)
OpenSession(r, s) ==
  /\ up
  /\ r \in initialized
  /\ state[r] = "waiting"
  /\ room[s] = None
  /\ state' = [state EXCEPT ![r] = "recording"]
  /\ runSession' = [runSession EXCEPT ![r] = s]
  /\ room' = [room EXCEPT ![s] = r]
  /\ latest' = [latest EXCEPT ![r] = s]
  /\ current' = [current EXCEPT ![r] = s]
  /\ grant' = [grant EXCEPT ![s] = runId[r]]
  /\ UNCHANGED <<mode, runId, ended, blocked, home, fin, evid, owner, media>>
  /\ UNCHANGED <<ready, published, up, initialized, held, ending, snapshot, crashes>>

(* A refused or failed open has already forgotten the previous session, so *)
(* that no producer of the new broadcast joins the old one.                *)
OpenRefused(r) ==
  /\ up
  /\ r \in initialized
  /\ current' = [current EXCEPT ![r] = None]
  /\ UNCHANGED <<runVars, sessionVars, ready, published, grant, crashes>>
  /\ UNCHANGED <<up, initialized, held, ending, snapshot>>

\* Mutant: a producer may still join a session that has ended.
AcceptsUnblocked(s) == ~blocked[s]

\* A session takes new producers until it ends or needs confirmation.
AcceptsProducers(s) == ended[s] = "open" /\ ~blocked[s]

(* BeginRecordingProducer, called by recorder.Start: the producer joins    *)
(* the room's latest session.  Saving a session that has not ended leaves  *)
(* its run alone.                                                          *)
BeginProducer(r, s, p) ==
  /\ up
  /\ current[r] # None
  /\ s = latest[r]
  /\ home[p] = None
  /\ AcceptsProducers(s)
  /\ home' = [home EXCEPT ![p] = s]
  /\ held' = held \cup {p}
  /\ UNCHANGED <<mode, runId, runSession, room, ended, blocked, latest, fin, evid>>
  /\ UNCHANGED <<owner, media, published, up, current, initialized, ending>>
  /\ UNCHANGED <<snapshot, grant, crashes>>
  /\ SaveSession(s)

(* RecordCaptureEvidence, called by the recorder of p while it runs: a     *)
(* playable segment is never forgotten, an unverifiable one is remembered. *)
RecordEvidence(s, p, verdict) ==
  /\ p \in held
  /\ home[p] = s
  /\ ~fin[p]
  /\ \/ verdict = "playable"
     \/ verdict = "unknown" /\ evid[p] # "playable"
  /\ evid' = [evid EXCEPT ![p] = verdict]
  /\ UNCHANGED <<mode, runId, runSession, room, ended, blocked, latest, home, fin>>
  /\ UNCHANGED <<owner, media, published, memoryVars, grant, crashes>>
  /\ SaveSession(s)

(* FinishRecordingProducer, deferred by recorder.run: with a registration  *)
(* error the whole session is blocked.                                     *)
FinishProducer(s, p, failed) ==
  /\ p \in held
  /\ home[p] = s
  /\ fin' = [fin EXCEPT ![p] = TRUE]
  /\ blocked' = [blocked EXCEPT ![s] = @ \/ failed]
  /\ held' = held \ {p}
  /\ UNCHANGED <<mode, runId, runSession, room, ended, latest, home, evid>>
  /\ UNCHANGED <<owner, media, published, up, current, initialized, ending>>
  /\ UNCHANGED <<snapshot, grant, crashes>>
  /\ SaveSession(s)

(* EndRecordingSession reads the room's latest session before it takes the *)
(* store's lock ...                                                        *)
EndLookup(r) ==
  /\ up
  /\ ending[r] = None
  /\ latest[r] # None
  /\ ending' = [ending EXCEPT ![r] = latest[r]]
  /\ UNCHANGED <<runVars, sessionVars, ready, published, grant, crashes>>
  /\ UNCHANGED <<up, current, initialized, held, snapshot>>

\* ... and then writes the end reason over whatever the session holds.
EndCommit(r, s, reason) ==
  /\ ending[r] = s
  /\ ended' = [ended EXCEPT ![s] = reason]
  /\ ending' = [ending EXCEPT ![r] = None]
  /\ UNCHANGED <<mode, runId, runSession, room, blocked, latest, home, fin, evid>>
  /\ UNCHANGED <<owner, media, published, up, current, initialized, held>>
  /\ UNCHANGED <<snapshot, grant, crashes>>
  /\ SaveSession(s)

-----------------------------------------------------------------------------
(* The tasks of a session and its publication.                             *)

(* registerRecordingTask, inside CreateTask: only a running recorder       *)
(* enqueues its segments, and only into a session that is not blocked.     *)
RegisterTask(s, p, t) ==
  /\ p \in held
  /\ home[p] = s
  /\ owner[t] = None
  /\ ~fin[p]
  /\ ~blocked[s]
  /\ owner' = [owner EXCEPT ![t] = s]
  /\ UNCHANGED <<mode, runId, runSession, room, ended, blocked, latest, home, fin>>
  /\ UNCHANGED <<evid, media, published, memoryVars, grant, crashes>>
  /\ SaveSession(s)

\* CompleteRecordingTaskMedia: the media of a registered task is complete.
CompleteMedia(s, t) ==
  /\ up
  /\ owner[t] = s
  /\ ~media[t]
  /\ media' = [media EXCEPT ![t] = TRUE]
  /\ UNCHANGED <<mode, runId, runSession, room, ended, blocked, latest, home, fin>>
  /\ UNCHANGED <<evid, owner, published, memoryVars, grant, crashes>>
  /\ SaveSession(s)

(* completeSessionMedia reads the session again after its transaction; the *)
(* stage goes on only if it is ready, with the sources of that reading.    *)
ReadSession(t) ==
  /\ up
  /\ owner[t] # None
  /\ media[t]
  /\ Ready(owner[t])
  /\ snapshot' = [snapshot EXCEPT ![t] = Tasks(owner[t])]
  /\ UNCHANGED <<runVars, sessionVars, ready, published, grant, crashes>>
  /\ UNCHANGED <<up, current, initialized, held, ending>>

\* publishCompletedSession: the public aggregate of the sources it has read.
Publish(t) ==
  /\ snapshot[t] # {}
  /\ published' = [published EXCEPT ![owner[t]] = snapshot[t]]
  /\ snapshot' = [snapshot EXCEPT ![t] = {}]
  /\ UNCHANGED <<runVars, sessionVars, ready, grant, crashes>>
  /\ UNCHANGED <<up, current, initialized, held, ending>>

-----------------------------------------------------------------------------
(* The process.                                                            *)

\* The process dies: rows stay, memory and the recorder goroutines go.
Crash ==
  /\ up
  /\ crashes < MaxCrash
  /\ crashes' = crashes + 1
  /\ up' = FALSE
  /\ current' = [r \in Room |-> None]
  /\ initialized' = {}
  /\ held' = {}
  /\ ending' = [r \in Room |-> None]
  /\ snapshot' = [t \in Task |-> {}]
  /\ UNCHANGED <<runVars, sessionVars, ready, published, grant>>

(* Manager.Start runs RecoverRecordingSessions before anything else uses   *)
(* the store: a session that was not closed needs confirmation.            *)
Interrupted(s) == room[s] # None /\ (ended[s] = "open" \/ ~AllFinished(s))

StartProcess ==
  /\ ~up
  /\ up' = TRUE
  /\ blocked' = [s \in Session |-> blocked[s] \/ Interrupted(s)]
  /\ ready' = [s \in Session |-> ready[s] /\ ~Interrupted(s)]
  /\ UNCHANGED <<runVars, room, ended, latest, home, fin, evid, owner, media>>
  /\ UNCHANGED <<published, current, initialized, held, ending, snapshot, grant>>
  /\ UNCHANGED crashes

Next ==
  \/ \E r \in Room :
       \/ \E m \in Mode : EnsureRun(r, m) \/ Configure(r, m)
       \/ StopRun(r) \/ RestartRun(r) \/ OpenRefused(r) \/ EndLookup(r)
  \/ \E r \in Room, s \in Session :
       \/ OpenSession(r, s)
       \/ \E p \in Producer : BeginProducer(r, s, p)
       \/ \E reason \in {"normal", "user_stop"} : EndCommit(r, s, reason)
  \/ \E s \in Session, p \in Producer :
       \/ \E verdict \in {"playable", "unknown"} : RecordEvidence(s, p, verdict)
       \/ \E failed \in BOOLEAN : FinishProducer(s, p, failed)
       \/ \E t \in Task : RegisterTask(s, p, t)
  \/ \E s \in Session, t \in Task : CompleteMedia(s, t)
  \/ \E t \in Task : ReadSession(t) \/ Publish(t)
  \/ Crash
  \/ StartProcess

Spec == Init /\ [][Next]_vars

-----------------------------------------------------------------------------
(* What the ledger promises.                                               *)

\* Every row and every piece of memory has its type.
TypeOK ==
  /\ mode \in [Room -> Mode]
  /\ state \in [Room -> RunState]
  /\ runId \in [Room -> 0..MaxRun]
  /\ runSession \in [Room -> Session \cup {None}]
  /\ room \in [Session -> Room \cup {None}]
  /\ ended \in [Session -> {"open", "normal", "user_stop"}]
  /\ blocked \in [Session -> BOOLEAN]
  /\ ready \in [Session -> BOOLEAN]
  /\ latest \in [Room -> Session \cup {None}]
  /\ home \in [Producer -> Session \cup {None}]
  /\ fin \in [Producer -> BOOLEAN]
  /\ evid \in [Producer -> Evidence]
  /\ owner \in [Task -> Session \cup {None}]
  /\ media \in [Task -> BOOLEAN]
  /\ published \in [Session -> SUBSET Task]
  /\ up \in BOOLEAN
  /\ current \in [Room -> Session \cup {None}]
  /\ initialized \in SUBSET Room
  /\ held \in SUBSET Producer
  /\ ending \in [Room -> Session \cup {None}]
  /\ snapshot \in [Task -> SUBSET Task]
  /\ grant \in [Session -> 0..MaxRun]
  /\ crashes \in 0..MaxCrash

\* No input can be added to the session any more, in this process or a later one.
Closed(s) == blocked[s] \/ (ended[s] # "open" /\ AllFinished(s))

(* A run that records has a session that has not ended, and one that       *)
(* finalizes waits for a producer of an ended session: no transaction      *)
(* leaves a run active with nothing left to settle it.                     *)
ActiveRunHasWork ==
  \A r \in Room :
    /\ state[r] \in Active =>
         runSession[r] # None /\ room[runSession[r]] = r
    /\ state[r] = "recording" => ended[runSession[r]] = "open"
    /\ state[r] = "finalizing" =>
         ended[runSession[r]] = "normal" /\ ~AllFinished(runSession[r])

(* One capture per run: of two sessions of a room opened under the same    *)
(* run id, at most one accepts input.  A late verdict, a mode change or a  *)
(* recovery must never free the run while its capture goes on.             *)
OneCapturePerRun ==
  \A s1, s2 \in Session :
    (/\ s1 # s2
     /\ room[s1] # None
     /\ room[s1] = room[s2]
     /\ grant[s1] = grant[s2]) => Closed(s1) \/ Closed(s2)

(* A run completes only on a playable recording: every producer of its     *)
(* session has left and one of them left playable evidence.                *)
CompletedHasPlayable ==
  \A r \in Room : state[r] = "completed" =>
    /\ runSession[r] # None
    /\ AllFinished(runSession[r])
    /\ \E p \in Producers(runSession[r]) : evid[p] = "playable"

(* The stored ready flag, which is all the task queue looks at, is the     *)
(* readiness of the session, whichever transaction changed it last.        *)
ReadyFlagExact == \A s \in Session : ready[s] = Ready(s)

(* A published aggregate contains every task the session ever registers:   *)
(* nothing joins a session after some task has found it ready.             *)
PublishedIsComplete ==
  /\ \A s \in Session : published[s] # {} => published[s] = Tasks(s)
  /\ \A t \in Task : snapshot[t] # {} => snapshot[t] = Tasks(owner[t])

(* A finished run stays finished: a completed, paused or stopped run only  *)
(* leaves those states under a new run id, and a stop is not undone by a   *)
(* late verdict, a mode change or a recovery.                              *)
TerminalUntilRearmed ==
  [][\A r \in Room :
       state[r] \in Terminal /\ runId'[r] = runId[r] =>
         /\ state'[r] \in {state[r], "stopped"}
         /\ runSession'[r] = runSession[r]]_vars

(* A sealed session is closed for good: it keeps its producers, its tasks  *)
(* and their evidence, and is never blocked again.                         *)
SealedIsFinal ==
  [][\A s \in Session : Sealed(s) =>
       /\ Sealed(s)'
       /\ Producers(s)' = Producers(s)
       /\ Tasks(s)' = Tasks(s)
       /\ \A p \in Producers(s) : evid'[p] = evid[p]]_vars

(* The ledger implements the quota its users see: kept is read off the     *)
(* evidence of the session the run is bound to.                            *)
Kept == [r \in Room |->
  /\ runSession[r] # None
  /\ \E p \in Producers(runSession[r]) : evid[p] = "playable"]

Quota == INSTANCE RecordingQuota WITH phase <- state, arm <- runId, kept <- Kept

ImplementsQuota == Quota!Spec

(* Fairness: the process is restarted, every room is configured at         *)
(* startup, and the recorder of an ended session is closed by the same     *)
(* LiveEnd event, so it finishes.                                          *)
Fairness ==
  /\ WF_vars(StartProcess)
  /\ \A r \in Room : WF_vars(r \notin initialized /\ \E m \in Mode : Configure(r, m))
  /\ \A p \in Producer :
       WF_vars(\E s \in Session, failed \in BOOLEAN :
                 ended[s] # "open" /\ FinishProducer(s, p, failed))

FairSpec == Spec /\ Fairness

(* A run does not hang in finalizing: the verdict comes from its producers *)
(* or, if the process dies first, from the recovery of the next one.       *)
FinalizingIsSettled ==
  \A r \in Room : state[r] = "finalizing" ~> state[r] # "finalizing"

=============================================================================
