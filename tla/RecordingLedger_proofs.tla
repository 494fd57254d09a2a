----------------------- MODULE RecordingLedger_proofs -----------------------
(***************************************************************************)
(* Proofs about RecordingLedger, for every set of rooms, sessions,         *)
(* producers and tasks and every bound.                                    *)
(***************************************************************************)
EXTENDS RecordingLedger, TLAPS

-----------------------------------------------------------------------------
(* The inductive invariant.                                                *)

\* Rows refer to rows that exist, and rows that do not exist are blank.
Linked ==
  /\ \A p \in Producer : home[p] # None => room[home[p]] # None
  /\ \A p \in Producer : home[p] = None => ~fin[p] /\ evid[p] = "empty" /\ p \notin held
  /\ \A p \in held : ~fin[p]
  /\ \A t \in Task : owner[t] # None => room[owner[t]] # None
  /\ \A t \in Task : owner[t] = None => ~media[t] /\ snapshot[t] = {}
  /\ \A r \in Room : latest[r] # None => room[latest[r]] = r
  /\ \A r \in Room : current[r] # None => latest[r] # None
  /\ \A r \in Room : ending[r] # None => room[ending[r]] = r
  /\ \A r \in Room : runSession[r] # None => room[runSession[r]] = r
  /\ \A s \in Session : room[s] = None => ended[s] = "open" /\ ~blocked[s]
  /\ \A s \in Session : room[s] # None => grant[s] <= runId[room[s]]
  /\ \A r \in Room : state[r] = "absent" =>
       runSession[r] = None /\ \A s \in Session : room[s] # r

(* A session that is not the one its run is bound to is closed; so is the  *)
(* one of a waiting run, and every session of a room that this process has *)
(* not configured yet: the recovery at the start of the process saw to it. *)
Superseded ==
  /\ \A s \in Session :
       (/\ room[s] # None
        /\ grant[s] = runId[room[s]]
        /\ s # runSession[room[s]]) => Closed(s)
  /\ \A r \in Room : state[r] = "waiting" /\ runSession[r] # None => Closed(runSession[r])
  /\ \A s \in Session : room[s] # None /\ up /\ room[s] \notin initialized => Closed(s)

CompletedIsClosed ==
  \A r \in Room : state[r] = "completed" => ended[runSession[r]] # "open"

\* What has been published, or is about to be, belongs to a ready session.
PublishedIsReady ==
  /\ \A s \in Session : published[s] # {} => Ready(s)
  /\ \A t \in Task : snapshot[t] # {} => Ready(owner[t])

(* Whoever still records belongs to a room that this process has           *)
(* configured, and to a run that waits for its verdict or has been         *)
(* stopped; nobody else is left to finish the session of such a run.       *)

\* A room with a session in memory, or with a recorder at work, is configured.
HoldersConfigured ==
  /\ \A r \in Room : current[r] # None => r \in initialized
  /\ \A p \in held : room[home[p]] \in initialized

\* The run that is bound to the session of a recorder at work is not judged.
HoldersCounted ==
  \A p \in held : runSession[room[home[p]]] = home[p] =>
    state[room[home[p]]] \in Active \cup {"stopped"}

\* A run that waits for the user has no session that takes input.
PausedIsClosed ==
  \A r \in Room : state[r] = "paused" /\ runSession[r] # None => Closed(runSession[r])

\* A producer of an active run has finished, or its recorder is at work.
HoldersRemain ==
  \A r \in initialized : state[r] \in Active =>
    \A p \in Producers(runSession[r]) : fin[p] \/ p \in held

Holders == HoldersConfigured /\ HoldersCounted /\ PausedIsClosed /\ HoldersRemain

IInv ==
  /\ TypeOK /\ Linked /\ ActiveRunHasWork /\ Superseded /\ OneCapturePerRun
  /\ CompletedHasPlayable /\ CompletedIsClosed /\ Holders /\ ReadyFlagExact
  /\ PublishedIsComplete /\ PublishedIsReady

-----------------------------------------------------------------------------
(* Type correctness.                                                       *)

\* The state a transaction leaves a run in is a state of the enumeration.
LEMMA SaveSessionType ==
  ASSUME TypeOK, NEW s, SaveSession(s)
  PROVE  state' \in [Room -> RunState] /\ ready' \in [Session -> BOOLEAN]
<1>1. ASSUME room[s] \in Room
      PROVE  Verdict(s) \in RunState
  <2>1. state[room[s]] \in RunState
    BY <1>1 DEF TypeOK
  <2>2. Outcome(s)' \in {"completed", "paused", "waiting"}
    BY DEF Outcome
  <2>3. QED
    BY <2>1, <2>2 DEF Verdict, RunState, Active, Terminal
<1>2. Ready(s)' \in BOOLEAN
  BY DEF Ready
<1>3. QED
  BY <1>1, <1>2 DEF SaveSession, TypeOK

LEMMA TypeStep == TypeOK /\ [Next]_vars => TypeOK'
<1> SUFFICES ASSUME TypeOK, [Next]_vars
             PROVE  TypeOK'
  OBVIOUS
<1> USE NoneIsNoRow, BoundsAreNatural
<1>1. ASSUME NEW r \in Room, NEW m \in Mode, Configure(r, m) \/ EnsureRun(r, m)
      PROVE  TypeOK'
  <2>1. Recovered(m) \in RunState
    BY DEF Recovered, RunState, Terminal
  <2>2. state' \in [Room -> RunState]
    BY <1>1, <2>1 DEF TypeOK, Configure, EnsureRun, RunState
  <2>3. runId' \in [Room -> 0..MaxRun]
    BY <1>1 DEF TypeOK, Configure, EnsureRun
  <2>4. mode' \in [Room -> Mode] /\ initialized' \in SUBSET Room
    BY <1>1 DEF TypeOK, Configure, EnsureRun, memoryVars
  <2>5. UNCHANGED <<runSession, sessionVars, ready, published, up, current, held, ending,
                    snapshot, grant, crashes>>
    BY <1>1 DEF Configure, EnsureRun, memoryVars
  <2>6. QED
    BY <2>2, <2>3, <2>4, <2>5 DEF TypeOK, sessionVars
<1>2. ASSUME NEW r \in Room, StopRun(r)
      PROVE  TypeOK'
  BY <1>2 DEF TypeOK, StopRun, RunState, Terminal, sessionVars, memoryVars
<1>3. ASSUME NEW r \in Room, RestartRun(r)
      PROVE  TypeOK'
  BY <1>3 DEF TypeOK, RestartRun, RunState, sessionVars, memoryVars
<1>4. ASSUME NEW r \in Room, NEW s \in Session, OpenSession(r, s)
      PROVE  TypeOK'
  BY <1>4 DEF TypeOK, OpenSession, RunState, Active
<1>5. ASSUME NEW r \in Room, OpenRefused(r)
      PROVE  TypeOK'
  BY <1>5 DEF TypeOK, OpenRefused, runVars, sessionVars
<1>6. ASSUME NEW r \in Room, NEW s \in Session, NEW p \in Producer,
             BeginProducer(r, s, p)
      PROVE  TypeOK'
  <2>1. state' \in [Room -> RunState] /\ ready' \in [Session -> BOOLEAN]
    BY <1>6, SaveSessionType DEF BeginProducer
  <2>2. QED
    BY <1>6, <2>1 DEF TypeOK, BeginProducer
<1>7. ASSUME NEW s \in Session, NEW p \in Producer,
             NEW v \in {"playable", "unknown"}, RecordEvidence(s, p, v)
      PROVE  TypeOK'
  <2>1. state' \in [Room -> RunState] /\ ready' \in [Session -> BOOLEAN]
    BY <1>7, SaveSessionType DEF RecordEvidence
  <2>2. QED
    BY <1>7, <2>1 DEF TypeOK, RecordEvidence, Evidence, memoryVars
<1>8. ASSUME NEW s \in Session, NEW p \in Producer, NEW failed \in BOOLEAN,
             FinishProducer(s, p, failed)
      PROVE  TypeOK'
  <2>1. state' \in [Room -> RunState] /\ ready' \in [Session -> BOOLEAN]
    BY <1>8, SaveSessionType DEF FinishProducer
  <2>2. blocked' \in [Session -> BOOLEAN]
    BY <1>8 DEF TypeOK, FinishProducer
  <2>3. QED
    BY <1>8, <2>1, <2>2 DEF TypeOK, FinishProducer
<1>9. ASSUME NEW r \in Room, EndLookup(r)
      PROVE  TypeOK'
  BY <1>9 DEF TypeOK, EndLookup, runVars, sessionVars
<1>10. ASSUME NEW r \in Room, NEW s \in Session,
              NEW reason \in {"normal", "user_stop"}, EndCommit(r, s, reason)
       PROVE  TypeOK'
  <2>1. state' \in [Room -> RunState] /\ ready' \in [Session -> BOOLEAN]
    BY <1>10, SaveSessionType DEF EndCommit
  <2>2. QED
    BY <1>10, <2>1 DEF TypeOK, EndCommit
<1>11. ASSUME NEW s \in Session, NEW p \in Producer, NEW t \in Task,
              RegisterTask(s, p, t)
       PROVE  TypeOK'
  <2>1. state' \in [Room -> RunState] /\ ready' \in [Session -> BOOLEAN]
    BY <1>11, SaveSessionType DEF RegisterTask
  <2>2. QED
    BY <1>11, <2>1 DEF TypeOK, RegisterTask, memoryVars
<1>12. ASSUME NEW s \in Session, NEW t \in Task, CompleteMedia(s, t)
       PROVE  TypeOK'
  <2>1. state' \in [Room -> RunState] /\ ready' \in [Session -> BOOLEAN]
    BY <1>12, SaveSessionType DEF CompleteMedia
  <2>2. QED
    BY <1>12, <2>1 DEF TypeOK, CompleteMedia, memoryVars
<1>13. ASSUME NEW t \in Task, ReadSession(t)
       PROVE  TypeOK'
  BY <1>13 DEF TypeOK, ReadSession, Tasks, runVars, sessionVars
<1>14. ASSUME NEW t \in Task, Publish(t)
       PROVE  TypeOK'
  BY <1>14 DEF TypeOK, Publish, runVars, sessionVars
<1>15. CASE Crash
  <2>1. crashes' \in 0..MaxCrash
    BY <1>15 DEF TypeOK, Crash
  <2>2. /\ snapshot' \in [Task -> SUBSET Task]
        /\ current' \in [Room -> Session \cup {None}]
        /\ ending' \in [Room -> Session \cup {None}]
        /\ initialized' \in SUBSET Room
        /\ held' \in SUBSET Producer
        /\ up' \in BOOLEAN
    BY <1>15 DEF Crash
  <2>3. QED
    BY <1>15, <2>1, <2>2 DEF TypeOK, Crash, runVars, sessionVars
<1>16. CASE StartProcess
  <2>1. /\ blocked' \in [Session -> BOOLEAN]
        /\ ready' \in [Session -> BOOLEAN]
    BY <1>16 DEF TypeOK, StartProcess
  <2>2. QED
    BY <1>16, <2>1 DEF TypeOK, StartProcess, runVars
<1>17. CASE UNCHANGED vars
  BY <1>17 DEF TypeOK, vars, runVars, sessionVars, memoryVars
<1>18. QED
  BY <1>1, <1>2, <1>3, <1>4, <1>5, <1>6, <1>7, <1>8, <1>9, <1>10, <1>11, <1>12,
     <1>13, <1>14, <1>15, <1>16, <1>17 DEF Next

LEMMA InitType == Init => TypeOK
<1> SUFFICES ASSUME Init
             PROVE  TypeOK
  OBVIOUS
<1>1. /\ mode \in [Room -> Mode]
      /\ state \in [Room -> RunState]
      /\ runId \in [Room -> 0..MaxRun]
      /\ crashes \in 0..MaxCrash
      /\ grant \in [Session -> 0..MaxRun]
  BY BoundsAreNatural DEF Init, Mode, RunState
<1>2. /\ ready \in [Session -> BOOLEAN]
      /\ blocked \in [Session -> BOOLEAN]
      /\ fin \in [Producer -> BOOLEAN]
      /\ media \in [Task -> BOOLEAN]
      /\ up \in BOOLEAN
  BY DEF Init
<1>3. /\ published \in [Session -> SUBSET Task]
      /\ snapshot \in [Task -> SUBSET Task]
      /\ initialized \in SUBSET Room
      /\ held \in SUBSET Producer
  BY DEF Init
<1>4. QED
  BY <1>1, <1>2, <1>3 DEF Init, TypeOK, Evidence

\* Every row and every piece of memory keeps its type in every behaviour.
THEOREM TypeCorrect == Spec => []TypeOK
  BY InitType, TypeStep, PTL DEF Spec

-----------------------------------------------------------------------------
(* What saving a session does to the runs: at most the run bound to it     *)
(* moves, from an active state, and only when the session has ended.       *)

Settled(r, s) ==
  /\ r = room[s] /\ runSession[r] = s
  /\ state[r] \in Active
  /\ ended'[s] # "open"
  /\ \/ state'[r] = "stopped"
     \/ state'[r] = "finalizing" /\ ended'[s] # "user_stop" /\ ~AllFinished(s)'
     \/ state'[r] \in {"paused", "waiting"} /\ AllFinished(s)'
     \/ /\ state'[r] = "completed" /\ AllFinished(s)'
        /\ \E p \in Producers(s)' : evid'[p] = "playable"

LEMMA SaveSessionRun ==
  ASSUME TypeOK, NEW s, SaveSession(s), NEW r \in Room
  PROVE  \/ /\ state'[r] = state[r]
            /\ r = room[s] /\ runSession[r] = s => ended'[s] = "open" \/ state[r] \notin Active
         \/ Settled(r, s)
<1>1. CASE r # room[s]
  BY <1>1 DEF TypeOK, SaveSession
<1>2. CASE r = room[s]
  <2>1. state'[r] = Verdict(s)
    BY <1>2 DEF TypeOK, SaveSession
  <2>2. CASE runSession[r] # s \/ state[r] \notin Active \/ ended'[s] = "open"
    BY <1>2, <2>1, <2>2 DEF Verdict
  <2>3. CASE ~(runSession[r] # s \/ state[r] \notin Active \/ ended'[s] = "open")
    <3>1. CASE ended'[s] = "user_stop"
      BY <1>2, <2>1, <2>3, <3>1 DEF Verdict, Settled
    <3>2. CASE ended'[s] # "user_stop" /\ ~AllFinished(s)'
      BY <1>2, <2>1, <2>3, <3>2 DEF Verdict, Settled
    <3>3. CASE ended'[s] # "user_stop" /\ AllFinished(s)'
      <4>1. state'[r] = Outcome(s)'
        BY <1>2, <2>1, <2>3, <3>3 DEF Verdict
      <4>2. \/ Outcome(s)' \in {"paused", "waiting"}
            \/ Outcome(s)' = "completed" /\ \E p \in Producers(s)' : evid'[p] = "playable"
        BY DEF Outcome
      <4>3. QED
        BY <1>2, <2>3, <3>3, <4>1, <4>2 DEF Settled
    <3>4. QED
      BY <3>1, <3>2, <3>3
  <2>4. QED
    BY <2>2, <2>3
<1>3. QED
  BY <1>1, <1>2

\* In particular a run that exists does not disappear.
LEMMA SaveSessionPresent ==
  ASSUME TypeOK, NEW s, SaveSession(s), NEW r \in Room, state'[r] = "absent"
  PROVE  state[r] = "absent"
BY SaveSessionRun DEF Settled

-----------------------------------------------------------------------------
(* Rows stay linked.                                                       *)

LEMMA LinkedStep == TypeOK /\ Linked /\ [Next]_vars => Linked'
<1> SUFFICES ASSUME TypeOK, Linked, [Next]_vars
             PROVE  Linked'
  OBVIOUS
<1> USE NoneIsNoRow
<1>1. ASSUME NEW r \in Room, NEW m \in Mode, Configure(r, m) \/ EnsureRun(r, m)
      PROVE  Linked'
  <2>1. /\ state'[r] # "absent"
        /\ \A x \in Room : x # r => state'[x] = state[x] /\ runId'[x] = runId[x]
    BY <1>1 DEF TypeOK, Configure, EnsureRun, Recovered
  <2>2. \A s \in Session : room[s] = r => runId'[r] = runId[r]
    BY <1>1 DEF TypeOK, Linked, Configure, EnsureRun
  <2>3. \A s \in Session : room[s] # None => grant[s] <= runId'[room[s]]
    BY <2>1, <2>2 DEF TypeOK, Linked
  <2>4. QED
    BY <1>1, <2>1, <2>3 DEF TypeOK, Linked, Configure, EnsureRun, sessionVars, memoryVars
<1>2. ASSUME NEW r \in Room, StopRun(r)
      PROVE  Linked'
  BY <1>2 DEF TypeOK, Linked, StopRun, sessionVars, memoryVars
<1>3. ASSUME NEW r \in Room, RestartRun(r)
      PROVE  Linked'
  BY <1>3, BoundsAreNatural DEF TypeOK, Linked, RestartRun, sessionVars, memoryVars
<1>4. ASSUME NEW r \in Room, NEW s \in Session, OpenSession(r, s)
      PROVE  Linked'
  BY <1>4, BoundsAreNatural DEF TypeOK, Linked, OpenSession
<1>5. ASSUME NEW r \in Room, OpenRefused(r)
      PROVE  Linked'
  BY <1>5 DEF TypeOK, Linked, OpenRefused, runVars, sessionVars
<1>6. ASSUME NEW r \in Room, NEW s \in Session, NEW p \in Producer,
             BeginProducer(r, s, p)
      PROVE  Linked'
  <2>1. room[s] = r
    BY <1>6 DEF Linked, BeginProducer
  <2>2. \A x \in Room : state'[x] = "absent" => state[x] = "absent"
    BY <1>6, SaveSessionPresent DEF BeginProducer
  <2>3. home' = [home EXCEPT ![p] = s] /\ held' = held \cup {p}
    BY <1>6 DEF BeginProducer
  <2>4. \A q \in Producer : home'[q] # None => room'[home'[q]] # None
    BY <1>6, <2>1, <2>3 DEF TypeOK, Linked, BeginProducer
  <2>5. QED
    BY <1>6, <2>1, <2>2, <2>3, <2>4 DEF TypeOK, Linked, BeginProducer
<1>7. ASSUME NEW s \in Session, NEW p \in Producer,
             NEW v \in {"playable", "unknown"}, RecordEvidence(s, p, v)
      PROVE  Linked'
  BY <1>7, SaveSessionPresent DEF TypeOK, Linked, RecordEvidence, memoryVars
<1>8. ASSUME NEW s \in Session, NEW p \in Producer, NEW failed \in BOOLEAN,
             FinishProducer(s, p, failed)
      PROVE  Linked'
  BY <1>8, SaveSessionPresent DEF TypeOK, Linked, FinishProducer
<1>9. ASSUME NEW r \in Room, EndLookup(r)
      PROVE  Linked'
  BY <1>9 DEF TypeOK, Linked, EndLookup, runVars, sessionVars
<1>10. ASSUME NEW r \in Room, NEW s \in Session,
              NEW reason \in {"normal", "user_stop"}, EndCommit(r, s, reason)
       PROVE  Linked'
  BY <1>10, SaveSessionPresent DEF TypeOK, Linked, EndCommit
<1>11. ASSUME NEW s \in Session, NEW p \in Producer, NEW t \in Task,
              RegisterTask(s, p, t)
       PROVE  Linked'
  BY <1>11, SaveSessionPresent DEF TypeOK, Linked, RegisterTask, memoryVars
<1>12. ASSUME NEW s \in Session, NEW t \in Task, CompleteMedia(s, t)
       PROVE  Linked'
  BY <1>12, SaveSessionPresent DEF TypeOK, Linked, CompleteMedia, memoryVars
<1>13. ASSUME NEW t \in Task, ReadSession(t)
       PROVE  Linked'
  BY <1>13 DEF TypeOK, Linked, ReadSession, runVars, sessionVars
<1>14. ASSUME NEW t \in Task, Publish(t)
       PROVE  Linked'
  BY <1>14 DEF TypeOK, Linked, Publish, runVars, sessionVars
<1>15. CASE Crash
  BY <1>15 DEF TypeOK, Linked, Crash, runVars, sessionVars
<1>16. CASE StartProcess
  BY <1>16 DEF TypeOK, Linked, StartProcess, Interrupted, runVars
<1>17. CASE UNCHANGED vars
  BY <1>17 DEF Linked, vars, runVars, sessionVars, memoryVars
<1>18. QED
  BY <1>1, <1>2, <1>3, <1>4, <1>5, <1>6, <1>7, <1>8, <1>9, <1>10, <1>11, <1>12,
     <1>13, <1>14, <1>15, <1>16, <1>17 DEF Next

-----------------------------------------------------------------------------
(* A closed session stays closed: the store keeps no way back.             *)

LEMMA ClosedStable ==
  ASSUME TypeOK, Linked, [Next]_vars, NEW s \in Session, Closed(s)
  PROVE  Closed(s)'
<1> USE NoneIsNoRow DEF Closed, AllFinished, Producers
<1>1. room[s] # None
  BY DEF Linked
<1>2. ASSUME NEW r \in Room, NEW x \in Session, NEW p \in Producer,
             BeginProducer(r, x, p)
      PROVE  Closed(s)'
  BY <1>2 DEF TypeOK, BeginProducer, AcceptsProducers
<1>3. ASSUME NEW x \in Session, NEW p \in Producer, NEW failed \in BOOLEAN,
             FinishProducer(x, p, failed)
      PROVE  Closed(s)'
  BY <1>3 DEF TypeOK, FinishProducer
<1>4. ASSUME NEW r \in Room, NEW x \in Session,
             NEW reason \in {"normal", "user_stop"}, EndCommit(r, x, reason)
      PROVE  Closed(s)'
  BY <1>4 DEF TypeOK, EndCommit
<1>5. CASE StartProcess
  BY <1>5 DEF TypeOK, StartProcess
<1>6. CASE UNCHANGED <<blocked, ended, home, fin>>
  BY <1>6
<1>7. QED
  BY <1>2, <1>3, <1>4, <1>5, <1>6
  DEF Next, vars, sessionVars, memoryVars, Configure, EnsureRun, StopRun, RestartRun,
      OpenSession, OpenRefused,
      RecordEvidence, EndLookup, RegisterTask, CompleteMedia, ReadSession, Publish, Crash

-----------------------------------------------------------------------------
(* The six transactions that save a session row agree on what they do to   *)
(* every other session and to the runs; the invariants about runs are      *)
(* proved of that common part.                                             *)

Playable(s) == \E p \in Producers(s) : evid[p] = "playable"

Saving(s) ==
  /\ SaveSession(s)
  /\ room[s] # None
  /\ UNCHANGED <<runId, runSession, room, up, initialized, grant>>
  /\ ended'[s] = "open" => ended[s] = "open"
  /\ ended[s] # "open" /\ AllFinished(s) => AllFinished(s)'
  /\ Playable(s) => Playable(s)'
  /\ \A x \in Session \ {s} :
       /\ ended'[x] = ended[x]
       /\ AllFinished(x)' <=> AllFinished(x)
       /\ Playable(x) => Playable(x)'

LEMMA BeginSaves ==
  ASSUME TypeOK, Linked, NEW r \in Room, NEW s \in Session, NEW p \in Producer,
         BeginProducer(r, s, p)
  PROVE  Saving(s)
<1>1. room[s] = r /\ room[s] # None
  BY NoneIsNoRow DEF Linked, BeginProducer
<1>2. /\ home' = [home EXCEPT ![p] = s]
      /\ home[p] = None /\ ended[s] = "open"
      /\ UNCHANGED <<fin, evid, ended, runId, runSession, room, up, initialized, grant>>
      /\ SaveSession(s)
  BY DEF BeginProducer, AcceptsProducers
<1>3. \A q \in Producer, x \in Session : x # s => (home'[q] = x <=> home[q] = x)
  BY <1>2, NoneIsNoRow DEF TypeOK
<1>4. \A q \in Producer : home[q] = s => home'[q] = s
  BY <1>2 DEF TypeOK
<1>5. \A x \in Session \ {s} : AllFinished(x)' <=> AllFinished(x)
  BY <1>2, <1>3 DEF AllFinished, Producers
<1>6. \A x \in Session : Playable(x) => Playable(x)'
  BY <1>2, <1>3, <1>4 DEF Playable, Producers
<1>7. QED
  BY <1>1, <1>2, <1>5, <1>6 DEF Saving

LEMMA EvidenceSaves ==
  ASSUME TypeOK, Linked, NEW s \in Session, NEW p \in Producer,
         NEW v \in {"playable", "unknown"}, RecordEvidence(s, p, v)
  PROVE  Saving(s)
<1>1. room[s] # None
  BY NoneIsNoRow DEF Linked, RecordEvidence
<1>2. /\ evid' = [evid EXCEPT ![p] = v]
      /\ v = "unknown" => evid[p] # "playable"
      /\ UNCHANGED <<home, fin, ended, runId, runSession, room, up, initialized, grant>>
      /\ SaveSession(s)
  BY DEF RecordEvidence, memoryVars
<1>3. \A x \in Session : AllFinished(x)' <=> AllFinished(x)
  BY <1>2 DEF AllFinished, Producers
<1>4. \A q \in Producer : evid[q] = "playable" => evid'[q] = "playable"
  BY <1>2 DEF TypeOK
<1>5. \A x \in Session : Playable(x) => Playable(x)'
  BY <1>2, <1>4 DEF Playable, Producers
<1>6. QED
  BY <1>1, <1>2, <1>3, <1>5 DEF Saving

LEMMA FinishSaves ==
  ASSUME TypeOK, Linked, NEW s \in Session, NEW p \in Producer, NEW failed \in BOOLEAN,
         FinishProducer(s, p, failed)
  PROVE  Saving(s)
<1>1. room[s] # None
  BY NoneIsNoRow DEF Linked, FinishProducer
<1>2. /\ fin' = [fin EXCEPT ![p] = TRUE] /\ home[p] = s
      /\ UNCHANGED <<home, evid, ended, runId, runSession, room, up, initialized, grant>>
      /\ SaveSession(s)
  BY DEF FinishProducer
<1>3. \A q \in Producer : (fin[q] => fin'[q]) /\ (home[q] # s => (fin'[q] <=> fin[q]))
  BY <1>2 DEF TypeOK
<1>4. /\ \A x \in Session \ {s} : AllFinished(x)' <=> AllFinished(x)
      /\ AllFinished(s) => AllFinished(s)'
  BY <1>2, <1>3 DEF AllFinished, Producers
<1>5. \A x \in Session : Playable(x) => Playable(x)'
  BY <1>2 DEF Playable, Producers
<1>6. QED
  BY <1>1, <1>2, <1>4, <1>5 DEF Saving

LEMMA EndSaves ==
  ASSUME TypeOK, Linked, NEW r \in Room, NEW s \in Session,
         NEW reason \in {"normal", "user_stop"}, EndCommit(r, s, reason)
  PROVE  Saving(s)
<1>1. room[s] # None
  BY NoneIsNoRow DEF Linked, EndCommit
<1>2. /\ ended' = [ended EXCEPT ![s] = reason]
      /\ UNCHANGED <<home, fin, evid, runId, runSession, room, up, initialized, grant>>
      /\ SaveSession(s)
  BY DEF EndCommit
<1>3. \A x \in Session : (AllFinished(x)' <=> AllFinished(x)) /\ (Playable(x) => Playable(x)')
  BY <1>2 DEF AllFinished, Playable, Producers
<1>4. ended'[s] = reason /\ \A x \in Session \ {s} : ended'[x] = ended[x]
  BY <1>2 DEF TypeOK
<1>5. QED
  BY <1>1, <1>2, <1>3, <1>4 DEF Saving

LEMMA TaskSaves ==
  ASSUME TypeOK, Linked, NEW s \in Session, NEW t \in Task,
         CompleteMedia(s, t) \/ \E p \in Producer : RegisterTask(s, p, t)
  PROVE  Saving(s)
<1>1. room[s] # None
  BY NoneIsNoRow DEF Linked, CompleteMedia, RegisterTask
<1>2. /\ SaveSession(s)
      /\ UNCHANGED <<home, fin, evid, ended, runId, runSession, room, up, initialized, grant>>
  BY DEF CompleteMedia, RegisterTask, memoryVars
<1>3. \A x \in Session : (AllFinished(x)' <=> AllFinished(x)) /\ (Playable(x) => Playable(x)')
  BY <1>2 DEF AllFinished, Playable, Producers
<1>4. QED
  BY <1>1, <1>2, <1>3 DEF Saving

(* A step saves a session, or it is one of the actions on the run, the     *)
(* opening of a session, a start or a death of the process, or leaves the  *)
(* runs and the closure of the sessions alone.                             *)
RunStep ==
  \E r \in Room :
    \/ \E m \in Mode : Configure(r, m) \/ EnsureRun(r, m)
    \/ StopRun(r)
    \/ RestartRun(r)
    \/ \E s \in Session : OpenSession(r, s)

Quiet == UNCHANGED <<runVars, room, ended, blocked, home, fin, evid, up, initialized, grant>>

LEMMA StepCases ==
  ASSUME TypeOK, Linked, [Next]_vars
  PROVE  RunStep \/ (\E s \in Session : Saving(s)) \/ Crash \/ StartProcess \/ Quiet
<1>1. ASSUME NEW r \in Room, OpenRefused(r) \/ EndLookup(r)
      PROVE  Quiet
  BY <1>1 DEF Quiet, OpenRefused, EndLookup, sessionVars
<1>2. ASSUME NEW t \in Task, ReadSession(t) \/ Publish(t)
      PROVE  Quiet
  BY <1>2 DEF Quiet, ReadSession, Publish, sessionVars
<1>3. CASE UNCHANGED vars
  BY <1>3 DEF Quiet, vars, sessionVars, memoryVars
<1>4. QED
  BY <1>1, <1>2, <1>3, BeginSaves, EvidenceSaves, FinishSaves, EndSaves, TaskSaves
  DEF Next, RunStep

-----------------------------------------------------------------------------
(* A run is active only while a session of its own gives it work.          *)

LEMMA ActiveStep == TypeOK /\ Linked /\ ActiveRunHasWork /\ [Next]_vars => ActiveRunHasWork'
<1> SUFFICES ASSUME TypeOK, Linked, ActiveRunHasWork, [Next]_vars
             PROVE  ActiveRunHasWork'
  OBVIOUS
<1> USE NoneIsNoRow
<1>1. ASSUME NEW r \in Room, NEW m \in Mode, Configure(r, m) \/ EnsureRun(r, m)
      PROVE  ActiveRunHasWork'
  BY <1>1 DEF TypeOK, ActiveRunHasWork, Configure, EnsureRun, sessionVars, memoryVars, Recovered,
              Active, AllFinished, Producers
<1>2. ASSUME NEW r \in Room, StopRun(r) \/ RestartRun(r)
      PROVE  ActiveRunHasWork'
  BY <1>2 DEF TypeOK, ActiveRunHasWork, StopRun, RestartRun, sessionVars, Active,
              AllFinished, Producers
<1>3. ASSUME NEW r \in Room, NEW s \in Session, OpenSession(r, s)
      PROVE  ActiveRunHasWork'
  BY <1>3 DEF TypeOK, Linked, ActiveRunHasWork, OpenSession, Active, AllFinished, Producers
<1>4. ASSUME NEW s \in Session, Saving(s)
      PROVE  ActiveRunHasWork'
  <2> SUFFICES ASSUME NEW r \in Room
               PROVE  /\ state'[r] \in Active => runSession[r] # None /\ room[runSession[r]] = r
                      /\ state'[r] = "recording" => ended'[runSession[r]] = "open"
                      /\ state'[r] = "finalizing" =>
                           /\ ended'[runSession[r]] = "normal"
                           /\ ~AllFinished(runSession[r])'
    BY <1>4 DEF ActiveRunHasWork, Saving
  <2>1. ended'[s] \in {"open", "normal", "user_stop"}
    BY TypeStep DEF TypeOK
  <2>2. CASE Settled(r, s)
    <3>1. s = runSession[r] /\ runSession'[r] = s
      BY <1>4, <2>2 DEF Settled, Saving
    <3>2. state'[r] = "finalizing" => ended'[s] = "normal" /\ ~AllFinished(s)'
      BY <2>1, <2>2 DEF Settled
    <3>3. AllFinished(runSession[r])' <=> AllFinished(s)'
      BY <3>1 DEF AllFinished, Producers
    <3>4. QED
      BY <2>2, <3>1, <3>2, <3>3 DEF Settled, ActiveRunHasWork, Active
  <2>3. CASE /\ state'[r] = state[r]
             /\ r = room[s] /\ runSession[r] = s => ended'[s] = "open" \/ state[r] \notin Active
    <3>1. CASE runSession[r] = s
      BY <1>4, <2>3, <3>1 DEF ActiveRunHasWork, Active, Saving
    <3>2. CASE runSession[r] # s
      BY <1>4, <2>3, <3>2 DEF TypeOK, ActiveRunHasWork, Active, Saving
    <3>3. QED
      BY <3>1, <3>2
  <2>4. QED
    BY <1>4, <2>2, <2>3, SaveSessionRun DEF Saving
<1>5. CASE Crash \/ StartProcess \/ Quiet
  BY <1>5 DEF ActiveRunHasWork, Crash, StartProcess, Quiet, runVars, sessionVars,
              AllFinished, Producers
<1>6. QED
  BY <1>1, <1>2, <1>3, <1>4, <1>5, StepCases DEF RunStep

-----------------------------------------------------------------------------
(* A completed run.                                                        *)

\* What a capture leaves behind cannot be lost: the run stays completed with it.
LEMMA CompletedStep ==
  ASSUME TypeOK, Linked, CompletedHasPlayable, CompletedIsClosed, [Next]_vars
  PROVE  CompletedHasPlayable' /\ CompletedIsClosed'
<1> USE NoneIsNoRow
<1> DEFINE Good(r) == /\ runSession[r] # None
                      /\ AllFinished(runSession[r])
                      /\ Playable(runSession[r])
                      /\ ended[runSession[r]] # "open"
<1>1. \A r \in Room : state[r] = "completed" => Good(r)
  BY DEF CompletedHasPlayable, CompletedIsClosed, Playable
<1>2. SUFFICES ASSUME NEW r \in Room, state'[r] = "completed"
               PROVE  Good(r)'
  BY DEF CompletedHasPlayable, CompletedIsClosed, Playable
<1>3. ASSUME NEW x \in Room, NEW m \in Mode, Configure(x, m) \/ EnsureRun(x, m)
      PROVE  Good(r)'
  <2>1. state[r] = "completed"
    BY <1>2, <1>3 DEF TypeOK, Configure, EnsureRun, Recovered
  <2>2. QED
    BY <1>1, <1>3, <2>1 DEF Configure, EnsureRun, sessionVars, memoryVars, AllFinished, Playable,
                             Producers
<1>4. ASSUME NEW x \in Room, StopRun(x) \/ RestartRun(x)
      PROVE  Good(r)'
  <2>1. state[r] = "completed" /\ runSession'[r] = runSession[r]
    BY <1>2, <1>4 DEF TypeOK, StopRun, RestartRun
  <2>2. QED
    BY <1>1, <1>4, <2>1 DEF StopRun, RestartRun, sessionVars, AllFinished, Playable, Producers
<1>5. ASSUME NEW x \in Room, NEW s \in Session, OpenSession(x, s)
      PROVE  Good(r)'
  <2>1. state[r] = "completed" /\ runSession'[r] = runSession[r]
    BY <1>2, <1>5 DEF TypeOK, OpenSession
  <2>2. QED
    BY <1>1, <1>5, <2>1 DEF OpenSession, AllFinished, Playable, Producers
<1>6. ASSUME NEW s \in Session, Saving(s)
      PROVE  Good(r)'
  <2>1. SaveSession(s) /\ runSession' = runSession
    BY <1>6 DEF Saving
  <2>2. CASE Settled(r, s)
    <3>1. /\ runSession[r] = s /\ runSession'[r] = s /\ s # None
          /\ ended'[s] # "open" /\ AllFinished(s)' /\ Playable(s)'
      BY <1>2, <2>1, <2>2 DEF Settled, Playable
    <3>2. QED
      BY <3>1 DEF AllFinished, Playable, Producers
  <2>3. CASE state'[r] = state[r]
    <3>1. PICK x \in Session : x = runSession[r] /\ x = runSession'[r]
      BY <1>1, <1>2, <2>1, <2>3 DEF TypeOK
    <3>2. AllFinished(x) /\ Playable(x) /\ ended[x] # "open"
      BY <1>1, <1>2, <2>3, <3>1
    <3>3. AllFinished(x)' /\ Playable(x)' /\ ended'[x] # "open"
      BY <1>6, <3>2 DEF Saving
    <3>4. QED
      BY <3>1, <3>3 DEF AllFinished, Playable, Producers
  <2>4. QED
    BY <2>1, <2>2, <2>3, SaveSessionRun
<1>7. CASE Crash \/ StartProcess \/ Quiet
  BY <1>1, <1>2, <1>7 DEF Crash, StartProcess, Quiet, runVars, sessionVars,
                          AllFinished, Playable, Producers
<1>8. QED
  BY <1>3, <1>4, <1>5, <1>6, <1>7, StepCases DEF RunStep

-----------------------------------------------------------------------------
(* One capture per run.  The step that matters is the opening of a         *)
(* session: every older session of the same run id must be closed by then. *)

LEMMA SupersededStep ==
  TypeOK /\ Linked /\ ActiveRunHasWork /\ Superseded /\ [Next]_vars => Superseded'
<1> SUFFICES ASSUME TypeOK, Linked, ActiveRunHasWork, Superseded, [Next]_vars
             PROVE  Superseded'
  OBVIOUS
<1> USE NoneIsNoRow
<1>1. \A s \in Session : Closed(s) => Closed(s)'
  BY ClosedStable
<1> DEFINE Owed(s) == /\ room[s] # None
                      /\ \/ grant[s] = runId[room[s]] /\ s # runSession[room[s]]
                         \/ state[room[s]] = "waiting" /\ s = runSession[room[s]]
                         \/ up /\ room[s] \notin initialized
<1>2. \A s \in Session : Owed(s) => Closed(s)
  BY DEF Superseded, TypeOK
<1>3. SUFFICES ASSUME NEW s \in Session, Owed(s)'
               PROVE  Closed(s)'
  <2>1. Linked'
    BY LinkedStep
  <2>2. TypeOK'
    BY TypeStep
  <2>3. ASSUME \A s \in Session : Owed(s)' => Closed(s)'
        PROVE  Superseded'
    <3>1. ASSUME NEW r \in Room, state'[r] = "waiting", runSession'[r] # None
          PROVE  Closed(runSession[r])'
      <4>1. PICK x \in Session : x = runSession'[r] /\ room'[x] = r
        BY <2>1, <2>2, <3>1 DEF TypeOK, Linked
      <4>2. Closed(x)'
        BY <2>3, <3>1, <4>1
      <4>3. QED
        BY <4>1, <4>2 DEF Closed, AllFinished, Producers
    <3>2. QED
      BY <2>3, <3>1 DEF Superseded
  <2>4. QED
    BY <2>3
<1>4. ASSUME NEW r \in Room, NEW m \in Mode, Configure(r, m) \/ EnsureRun(r, m)
      PROVE  Closed(s)'
  <2>1. /\ room'[s] = room[s] /\ grant'[s] = grant[s] /\ room[s] \in Room
        /\ runSession' = runSession /\ up' /\ up /\ initialized \subseteq initialized'
    BY <1>3, <1>4 DEF TypeOK, Configure, EnsureRun, sessionVars, memoryVars
  <2>2. CASE room[s] # r
    BY <1>1, <1>2, <1>3, <1>4, <2>1, <2>2 DEF TypeOK, Configure, EnsureRun, memoryVars
  <2>3. CASE room[s] = r
    <3>1. state[r] # "absent" /\ runId'[r] = runId[r]
      BY <1>4, <2>3 DEF TypeOK, Linked, Configure, EnsureRun
    <3>2. state'[r] = "waiting" => state[r] = "waiting" \/ r \notin initialized
      BY <1>4, <3>1 DEF TypeOK, Configure, EnsureRun, memoryVars
    <3>3. QED
      BY <1>1, <1>2, <1>3, <2>1, <2>3, <3>1, <3>2
  <2>4. QED
    BY <2>2, <2>3
<1>5. ASSUME NEW r \in Room, StopRun(r)
      PROVE  Closed(s)'
  BY <1>1, <1>2, <1>3, <1>5 DEF TypeOK, StopRun, sessionVars, memoryVars
<1>6. ASSUME NEW r \in Room, RestartRun(r)
      PROVE  Closed(s)'
  BY <1>1, <1>2, <1>3, <1>6, BoundsAreNatural
  DEF TypeOK, Linked, RestartRun, sessionVars, memoryVars
<1>7. ASSUME NEW r \in Room, NEW x \in Session, OpenSession(r, x)
      PROVE  Closed(s)'
  BY <1>1, <1>2, <1>3, <1>7 DEF TypeOK, Linked, OpenSession
<1>8. ASSUME NEW x \in Session, Saving(x)
      PROVE  Closed(s)'
  <2>1. /\ SaveSession(x)
        /\ UNCHANGED <<runId, runSession, room, up, initialized, grant>>
    BY <1>8 DEF Saving
  <2>2. CASE Owed(s)
    BY <1>1, <1>2, <2>2
  <2>3. CASE ~Owed(s)
    <3>1. /\ room[s] \in Room
          /\ state'[room[s]] = "waiting" /\ state[room[s]] # "waiting"
          /\ s = runSession[room[s]]
      BY <1>3, <2>1, <2>3 DEF TypeOK
    <3>2. s = x /\ ended'[s] # "open" /\ AllFinished(s)'
      BY <2>1, <3>1, SaveSessionRun DEF Settled
    <3>3. QED
      BY <3>2 DEF Closed
  <2>4. QED
    BY <2>2, <2>3
<1>9. CASE Crash
  BY <1>1, <1>2, <1>3, <1>9 DEF Crash, runVars, sessionVars
<1>10. CASE StartProcess
  <2>1. blocked'[s] = (blocked[s] \/ Interrupted(s)) /\ room[s] # None
    BY <1>3, <1>10 DEF TypeOK, StartProcess
  <2>2. CASE Interrupted(s)
    BY <2>1, <2>2 DEF Closed
  <2>3. CASE ~Interrupted(s)
    BY <1>1, <2>1, <2>3 DEF Interrupted, Closed
  <2>4. QED
    BY <2>2, <2>3
<1>11. CASE Quiet
  BY <1>1, <1>2, <1>3, <1>11 DEF Quiet, runVars
<1>12. QED
  BY <1>4, <1>5, <1>6, <1>7, <1>8, <1>9, <1>10, <1>11, StepCases DEF RunStep

LEMMA OneCaptureStep ==
  TypeOK /\ Linked /\ Superseded /\ OneCapturePerRun /\ [Next]_vars => OneCapturePerRun'
<1> SUFFICES ASSUME TypeOK, Linked, Superseded, OneCapturePerRun, [Next]_vars
             PROVE  OneCapturePerRun'
  OBVIOUS
<1>1. \A s \in Session : Closed(s) => Closed(s)'
  BY ClosedStable
<1>2. CASE UNCHANGED <<room, grant>>
  BY <1>1, <1>2 DEF OneCapturePerRun
<1>3. ASSUME NEW r \in Room, NEW s \in Session, OpenSession(r, s)
      PROVE  OneCapturePerRun'
  <2>1. \A x \in Session \ {s} :
          (room'[x] = r /\ grant'[x] = grant'[s]) => Closed(x)
    BY <1>3, NoneIsNoRow DEF TypeOK, Superseded, OpenSession
  <2>2. \A x \in Session \ {s} : room'[x] = room[x] /\ grant'[x] = grant[x]
    BY <1>3 DEF OpenSession
  <2>3. room'[s] = r
    BY <1>3 DEF TypeOK, OpenSession
  <2>4. QED
    BY <1>1, <2>1, <2>2, <2>3 DEF OneCapturePerRun
<1>4. QED
  BY <1>2, <1>3, StepCases
  DEF RunStep, Configure, EnsureRun, StopRun, RestartRun, Saving, Crash, StartProcess, Quiet,
      sessionVars

-----------------------------------------------------------------------------
(* The recorders at work.                                                  *)

(* What the transactions but the begin of a producer do to the recorders:  *)
(* none joins, and one leaves only with its producer finished.             *)
Leaving ==
  /\ held' \subseteq held
  /\ UNCHANGED <<home, current>>
  /\ \A p \in Producer : fin[p] \/ p \in held => fin'[p] \/ p \in held'

LEMMA LeavingCases ==
  ASSUME TypeOK, Linked, NEW s \in Session,
         \/ \E p \in Producer, v \in {"playable", "unknown"} : RecordEvidence(s, p, v)
         \/ \E p \in Producer, failed \in BOOLEAN : FinishProducer(s, p, failed)
         \/ \E r \in Room, reason \in {"normal", "user_stop"} : EndCommit(r, s, reason)
         \/ \E t \in Task : CompleteMedia(s, t) \/ \E p \in Producer : RegisterTask(s, p, t)
  PROVE  Saving(s) /\ Leaving
<1>1. ASSUME NEW p \in Producer, NEW v \in {"playable", "unknown"}, RecordEvidence(s, p, v)
      PROVE  Saving(s) /\ Leaving
  BY <1>1, EvidenceSaves DEF RecordEvidence, Leaving, memoryVars
<1>2. ASSUME NEW p \in Producer, NEW failed \in BOOLEAN, FinishProducer(s, p, failed)
      PROVE  Saving(s) /\ Leaving
  <2>1. /\ held' = held \ {p} /\ UNCHANGED <<home, current>>
        /\ \A q \in Producer : fin[q] \/ q = p => fin'[q]
    BY <1>2 DEF TypeOK, FinishProducer
  <2>2. QED
    BY <1>2, <2>1, FinishSaves DEF Leaving
<1>3. ASSUME NEW r \in Room, NEW reason \in {"normal", "user_stop"}, EndCommit(r, s, reason)
      PROVE  Saving(s) /\ Leaving
  BY <1>3, EndSaves DEF EndCommit, Leaving
<1>4. ASSUME NEW t \in Task, CompleteMedia(s, t) \/ \E p \in Producer : RegisterTask(s, p, t)
      PROVE  Saving(s) /\ Leaving
  BY <1>4, TaskSaves DEF CompleteMedia, RegisterTask, Leaving, memoryVars
<1>5. QED
  BY <1>1, <1>2, <1>3, <1>4

LEMMA HoldersStep ==
  ASSUME TypeOK, Linked, ActiveRunHasWork, Superseded, CompletedIsClosed,
         CompletedHasPlayable, Holders, [Next]_vars
  PROVE  Holders'
<1> USE NoneIsNoRow
<1>1. \A s \in Session : Closed(s) => Closed(s)'
  BY ClosedStable
<1>2. \A p \in held : /\ p \in Producer /\ home[p] \in Session /\ room[home[p]] \in Room
                      /\ ~fin[p]
  BY DEF TypeOK, Linked
<1>3. TypeOK' /\ Linked'
  BY TypeStep, LinkedStep
<1> USE DEF Holders
<1>4. ASSUME NEW r \in Room, NEW m \in Mode, Configure(r, m) \/ EnsureRun(r, m)
      PROVE  Holders'
  <2>1. /\ UNCHANGED <<runSession, room, current, held, home, fin, ended, blocked>>
        /\ initialized \subseteq initialized'
        /\ \A x \in Room : x # r => state'[x] = state[x]
        /\ up
    BY <1>4 DEF TypeOK, Configure, EnsureRun, sessionVars, memoryVars
  <2>2. HoldersConfigured'
    BY <2>1 DEF HoldersConfigured
  <2>3. state'[r] = state[r] \/ (state[r] \in Active /\ r \notin initialized) \/ state[r] = "absent"
    BY <1>4 DEF TypeOK, Configure, EnsureRun, memoryVars
  <2>4. HoldersCounted'
    BY <1>2, <2>1, <2>3 DEF HoldersCounted, HoldersConfigured, Linked
  <2>5. PausedIsClosed'
    <3> SUFFICES ASSUME NEW x \in Room, state'[x] = "paused", runSession[x] # None
                 PROVE  Closed(runSession[x])
      BY <2>1 DEF PausedIsClosed, Closed, AllFinished, Producers
    <3>1. runSession[x] \in Session /\ room[runSession[x]] = x
      BY DEF TypeOK, Linked
    <3>2. CASE state[x] = "paused"
      BY <3>2 DEF PausedIsClosed
    <3>3. CASE state[x] # "paused"
      <4>1. x \notin initialized
        BY <1>4, <3>3, <2>1, <2>3 DEF TypeOK, Configure, EnsureRun, memoryVars
      <4>2. QED
        BY <2>1, <3>1, <4>1 DEF Superseded
    <3>4. QED
      BY <3>2, <3>3
  <2>6. HoldersRemain'
    <3>1. r \in initialized' /\ state'[r] \in Active => r \in initialized
      BY <1>4 DEF TypeOK, Configure, EnsureRun, Recovered, Active, memoryVars
    <3>2. initialized' \subseteq initialized \cup {r}
      BY <1>4 DEF Configure, EnsureRun, memoryVars
    <3>3. state'[r] \in Active => state[r] \in Active
      BY <1>4 DEF TypeOK, Configure, EnsureRun, Recovered, Active
    <3>4. QED
      BY <2>1, <3>1, <3>2, <3>3 DEF TypeOK, HoldersRemain, Producers
  <2>7. QED
    BY <2>2, <2>4, <2>5, <2>6
<1>5. ASSUME NEW r \in Room, StopRun(r)
      PROVE  Holders'
  BY <1>1, <1>2, <1>5 DEF TypeOK, StopRun, sessionVars, memoryVars, HoldersConfigured,
     HoldersCounted, PausedIsClosed, HoldersRemain, Active, Producers, Closed, AllFinished
<1>6. ASSUME NEW r \in Room, RestartRun(r)
      PROVE  Holders'
  BY <1>1, <1>2, <1>6 DEF TypeOK, RestartRun, sessionVars, memoryVars, HoldersConfigured,
     HoldersCounted, PausedIsClosed, HoldersRemain, Active, Producers, Closed, AllFinished
<1>7. ASSUME NEW r \in Room, NEW s \in Session, OpenSession(r, s)
      PROVE  Holders'
  <2>1. /\ UNCHANGED <<held, home, fin, ended, blocked, initialized>>
        /\ room[s] = None /\ r \in initialized
        /\ \A x \in Session : x # s => room'[x] = room[x]
        /\ \A x \in Room : x # r => state'[x] = state[x] /\ runSession'[x] = runSession[x]
                                    /\ current'[x] = current[x]
        /\ state'[r] = "recording" /\ runSession'[r] = s
    BY <1>7 DEF TypeOK, OpenSession
  <2>2. \A p \in Producer : home[p] # s
    BY <2>1 DEF Linked
  <2>3. HoldersConfigured'
    BY <1>2, <2>1, <2>2 DEF HoldersConfigured
  <2>4. HoldersCounted'
    BY <1>2, <2>1, <2>2 DEF HoldersCounted, Active
  <2>5. PausedIsClosed'
    BY <2>1 DEF PausedIsClosed, Closed, AllFinished, Producers
  <2>6. HoldersRemain'
    BY <2>1, <2>2 DEF TypeOK, HoldersRemain, Producers
  <2>7. QED
    BY <2>3, <2>4, <2>5, <2>6
<1>8. ASSUME NEW r \in Room, NEW s \in Session, NEW p \in Producer, BeginProducer(r, s, p)
      PROVE  Holders'
  <2>1. /\ UNCHANGED <<runSession, room, current, initialized, ended, blocked, fin>>
        /\ home' = [home EXCEPT ![p] = s] /\ held' = held \cup {p}
        /\ current[r] # None /\ s = latest[r]
        /\ home[p] = None /\ ended[s] = "open" /\ ~blocked[s]
        /\ SaveSession(s)
    BY <1>8 DEF BeginProducer, AcceptsProducers
  <2>2. room[s] = r
    BY <2>1 DEF Linked
  <2>3. state' = state
    BY <2>1 DEF TypeOK, SaveSession, Verdict
  <2>4. \A q \in Producer : home'[q] = IF q = p THEN s ELSE home[q]
    BY <2>1 DEF TypeOK
  <2>5. HoldersConfigured'
    BY <1>2, <2>1, <2>2, <2>4 DEF HoldersConfigured
  <2>6. runSession[r] = s => state[r] \in Active \cup {"stopped"}
    <3>1. ~Closed(s)
      BY <2>1 DEF Closed
    <3>2. runSession[r] = s => state[r] \notin {"absent", "waiting", "paused", "completed"}
      BY <2>1, <3>1 DEF Linked, Superseded, PausedIsClosed, CompletedIsClosed
    <3>3. state[r] \in RunState
      BY DEF TypeOK
    <3>4. QED
      BY <3>2, <3>3 DEF RunState, Terminal
  <2>7. HoldersCounted'
    BY <1>2, <2>1, <2>2, <2>3, <2>4, <2>6 DEF HoldersCounted
  <2>8. PausedIsClosed'
    <3> SUFFICES ASSUME NEW x \in Room, state'[x] = "paused", runSession'[x] # None
                 PROVE  Closed(runSession[x])'
      BY DEF PausedIsClosed
    <3>1. PICK y \in Session : y = runSession[x] /\ y = runSession'[x]
      BY <2>1 DEF TypeOK
    <3>2. Closed(y)'
      BY <1>1, <2>1, <2>3, <3>1 DEF PausedIsClosed
    <3>3. QED
      BY <3>1, <3>2 DEF Closed, AllFinished, Producers
  <2>9. HoldersRemain'
    BY <2>1, <2>3, <2>4 DEF HoldersRemain, Producers
  <2>10. QED
    BY <2>5, <2>7, <2>8, <2>9
<1>9. ASSUME NEW s \in Session, Saving(s), Leaving
      PROVE  Holders'
  <2>1. /\ SaveSession(s) /\ UNCHANGED <<runSession, room, initialized>>
        /\ held' \subseteq held /\ UNCHANGED <<home, current>>
        /\ \A p \in Producer : fin[p] \/ p \in held => fin'[p] \/ p \in held'
    BY <1>9 DEF Saving, Leaving
  <2>2. HoldersConfigured'
    BY <2>1 DEF HoldersConfigured
  <2>3. HoldersCounted'
    <3> SUFFICES ASSUME NEW p \in held', NEW r \in Room, r = room[home[p]], runSession[r] = home[p]
                 PROVE  state'[r] \in Active \cup {"stopped"}
      BY <1>2, <2>1 DEF HoldersCounted
    <3>1. state[r] \in Active \cup {"stopped"}
      BY <2>1 DEF HoldersCounted
    <3>2. CASE Settled(r, s)
      <4>1. home'[p] = s /\ ~fin'[p] /\ p \in Producer
        BY <1>2, <1>3, <2>1, <3>2 DEF Settled, Linked
      <4>2. ~AllFinished(s)'
        BY <4>1 DEF AllFinished, Producers
      <4>3. QED
        BY <3>2, <4>2 DEF Settled, Active
    <3>3. QED
      BY <2>1, <3>1, <3>2, SaveSessionRun
  <2>4. PausedIsClosed'
    <3> SUFFICES ASSUME NEW r \in Room, state'[r] = "paused", runSession'[r] # None
                 PROVE  Closed(runSession[r])'
      BY DEF PausedIsClosed
    <3>1. PICK x \in Session : x = runSession[r] /\ x = runSession'[r]
      BY <2>1 DEF TypeOK
    <3>2. Closed(x)'
      <4>1. CASE Settled(r, s)
        BY <3>1, <4>1 DEF Settled, Closed
      <4>2. CASE state'[r] = state[r]
        BY <1>1, <2>1, <3>1, <4>2 DEF PausedIsClosed
      <4>3. QED
        BY <2>1, <4>1, <4>2, SaveSessionRun
    <3>3. QED
      BY <3>1, <3>2 DEF Closed, AllFinished, Producers
  <2>5. HoldersRemain'
    <3>1. \A r \in Room : state'[r] \in Active => state[r] \in Active
      BY <2>1, SaveSessionRun DEF Settled
    <3>2. QED
      BY <2>1, <3>1 DEF TypeOK, HoldersRemain, Producers
  <2>6. QED
    BY <2>2, <2>3, <2>4, <2>5
<1>10. CASE Crash
  BY <1>10 DEF Crash, runVars, sessionVars, HoldersConfigured, HoldersCounted, PausedIsClosed,
               HoldersRemain, Closed, AllFinished, Producers
<1>11. CASE StartProcess
  <2>1. PausedIsClosed'
    <3> SUFFICES ASSUME NEW r \in Room, state'[r] = "paused", runSession'[r] # None
                 PROVE  Closed(runSession[r])'
      BY DEF PausedIsClosed
    <3>1. PICK x \in Session : x = runSession[r] /\ x = runSession'[r]
      BY <1>11 DEF TypeOK, StartProcess, runVars
    <3>2. Closed(x)'
      BY <1>1, <1>11, <3>1 DEF PausedIsClosed, StartProcess, runVars
    <3>3. QED
      BY <3>1, <3>2 DEF Closed, AllFinished, Producers
  <2>2. QED
    BY <1>11, <2>1 DEF StartProcess, runVars, HoldersConfigured, HoldersCounted, HoldersRemain,
                       Producers
<1>12. CASE \/ \E r \in Room : OpenRefused(r) \/ EndLookup(r)
            \/ \E t \in Task : ReadSession(t) \/ Publish(t)
            \/ UNCHANGED vars
  <2>1. /\ UNCHANGED <<state, runSession, room, home, fin, ended, blocked, held, initialized>>
        /\ \A r \in Room : current'[r] # None => current[r] # None
    BY <1>12 DEF TypeOK, OpenRefused, EndLookup, ReadSession, Publish, vars, runVars,
                 sessionVars, memoryVars
  <2>2. QED
    BY <2>1 DEF HoldersConfigured, HoldersCounted, PausedIsClosed, HoldersRemain, Closed,
                AllFinished, Producers
<1>13. QED
  BY <1>4, <1>5, <1>6, <1>7, <1>8, <1>9, <1>10, <1>11, <1>12, LeavingCases DEF Next

-----------------------------------------------------------------------------
(* Closure: a sealed session keeps its producers, their evidence and its   *)
(* tasks.  Whoever could change them holds a producer that has not         *)
(* finished, or meets a session that has ended.                            *)

KeepsInputs(s) ==
  /\ Sealed(s)'
  /\ Producers(s)' = Producers(s)
  /\ Tasks(s)' = Tasks(s)
  /\ \A p \in Producers(s) : evid'[p] = evid[p]

LEMMA SealedStep ==
  ASSUME TypeOK, Linked, [Next]_vars, NEW s \in Session, Sealed(s)
  PROVE  KeepsInputs(s)
<1> USE NoneIsNoRow
<1>1. /\ ended[s] # "open" /\ ~blocked[s] /\ room[s] # None
      /\ \A p \in Producer : home[p] = s => fin[p] /\ p \notin held
      /\ Producers(s) # {}
  BY DEF Linked, Sealed, AllFinished, Producers
<1>2. ASSUME NEW r \in Room, NEW x \in Session, NEW p \in Producer, BeginProducer(r, x, p)
      PROVE  KeepsInputs(s)
  <2>1. x # s /\ home[p] # s /\ home' = [home EXCEPT ![p] = x]
    BY <1>1, <1>2 DEF BeginProducer, AcceptsProducers
  <2>2. Producers(s)' = Producers(s)
    BY <2>1 DEF TypeOK, Producers
  <2>3. UNCHANGED <<ended, blocked, fin, evid, owner>>
    BY <1>2 DEF BeginProducer
  <2>4. QED
    BY <2>2, <2>3 DEF KeepsInputs, Sealed, AllFinished, Tasks
<1>3. ASSUME NEW x \in Session, NEW p \in Producer, NEW v \in {"playable", "unknown"},
             RecordEvidence(x, p, v)
      PROVE  KeepsInputs(s)
  <2>1. home[p] # s
    BY <1>1, <1>3 DEF RecordEvidence
  <2>2. \A q \in Producer : home[q] = s => evid'[q] = evid[q]
    BY <1>3, <2>1 DEF TypeOK, RecordEvidence
  <2>3. UNCHANGED <<ended, blocked, fin, home, owner>>
    BY <1>3 DEF RecordEvidence
  <2>4. QED
    BY <2>2, <2>3 DEF KeepsInputs, Sealed, AllFinished, Producers, Tasks
<1>4. ASSUME NEW x \in Session, NEW p \in Producer, NEW failed \in BOOLEAN,
             FinishProducer(x, p, failed)
      PROVE  KeepsInputs(s)
  <2>1. x # s
    BY <1>1, <1>4 DEF FinishProducer
  <2>2. blocked'[s] = blocked[s] /\ \A q \in Producer : fin[q] => fin'[q]
    BY <1>4, <2>1 DEF TypeOK, FinishProducer
  <2>3. UNCHANGED <<ended, evid, home, owner>>
    BY <1>4 DEF FinishProducer
  <2>4. QED
    BY <2>2, <2>3 DEF KeepsInputs, Sealed, AllFinished, Producers, Tasks
<1>5. ASSUME NEW r \in Room, NEW x \in Session,
             NEW reason \in {"normal", "user_stop"}, EndCommit(r, x, reason)
      PROVE  KeepsInputs(s)
  <2>1. ended'[s] # "open"
    BY <1>1, <1>5 DEF TypeOK, EndCommit
  <2>2. UNCHANGED <<blocked, fin, evid, home, owner>>
    BY <1>5 DEF EndCommit
  <2>3. QED
    BY <2>1, <2>2 DEF KeepsInputs, Sealed, AllFinished, Producers, Tasks
<1>6. ASSUME NEW x \in Session, NEW p \in Producer, NEW t \in Task, RegisterTask(x, p, t)
      PROVE  KeepsInputs(s)
  <2>1. x # s /\ owner[t] # s
    BY <1>1, <1>6 DEF RegisterTask
  <2>2. Tasks(s)' = Tasks(s)
    BY <1>6, <2>1 DEF TypeOK, RegisterTask, Tasks
  <2>3. UNCHANGED <<ended, blocked, fin, evid, home>>
    BY <1>6 DEF RegisterTask
  <2>4. QED
    BY <2>2, <2>3 DEF KeepsInputs, Sealed, AllFinished, Producers
<1>7. CASE StartProcess
  <2>1. blocked'[s] = blocked[s]
    BY <1>1, <1>7 DEF TypeOK, StartProcess, Interrupted, AllFinished, Producers
  <2>2. UNCHANGED <<ended, home, fin, evid, owner>>
    BY <1>7 DEF StartProcess
  <2>3. QED
    BY <2>1, <2>2 DEF KeepsInputs, Sealed, AllFinished, Producers, Tasks
<1>8. CASE UNCHANGED <<ended, blocked, home, fin, evid, owner>>
  BY <1>8 DEF KeepsInputs, Sealed, AllFinished, Producers, Tasks
<1>9. QED
  BY <1>2, <1>3, <1>4, <1>5, <1>6, <1>7, <1>8
  DEF Next, vars, sessionVars, memoryVars, Configure, EnsureRun, StopRun, RestartRun,
      OpenSession, OpenRefused,
      EndLookup, CompleteMedia, ReadSession, Publish, Crash

-----------------------------------------------------------------------------
(* The ready flag of a row and the readiness of its session change         *)
(* together: each transaction touches the row it saves and no other.       *)

Others(s) == \A x \in Session \ {s} : Ready(x)' <=> Ready(x)

LEMMA OthersKeepReadiness ==
  ASSUME TypeOK, NEW s \in Session,
         \A x \in Session \ {s} : ended'[x] = ended[x] /\ blocked'[x] = blocked[x],
         \A p \in Producer, x \in Session \ {s} :
           /\ home'[p] = x <=> home[p] = x
           /\ home[p] = x => fin'[p] = fin[p],
         \A t \in Task, x \in Session \ {s} :
           /\ owner'[t] = x <=> owner[t] = x
           /\ owner[t] = x => media'[t] = media[t]
  PROVE  Others(s)
<1> SUFFICES ASSUME NEW x \in Session \ {s}
             PROVE  Ready(x)' <=> Ready(x)
  BY DEF Others
<1>1. Producers(x)' = Producers(x) /\ \A p \in Producers(x) : fin'[p] = fin[p]
  BY DEF Producers
<1>2. Tasks(x)' = Tasks(x) /\ \A t \in Tasks(x) : media'[t] = media[t]
  BY DEF Tasks
<1>3. QED
  BY <1>1, <1>2 DEF Ready, Sealed, AllFinished

LEMMA ReadyFlagStep == TypeOK /\ Linked /\ ReadyFlagExact /\ [Next]_vars => ReadyFlagExact'
<1> SUFFICES ASSUME TypeOK, Linked, ReadyFlagExact, [Next]_vars
             PROVE  ReadyFlagExact'
  OBVIOUS
<1> USE NoneIsNoRow
<1>1. ASSUME NEW s \in Session, SaveSession(s), Others(s)
      PROVE  ReadyFlagExact'
  <2>1. Ready(s)' \in BOOLEAN
    BY DEF Ready
  <2>2. ready'[s] = Ready(s)' /\ \A x \in Session \ {s} : ready'[x] = ready[x]
    BY <1>1, <2>1 DEF TypeOK, SaveSession
  <2>3. ASSUME NEW x \in Session \ {s}
        PROVE  ready'[x] = Ready(x)'
    <3>1. Ready(x)' <=> Ready(x)
      BY <1>1 DEF Others
    <3>2. Ready(x) \in BOOLEAN /\ Ready(x)' \in BOOLEAN
      BY DEF Ready
    <3>3. ready'[x] = Ready(x)
      BY <2>2 DEF ReadyFlagExact
    <3>4. QED
      BY <3>1, <3>2, <3>3
  <2>4. QED
    BY <2>2, <2>3 DEF ReadyFlagExact
<1>2. ASSUME NEW r \in Room, NEW s \in Session, NEW p \in Producer, BeginProducer(r, s, p)
      PROVE  ReadyFlagExact'
  <2>1. Others(s)
    BY <1>2, OthersKeepReadiness DEF TypeOK, BeginProducer
  <2>2. QED
    BY <1>1, <1>2, <2>1 DEF BeginProducer
<1>3. ASSUME NEW s \in Session, NEW p \in Producer, NEW v \in {"playable", "unknown"},
             RecordEvidence(s, p, v)
      PROVE  ReadyFlagExact'
  <2>1. Others(s)
    BY <1>3, OthersKeepReadiness DEF RecordEvidence
  <2>2. QED
    BY <1>1, <1>3, <2>1 DEF RecordEvidence
<1>4. ASSUME NEW s \in Session, NEW p \in Producer, NEW failed \in BOOLEAN,
             FinishProducer(s, p, failed)
      PROVE  ReadyFlagExact'
  <2>1. Others(s)
    BY <1>4, OthersKeepReadiness DEF TypeOK, FinishProducer
  <2>2. QED
    BY <1>1, <1>4, <2>1 DEF FinishProducer
<1>5. ASSUME NEW r \in Room, NEW s \in Session,
             NEW reason \in {"normal", "user_stop"}, EndCommit(r, s, reason)
      PROVE  ReadyFlagExact'
  <2>1. Others(s)
    BY <1>5, OthersKeepReadiness DEF TypeOK, EndCommit
  <2>2. QED
    BY <1>1, <1>5, <2>1 DEF EndCommit
<1>6. ASSUME NEW s \in Session, NEW p \in Producer, NEW t \in Task, RegisterTask(s, p, t)
      PROVE  ReadyFlagExact'
  <2>1. Others(s)
    BY <1>6, OthersKeepReadiness DEF TypeOK, RegisterTask
  <2>2. QED
    BY <1>1, <1>6, <2>1 DEF RegisterTask
<1>7. ASSUME NEW s \in Session, NEW t \in Task, CompleteMedia(s, t)
      PROVE  ReadyFlagExact'
  <2>1. Others(s)
    BY <1>7, OthersKeepReadiness DEF TypeOK, CompleteMedia
  <2>2. QED
    BY <1>1, <1>7, <2>1 DEF CompleteMedia
<1>8. CASE StartProcess
  <2> SUFFICES ASSUME NEW s \in Session
               PROVE  ready'[s] = Ready(s)'
    BY DEF ReadyFlagExact
  <2>1. /\ ready'[s] = (ready[s] /\ ~Interrupted(s))
        /\ blocked'[s] = (blocked[s] \/ Interrupted(s))
        /\ UNCHANGED <<ended, home, fin, owner, media>>
    BY <1>8 DEF TypeOK, StartProcess
  <2>2. CASE Interrupted(s)
    BY <2>1, <2>2 DEF Ready, Sealed
  <2>3. CASE ~Interrupted(s)
    <3>1. ready'[s] = Ready(s) /\ blocked'[s] = blocked[s]
      BY <2>1, <2>3 DEF TypeOK, ReadyFlagExact, Ready
    <3>2. QED
      BY <2>1, <3>1 DEF Ready, Sealed, AllFinished, Producers, Tasks
  <2>4. QED
    BY <2>2, <2>3
<1>9. CASE UNCHANGED <<ready, ended, blocked, home, fin, owner, media>>
  BY <1>9 DEF ReadyFlagExact, Ready, Sealed, AllFinished, Producers, Tasks
<1>10. QED
  BY <1>2, <1>3, <1>4, <1>5, <1>6, <1>7, <1>8, <1>9
  DEF Next, vars, sessionVars, memoryVars, Configure, EnsureRun, StopRun, RestartRun,
      OpenSession, OpenRefused,
      EndLookup, ReadSession, Publish, Crash

-----------------------------------------------------------------------------
(* Publication: what a task has read of a ready session stays the whole    *)
(* session until it has published it, and afterwards.                      *)

LEMMA ReadyStable ==
  ASSUME TypeOK, Linked, [Next]_vars, NEW s \in Session, Ready(s)
  PROVE  Ready(s)' /\ Tasks(s)' = Tasks(s)
<1>1. KeepsInputs(s)
  BY SealedStep DEF Ready
<1>2. \A t \in Task : media[t] => media'[t]
  <2>1. ASSUME NEW x \in Session, NEW t \in Task, CompleteMedia(x, t)
        PROVE  \A u \in Task : media[u] => media'[u]
    BY <2>1 DEF TypeOK, CompleteMedia
  <2>2. CASE UNCHANGED media
    BY <2>2
  <2>3. QED
    BY <2>1, <2>2
    DEF Next, vars, sessionVars, memoryVars, Configure, EnsureRun, StopRun, RestartRun,
        OpenSession, OpenRefused,
        BeginProducer, RecordEvidence, FinishProducer, EndLookup, EndCommit, RegisterTask,
        ReadSession, Publish, Crash, StartProcess
<1>3. QED
  BY <1>1, <1>2 DEF KeepsInputs, Ready, Tasks

LEMMA PublishedStep ==
  ASSUME TypeOK, Linked, PublishedIsComplete, PublishedIsReady, [Next]_vars
  PROVE  PublishedIsComplete' /\ PublishedIsReady'
<1> USE NoneIsNoRow
<1>1. \A s \in Session : Ready(s) => Ready(s)' /\ Tasks(s)' = Tasks(s)
  BY ReadyStable
<1>2. /\ \A s \in Session : published[s] # {} => Ready(s) /\ published[s] = Tasks(s)
      /\ \A t \in Task : snapshot[t] # {} =>
           /\ owner[t] \in Session /\ Ready(owner[t]) /\ snapshot[t] = Tasks(owner[t])
  BY DEF TypeOK, Linked, PublishedIsComplete, PublishedIsReady
<1>3. \A t \in Task : owner[t] \in Session => owner'[t] = owner[t]
  <2>1. ASSUME NEW s \in Session, NEW p \in Producer, NEW t \in Task, RegisterTask(s, p, t)
        PROVE  \A u \in Task : owner[u] \in Session => owner'[u] = owner[u]
    BY <2>1 DEF TypeOK, RegisterTask
  <2>2. CASE UNCHANGED owner
    BY <2>2
  <2>3. QED
    BY <2>1, <2>2
    DEF Next, vars, sessionVars, memoryVars, Configure, EnsureRun, StopRun, RestartRun,
        OpenSession, OpenRefused,
        BeginProducer, RecordEvidence, FinishProducer, EndLookup, EndCommit, CompleteMedia,
        ReadSession, Publish, Crash, StartProcess
<1> DEFINE Whole(x, set) == Ready(x) /\ set = Tasks(x)
<1>4. SUFFICES
        /\ \A s \in Session : published'[s] # {} => Ready(s)' /\ published'[s] = Tasks(s)'
        /\ \A t \in Task : snapshot'[t] # {} =>
             \E x \in Session : x = owner'[t] /\ Ready(x)' /\ snapshot'[t] = Tasks(x)'
  BY DEF PublishedIsComplete, PublishedIsReady, Ready, Sealed, AllFinished, Producers, Tasks
<1>5. ASSUME NEW t \in Task, ReadSession(t)
      PROVE  snapshot'[t] # {} =>
               \E x \in Session : x = owner'[t] /\ Ready(x)' /\ snapshot'[t] = Tasks(x)'
  <2>1. PICK x \in Session : x = owner[t] /\ Ready(x) /\ snapshot'[t] = Tasks(x)
    BY <1>5 DEF TypeOK, ReadSession
  <2>2. QED
    BY <1>1, <1>3, <2>1
<1>6. \A t \in Task : snapshot'[t] # {} =>
        \E x \in Session : x = owner'[t] /\ Ready(x)' /\ snapshot'[t] = Tasks(x)'
  <2> SUFFICES ASSUME NEW t \in Task, snapshot'[t] # {}
               PROVE  \E x \in Session :
                        x = owner'[t] /\ Ready(x)' /\ snapshot'[t] = Tasks(x)'
    OBVIOUS
  <2>1. snapshot'[t] = snapshot[t] \/ ReadSession(t)
    BY DEF TypeOK, Next, vars, memoryVars, Configure, EnsureRun, StopRun, RestartRun, OpenSession,
           OpenRefused, BeginProducer, RecordEvidence, FinishProducer, EndLookup, EndCommit,
           RegisterTask, CompleteMedia, ReadSession, Publish, Crash, StartProcess
  <2>2. CASE snapshot'[t] = snapshot[t]
    <3>1. PICK x \in Session : x = owner[t] /\ Ready(x) /\ snapshot[t] = Tasks(x)
      BY <1>2, <2>2
    <3>2. QED
      BY <1>1, <1>3, <2>2, <3>1
  <2>3. QED
    BY <1>5, <2>1, <2>2
<1>7. \A s \in Session : published'[s] # {} => Ready(s)' /\ published'[s] = Tasks(s)'
  <2>1. ASSUME NEW t \in Task, Publish(t)
        PROVE  \A s \in Session : published'[s] # {} => Ready(s) /\ published'[s] = Tasks(s)
    <3>1. PICK x \in Session : x = owner[t] /\ Ready(x) /\ snapshot[t] = Tasks(x)
      BY <1>2, <2>1 DEF Publish
    <3>2. published' = [published EXCEPT ![x] = snapshot[t]]
      BY <2>1, <3>1 DEF Publish
    <3>3. QED
      BY <1>2, <3>1, <3>2 DEF TypeOK
  <2>2. CASE UNCHANGED published
    BY <1>1, <1>2, <2>2
  <2>3. QED
    BY <1>1, <2>1, <2>2
    DEF Next, vars, memoryVars, Configure, EnsureRun, StopRun, RestartRun, OpenSession, OpenRefused,
        BeginProducer, RecordEvidence, FinishProducer, EndLookup, EndCommit, RegisterTask,
        CompleteMedia, ReadSession, Crash, StartProcess
<1>8. QED
  BY <1>6, <1>7

-----------------------------------------------------------------------------
(* The refinement: what each step of the ledger is to RecordingQuota.      *)

Stutters == UNCHANGED <<mode, state, runId, Kept>>

\* Kept is unchanged when neither the runs nor their evidence change.
LEMMA KeptStable ==
  ASSUME UNCHANGED <<runSession, home, evid>>
  PROVE  Kept' = Kept
BY DEF Kept, Producers

LEMMA KeptByRow ==
  ASSUME \A r \in Room : Kept'[r] <=> Kept[r]
  PROVE  Kept' = Kept
<1>1. Kept \in [Room -> BOOLEAN] /\ Kept' \in [Room -> BOOLEAN]
  BY DEF Kept
<1>2. \A r \in Room : Kept'[r] = Kept[r]
  BY <1>1
<1>3. QED
  BY <1>1, <1>2

(* A save that brings no new evidence stutters, or is the end of the       *)
(* broadcast: it stops the run, waits for its recorders, or settles it.    *)
LEMMA SaveIsVerdict ==
  ASSUME TypeOK, Linked, NEW s \in Session, SaveSession(s), room[s] # None,
         UNCHANGED <<mode, runId, runSession, room>>, Kept' = Kept,
         Playable(s)' <=> Playable(s)
  PROVE  Quota!Next \/ Stutters
<1> DEFINE r == room[s]
<1>1. r \in Room /\ state' = [state EXCEPT ![r] = Verdict(s)]
  BY DEF TypeOK, SaveSession
<1>2. CASE runSession[r] # s \/ state[r] \notin Active \/ ended'[s] = "open"
  <2>1. state' = state
    BY <1>1, <1>2 DEF TypeOK, Verdict
  <2>2. QED
    BY <2>1 DEF Stutters
<1>3. CASE /\ runSession[r] = s /\ state[r] \in Active /\ ended'[s] # "open"
           /\ ended'[s] = "user_stop"
  <2>1. Quota!Stop(r)
    BY <1>1, <1>3 DEF Verdict, Quota!Stop, Active
  <2>2. QED
    BY <1>1, <2>1 DEF Quota!Next
<1>4. CASE /\ runSession[r] = s /\ state[r] \in Active /\ ended'[s] # "open"
           /\ ended'[s] # "user_stop" /\ ~AllFinished(s)'
  <2>1. state' = [state EXCEPT ![r] = "finalizing"]
    BY <1>1, <1>4 DEF Verdict
  <2>2. CASE state[r] = "recording"
    <3>1. Quota!Finalize(r)
      BY <2>1, <2>2 DEF Quota!Finalize
    <3>2. QED
      BY <1>1, <3>1 DEF Quota!Next
  <2>3. CASE state[r] = "finalizing"
    <3>1. state' = state
      BY <2>1, <2>3 DEF TypeOK
    <3>2. QED
      BY <3>1 DEF Stutters
  <2>4. QED
    BY <1>4, <2>2, <2>3 DEF Active
<1>5. CASE /\ runSession[r] = s /\ state[r] \in Active /\ ended'[s] # "open"
           /\ ended'[s] # "user_stop" /\ AllFinished(s)'
  <2>1. state' = [state EXCEPT ![r] = Outcome(s)']
    BY <1>1, <1>5 DEF Verdict
  <2>2. Kept[r] <=> Playable(s)
    BY <1>1, <1>5, NoneIsNoRow DEF Kept, Playable
  <2>3. mode[r] \in {"once", "continuous"}
    BY <1>1 DEF TypeOK, Mode
  <2>4. \/ mode[r] = "continuous" /\ Outcome(s)' = "waiting"
        \/ mode[r] = "once" /\ Kept[r] /\ Outcome(s)' = "completed"
        \/ mode[r] = "once" /\ ~Kept[r] /\ Outcome(s)' \in {"waiting", "paused"}
    <3>1. mode'[room'[s]] = mode[r]
      OBVIOUS
    <3>2. QED
      BY <2>2, <2>3, <3>1 DEF Outcome, Playable
  <2>5. Quota!Settle(r)
    BY <1>5, <2>1, <2>4 DEF Quota!Settle, Quota!Busy, Active
  <2>6. QED
    BY <1>1, <2>5 DEF Quota!Next
<1>6. QED
  BY <1>2, <1>3, <1>4, <1>5

\* The rows of a producer that begins are blank, so it brings no evidence.
LEMMA BeginIsStutter ==
  ASSUME TypeOK, Linked, NEW r \in Room, NEW s \in Session, NEW p \in Producer,
         BeginProducer(r, s, p)
  PROVE  Stutters
<1>1. /\ home' = [home EXCEPT ![p] = s] /\ home[p] = None
      /\ ended[s] = "open" /\ SaveSession(s)
      /\ UNCHANGED <<mode, runId, runSession, ended, evid>>
  BY DEF BeginProducer, AcceptsProducers
<1>2. state' = state
  BY <1>1 DEF TypeOK, SaveSession, Verdict
<1>3. \A q \in Producer, x \in Session :
        evid[q] = "playable" => (home'[q] = x <=> home[q] = x)
  BY <1>1 DEF TypeOK, Linked
<1>4. \A x \in Session : Playable(x)' <=> Playable(x)
  BY <1>1, <1>3 DEF Playable, Producers
<1>5. \A x \in Room : Kept'[x] <=> Kept[x]
  <2> SUFFICES ASSUME NEW x \in Room
               PROVE  Kept'[x] <=> Kept[x]
    OBVIOUS
  <2>1. CASE runSession[x] = None
    BY <1>1, <2>1 DEF Kept
  <2>2. CASE runSession[x] # None
    <3>1. PICK y \in Session : y = runSession[x] /\ y = runSession'[x]
      BY <1>1, <2>2 DEF TypeOK
    <3>2. (Kept[x] <=> Playable(y)) /\ (Kept'[x] <=> Playable(y)')
      BY <2>2, <3>1 DEF Kept, Playable, Producers
    <3>3. QED
      BY <1>4, <3>2
  <2>3. QED
    BY <2>1, <2>2
<1>6. Kept' = Kept
  BY <1>5, KeptByRow
<1>7. QED
  BY <1>1, <1>2, <1>6 DEF Stutters

(* Playable evidence comes from a producer that has not finished, whose    *)
(* run, if it is bound to the session, waits for the verdict or has been   *)
(* stopped.  The run does not move.                                        *)
LEMMA EvidenceIsKeep ==
  ASSUME TypeOK, Linked, ActiveRunHasWork, HoldersCounted,
         NEW s \in Session, NEW p \in Producer, NEW v \in {"playable", "unknown"},
         RecordEvidence(s, p, v)
  PROVE  Quota!Next \/ Stutters
<1> DEFINE r == room[s]
<1>1. /\ p \in held /\ home[p] = s /\ ~fin[p]
      /\ v = "unknown" => evid[p] # "playable"
      /\ evid' = [evid EXCEPT ![p] = v] /\ SaveSession(s)
      /\ UNCHANGED <<mode, runId, runSession, home, room, ended, fin>>
  BY DEF RecordEvidence
<1>2. r \in Room
  BY <1>1, NoneIsNoRow DEF TypeOK, Linked
<1>3. ~AllFinished(s)'
  BY <1>1 DEF AllFinished, Producers
<1>4. Verdict(s) = state[r]
  <2>1. CASE runSession[r] # s \/ state[r] \notin Active \/ ended[s] = "open"
    BY <1>1, <2>1 DEF Verdict
  <2>2. CASE ~(runSession[r] # s \/ state[r] \notin Active \/ ended[s] = "open")
    <3>1. state[r] = "finalizing" /\ ended[s] = "normal"
      BY <1>2, <2>2 DEF ActiveRunHasWork, Active
    <3>2. QED
      BY <1>1, <1>3, <2>2, <3>1 DEF Verdict
  <2>3. QED
    BY <2>1, <2>2
<1>5. state' = state
  BY <1>1, <1>2, <1>4 DEF TypeOK, SaveSession
<1>6. CASE runSession[r] = s /\ v = "playable"
  <2>1. state[r] \in Active \cup {"stopped"}
    BY <1>1, <1>6 DEF HoldersCounted
  <2>2. \A x \in Room : x # r => runSession[x] # s
    BY <1>2, NoneIsNoRow DEF Linked
  <2>3. \A x \in Room : x # r => (Kept'[x] <=> Kept[x])
    BY <1>1, <2>2 DEF TypeOK, Kept, Producers
  <2>4. Kept'[r]
    BY <1>1, <1>2, <1>6, NoneIsNoRow DEF TypeOK, Kept, Producers
  <2>5. Kept' = [Kept EXCEPT ![r] = TRUE]
    <3>1. Kept \in [Room -> BOOLEAN] /\ Kept' \in [Room -> BOOLEAN]
      BY DEF Kept
    <3>2. \A x \in Room : Kept'[x] = [Kept EXCEPT ![r] = TRUE][x]
      BY <2>3, <2>4, <3>1
    <3>3. QED
      BY <3>1, <3>2
  <2>6. Quota!Keep(r)
    BY <1>1, <1>5, <2>1, <2>5 DEF Quota!Keep, Quota!Busy, Active
  <2>7. QED
    BY <1>2, <2>6 DEF Quota!Next
<1>7. CASE runSession[r] # s \/ v = "unknown"
  <2>1. \A q \in Producer : home[q] # s \/ v = "unknown" =>
          (evid'[q] = "playable" <=> evid[q] = "playable")
    BY <1>1 DEF TypeOK
  <2>2. \A x \in Room : runSession[x] # s \/ v = "unknown"
    BY <1>2, <1>7, NoneIsNoRow DEF Linked
  <2>3. \A x \in Room : Kept'[x] <=> Kept[x]
    BY <1>1, <2>1, <2>2 DEF Kept, Producers
  <2>4. QED
    BY <1>1, <1>5, <2>3, KeptByRow DEF Stutters
<1>8. QED
  BY <1>1, <1>6, <1>7

\* The steps that touch no session: the run of one room moves as the quota says.
LEMMA RunStepIsQuota ==
  ASSUME TypeOK, Linked, RunStep
  PROVE  Quota!Next \/ Stutters
<1> USE NoneIsNoRow
<1>1. ASSUME NEW r \in Room, NEW m \in Mode, Configure(r, m) \/ EnsureRun(r, m)
      PROVE  Quota!Next \/ Stutters
  <2>1. Kept' = Kept
    BY <1>1, KeptStable DEF Configure, EnsureRun, sessionVars, memoryVars
  <2>2. CASE state[r] = "absent"
    <3>1. Quota!Arm(r, m)
      BY <1>1, <2>1, <2>2 DEF Configure, EnsureRun, Quota!Arm
    <3>2. QED
      BY <3>1 DEF Quota!Next, Mode
  <2>3. CASE Configure(r, m) /\ state[r] \in Active /\ r \notin initialized
    <3>1. runId' = runId
      BY <2>3 DEF TypeOK, Configure, Active
    <3>2. state' = [state EXCEPT ![r] = Recovered(m)] /\ mode' = [mode EXCEPT ![r] = m]
      BY <2>3 DEF TypeOK, Configure, Active
    <3>3. Quota!Lose(r, m)
      BY <2>1, <2>3, <3>1, <3>2 DEF Quota!Lose, Quota!Busy, Active, Recovered
    <3>4. QED
      BY <3>3 DEF Quota!Next, Mode
  <2>4. CASE /\ state[r] # "absent"
             /\ EnsureRun(r, m) \/ ~(state[r] \in Active /\ r \notin initialized)
    <3>1. state' = state /\ runId' = runId /\ mode' = [mode EXCEPT ![r] = m]
      BY <1>1, <2>4 DEF TypeOK, Configure, EnsureRun
    <3>2. Quota!SetMode(r, m)
      BY <2>1, <2>4, <3>1 DEF Quota!SetMode
    <3>3. QED
      BY <3>2 DEF Quota!Next, Mode
  <2>5. QED
    BY <1>1, <2>2, <2>3, <2>4
<1>2. ASSUME NEW r \in Room, StopRun(r)
      PROVE  Quota!Next
  <2>1. Kept' = Kept
    BY <1>2, KeptStable DEF StopRun, sessionVars
  <2>2. Quota!Stop(r)
    BY <1>2, <2>1 DEF StopRun, Quota!Stop
  <2>3. QED
    BY <2>2 DEF Quota!Next
<1>3. ASSUME NEW r \in Room, RestartRun(r)
      PROVE  Quota!Next
  <2>1. Kept' = [Kept EXCEPT ![r] = FALSE]
    BY <1>3 DEF TypeOK, RestartRun, sessionVars, Kept, Producers
  <2>2. Quota!Rearm(r)
    BY <1>3, <2>1 DEF RestartRun, Quota!Rearm, Quota!Busy, Active
  <2>3. QED
    BY <2>2 DEF Quota!Next
<1>4. ASSUME NEW r \in Room, NEW s \in Session, OpenSession(r, s)
      PROVE  Quota!Next
  <2>1. Producers(s) = {}
    BY <1>4 DEF Linked, Producers, OpenSession
  <2>2. Kept' = [Kept EXCEPT ![r] = FALSE]
    BY <1>4, <2>1 DEF TypeOK, OpenSession, Kept, Producers
  <2>3. Quota!Begin(r)
    BY <1>4, <2>2 DEF OpenSession, Quota!Begin
  <2>4. QED
    BY <2>3 DEF Quota!Next
<1>5. QED
  BY <1>1, <1>2, <1>3, <1>4 DEF RunStep

LEMMA StepIsQuota ==
  ASSUME TypeOK, Linked, ActiveRunHasWork, HoldersCounted, [Next]_vars
  PROVE  [Quota!Next]_(Quota!quotaVars)
<1>1. SUFFICES Quota!Next \/ Stutters
  BY DEF Stutters, Quota!quotaVars
<1>2. ASSUME NEW s \in Session, Saving(s), UNCHANGED <<mode, home, evid>>
      PROVE  Quota!Next \/ Stutters
  <2>1. Kept' = Kept /\ (Playable(s)' <=> Playable(s))
    BY <1>2, KeptStable DEF Saving, Playable, Producers
  <2>2. QED
    BY <1>2, <2>1, SaveIsVerdict DEF Saving
<1>3. ASSUME NEW s \in Session, NEW p \in Producer, NEW failed \in BOOLEAN,
             FinishProducer(s, p, failed)
      PROVE  Quota!Next \/ Stutters
  BY <1>2, <1>3, FinishSaves DEF FinishProducer
<1>4. ASSUME NEW r \in Room, NEW s \in Session,
             NEW reason \in {"normal", "user_stop"}, EndCommit(r, s, reason)
      PROVE  Quota!Next \/ Stutters
  BY <1>2, <1>4, EndSaves DEF EndCommit
<1>5. ASSUME NEW s \in Session, NEW t \in Task,
             CompleteMedia(s, t) \/ \E p \in Producer : RegisterTask(s, p, t)
      PROVE  Quota!Next \/ Stutters
  BY <1>2, <1>5, TaskSaves DEF CompleteMedia, RegisterTask
<1>6. CASE UNCHANGED <<mode, state, runId, runSession, home, evid>>
  BY <1>6, KeptStable DEF Stutters
<1>7. QED
  BY <1>3, <1>4, <1>5, <1>6, BeginIsStutter, EvidenceIsKeep, RunStepIsQuota
  DEF Next, RunStep, vars, runVars, sessionVars, OpenRefused, EndLookup, ReadSession,
      Publish, Crash, StartProcess

-----------------------------------------------------------------------------
(* The theorems.                                                           *)

\* The inductive invariant holds in every reachable state.
THEOREM Inductive == Spec => []IInv
<1>1. ASSUME Init
      PROVE  IInv
  <2>1. TypeOK
    BY <1>1, InitType
  <2>2. Linked /\ Superseded
    BY <1>1, NoneIsNoRow DEF Init, Linked, Superseded
  <2>3. ActiveRunHasWork /\ OneCapturePerRun /\ CompletedHasPlayable /\ CompletedIsClosed
    BY <1>1 DEF Init, ActiveRunHasWork, Active, OneCapturePerRun, CompletedHasPlayable,
                CompletedIsClosed
  <2>4. ReadyFlagExact /\ PublishedIsComplete /\ PublishedIsReady
    BY <1>1 DEF Init, ReadyFlagExact, Ready, Sealed, PublishedIsComplete, PublishedIsReady
  <2>5. Holders
    BY <1>1 DEF Init, Holders, HoldersConfigured, HoldersCounted, PausedIsClosed, HoldersRemain
  <2>6. QED
    BY <2>1, <2>2, <2>3, <2>4, <2>5 DEF IInv
<1>2. IInv /\ [Next]_vars => IInv'
  BY TypeStep, LinkedStep, ActiveStep, CompletedStep, SupersededStep, OneCaptureStep,
     HoldersStep, ReadyFlagStep, PublishedStep DEF IInv
<1>3. QED
  BY <1>1, <1>2, PTL DEF Spec

(* No transaction leaves a run active with nothing left to settle it: a    *)
(* recording run has an open session, a finalizing one a producer that is  *)
(* still to finish.                                                        *)
THEOREM ActiveRunsHaveWork == Spec => []ActiveRunHasWork
<1>1. IInv => ActiveRunHasWork
  BY DEF IInv
<1>2. QED
  BY Inductive, <1>1, PTL

(* At most one session of a run accepts input, whatever the order of ends, *)
(* restarts, mode changes, crashes and recoveries.                         *)
THEOREM OneCapture == Spec => []OneCapturePerRun
<1>1. IInv => OneCapturePerRun
  BY DEF IInv
<1>2. QED
  BY Inductive, <1>1, PTL

(* A run is completed only by a session all of whose producers have left,  *)
(* one of them with playable evidence.                                     *)
THEOREM CompletedIsEarned == Spec => []CompletedHasPlayable
<1>1. IInv => CompletedHasPlayable
  BY DEF IInv
<1>2. QED
  BY Inductive, <1>1, PTL

(* The ready flag the task queue filters on never differs from what the    *)
(* session itself says, whichever transaction wrote the row last.          *)
THEOREM ReadyFlagIsExact == Spec => []ReadyFlagExact
<1>1. IInv => ReadyFlagExact
  BY DEF IInv
<1>2. QED
  BY Inductive, <1>1, PTL

\* A published aggregate holds every task of its session.
THEOREM PublicationIsWhole == Spec => []PublishedIsComplete
<1>1. IInv => PublishedIsComplete
  BY DEF IInv
<1>2. QED
  BY Inductive, <1>1, PTL

\* A sealed session never takes another producer, task or verdict.
THEOREM SealedForGood == Spec => SealedIsFinal
<1>1. IInv /\ [Next]_vars =>
        [\A s \in Session : Sealed(s) =>
           /\ Sealed(s)'
           /\ Producers(s)' = Producers(s)
           /\ Tasks(s)' = Tasks(s)
           /\ \A p \in Producers(s) : evid'[p] = evid[p]]_vars
  BY SealedStep DEF IInv, KeepsInputs
<1>2. QED
  BY Inductive, <1>1, PTL DEF Spec, SealedIsFinal

(* A completed, paused or stopped run stays so until the user restarts it  *)
(* under a new run id; a late verdict or a recovery cannot revive it.      *)
THEOREM TerminalStays == Spec => TerminalUntilRearmed
<1>1. IInv /\ [Next]_vars =>
        [\A r \in Room :
           state[r] \in Terminal /\ runId'[r] = runId[r] =>
             /\ state'[r] \in {state[r], "stopped"}
             /\ runSession'[r] = runSession[r]]_vars
  <2> SUFFICES ASSUME TypeOK, Linked, [Next]_vars, NEW r \in Room,
                      state[r] \in Terminal, runId'[r] = runId[r]
               PROVE  state'[r] \in {state[r], "stopped"} /\ runSession'[r] = runSession[r]
    BY DEF IInv
  <2>1. state[r] \notin {"absent", "waiting"} \cup Active
    BY DEF Terminal, Active
  <2>2. ASSUME NEW x \in Room, NEW m \in Mode, Configure(x, m) \/ EnsureRun(x, m)
        PROVE  state'[r] = state[r] /\ runSession'[r] = runSession[r]
    BY <2>1, <2>2 DEF TypeOK, Configure, EnsureRun, memoryVars
  <2>3. ASSUME NEW x \in Room, StopRun(x) \/ RestartRun(x)
        PROVE  state'[r] \in {state[r], "stopped"} /\ runSession'[r] = runSession[r]
    BY <2>3 DEF TypeOK, StopRun, RestartRun
  <2>4. ASSUME NEW x \in Room, NEW s \in Session, OpenSession(x, s)
        PROVE  state'[r] = state[r] /\ runSession'[r] = runSession[r]
    BY <2>1, <2>4 DEF TypeOK, OpenSession
  <2>5. ASSUME NEW s \in Session, Saving(s)
        PROVE  state'[r] = state[r] /\ runSession'[r] = runSession[r]
    BY <2>1, <2>5, SaveSessionRun DEF Saving, Settled
  <2>6. CASE Crash \/ StartProcess \/ Quiet
    BY <2>6 DEF Crash, StartProcess, Quiet, runVars
  <2>7. QED
    BY <2>2, <2>3, <2>4, <2>5, <2>6, StepCases DEF RunStep
<1>2. QED
  BY Inductive, <1>1, PTL DEF Spec, TerminalUntilRearmed

(* The ledger implements the quota its users see: in once mode a grant is  *)
(* spent by the first broadcast that leaves playable media and by no       *)
(* other, and only the user renews it, across splits, late verdicts,       *)
(* changes of mode and deaths of the process.                              *)
THEOREM LedgerImplementsQuota == Spec => ImplementsQuota
<1>1. Init => Quota!Init
  <2> SUFFICES ASSUME Init
               PROVE  Quota!Init
    OBVIOUS
  <2>1. Kept = [r \in Room |-> FALSE]
    BY DEF Init, Kept
  <2>2. QED
    BY <2>1 DEF Init, Quota!Init
<1>2. IInv /\ [Next]_vars => [Quota!Next]_(Quota!quotaVars)
  BY StepIsQuota DEF IInv, Holders
<1>3. QED
  BY <1>1, <1>2, Inductive, PTL DEF Spec, ImplementsQuota, Quota!Spec

-----------------------------------------------------------------------------
(* The safety half of FinalizingIsSettled.  That a verdict comes is a      *)
(* matter of fairness; that one of the fair steps is owed, and that each   *)
(* brings the verdict nearer, is not.                                      *)

\* The producers a finalizing run waits for.
Awaited(r) == {p \in Producers(runSession[r]) : ~fin[p]}

(* A finalizing run is in debt of one of the steps Fairness asks for: the  *)
(* recovery of a room that is not configured, or the end of a recorder     *)
(* that is at work in its session, which is over.                          *)
FinalizingIsOwed ==
  \A r \in Room : state[r] = "finalizing" =>
    \/ r \notin initialized
    \/ \E p \in Awaited(r) \cap held : ended[home[p]] # "open"

(* While a run finalizes nobody joins those it waits for, and each         *)
(* recorder that finishes is one less.                                     *)
AwaitedShrinks ==
  [][\A r \in Room : state[r] = "finalizing" /\ state'[r] = "finalizing" =>
       /\ Awaited(r)' \subseteq Awaited(r)
       /\ \A p \in Awaited(r), failed \in BOOLEAN :
            FinishProducer(runSession[r], p, failed) => p \notin Awaited(r)']_vars

\* There is always a fair step that a finalizing run is owed.
THEOREM FinalizingOwed == Spec => []FinalizingIsOwed
<1>1. IInv => FinalizingIsOwed
  <2> SUFFICES ASSUME IInv, NEW r \in Room, state[r] = "finalizing", r \in initialized
               PROVE  \E p \in Awaited(r) \cap held : ended[home[p]] # "open"
    BY DEF FinalizingIsOwed
  <2>1. ended[runSession[r]] = "normal" /\ ~AllFinished(runSession[r])
    BY DEF IInv, ActiveRunHasWork
  <2>2. PICK p \in Producers(runSession[r]) : ~fin[p]
    BY <2>1 DEF AllFinished
  <2>3. p \in held
    BY <2>2 DEF IInv, Holders, HoldersRemain, Active
  <2>4. QED
    BY <2>1, <2>2, <2>3 DEF Awaited, Producers
<1>2. QED
  BY Inductive, <1>1, PTL

\* A finalizing run waits for fewer and fewer producers.
THEOREM FinalizingAdvances == Spec => AwaitedShrinks
<1>1. ASSUME TypeOK, Linked, ActiveRunHasWork, [Next]_vars, NEW r \in Room,
             state[r] = "finalizing", state'[r] = "finalizing"
      PROVE  Awaited(r)' \subseteq Awaited(r)
  <2>1. ended[runSession[r]] = "normal"
    BY <1>1 DEF ActiveRunHasWork
  <2>2. runSession'[r] = runSession[r]
    BY <1>1, StepCases
    DEF RunStep, Configure, EnsureRun, StopRun, RestartRun, OpenSession, Saving, Crash,
        StartProcess, Quiet, runVars, TypeOK, Active
  <2>3. \A p \in Producer : fin[p] => fin'[p]
    <3>1. ASSUME NEW s \in Session, NEW p \in Producer, NEW failed \in BOOLEAN,
                 FinishProducer(s, p, failed)
          PROVE  \A q \in Producer : fin[q] => fin'[q]
      BY <1>1, <3>1 DEF TypeOK, FinishProducer
    <3>2. QED
      BY <1>1, <3>1
      DEF Next, vars, sessionVars, memoryVars, Configure, EnsureRun, StopRun, RestartRun,
          OpenSession, OpenRefused,
          BeginProducer, RecordEvidence, EndLookup, EndCommit, RegisterTask, CompleteMedia,
          ReadSession, Publish, Crash, StartProcess
  <2>4. \A p \in Producer : home'[p] = runSession[r] => home[p] = runSession[r]
    <3>1. ASSUME NEW x \in Room, NEW s \in Session, NEW p \in Producer,
                 BeginProducer(x, s, p)
          PROVE  \A q \in Producer : home'[q] = runSession[r] => home[q] = runSession[r]
      <4>1. s # runSession[r] /\ home' = [home EXCEPT ![p] = s]
        BY <2>1, <3>1 DEF BeginProducer, AcceptsProducers
      <4>2. QED
        BY <1>1, <4>1 DEF TypeOK
    <3>2. QED
      BY <1>1, <3>1
      DEF Next, vars, sessionVars, memoryVars, Configure, EnsureRun, StopRun, RestartRun,
          OpenSession, OpenRefused,
          RecordEvidence, FinishProducer, EndLookup, EndCommit, RegisterTask, CompleteMedia,
          ReadSession, Publish, Crash, StartProcess
  <2>5. QED
    BY <2>2, <2>3, <2>4 DEF Awaited, Producers
<1>2. ASSUME TypeOK, NEW r \in Room, NEW p \in Awaited(r), NEW failed \in BOOLEAN,
             FinishProducer(runSession[r], p, failed)
      PROVE  p \notin Awaited(r)'
  BY <1>2 DEF TypeOK, FinishProducer, Awaited, Producers
<1>3. IInv /\ [Next]_vars =>
        [\A r \in Room : state[r] = "finalizing" /\ state'[r] = "finalizing" =>
           /\ Awaited(r)' \subseteq Awaited(r)
           /\ \A p \in Awaited(r), failed \in BOOLEAN :
                FinishProducer(runSession[r], p, failed) => p \notin Awaited(r)']_vars
  BY <1>1, <1>2 DEF IInv
<1>4. QED
  BY Inductive, <1>3, PTL DEF Spec, AwaitedShrinks

=============================================================================
