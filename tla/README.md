# A verification of bililive-go

bililive-go watches live rooms of many platforms, records a broadcast when it
starts and processes the recordings. This directory holds TLA+ models of its
coordination logic, the TLC configurations that check them on small instances,
and TLAPS proofs of its safety: of the recording ledger, the recorder manager,
the graceful update, the task queue, the event dispatcher, the life of a room,
the launcher and the media of a session. Paths below are relative to `src/src/`
of the repository.

## 1. The system

A broadcast passes through these parts:

    listener (polls a room) --LiveStart/LiveEnd events--> dispatcher
        |                                                  | one ordered lane per room
        | ConfigureRecordingRun, OpenRecordingSession      v
        |                                         recorder manager --- recorder goroutines
        v                                                  |  BeginRecordingProducer, evidence,
    recording ledger (runs and sessions in SQLite) <-------+  EnqueueTask, FinishRecordingProducer
        |  ready flag                                      |  "recording ended"
        v                                                  v
    task queue -> stages -> session publication     graceful update -> launcher

| Component | State | Operations | What is hard | What makes it correct |
|---|---|---|---|---|
| Recording runs and sessions, `pipeline/recording_*.go` | SQLite rows (run per room, session per broadcast, JSON maps of producers, evidence, tasks) and two maps of `Manager` | configure, stop, restart a run; open and end a session; begin and finish a producer, evidence; register and complete tasks; recovery | an end that looked the session up before it took the lock; late verdicts; crash between the end and the last producer; a copied ready flag | a run never hangs; one capture per grant; a finished run stays finished; the ready flag is exact; a publication is complete |
| Session media, `pipeline/stages/subtitle_generate.go`, `recording_checkpoint.go`, `live_session_media.go`, `session_publication.go`, `subtitle/recording_sources.go`, `library_*.go` | checkpoints, attempt directories, linked outputs, files of the episode, manifest, two locks | burn a recording, place its outputs, publish the episode or take it back, mark, remove the originals | an answer that never comes; a crash between two files; the lock of the library is not held everywhere | a recording is burned once; a whole episode or none; no original goes too early |
| Recorder manager, `recorders/manager.go` | `savers`, `stopping`, `restartingCount`, `closed`, timer chains | add, restart (split), remove, close | old recorders are closed outside the lock; splits, removals, timers and shutdown overlap | what runs is counted; no zombie recorders; splits go on; calls return |
| Recorder, `recorders/recorder.go` | stop channel, collected files, summary suppression | start, record, close, summary | the summary is handed from recorder to recorder | no segment is missing from a summary |
| Graceful update, `servers/update_handler.go`, `pkg/update/manager.go` | flag, state, goroutines under way | apply, wait, cancel, check, install | flag, count and state are read under different locks | the end of the last recording is noticed |
| Task queue, `pipeline/manager.go`, `store.go`, `executor.go`, `resume.go` | SQLite rows, `runningTasks`, wake channel | enqueue, schedule, start, execute, cancel, retry, delete, resume, restart | schedulers overlap; snapshots; shutdown; wake-ups | a task never runs twice at once; shutdown loses nothing; the limit holds |
| Listeners, `listeners/` | last status per room | start, poll, stop | status is updated although a step failed | a broadcast is recorded whenever it should be |
| Event dispatcher, `pkg/events/dispatcher.go` | tail of each ordered lane | dispatch, wait | waits see only the tail of their moment | order within a room, no lane blocked by a panic |
| Room controls, `servers/recording_mode.go` | - | start, stop listening, change mode | combines listener, manager and ledger | no listening while the old recorder is closed |
| Launcher, `pkg/launcher/`, `cmd/bililive/`, `servers/update_handler.go` | state file, runner state, child processes, `startupCh`, `processDone` | update, roll back, start, confirm, time out, fall back | messages and ends of processes race; the file is written in place; two processes write it | a bad version is left again; a launcher told to end does |
| Live state store, `livestate/` | sessions and "recording" marks of rooms | start, end, recover | unordered events, crash recovery | one open session per room |
| Rate limiter, `pkg/ratelimit/` | last access per platform | wait | concurrent waiters | spacing of requests |

The remaining parts (platform parsers, danmaku protocols, stream parsers and
proxies, the other media stages, configuration, HTTP and SSE, migrations,
metrics, web application) are listed in PROJECT.json with the reason they are
not modelled: they transform data or do I/O, and their protocol is a plain
call. Section 13 says what is left out and why.

## 2. Modules

| Module | Of | Composes | Results |
|---|---|---|---|
| `RecordingLedger` | runs and sessions, one transaction each | implements `RecordingQuota` | checked, with liveness; safety and refinement proved |
| `RecordingQuota` | what the user is promised about a once grant | | abstract |
| `RecorderManager` | recorders of a room, splits and removals | | checked; proved |
| `GracefulUpdate` | the update that waits for recordings | extends `RecorderManager` | checked; proved |
| `PipelineQueue` | tasks, schedulers, workers, handlers | | checked; safety proved |
| `EventLane` | a queue of events with waiters | | abstract |
| `EventDispatcher` | the ordered lane of a room | implements `EventLane` | checked; refinement proved |
| `RoomLifecycle` | listener, handlers, start and stop of a room | extends `EventDispatcher` | checked, with liveness; safety proved |
| `Launcher` | two processes, one state file, versions | | checked, with liveness; safety proved |
| `SessionMedia` | tasks, worker, episode, originals of one session | | checked; safety proved |

`MC<Module>` gives the symmetry or the definitions that a configuration needs;
`<Module>_proofs` holds the theorems. Every module stands for one component and
its immediate environment; a component that another module sees only in part
(the ledger and the recorder manager in `RoomLifecycle`, the queue in
`SessionMedia`) appears there as the choices its own module allows.

## 3. RecordingLedger: runs and sessions

One transaction of the store is one action, because every transaction runs
under the store's mutex. Rows are functions of their key: `mode`, `state`,
`runId`, `runSession` are the run of a room; `room`, `ended`, `blocked`,
`ready` a session; `home`, `fin`, `evid` a producer; `owner`, `media` a task
(the JSON maps of a session are recovered as `Producers(s)`, `Tasks(s)`).
`latest` is the row the `ORDER BY rowid DESC LIMIT 1` queries find.
`current`, `initialized` and the lookup of an `EndRecordingSession` call are
memory: a `Crash` clears them, together with the recorder goroutines (`held`).

- `EnsureRun` is the first transaction of `ConfigureRecordingRun`. `Configure`
  is the whole of it, with the recovery that the first call for a room in a
  process performs; what comes between the two transactions of a first call, and
  a first call whose second transaction fails, is `EnsureRun` and a `Configure`
  later. `StopRun`, `RestartRun` are the user's.
- `OpenSession`/`OpenRefused`, `EndLookup`+`EndCommit` follow the session; the
  lookup is a step of its own since the code makes it before it takes the lock.
- `BeginProducer`, `RecordEvidence`, `FinishProducer` are what a recorder
  calls; `RegisterTask`, `CompleteMedia` what the queue does; `ReadSession` and
  `Publish` the publishing stage.
- Every action that writes a session ends with `SaveSession`, as in the code:
  it moves the run (`Verdict`, `Outcome`) and stores the ready flag.
- `StartProcess` is `Manager.Start` with `RecoverRecordingSessions`.

Left out: errors of SQLite (each write succeeds while the process lives),
sessions of rooms without a run row (the path of older databases), the wording
of pause reasons, and which files a task carries.

`RecordingQuota` is what the user sees: a room is armed, a broadcast begins,
may leave playable media, is settled or its verdict is lost; a once grant is
spent only by a broadcast that left something playable, and only the user arms
again. `ImplementsQuota` maps `phase` to `state`, `arm` to `runId` and `kept`
to "the bound session has playable evidence".

| Run | Instance | Shows |
|---|---|---|
| `ledger` | 1 room, 2 sessions, 2 producers, 2 run ids, 1 crash, 2 tasks (see below), fairness | `ActiveRunHasWork`, `OneCapturePerRun`, `CompletedHasPlayable`, `TerminalUntilRearmed`, `ImplementsQuota`, `ReadyFlagExact`, `PublishedIsComplete`, `SealedIsFinal`, `FinalizingIsSettled` |

The constraint `Bound` of `MCRecordingLedger` cuts the instance in two ways.
`FirstNames`: the first session, producer and task is used before the second,
since names are interchangeable (TLC's symmetry is unsound under fairness).
`SecondTaskOrSession`: the second task comes only while there is one session
under one run id, since tasks of different sessions do not meet. That leaves 1.8
million states. TLC checks a liveness property on the behaviours that stay
inside; the fair actions never lead out of it (they make no session, producer,
task or run id), so no behaviour ends at the bound because it was cut.
Rooms share nothing but the store's mutex, so one room is enough; two sessions
and two run ids give every way an old session can meet a new run; two producers
are a split in progress (an old and a new recorder); one crash separates two
processes. Fairness: the process is started again, startup configures every
room, and the recorders of an ended session are closed by the same LiveEnd
event. Nothing is assumed of users, broadcasts or evidence.

## 4. RecorderManager: recorders, splits and removals

Callers of the manager are the event lane of a room (the dispatcher runs a
room's ordered events one after the other), the `cronRestart` chains and
`Main`, which closes the manager. What runs under `m.lock` is one action.
`RestartRecorder` is `Replace` (locked), `CloseForRestart`, `Collect` (waiting
for `r.done`), `Compare` (locked), `HandOver` (unlocked) and `RestartReturns`;
`RemoveRecorder` is `RemoveRecorder`/`JoinRemoval` (locked), then
`RemoveReturns`, which with FALSE is the panic that `defer` and the dispatcher
recover. `AddFails` and `ReplaceFails` are a recorder that does not start; as in
the code the timer chain has been started by then. `Accumulate`, `RunEnds`,
`RunDies` and `SendAccumulatedSummary` are a recorder's goroutine.
`restarting`, `savers` and `stopping` are the fields of the same names. The entry
of the live cache that `sendAccumulatedSummary` reads (`recorder.go:887`) is
always there, so its early return does not occur.

| Run | Instance | Shows |
|---|---|---|
| `recorder_summary` | 3 recorders, 2 chains, 2 segments | `NoSegmentLost` is violated (finding 1) |

Its other properties, `TypeOK` (as part of `UpdateTypeOK`), `ActiveIsCounted`,
`NoZombieRecorder`, `SplitIsScheduled`, `NobodyWaitsInVain` and
`ClosedForGood`, are checked by `graceful_update` below, whose specification contains every step of this
module, and are proved for any number of recorders, chains, callers and
segments. `Mortal` bounds which recorder goroutines may die by themselves (a
panic, the root context). `NobodyWaitsInVain` is the safety core of "every call
returns": a caller waits for a removal only while the handler that carries the
removal out still is at it. That a recorder which is told to stop leaves is an
assumption about parsers; one that never stops would block its room in the
code as well.

## 5. GracefulUpdate: the update that waits

Extends the recorder manager. The goroutines of `CheckGracefulUpdate`,
`applyUpdate` and `doApplyUpdate` are counted per stage (`at`), one stage per
read or write, since flag, count and state have locks of their own. A removal
and the end of a restart start a check after they have counted down
(`StartsCheck`). A missing update, path or data directory
(`pkg/update/manager.go:339`) is an `Install` that fails and leaves the update
ready. `ClearPending` takes the self-hosted path, since no update manager is
ever connected to the launcher (section 9). `late` and `unready` record the two
ways in which a flag may stay set: it was set after the last check, or the
update was not ready.

| Run | Instance | Shows |
|---|---|---|
| `graceful_update` | 2 recorders, 3 chains, 1 segment, 1 request | the properties of the recorder manager, `UpdateTypeOK`, `EndIsNoticed`: an overlap of split and removal never hides the last end |
| `graceful_promise` | 1 recorder, 1 request, fairness | `PromiseIsKept` is violated (finding 2) |

Two recorders are a split in progress: the recorder that is closed and the one
that takes its place. `RecorderManager` makes each recorder once and uses no
name of theirs again, so a behaviour of this instance holds two recordings; the
theorems, for any number of them, speak of longer ones. A chain's name is used
again when it has ended: three are the running chain, the one its restart starts
and one that was orphaned. Recorders, chains and segments are symmetric.
Fairness (of `graceful_promise` only): the goroutines that have been started go
on.

## 6. PipelineQueue: the tasks that follow a recording

The row of a task is `status`, `stage`, `files` and `due`; `files` is the
number of stages that have been applied to the recording, which is all that
resuming can get wrong. `due` is FALSE while `not_before` lies ahead or the
recording session holds the task back; `BecomeDue` is the clock or the ledger.
`running` is `Manager.runningTasks`, and names the worker whose context the
entry holds; `aborted` are the contexts `CancelTask` has cancelled, and `life =
"closing"` is a cancelled `m.ctx`.

- `Tick` starts `scheduleNextTasks` in the polling loop. A wake-up is a tick
  that comes early, so the wake channel is not modelled. `EnqueueTask` and
  `RetryTask` start it in a goroutine of `Helper`. Its steps are `CountSlots`
  (locked), `FetchTasks` (the query), per task `StartTask`/`SkipTask` (locked)
  and `MarkStarted` (the write that follows, and the start of the worker).
- A worker runs `BeginStage`, `CompleteStage` (`OnStageCompleted`),
  `ReportStage` (the progress report after it), `FailStage`, `PanicStage`,
  `LeaveLoop`, `FinishTask` and `LeaveTask` (the deferred end). A worker
  writes its own copy of the row (`wstage`, `wfiles`), never one it has read
  again.
- `UpdateTask` writes the whole row, and nothing when the row has been deleted
  or the context it is given is cancelled: `database/sql` refuses it.
- `CancelTask` is `ReadTask`, `LookUpContext` and then `CancelContext` or
  `CancelRow`; `RetryTask` and `ResumeTask` are a read and a write;
  `DeleteTask` is `CheckDelete` and the deletion after the lock is released.
- `Start` is `Manager.Start` with `ResetRunningTasks`, `Close` cancels `m.ctx`,
  `Exit` ends the process, after `Close` or by a crash.

Left out: stage results (so `Unchanged` compares less than the code and lets
more resumes through), progress, parallel stages (one stage to the executor),
disabled stages, errors of SQLite other than a cancelled context.

| Run | Instance | Shows |
|---|---|---|
| `queue` | 1 task, 2 workers, 2 handlers, 2 schedulers, 1 stage, 2 lives | `OneWorkerPerTask`, `RunningRowHasWorker`, `CancelledOnRequest` |
| `queue_checkpoint` | 1 task, 2 stages, 2 lives | `CompletedStagesStay` is violated (finding 3) |
| `queue_limit` | 2 tasks, 3 schedulers | `LimitHolds` is violated (finding 4) |

Tasks share only the limit, which is never relied on by the three invariants,
so one task with several actors is enough for them; the proofs cover the rest.
The two schedulers are the polling loop and one `Helper`. `MaxFiles` 2 lets the
one stage run on its own output, as after finding 3. No fairness is assumed:
nothing about the queue is claimed to happen eventually.

## 7. EventDispatcher: the ordered lane of a room

`pkg/events/dispatcher.go` has no queue: a dispatched event gets a goroutine
that waits for the channel of the event before it (`previous`), and the
dispatcher keeps only the last channel (`tail`). `Dispatch`, `Handle` and
`Finish` are `DispatchEvent`, the moment a goroutine has waited for its
predecessor, and the deferred function, which runs after a panic too. `Wait`,
`Return`, `GiveUp` are `WaitForOrderedEvents`. Names of events are used again
when no goroutine holds their channel, so the number of events is not bounded,
only those referred to at one time.

`EventLane` is a queue: events are handled one at a time in the order of
dispatch, and a waiter returns when everything dispatched before its call has
been handled. `ImplementsLane` says that the channels are such a queue; it is
checked by the run `room`, where the events have real handlers, and proved for
any number of events and waiters. Unordered events (no key) have no lane and no
promise; `SetHandlers` happens before the first event.

## 8. RoomLifecycle: from the switch to the recorder

One room: `Platform` is the broadcast; a listener's goroutine is `lpc`
(`SelfClose`, `FirstPollIsQuiet`, `PollAnswers` and `Announce` are the parts of
`run`, `refresh` and `processInfo`); the handlers an event has in the lane are
the `Handle...` actions and what follows them (`at`): first those of the
pipeline (`livestate/events.go`), then those of the recorder manager, which
wait for a recorder in the middle. `Start...` are the statements of
`startListening` with `AddListener`, `Stop...` those of `stopListening`.

- `lockRecordingControl` holds a mutex of the room from the first to the last
  statement of a call, so one process `Control` stands for all callers.
- The run, the session and the recorders are here as far as listener and
  handlers see them. `Verdict` gives any verdict the ledger may give.
- A failing store call closes the listener, refuses or undoes a start or a stop,
  or leaves a session unopened or open. `CallFails` is one of a control call,
  whose caller is told. `Fault` is one that nobody repeats: `missed` records it,
  because `listener.go:205` takes the room for live all the same and the
  broadcast is not tried again. `SeenIsRecorded` exempts it and `LiveIsRecorded`
  is checked without faults, so this loss is shown and not excluded (a hazard
  without a property). `StopIsComplete`, `StartIsClean`, `OrphanFree` and
  `ImplementsLane` hold with faults of both kinds.
- A goroutine that gives up before `Start` has returned (its first look at the
  run fails) cannot close its listener, which is still pending: `Start` then makes
  it running although nobody polls for it. `SelfClose` and `StartReturns` allow
  that.
- A LiveEnd is confirmed three minutes after the first poll without a
  broadcast. `Sees` assumes that the LiveStart before it has been handled by
  then, which no guard of `listener.go:176` says; it is an assumption on timing.
  Without it TLC finds a broadcast that is never recorded.
- Not here: the listener manager's own lock (the control calls are the only
  callers after the start of the program), the listeners that are created at
  boot, `replaceListener` for a room that is still being initialized, shutdown.

| Run | Instance | Shows |
|---|---|---|
| `room` | 2 listeners, 2 recorders, 3 events, 1 fault | `StopIsComplete`, `OrphanFree`, `SeenIsRecorded`, `StartIsClean`, `ImplementsLane` |
| `room_liveness` | 2 listeners, 2 recorders, 2 events, fairness | `LiveIsRecorded`, `EndStopsRecording` |

Two listeners are the closed one, whose goroutine still runs, and its
successor; two recorders a split; three events the end of the old listener, the
user's stop and one event of a broadcast. Free names are taken by `CHOOSE`, so
there is no symmetry. Fairness: goroutines run on; a recorder told to stop
stops; the lane and the polls that bring news are strongly fair, since a step
of another goroutine may disable one for a while (a lane waits for a recorder,
a listener that asks the platform for ever gets an answer again and again).
Nothing is assumed of the user and of the broadcast.

## 9. Launcher: running a newer version

The process that was started is either the program itself ("plain") or the
launcher of another version. `proc` is where it is: `Boot` is
`launcher.Check`, `PlainApplies` the update and rollback handlers of a plain
program, `Switch` its return to `main`, and from "top" on the loop of
`Runner.Run`, one action per read or write of state that other goroutines
share. `Reap`, `Hear` and `Record` are those goroutines: the one that waits for
the process and the two halves of `handleMessage`. A child comes up, tells the
launcher, applies an update itself (`ChildApplies`: it writes the same file)
and ends.

- The entry process is the first of its container: when it ends or power is
  lost, the children end with it.
- `os.WriteFile` writes the file in place: a loss of power in any process that
  may write tears it. `Remove` is a binary somebody deletes.
- The children's update managers are never connected to the launcher
  (`IsLauncherConnected`), so an update always takes the self-hosted path; this
  is what the code does and not a restriction of the model.
- A child that is asked to shut down cancels its root context, but
  `cmd/bililive/bililive.go:308` closes no service then, so it runs on until it
  is killed; `Kill` does not wait for the reaper.
- `handleMessage` believes a `startup_success` of any process. `Hear` therefore
  takes one that a child has sent before it was given up, after the next child
  has been started, and `misled` remembers that it has done so. A launcher that
  is misled may wait for ever for a child that hangs: `StartIsConfirmed` is
  violated (finding 5), and `ServiceReturns` claims nothing then. Without that
  exemption TLC finds it violated, too.
- A start fails when the binary is gone, cannot be run, or the context has been
  cancelled (`StartFails`).
- Bounds: the failure count and the history counter `tries` are cut off at
  `Most`, which is larger than every number that a guard or `TriesBounded`
  compares them with. A child's name is used again when its process is
  reaped and its message read; `StartMainProgram` waits for a free name, which
  bounds the processes and messages that are under way at one time.

| Run | Instance | Shows |
|---|---|---|
| `launcher` | the deployed and one other version, 2 children, 2 retries, 2 updates, 1 fault, fairness | `TriesBounded`, `ServiceReturns`, `SignalEnds` |
| `launcher_start` | the same, without fairness | `StartIsConfirmed` is violated (finding 5) |

Every version but the deployed one may be bad. Two versions are what a state
file names at a time; a third adds states and no case: with three versions and
no fault (1.7 million states) the properties hold as well. Two children are the
one that is being killed and its successor. Fairness: the container restarts
the entry process, goroutines run on, a child that has applied an update ends,
and a version that works comes up within the time-out again and again;
otherwise a slow machine falls back for ever, as it would in the code.

## 10. SessionMedia: one broadcast in the library

The tasks of one session, each with its recordings (`InputsOf`), beside the
worker that transcribes and burns. A task is one `Execute` of the subtitle
stage: checkpoint (`LoadFinished`, `BeginAttempt`, `LoadRefused`), worker
(`Ask`, `Answer...`), `Confirm` and `Complete`, `LinkOutput` for srt, ass and
mp4, `CompleteMedia`; the task that completes the session publishes:
`SaveManifest`, `Reuse` or `Build`, `PublishFile` per file in the order of the
code, `Undo...` on failure, `Commit`, `Post`, `ReadMark`/`WriteMark`, and the
removal of the originals (`BeginSweep`, `LinkSource`, `RemoveSource`,
`SweepDone`), which the retention and the DELETE handler (`Cleaner`) do too.
`SetKeepSource` is the user's mark. `mutex` and `lock` are
`knowledgeSessionManifestMu` and `LockLibraryPublication`.

- Faults: crashes (`Crash`: running tasks are pending again, files written in
  place may be torn), calls that fail (`StageFails`, `PublishFails`,
  `UndoFails`, `SweepFails`), files of others where ours should go.
- `PipelineQueue` has shown that one worker works on a task, so one process per
  task is enough here; `RecordingLedger` decides when the session is `Ready`.
- "show" stands for tvshow.nfo and poster.jpg, which are replaced with a backup.
- `UndoFails` either takes nothing away (a file that can no longer be verified,
  or a video that cannot be removed) or leaves one sidecar behind and goes on.
- `ForeignFile` puts a file where one of ours is going to be. Somebody who
  replaces a file that is already in place, which `liveSessionFileUnchanged`
  (`live_session_media.go:1394`) would find, is left out.
- `Valid` and `Reuse` look at the files of the one episode. In the code
  `ValidatePublishedLibraryEpisode` checks the numbers of all episodes of the
  season as well (`library_publication.go:25`, `library_hardlink.go:322`), so a
  number that is missing or used twice in another episode can block the reuse,
  the removal and the resume of this one. One session has no other episodes.
- Exempt from the properties, and recorded in history variables: `spoiled`, a
  recording whose checkpoint was marked with the knowledge status while a
  removal linked it to the episode (`knowledge_sync.go:325` writes the whole
  checkpoint without the library's lock), or whose checkpoint or metadata was
  torn; `broken`, a publication that a crash cut off or that could not be
  undone (it is then refused as "unverified target already exists" until a
  person clears the directory). A recording whose answer was lost stays
  refused, too, on purpose: nobody can tell whether it was burned.

| Run | Instance | Shows |
|---|---|---|
| `session_media` | a task of two recordings and a task of one, 2 faults | `BurnedOnce`, `EpisodeStays`, `NoHalfEpisode`, `ResumeStaysPossible`, `KeptIsKept`, `NeverOverwrites` |

Two tasks are the two that race to be the last; two recordings in one of them
let a task fail between them. Two faults are a lost call and a crash, or a
crash in the recovery from the first. All tasks may be done, so a state without
a successor is no error. No fairness: a session may wait for a person. That a
recording belongs to one task is an assumption (`OneTaskPerInput`): a recorder
enqueues each of its files once.

## 11. Findings

1. `recorders/recorder.go:875` promises one notification with all segment
   files. When the broadcast ends while a timed split is still closing the old
   recorder, `RestartRecorder` finds that the new recorder is gone and drops
   the old one's files with a warning (`recorders/manager.go:266`).
2. `servers/update_handler.go:328` answers that the update follows once all
   recordings have ended. The handler counts first and sets the flag later; if
   the last recording ends, and its check runs, in between, nothing checks
   again and the update waits although nothing records.
3. `pipeline/types.go:89` and `manager_schedule_test.go:89` say that a task is
   continued after the stages that are complete. `OnStageCompleted` saves
   `CurrentStage = i+1` with the output of stage i (`manager.go:227`), but the
   progress report that follows saves `CurrentStage = i` with the same output
   (`manager.go:244`). A process that ends before the next stage is reported
   runs stage i again, on its own output.
4. `configs/config.go:337` documents `max_concurrent` as the largest number of
   concurrent tasks. Several goroutines run `scheduleNextTasks`; each counts
   first (`manager.go:140`) and starts what it has fetched later, without
   counting again, so together they exceed the limit.
5. `pkg/launcher/launcher.go:278` takes what arrives on `startupCh` for the
   confirmation that the start was a success and goes on to wait without a time
   limit. `handleMessage` (`:454`) does not compare the PID of the message: a
   child that answers just after it was given up confirms the start of the next
   one. When that one hangs it is waited for, and nothing is counted or rolled
   back. `OnlyLateWordsMislead` proves that there is no other way to this state.

## 12. Proofs

`RecordingLedger_proofs` proves for every set of rooms, sessions, producers and
tasks and every bound, from `NoneIsNoRow` and `BoundsAreNatural` alone:
`TypeCorrect`, `ActiveRunsHaveWork`, `OneCapture`, `CompletedIsEarned`,
`ReadyFlagIsExact`, `PublicationIsWhole`, `SealedForGood`, `TerminalStays`,
`LedgerImplementsQuota`, `FinalizingOwed`, `FinalizingAdvances`.

None of the invariants but the type is inductive alone. `IInv` adds
- `Linked`: rows refer to rows that exist, and rows that do not exist are
  blank; in particular a run, a lookup and a latest session belong to the room
  that holds them, and no session is older than its run;
- `Superseded`: a session its run has left behind is closed, so is the session
  of a waiting run, and so is every session of a room that this process has
  not configured yet. This is the heart of `OneCapture`: the next session of a
  run is opened only when the run waits, so the previous one is closed by then,
  and `ClosedStable` shows that it stays so;
- `PublishedIsReady`: what has been read or published comes from a session that
  is still ready, which `SealedStep` keeps.

The step lemmas split `Next` by what the actions have in common: `Saving(s)`
(the six transactions that end with `SaveSession`), the steps of the run row,
`Crash`, `StartProcess`, and quiet steps. `SaveSessionRun` says once what a
save may do to a run; the lemmas that follow cite it.

The refinement and the two halves of liveness need `Holders` as well: a recorder
at work belongs to a room that this process has configured, and to a run that is
active or stopped (`HoldersCounted`, so late evidence never meets a verdict); a
paused run's session takes no input; and an unfinished producer of an active run
has its recorder at work (`HoldersRemain`, so a verdict is never waited for in
vain). Then the steps map to `RecordingQuota`: `EnsureRun` to Arm or SetMode, `Configure` to
those or Lose, `OpenSession`
to Begin, evidence to Keep, a save to Finalize, Settle or nothing, and the
user's calls to Stop and Rearm; all else stutters.

`PipelineQueue_proofs` proves for any number of tasks, workers, handlers,
schedulers, stages and lives, from `NumbersAreNatural` (the tasks are finitely
many, since their number is compared with the limit) and `NamesDiffer`:
`QueueTypeCorrect`, `OneWorker`, `RunningRowsServed`,
`NothingCancelledUnasked`. The inductive invariants are
- `StagesRemain`, without which the stage index could leave its type;
- `Claims`: `running` and `job` are each other's inverse, and a worker that is
  claimed and not yet started is in the hand of one scheduler.
  `OneWorkerPerTask` follows from the inverse alone;
- `FinishedIsSaved`: a worker that is about to leave has given its row another
  status, so deleting the entry strands no row;
- `Requests`: a context a handler has found still belongs to the task it was
  called for, which `LeaveTask` and the reuse of a worker must not break.

`RecorderManager_proofs` proves, from `NamesDiffer` and `CountsAreFinite`
(names are distinct, rooms, chains and recorders finite): `TypeCorrect`,
`ActiveCounted`, `NoZombie`, `SplitScheduled`, `NobodyIsLeftWaiting`,
`ClosedIsForGood`. The inductive invariant is `MemoryInv`:
- `CountIsExact`: `restarting` is the number of restarts between their two
  locked sections;
- `Targets`, `Owned`, `Chains`: what a call holds exists, an entry of the map
  is a recorder of its room, a chain that has ended is in no call;
- `Removals`: a room marked as stopping keeps its recorder, which has been told
  to stop, and each removal has the mark of its room for itself;
- `LiveIsHeld`: a recorder that runs is in the map or a restart waits for it.
  With `CountIsExact` it gives `ActiveIsCounted`, by an injection of the live
  recorders into the rooms and restarts that are counted.

`GracefulUpdate_proofs` carries `MemoryInv` over (each step of the update
leaves the manager alone) and adds `Noticed`: when nothing records any more, a
check is under way, or the flag was set late, or the update was not ready.
`UpdateTypeCorrect` and `EndNoticed` follow.

`EventDispatcher_proofs` proves `DispatcherIsALane`, the refinement, from
`NoneIsNoEvent`. `DispatcherInv` says that of two pending
events one was dispatched before the other (`Ordered`), that the tail comes
after all others (`TailIsLast`), and that what is ahead of an event is its
predecessor and what is ahead of that (`Linked`). So a closed channel of the
predecessor means that nothing is ahead, which is the guard of the queue.
`WaitsLongEnough` says the same of a waiter and its channel. `LaneNeverStalls`
says that the goroutines wait in no circle. `NoCircle` is the invariant: every
set of pending events has one with nothing of the set ahead of it. That holds
for infinitely many events too, so nothing is assumed of their number.

`RoomLifecycle_proofs` proves `RoomIsALane`, `TypeCorrect`, `StopLeavesNothing`,
`StartLeavesNoRecorder`, `NoRecorderIsForgotten`, `AnnouncedIsRecorded` and
`RoomNeverStalls` from `RoomNames` and `NoneIsNoEvent`, for any number of
events, listeners, recorders and faults.
Every step of a room is a step of its dispatcher or leaves it alone
(`StepOfDispatcher`), so the refinement and `DispatcherInv` carry over.
`RoomInv` adds
- `HandlersAt`, `OneRecorder`, `OneListener`: the handler fits its event, only
  the recorder in the map has not been told to stop, only the listener in the
  map is not closed;
- `Attended`: a recorder, and a LiveStart in the lane, has a listener that saw
  the broadcast begin, or its removal comes later in the lane. This is
  `OrphanFree`, and holds because a listener closes and dispatches its end under
  one lock;
- `Stopping`: what `stopListening` has achieved after each of its statements.
  With an empty lane and no listener, `Attended` leaves no recorder;
- `Starting`: while `startListening` is at work no event of an older stop is in
  the lane, and a recorder that starts has a session of a run that is active, so
  that the run cannot be re-armed under it;
- `Controlled`, `EndsBehind`, `EndsWait`, `NewRun`: a new listener's run is not
  ended while its first poll is under way, because the end of a broadcast is
  never dispatched while its begin is in the lane. Without them the listener
  might close itself before `Start` returns, and leave a recorder behind.

`AnnouncedIsRecorded` (`SeenIsRecorded`: a broadcast that was told of has a
recorder, or will) needs a second invariant, `SeenInv`, since the promise
crosses four actors: the poll decides, `Announce` dispatches, the pipeline's
handler opens the session, the manager's handler starts the recorder.
- `AskedOnce`: a listener that is about to tell finds no LiveStart in the lane,
  and its run still waits unless a stop is at work, which will close it;
- `NoOldStart`: `startListening` begins when nobody listens, and after its wait
  for the lane no LiveStart of an earlier listener is left to meet the new run;
- `StartIsSeen`, `SessionReady`: at most one LiveStart is in the lane, the
  listener takes the room for live, and the run waits until the session is open,
  so the manager's handler is not refused;
- `EndsAreOld`, `NameOfLive`: an end in the lane has a LiveStart behind it, so
  it removes the recorder of an earlier broadcast only.

`RoomNeverStalls` is about waiting: `WaitsForTold` (a handler waits only for a
recorder that was told to stop), `CallsWait` (a call waits only for events of
the lane, or for the listener it has added, which is still pending) and
`Announced` (each event has handlers). So no lock of a room is kept for ever.

`Launcher_proofs` proves `TypeCorrect`, `TriesAreBounded`, `SignalOwed`,
`SignalAdvances` and `OnlyLateWordsMislead` from `LauncherConstants`. The state
file counts the failures of a version, and a word of the child that it works
sets them to zero, so the count says nothing of tries alone. `TriesInductive` therefore says for a version that never works:
its tries are covered by the failures in the file, one try that is going on,
and the interruptions (signals, losses of power), each of which has cost a fault.
For the end after a signal, `Killed` says that no child is alive then, and
`Reapable` that the launcher waits for a child that has ended and that somebody
is about to report. `StepsLeft` numbers the places of `Run`; after a signal each
step takes it to a smaller number. `WordIsTrue` says what a word is worth: one
that is under way comes from a child that has come up, and what `Run` believes
after `Arm` was said since the start. So whoever waits for its child follows one
that has confirmed its start, unless the word was another's: that is
`OnlyLateWordsMislead`, the statement `StartIsConfirmed \/ misled`.

`SessionMedia_proofs` proves from `MediaConstants` and `OneTaskPerInput`, for any
number of tasks, recordings and faults: `TypeCorrect`, `WorkerBeginsOnce`,
`EpisodeIsKept`, `EpisodeIsWholeOrNot`, `TasksCanBeResumed`, `MarkIsRespected`,
`OthersAreSafe`. `MediaInv` consists of
- `Locks`: a publication and a removal hold the lock of the library, and no
  removal goes on against the mark. `MarkIsRespected` follows;
- `Attempts`: a recording whose worker is asked has a checkpoint that says so,
  written before. `WorkerBeginsOnce` follows;
- `Progress`: what a task has read of the session, that it has ended and that
  all its media are complete, stays true;
- `Publication` and `NothingElse`: what a publication has put in place is what
  its undo will take away, and nothing else is in place. With them
  `EpisodeIsWholeOrNot` and `OthersAreSafe`;
- `Stays` and `Links`: once anything relies on the episode (a task is done, an
  original has gone) it is whole and nobody publishes, and each original that
  has gone is linked to it. `EpisodeIsKept` and `TasksCanBeResumed` follow.

Model-checked only: the five liveness properties `FinalizingIsSettled`,
`LiveIsRecorded`, `EndStopsRecording`, `ServiceReturns` and `SignalEnds`: WF, SF
and ENABLED are outside the prover's reach. What of them needs no fairness is
proved in part: whoever waits waits for something that is on its way
(`FinalizingOwed`, `SignalOwed`, `RoomNeverStalls`), and
the steps bring the goal nearer (`FinalizingAdvances`, `SignalAdvances`).
`AnnouncedIsRecorded` is what `LiveIsRecorded` needs once the broadcast has been
told of. `CompletedStagesStay`, `LimitHolds`, `NoSegmentLost`,
`PromiseIsKept` and `StartIsConfirmed` are false, so there is nothing to prove.

## 13. Not modelled

- Platform parsers, danmaku protocols, FLV and HLS parsing, other media stages
  (conversion, cover, upload, deletion): each is a call that transforms data or
  waits for a child process, and its protocol is "returns or fails", which the
  modules above allow at every place.
- `livestate` and its manager: sessions of the room statistics, rewritten by
  unordered events. A crash leaves a session open until recovery guesses its
  end (`livestate/manager.go:100`); RecorderStart and RecorderStop of a split
  may arrive in either order (`livestate/events.go:91`). The mark is only shown.
- `pkg/ratelimit`: time is its only subject.
- Configuration, HTTP routing, SSE, notification, logging, migrations, metrics
  and the web application. Of the HTTP handlers, those that start and stop
  rooms, tasks, updates and library marks are in the modules above.
- Of modelled components: errors of SQLite in the ledger and the queue (they
  are in `RoomLifecycle` as `Fault`); a summary that is sent after `r.done` has
  been closed, so that a removal or the exit can overtake it
  (`recorders/recorder.go:820`); two chains of one room that are due in the
  same instant restart it twice (`recorders/manager.go:206`); a task that was cancelled or has finished since a
  scheduler read its row and is started once more (`pipeline/manager.go:163`;
  `OneWorkerPerTask` only says that it is not started twice at once); a signal that makes
  the start of a child fail and so rolls back (`pkg/launcher/launcher.go:251`);
  `DeleteTask` beside a start (`pipeline/manager.go:461`) and `CancelTask` with
  an old copy (`:394`), all of which the models perform and no property
  forbids; sessions with the older publication version, and the rerun of a
  published one.
