--------------------------- MODULE PipelineQueue ---------------------------
(***************************************************************************)
(* The task queue of src/src/pipeline: manager.go schedules the rows of    *)
(* pipeline_tasks, executor.go runs the stages of a task, and the HTTP     *)
(* handlers cancel, retry, resume and delete tasks beside it.              *)
(*                                                                         *)
(* A scheduler is a goroutine that may run scheduleNextTasks: the polling  *)
(* loop (which also runs it when it is woken, so a wake-up is a tick that  *)
(* comes early) or a goroutine that EnqueueTask or RetryTask has started.  *)
(* A worker is a goroutine that runs executeTask.  Every statement on the  *)
(* database and every section under m.mu is an action of its own.  The     *)
(* files of a task are a number: how many stages have been applied to the  *)
(* recording.                                                              *)
(***************************************************************************)
EXTENDS Naturals, FiniteSets

CONSTANTS Task,           \* naturals, in the order of created_at
          Worker, Caller,
          Poll, Helper,   \* the polling loop, and the goroutines started beside it
          None,
          MaxConcurrent,
          Stages,         \* how many stages a task has
          MaxLives,       \* bound on the lives of the process
          MaxFiles        \* bound on the stages applied to one recording

ASSUME NumbersAreNatural ==
  /\ Task \subseteq Nat /\ IsFiniteSet(Task)
  /\ MaxConcurrent \in Nat \ {0} /\ Stages \in Nat \ {0}
  /\ MaxLives \in Nat \ {0} /\ MaxFiles \in Nat
ASSUME NamesDiffer == None \notin Worker \cup Task /\ Poll \notin Helper

Scheduler == {Poll} \cup Helper

VARIABLES
  \* the row of a task
  status, stage, files, due,
  \* Manager
  life,      \* "down", "up", or "closing": m.ctx is cancelled
  running,   \* m.runningTasks: the worker whose context a task has
  aborted,   \* workers whose own context is cancelled
  lives,     \* history: how often the process was started
  stranded,  \* history: tasks whose worker has panicked
  \* scheduleNextTasks
  sched, slots, batch, hand,
  \* executeTask: the task, CurrentStage and CurrentFiles of its copy of the
  \* row, and the loop index of Execute
  step, job, wstage, wfiles, at,
  \* the HTTP handlers
  call, arg, seen, found,
  asked      \* history: tasks somebody has asked to cancel

rowVars       == <<status, stage, files, due>>
processVars   == <<life, running, aborted, lives, stranded>>
schedulerVars == <<sched, slots, batch, hand>>
workerVars    == <<step, job, wstage, wfiles, at>>
callVars      == <<call, arg, seen, found>>
vars == <<rowVars, processVars, schedulerVars, workerVars, callVars, asked>>

Exists(t) == status[t] \notin {"absent", "deleted"}

\* The context of a worker: cancelled by CancelTask, or with the manager.
Cancelled(w) == w \in aborted \/ life = "closing"

\* What a copy of a row holds.
Copy(t) == [status |-> status[t], stage |-> stage[t], files |-> files[t]]
NoCopy  == [status |-> "absent", stage |-> 0, files |-> 0]

Init ==
  /\ status = [t \in Task |-> "absent"]
  /\ stage = [t \in Task |-> 0] /\ files = [t \in Task |-> 0]
  /\ due = [t \in Task |-> TRUE]
  /\ life = "down" /\ lives = 0
  /\ running = [t \in Task |-> None]
  /\ aborted = {} /\ stranded = {}
  /\ sched = [g \in Scheduler |-> "idle"]
  /\ slots = [g \in Scheduler |-> 0]
  /\ batch = [g \in Scheduler |-> {}]
  /\ hand = [g \in Scheduler |-> None]
  /\ step = [w \in Worker |-> "free"]
  /\ job = [w \in Worker |-> None]
  /\ wstage = [w \in Worker |-> 0] /\ wfiles = [w \in Worker |-> 0]
  /\ at = [w \in Worker |-> 0]
  /\ call = [c \in Caller |-> "idle"]
  /\ arg = [c \in Caller |-> None]
  /\ seen = [c \in Caller |-> NoCopy]
  /\ found = [c \in Caller |-> None]
  /\ asked = {}

-----------------------------------------------------------------------------
(* scheduleNextTasks.                                                      *)

\* The polling loop's ticker fires, or the loop is woken or has just started.
Tick ==
  /\ life = "up"
  /\ sched[Poll] = "idle"
  /\ sched' = [sched EXCEPT ![Poll] = "ready"]
  /\ UNCHANGED <<rowVars, processVars, slots, batch, hand, workerVars, callVars, asked>>

\* A goroutine is started to run scheduleNextTasks.
Spawn(h) ==
  /\ sched[h] = "idle"
  /\ sched' = [sched EXCEPT ![h] = "ready"]

\* len(m.runningTasks).
RunningCount == Cardinality({t \in Task : running[t] # None})

CountSlots(g) ==
  /\ sched[g] = "ready"
  /\ IF RunningCount < MaxConcurrent
       THEN /\ slots' = [slots EXCEPT ![g] = MaxConcurrent - RunningCount]
            /\ sched' = [sched EXCEPT ![g] = "counted"]
       ELSE /\ sched' = [sched EXCEPT ![g] = "idle"]
            /\ UNCHANGED slots
  /\ UNCHANGED <<rowVars, processVars, batch, hand, workerVars, callVars, asked>>

\* GetPendingTasks: the oldest rows that are pending and due, at most n.
PendingTasks(n) ==
  LET eligible == {t \in Task : status[t] = "pending" /\ due[t]}
  IN  {t \in eligible : Cardinality({u \in eligible : u < t}) < n}

FetchTasks(g) ==
  /\ sched[g] = "counted"
  /\ LET tasks == IF life = "up" THEN PendingTasks(slots[g]) ELSE {}
     IN  /\ batch' = [batch EXCEPT ![g] =
              {[task |-> t, stage |-> stage[t], files |-> files[t]] : t \in tasks}]
         /\ sched' = [sched EXCEPT ![g] = IF tasks = {} THEN "idle" ELSE "starting"]
  /\ slots' = [slots EXCEPT ![g] = 0]
  /\ UNCHANGED <<rowVars, processVars, hand, workerVars, callVars, asked>>

\* Where a scheduler goes on when it is done with copy b.
Rest(g, b) == IF batch[g] = {b} THEN "idle" ELSE "starting"

\* Mutant: startTask does not look whether the task is running already.
StartsAnyway(t) == TRUE

\* startTask refuses a task that is running.
MayStart(t) == running[t] = None

(* startTask, under m.mu: the task of the oldest copy gets a context and   *)
(* an entry in runningTasks; whatever became of its row is not looked at.  *)
StartTask(g, b, w) ==
  /\ sched[g] = "starting"
  /\ b \in batch[g] /\ \A other \in batch[g] : b.task <= other.task
  /\ MayStart(b.task)
  /\ step[w] = "free"
  /\ running' = [running EXCEPT ![b.task] = w]
  /\ step' = [step EXCEPT ![w] = "claimed"]
  /\ job' = [job EXCEPT ![w] = b.task]
  /\ wstage' = [wstage EXCEPT ![w] = b.stage]
  /\ wfiles' = [wfiles EXCEPT ![w] = b.files]
  /\ hand' = [hand EXCEPT ![g] = w]
  /\ batch' = [batch EXCEPT ![g] = @ \ {b}]
  /\ sched' = [sched EXCEPT ![g] = "marking"]
  /\ UNCHANGED <<rowVars, life, aborted, lives, stranded, slots, at, callVars, asked>>

SkipTask(g, b) ==
  /\ sched[g] = "starting"
  /\ b \in batch[g] /\ \A other \in batch[g] : b.task <= other.task
  /\ ~MayStart(b.task)
  /\ batch' = [batch EXCEPT ![g] = @ \ {b}]
  /\ sched' = [sched EXCEPT ![g] = Rest(g, b)]
  /\ UNCHANGED <<rowVars, processVars, slots, hand, workerVars, callVars, asked>>

\* UpdateTask: the row as this copy has it, unless the row or the context is gone.
UpdateTask(t, alive, newStatus, newStage, newFiles, newDue) ==
  IF alive /\ Exists(t)
    THEN /\ status' = [status EXCEPT ![t] = newStatus]
         /\ stage' = [stage EXCEPT ![t] = newStage]
         /\ files' = [files EXCEPT ![t] = newFiles]
         /\ due' = [due EXCEPT ![t] = newDue]
    ELSE UNCHANGED rowVars

\* MarkStarted, UpdateTask with m.ctx, and the worker goroutine is started.
MarkStarted(g, w) ==
  /\ sched[g] = "marking" /\ hand[g] = w
  /\ \E t \in Task :
       t = job[w] /\ UpdateTask(t, life = "up", "running", wstage[w], wfiles[w], TRUE)
  /\ step' = [step EXCEPT ![w] = "loop"]
  /\ at' = [at EXCEPT ![w] = wstage[w]]
  /\ hand' = [hand EXCEPT ![g] = None]
  /\ sched' = [sched EXCEPT ![g] = IF batch[g] = {} THEN "idle" ELSE "starting"]
  /\ stranded' = stranded \ {job[w]}
  /\ UNCHANGED <<life, running, aborted, lives, slots, batch, job, wstage, wfiles>>
  /\ UNCHANGED <<callVars, asked>>

-----------------------------------------------------------------------------
(* executeTask and Execute.                                                *)

\* Progress is saved with the context of the task.
SaveProgress(w, newStage, newFiles) ==
  \E t \in Task :
    /\ t = job[w]
    /\ UpdateTask(t, ~Cancelled(w), "running", newStage, newFiles, TRUE)

\* The top of the stage loop: a stage is reported as running and begins.
BeginStage(w) ==
  /\ step[w] \in {"loop", "next"}
  /\ ~Cancelled(w)
  /\ at[w] < Stages
  /\ wstage' = [wstage EXCEPT ![w] = at[w]]
  /\ SaveProgress(w, at[w], wfiles[w])
  /\ step' = [step EXCEPT ![w] = "stage"]
  /\ UNCHANGED <<processVars, schedulerVars, job, wfiles, at, callVars, asked>>

\* The stage succeeds: OnStageCompleted saves its output as the next stage's input.
CompleteStage(w) ==
  /\ step[w] = "stage"
  /\ wfiles[w] < MaxFiles
  /\ wstage' = [wstage EXCEPT ![w] = at[w] + 1]
  /\ wfiles' = [wfiles EXCEPT ![w] = @ + 1]
  /\ SaveProgress(w, at[w] + 1, wfiles[w] + 1)
  /\ step' = [step EXCEPT ![w] = "done stage"]
  /\ UNCHANGED <<processVars, schedulerVars, job, at, callVars, asked>>

\* The report that follows sets CurrentStage back to the stage that is complete.
ReportStage(w) ==
  /\ step[w] = "done stage"
  /\ wstage' = [wstage EXCEPT ![w] = at[w]]
  /\ SaveProgress(w, at[w], wfiles[w])
  /\ at' = [at EXCEPT ![w] = @ + 1]
  /\ step' = [step EXCEPT ![w] = "next"]
  /\ UNCHANGED <<processVars, schedulerVars, job, wfiles, callVars, asked>>

\* The stage fails, or asks to be tried again later; both are reported first.
FailStage(w, after) ==
  /\ step[w] = "stage"
  /\ after \in {"error", "defer"}
  /\ SaveProgress(w, wstage[w], wfiles[w])
  /\ step' = [step EXCEPT ![w] = after]
  /\ UNCHANGED <<processVars, schedulerVars, job, wstage, wfiles, at, callVars, asked>>

\* The stage panics: bilisentry.Go recovers, executeTask only runs its deferred end.
PanicStage(w) ==
  /\ step[w] = "stage"
  /\ step' = [step EXCEPT ![w] = "finished"]
  /\ \E t \in Task : t = job[w] /\ stranded' = stranded \cup {t}
  /\ UNCHANGED <<rowVars, life, running, aborted, lives, schedulerVars>>
  /\ UNCHANGED <<job, wstage, wfiles, at, callVars, asked>>

(* Execute returns from the loop: cancelled, not yet due, or all stages    *)
(* done; after the last stage the context is not looked at again.          *)
LeaveLoop(w) ==
  /\ step[w] \in {"loop", "next"}
  /\ LET stops == Cancelled(w) /\ (at[w] < Stages \/ step[w] = "loop")
     IN  \/ stops /\ step' = [step EXCEPT ![w] = "error"]
         \/ ~stops /\ at[w] < Stages /\ step' = [step EXCEPT ![w] = "defer"]
         \/ ~stops /\ at[w] >= Stages /\ step' = [step EXCEPT ![w] = "complete"]
  /\ UNCHANGED <<rowVars, processVars, schedulerVars, job, wstage, wfiles, at>>
  /\ UNCHANGED <<callVars, asked>>

\* Mutant: the status of a stage is taken for the status of a task.
ResultSkipped(w) ==
  CASE step[w] = "complete" -> "completed"
    [] step[w] = "defer"    -> "pending"
    [] step[w] = "error"    -> IF Cancelled(w) THEN "skipped" ELSE "failed"

\* The status executeTask ends with.
Result(w) ==
  CASE step[w] = "complete" -> "completed"
    [] step[w] = "defer"    -> "pending"
    [] step[w] = "error"    -> IF Cancelled(w) THEN "cancelled" ELSE "failed"

(* Mutants: the last UpdateTask uses the context of the task; it uses one  *)
(* that is never cancelled.                                                *)
WithTaskContext(w) == ~Cancelled(w)
WithoutContext(w) == TRUE

\* The last UpdateTask uses m.ctx: it fails once the manager is closed.
CanSaveResult(w) == life = "up"

FinishTask(w, later) ==
  /\ step[w] \in {"complete", "defer", "error"}
  /\ later => step[w] = "defer"
  /\ \E t \in Task, s \in {wstage[w], at[w]} :
       /\ t = job[w]
       /\ s = IF step[w] = "defer" THEN at[w] ELSE wstage[w]
       /\ UpdateTask(t, CanSaveResult(w), Result(w), s, wfiles[w], ~later)
  /\ step' = [step EXCEPT ![w] = "finished"]
  /\ UNCHANGED <<processVars, schedulerVars, job, wstage, wfiles, at, callVars, asked>>

\* The deferred end of executeTask: the entry of the task is deleted.
LeaveTask(w) ==
  /\ step[w] = "finished"
  /\ running' = [running EXCEPT ![job[w]] = None]
  /\ aborted' = aborted \ {w}
  /\ step' = [step EXCEPT ![w] = "free"]
  /\ job' = [job EXCEPT ![w] = None]
  /\ wstage' = [wstage EXCEPT ![w] = 0] /\ wfiles' = [wfiles EXCEPT ![w] = 0]
  /\ at' = [at EXCEPT ![w] = 0]
  /\ found' = [c \in Caller |-> IF found[c] = w THEN None ELSE found[c]]
  /\ UNCHANGED <<rowVars, life, lives, stranded, schedulerVars, call, arg, seen, asked>>

-----------------------------------------------------------------------------
(* The HTTP handlers and the recorders: tasks come, are cancelled, retried *)
(* and deleted.  All of them use m.ctx.                                    *)

\* EnqueueTask: the row is created and a scheduler is started.
EnqueueTask(t, h) ==
  /\ life = "up"
  /\ status[t] = "absent"
  /\ status' = [status EXCEPT ![t] = "pending"]
  /\ Spawn(h)
  /\ UNCHANGED <<stage, files, due, processVars, slots, batch, hand, workerVars>>
  /\ UNCHANGED <<callVars, asked>>

\* not_before passes, or the recording session the task waits for is ready.
BecomeDue(t) ==
  /\ ~due[t]
  /\ due' = [due EXCEPT ![t] = TRUE]
  /\ UNCHANGED <<status, stage, files, processVars, schedulerVars, workerVars>>
  /\ UNCHANGED <<callVars, asked>>

\* CancelTask, RetryTask and ResumeTask begin with GetTask.
ReadTask(c, t, what) ==
  /\ life = "up"
  /\ call[c] = "idle" /\ Exists(t)
  /\ what = "retry" => status[t] \in {"failed", "cancelled"}
  /\ what = "resume" => status[t] = "failed" /\ stage[t] < Stages
  /\ call' = [call EXCEPT ![c] = what]
  /\ arg' = [arg EXCEPT ![c] = t]
  /\ seen' = [seen EXCEPT ![c] = Copy(t)]
  /\ asked' = IF what = "cancel" THEN asked \cup {t} ELSE asked
  /\ UNCHANGED <<rowVars, processVars, schedulerVars, workerVars, found>>

Return(c) ==
  /\ call' = [call EXCEPT ![c] = "idle"]
  /\ arg' = [arg EXCEPT ![c] = None]
  /\ seen' = [seen EXCEPT ![c] = NoCopy]
  /\ found' = [found EXCEPT ![c] = None]

\* CancelTask, under m.mu: has the task a context?
LookUpContext(c) ==
  /\ call[c] = "cancel"
  /\ \E t \in Task :
       /\ t = arg[c]
       /\ found' = [found EXCEPT ![c] = running[t]]
       /\ call' = [call EXCEPT ![c] =
            IF running[t] = None THEN "cancel row" ELSE "cancel context"]
  /\ UNCHANGED <<rowVars, processVars, schedulerVars, workerVars, arg, seen, asked>>

\* The context is cancelled; its worker may have left in the meantime.
CancelContext(c) ==
  /\ call[c] = "cancel context"
  /\ aborted' = IF found[c] = None THEN aborted ELSE aborted \cup {found[c]}
  /\ Return(c)
  /\ UNCHANGED <<rowVars, life, running, lives, stranded, schedulerVars, workerVars>>
  /\ UNCHANGED asked

\* No context: a task that was pending is marked in its row.
CancelRow(c) ==
  /\ call[c] = "cancel row"
  /\ \E t \in Task :
       /\ t = arg[c]
       /\ UpdateTask(t, life = "up" /\ seen[c].status = "pending",
                     "cancelled", seen[c].stage, seen[c].files, TRUE)
  /\ Return(c)
  /\ UNCHANGED <<processVars, schedulerVars, workerVars, asked>>

\* RetryTask starts over from the recording; the goroutine schedules it.
RetryTask(c, h) ==
  /\ call[c] = "retry"
  /\ \E t \in Task :
       t = arg[c] /\ UpdateTask(t, life = "up", "pending", 0, 0, TRUE)
  /\ IF life = "up" THEN Spawn(h) ELSE UNCHANGED sched
  /\ Return(c)
  /\ UNCHANGED <<processVars, slots, batch, hand, workerVars, asked>>

\* The comparison of store.ResumeTask.
Unchanged(t, copy) ==
  status[t] = "failed" /\ stage[t] = copy.stage /\ files[t] = copy.files

\* ResumeTask compares and swaps in one transaction; the poll will find the row.
ResumeTask(c) ==
  /\ call[c] = "resume"
  /\ \E t \in Task :
       /\ t = arg[c]
       /\ status' = [status EXCEPT ![t] =
            IF life = "up" /\ Unchanged(t, seen[c]) THEN "pending" ELSE @]
  /\ Return(c)
  /\ UNCHANGED <<stage, files, due, processVars, schedulerVars, workerVars, asked>>

\* DeleteTask: a task that is not running ...
CheckDelete(c, t) ==
  /\ life = "up"
  /\ call[c] = "idle" /\ Exists(t)
  /\ running[t] = None
  /\ call' = [call EXCEPT ![c] = "delete"]
  /\ arg' = [arg EXCEPT ![c] = t]
  /\ UNCHANGED <<rowVars, processVars, schedulerVars, workerVars, seen, found, asked>>

\* ... loses its row, once m.mu has been released.
DeleteTask(c) ==
  /\ call[c] = "delete"
  /\ status' = [status EXCEPT ![arg[c]] = IF life = "up" THEN "deleted" ELSE @]
  /\ Return(c)
  /\ UNCHANGED <<stage, files, due, processVars, schedulerVars, workerVars, asked>>

\* ClearCompletedTasks.
ClearCompletedTasks ==
  /\ life = "up"
  /\ \E t \in Task : status[t] = "completed"
  /\ status' = [t \in Task |-> IF status[t] = "completed" THEN "deleted" ELSE status[t]]
  /\ UNCHANGED <<stage, files, due, processVars, schedulerVars, workerVars>>
  /\ UNCHANGED <<callVars, asked>>

-----------------------------------------------------------------------------
(* The process.                                                            *)

\* Mutant: the rows a dead process left running stay so.
RecoverNothing(s) == s

\* ResetRunningTasks.
Recovered(s) == IF s = "running" THEN "pending" ELSE s

Start ==
  /\ life = "down"
  /\ lives < MaxLives
  /\ lives' = lives + 1
  /\ life' = "up"
  /\ status' = [t \in Task |-> Recovered(status[t])]
  /\ UNCHANGED <<stage, files, due, running, aborted, stranded, schedulerVars>>
  /\ UNCHANGED workerVars
  /\ UNCHANGED <<callVars, asked>>

\* Close cancels m.ctx and waits for the workers.
Close ==
  /\ life = "up"
  /\ lives < MaxLives
  /\ life' = "closing"
  /\ UNCHANGED <<rowVars, running, aborted, lives, stranded, schedulerVars, workerVars>>
  /\ UNCHANGED <<callVars, asked>>

\* The process ends, after Close or by a crash: its memory is gone.
Exit ==
  /\ \/ life = "up" /\ lives < MaxLives
     \/ life = "closing"
  /\ life' = "down"
  /\ running' = [t \in Task |-> None]
  /\ aborted' = {} /\ stranded' = {}
  /\ sched' = [g \in Scheduler |-> "idle"]
  /\ slots' = [g \in Scheduler |-> 0]
  /\ batch' = [g \in Scheduler |-> {}]
  /\ hand' = [g \in Scheduler |-> None]
  /\ step' = [w \in Worker |-> "free"]
  /\ job' = [w \in Worker |-> None]
  /\ wstage' = [w \in Worker |-> 0] /\ wfiles' = [w \in Worker |-> 0]
  /\ at' = [w \in Worker |-> 0]
  /\ call' = [c \in Caller |-> "idle"]
  /\ arg' = [c \in Caller |-> None]
  /\ seen' = [c \in Caller |-> NoCopy]
  /\ found' = [c \in Caller |-> None]
  /\ UNCHANGED <<rowVars, lives, asked>>

-----------------------------------------------------------------------------

SchedulerStep(g) ==
  \/ CountSlots(g) \/ FetchTasks(g)
  \/ \E b \in batch[g] : SkipTask(g, b) \/ \E w \in Worker : StartTask(g, b, w)
  \/ \E w \in Worker : MarkStarted(g, w)

WorkerStep(w) ==
  \/ BeginStage(w) \/ CompleteStage(w) \/ ReportStage(w) \/ LeaveLoop(w)
  \/ \E after \in {"error", "defer"} : FailStage(w, after)
  \/ \E later \in BOOLEAN : FinishTask(w, later)
  \/ PanicStage(w) \/ LeaveTask(w)

CallStep(c) ==
  \/ \E t \in Task : CheckDelete(c, t)
  \/ \E t \in Task, what \in {"cancel", "retry", "resume"} : ReadTask(c, t, what)
  \/ LookUpContext(c) \/ CancelContext(c) \/ CancelRow(c)
  \/ \E h \in Helper : RetryTask(c, h)
  \/ ResumeTask(c) \/ DeleteTask(c)

Next ==
  \/ Tick
  \/ \E g \in Scheduler : SchedulerStep(g)
  \/ \E w \in Worker : WorkerStep(w)
  \/ \E c \in Caller : CallStep(c)
  \/ \E t \in Task : BecomeDue(t) \/ \E h \in Helper : EnqueueTask(t, h)
  \/ ClearCompletedTasks
  \/ Start \/ Close \/ Exit

Spec == Init /\ [][Next]_vars

-----------------------------------------------------------------------------
(* What the queue promises.                                                *)

RowStatus == {"absent", "deleted", "pending", "running", "completed", "failed",
              "cancelled"}

RowsOK ==
  /\ status \in [Task -> RowStatus]
  /\ stage \in [Task -> 0..Stages] /\ files \in [Task -> 0..MaxFiles]
  /\ due \in [Task -> BOOLEAN]

ProcessOK ==
  /\ life \in {"down", "up", "closing"} /\ lives \in 0..MaxLives
  /\ running \in [Task -> Worker \cup {None}]
  /\ aborted \in SUBSET Worker /\ stranded \in SUBSET Task

SchedulersOK ==
  /\ sched \in [Scheduler -> {"idle", "ready", "counted", "starting", "marking"}]
  /\ slots \in [Scheduler -> 0..MaxConcurrent]
  /\ batch \in [Scheduler ->
       SUBSET [task : Task, stage : 0..Stages, files : 0..MaxFiles]]
  /\ hand \in [Scheduler -> Worker \cup {None}]

WorkersOK ==
  /\ step \in [Worker -> {"free", "claimed", "loop", "next", "stage", "done stage",
                          "error", "defer", "complete", "finished"}]
  /\ job \in [Worker -> Task \cup {None}]
  /\ wstage \in [Worker -> 0..Stages] /\ wfiles \in [Worker -> 0..MaxFiles]
  /\ at \in [Worker -> 0..Stages]

CallsOK ==
  /\ call \in [Caller -> {"idle", "cancel", "cancel context", "cancel row", "retry",
                          "resume", "delete"}]
  /\ arg \in [Caller -> Task \cup {None}]
  /\ seen \in [Caller -> [status : RowStatus, stage : 0..Stages, files : 0..MaxFiles]]
  /\ found \in [Caller -> Worker \cup {None}]
  /\ asked \in SUBSET Task

\* Rows, memory and goroutines have their types.
TypeOK == RowsOK /\ ProcessOK /\ SchedulersOK /\ WorkersOK /\ CallsOK

(* However many schedulers hold a copy of its row, and whatever cancels,   *)
(* retries and resumes meet, a task is never executed by two workers.      *)
OneWorkerPerTask ==
  \A w1, w2 \in Worker : w1 # w2 /\ job[w1] = job[w2] => job[w1] = None

(* A row says running only while a worker has the task, so that no task    *)
(* hangs in a state that the scheduler does not look for and that can be   *)
(* neither cancelled nor retried; only a panic of its stage can leave one. *)
RunningRowHasWorker ==
  \A t \in Task :
    life = "up" /\ status[t] = "running" => running[t] # None \/ t \in stranded

(* A shutdown cancels every context but no task: a task is cancelled only  *)
(* when somebody has asked for it.                                         *)
CancelledOnRequest == \A t \in Task : status[t] = "cancelled" => t \in asked

(* A stage works on the output of the stage before it, also when a task is *)
(* continued after a restart: no stage that is complete runs again.        *)
CompletedStagesStay ==
  \A w \in Worker : step[w] = "stage" => wfiles[w] = at[w]

\* At most MaxConcurrent tasks run at once.
LimitHolds == RunningCount <= MaxConcurrent

=============================================================================
