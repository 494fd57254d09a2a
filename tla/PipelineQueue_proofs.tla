------------------------ MODULE PipelineQueue_proofs ------------------------
(***************************************************************************)
(* Proofs about PipelineQueue, for any number of tasks, workers, handlers  *)
(* and schedulers, any number of stages and every bound.                   *)
(***************************************************************************)
EXTENDS PipelineQueue, FiniteSetTheorems, TLAPS

-----------------------------------------------------------------------------
(* The inductive invariant.                                                *)

\* A stage is worked on only while there is one left.
StagesRemain ==
  \A w \in Worker : step[w] \in {"stage", "done stage"} => at[w] < Stages

(* Memory is consistent: the entries of runningTasks and the jobs of the   *)
(* workers are each other's inverse, a worker that has been claimed but    *)
(* not started is in the hand of one scheduler, and a process that is down *)
(* has no goroutines.                                                      *)
Claims ==
  /\ \A w \in Worker : (step[w] = "free") <=> (job[w] = None)
  /\ \A w \in Worker : job[w] # None => running[job[w]] = w
  /\ \A t \in Task : running[t] # None => job[running[t]] = t
  /\ \A g \in Scheduler :
       hand[g] # None => sched[g] = "marking" /\ step[hand[g]] = "claimed"
  /\ \A g1, g2 \in Scheduler : hand[g1] # None /\ hand[g1] = hand[g2] => g1 = g2
  /\ life = "down" => /\ \A w \in Worker : step[w] = "free"
                      /\ \A g \in Scheduler : sched[g] = "idle"

\* A worker that is about to leave has seen to it that its row is not running.
FinishedIsSaved ==
  \A w \in Worker : life = "up" /\ step[w] = "finished" =>
    status[job[w]] # "running" \/ job[w] \in stranded

\* Whatever a handler still has to cancel has been asked for.
Requests ==
  /\ \A c \in Caller :
       call[c] \in {"cancel", "cancel context", "cancel row"} => arg[c] \in asked
  /\ \A c \in Caller :
       call[c] = "cancel context" /\ found[c] # None => job[found[c]] = arg[c]
  /\ \A w \in aborted : job[w] \in asked
  /\ asked \subseteq Task

\* With what they strengthen, these are what the steps preserve.
Served == RunningRowHasWorker /\ FinishedIsSaved
Cancellation == Requests /\ CancelledOnRequest

-----------------------------------------------------------------------------
(* Type correctness.                                                       *)

\* The constants are numbers.
LEMMA Numbers ==
  /\ MaxConcurrent \in Nat /\ Stages \in Nat /\ MaxFiles \in Nat /\ MaxLives \in Nat
  /\ 0 \in 0..MaxConcurrent /\ 0 \in 0..Stages /\ 0 \in 0..MaxFiles /\ 0 \in 0..MaxLives
BY NumbersAreNatural

\* Counting up, and what is left, stay within a bound.
LEMMA Within == \A k, n \in Nat : k < n => k + 1 \in 0..n /\ n - k \in 0..n
OBVIOUS

\* What is left of the limit lies within it.
LEMMA SlotsType ==
  RunningCount < MaxConcurrent => MaxConcurrent - RunningCount \in 0..MaxConcurrent
<1>1. IsFiniteSet({t \in Task : running[t] # None})
  BY NumbersAreNatural, FS_Subset
<1>2. RunningCount \in Nat
  BY <1>1, FS_CardinalityType DEF RunningCount
<1> QED  BY <1>2, Numbers, Within

\* A part of the state that does not change keeps its type.
LEMMA PartsKept ==
  /\ RowsOK /\ UNCHANGED rowVars => RowsOK'
  /\ ProcessOK /\ UNCHANGED processVars => ProcessOK'
  /\ SchedulersOK /\ UNCHANGED schedulerVars => SchedulersOK'
  /\ WorkersOK /\ UNCHANGED workerVars => WorkersOK'
  /\ CallsOK /\ UNCHANGED callVars /\ UNCHANGED asked => CallsOK'
<1>1. RowsOK /\ UNCHANGED rowVars => RowsOK'
  BY DEF RowsOK, rowVars
<1>2. ProcessOK /\ UNCHANGED processVars => ProcessOK'
  BY DEF ProcessOK, processVars
<1>3. SchedulersOK /\ UNCHANGED schedulerVars => SchedulersOK'
  BY DEF SchedulersOK, schedulerVars
<1>4. WorkersOK /\ UNCHANGED workerVars => WorkersOK'
  BY DEF WorkersOK, workerVars
<1>5. CallsOK /\ UNCHANGED callVars /\ UNCHANGED asked => CallsOK'
  BY DEF CallsOK, callVars
<1> QED  BY <1>1, <1>2, <1>3, <1>4, <1>5

\* What UpdateTask writes has the type of a row.
LEMMA UpdateTaskType ==
  ASSUME RowsOK, NEW t \in Task, NEW alive \in BOOLEAN, NEW s \in RowStatus,
         NEW i \in 0..Stages, NEW f \in 0..MaxFiles, NEW d \in BOOLEAN,
         UpdateTask(t, alive, s, i, f, d)
  PROVE  RowsOK'
BY DEF RowsOK, UpdateTask, rowVars

LEMMA TypeInit == Init => TypeOK /\ StagesRemain
<1> SUFFICES ASSUME Init
             PROVE  TypeOK /\ StagesRemain
  OBVIOUS
<1>1. RowsOK
  BY Numbers DEF Init, RowsOK, RowStatus
<1>2. ProcessOK
  BY Numbers DEF Init, ProcessOK
<1>3. SchedulersOK
  BY Numbers DEF Init, SchedulersOK
<1>4. WorkersOK
  BY Numbers DEF Init, WorkersOK
<1>5. CallsOK
  BY Numbers DEF Init, CallsOK, NoCopy, RowStatus
<1> QED  BY <1>1, <1>2, <1>3, <1>4, <1>5 DEF Init, TypeOK, StagesRemain

\* Fetching takes copies of rows, and uses up the slots.
LEMMA FetchTasksType ==
  ASSUME RowsOK, SchedulersOK, NEW g \in Scheduler, FetchTasks(g)
  PROVE  SchedulersOK'
<1>1. slots' \in [Scheduler -> 0..MaxConcurrent]
  BY Numbers DEF FetchTasks, SchedulersOK
<1>2. sched' \in [Scheduler -> {"idle", "ready", "counted", "starting", "marking"}]
  BY DEF FetchTasks, SchedulersOK
<1>3. batch' \in [Scheduler ->
        SUBSET [task : Task, stage : 0..Stages, files : 0..MaxFiles]]
  <2> DEFINE Copies(S) ==
        {[task |-> t, stage |-> stage[t], files |-> files[t]] : t \in S}
  <2>1. PendingTasks(slots[g]) \subseteq Task
    BY DEF PendingTasks
  <2>2. PICK S \in SUBSET Task : batch' = [batch EXCEPT ![g] = Copies(S)]
    BY <2>1 DEF FetchTasks
  <2>3. Copies(S) \subseteq [task : Task, stage : 0..Stages, files : 0..MaxFiles]
    BY DEF RowsOK
  <2> HIDE DEF Copies
  <2> QED  BY <2>2, <2>3 DEF SchedulersOK
<1> QED  BY <1>1, <1>2, <1>3 DEF FetchTasks, SchedulersOK

\* The scheduler.
LEMMA TypeScheduler ==
  ASSUME TypeOK, StagesRemain, NEW g \in Scheduler, SchedulerStep(g)
  PROVE  TypeOK' /\ StagesRemain'
<1> USE PartsKept DEF TypeOK
<1>1. CASE CountSlots(g)
  <2>1. SchedulersOK'
    BY <1>1, SlotsType DEF CountSlots, SchedulersOK
  <2> QED  BY <1>1, <2>1 DEF CountSlots, StagesRemain, workerVars
<1>2. CASE FetchTasks(g)
  <2>1. SchedulersOK'
    BY <1>2, FetchTasksType
  <2> QED  BY <1>2, <2>1 DEF FetchTasks, StagesRemain, workerVars
<1>3. ASSUME NEW b \in batch[g], SkipTask(g, b)
      PROVE  TypeOK' /\ StagesRemain'
  <2>1. SchedulersOK'
    BY <1>3 DEF SkipTask, Rest, SchedulersOK
  <2> QED  BY <1>3, <2>1 DEF SkipTask, StagesRemain, workerVars
<1>4. ASSUME NEW b \in batch[g], NEW w \in Worker, StartTask(g, b, w)
      PROVE  TypeOK' /\ StagesRemain'
  <2>1. b.task \in Task /\ b.stage \in 0..Stages /\ b.files \in 0..MaxFiles
    BY DEF SchedulersOK
  <2>2. SchedulersOK'
    BY <1>4 DEF StartTask, SchedulersOK
  <2>3. ProcessOK' /\ WorkersOK'
    BY <1>4, <2>1 DEF StartTask, ProcessOK, WorkersOK
  <2>4. StagesRemain'
    BY <1>4 DEF StartTask, StagesRemain, WorkersOK
  <2> QED  BY <1>4, <2>2, <2>3, <2>4 DEF StartTask
<1>5. ASSUME NEW w \in Worker, MarkStarted(g, w)
      PROVE  TypeOK' /\ StagesRemain'
  <2>1. RowsOK'
    BY <1>5, UpdateTaskType DEF MarkStarted, WorkersOK, RowStatus
  <2>2. SchedulersOK'
    BY <1>5 DEF MarkStarted, SchedulersOK
  <2>3. ProcessOK' /\ WorkersOK' /\ StagesRemain'
    BY <1>5 DEF MarkStarted, ProcessOK, WorkersOK, StagesRemain
  <2> QED  BY <1>5, <2>1, <2>2, <2>3 DEF MarkStarted
<1> QED  BY <1>1, <1>2, <1>3, <1>4, <1>5 DEF SchedulerStep

\* The counters of a worker are numbers.
LEMMA Counters ==
  ASSUME WorkersOK, NEW w \in Worker
  PROVE  at[w] \in Nat /\ wfiles[w] \in Nat
<1>1. at[w] \in 0..Stages /\ wfiles[w] \in 0..MaxFiles
  BY DEF WorkersOK
<1> QED  BY <1>1, NumbersAreNatural

\* The workers.
LEMMA TypeWorker ==
  ASSUME TypeOK, StagesRemain, NEW w \in Worker, WorkerStep(w)
  PROVE  TypeOK' /\ StagesRemain'
<1> USE PartsKept DEF TypeOK
<1>1. CASE BeginStage(w)
  <2>1. RowsOK'
    BY <1>1, UpdateTaskType DEF BeginStage, SaveProgress, Cancelled, WorkersOK, RowStatus
  <2>2. WorkersOK' /\ StagesRemain'
    BY <1>1 DEF BeginStage, WorkersOK, StagesRemain
  <2> QED  BY <1>1, <2>1, <2>2 DEF BeginStage
<1>2. CASE CompleteStage(w)
  <2>1. at[w] + 1 \in 0..Stages /\ wfiles[w] + 1 \in 0..MaxFiles
    <3>1. at[w] < Stages
      BY <1>2 DEF CompleteStage, StagesRemain
    <3>2. wfiles[w] < MaxFiles
      BY <1>2 DEF CompleteStage
    <3> QED  BY <3>1, <3>2, Counters, Numbers, Within
  <2>2. RowsOK'
    BY <1>2, <2>1, UpdateTaskType DEF CompleteStage, SaveProgress, Cancelled, RowStatus
  <2>3. WorkersOK' /\ StagesRemain'
    BY <1>2, <2>1 DEF CompleteStage, WorkersOK, StagesRemain
  <2> QED  BY <1>2, <2>2, <2>3 DEF CompleteStage
<1>3. CASE ReportStage(w)
  <2>1. at[w] + 1 \in 0..Stages
    <3>1. at[w] < Stages
      BY <1>3 DEF ReportStage, StagesRemain
    <3> QED  BY <3>1, Counters, Numbers, Within
  <2>2. RowsOK'
    BY <1>3, UpdateTaskType DEF ReportStage, SaveProgress, Cancelled, WorkersOK, RowStatus
  <2>3. WorkersOK' /\ StagesRemain'
    BY <1>3, <2>1 DEF ReportStage, WorkersOK, StagesRemain
  <2> QED  BY <1>3, <2>2, <2>3 DEF ReportStage
<1>4. ASSUME NEW after \in {"error", "defer"}, FailStage(w, after)
      PROVE  TypeOK' /\ StagesRemain'
  <2>1. RowsOK'
    BY <1>4, UpdateTaskType DEF FailStage, SaveProgress, Cancelled, WorkersOK, RowStatus
  <2>2. WorkersOK' /\ StagesRemain'
    BY <1>4 DEF FailStage, WorkersOK, StagesRemain
  <2> QED  BY <1>4, <2>1, <2>2 DEF FailStage
<1>5. CASE PanicStage(w)
  <2>1. ProcessOK' /\ WorkersOK' /\ StagesRemain'
    BY <1>5 DEF PanicStage, ProcessOK, WorkersOK, StagesRemain
  <2> QED  BY <1>5, <2>1 DEF PanicStage
<1>6. CASE LeaveLoop(w)
  <2>1. WorkersOK' /\ StagesRemain'
    BY <1>6 DEF LeaveLoop, WorkersOK, StagesRemain
  <2> QED  BY <1>6, <2>1 DEF LeaveLoop
<1>7. ASSUME NEW later \in BOOLEAN, FinishTask(w, later)
      PROVE  TypeOK' /\ StagesRemain'
  <2>1. Result(w) \in RowStatus
    BY <1>7 DEF FinishTask, Result, RowStatus
  <2>2. RowsOK'
    <3>1. PICK t \in Task, s \in {wstage[w], at[w]} :
            UpdateTask(t, CanSaveResult(w), Result(w), s, wfiles[w], ~later)
      BY <1>7 DEF FinishTask
    <3>2. s \in 0..Stages /\ wfiles[w] \in 0..MaxFiles
      BY DEF WorkersOK
    <3> QED  BY <2>1, <3>1, <3>2, UpdateTaskType DEF CanSaveResult
  <2>3. WorkersOK' /\ StagesRemain'
    BY <1>7 DEF FinishTask, WorkersOK, StagesRemain
  <2> QED  BY <1>7, <2>2, <2>3 DEF FinishTask
<1>8. CASE LeaveTask(w)
  <2>1. ProcessOK' /\ WorkersOK'
    BY <1>8, Numbers DEF LeaveTask, ProcessOK, WorkersOK
  <2>2. CallsOK' /\ StagesRemain'
    BY <1>8 DEF LeaveTask, CallsOK, WorkersOK, StagesRemain
  <2> QED  BY <1>8, <2>1, <2>2 DEF LeaveTask
<1> QED  BY <1>1, <1>2, <1>3, <1>4, <1>5, <1>6, <1>7, <1>8 DEF WorkerStep

\* The HTTP handlers.
LEMMA TypeCall ==
  ASSUME TypeOK, StagesRemain, NEW c \in Caller, CallStep(c)
  PROVE  TypeOK' /\ StagesRemain'
<1> USE PartsKept DEF TypeOK
<1>1. UNCHANGED workerVars
  BY DEF CallStep, CheckDelete, ReadTask, LookUpContext, CancelContext, CancelRow,
         RetryTask, ResumeTask, DeleteTask
<1>2. StagesRemain'
  BY <1>1 DEF StagesRemain, workerVars
<1>3. CallsOK /\ Return(c) /\ UNCHANGED asked => CallsOK'
  <2> SUFFICES ASSUME CallsOK, Return(c), UNCHANGED asked
               PROVE  CallsOK'
    OBVIOUS
  <2>1. NoCopy \in [status : RowStatus, stage : 0..Stages, files : 0..MaxFiles]
    BY Numbers DEF NoCopy, RowStatus
  <2>2. seen' \in [Caller ->
          [status : RowStatus, stage : 0..Stages, files : 0..MaxFiles]]
    BY <2>1 DEF Return, CallsOK
  <2> QED  BY <2>2 DEF Return, CallsOK
<1>4. ASSUME NEW t \in Task, CheckDelete(c, t)
      PROVE  TypeOK' /\ StagesRemain'
  <2>1. CallsOK'
    BY <1>4 DEF CheckDelete, CallsOK
  <2> QED  BY <1>2, <1>4, <2>1 DEF CheckDelete
<1>5. ASSUME NEW t \in Task, NEW what \in {"cancel", "retry", "resume"},
             ReadTask(c, t, what)
      PROVE  TypeOK' /\ StagesRemain'
  <2>1. CallsOK'
    BY <1>5 DEF ReadTask, Copy, CallsOK, RowsOK
  <2> QED  BY <1>2, <1>5, <2>1 DEF ReadTask
<1>6. CASE LookUpContext(c)
  <2>1. CallsOK'
    BY <1>6 DEF LookUpContext, CallsOK, ProcessOK
  <2> QED  BY <1>2, <1>6, <2>1 DEF LookUpContext
<1>7. CASE CancelContext(c)
  <2>1. ProcessOK'
    BY <1>7 DEF CancelContext, ProcessOK, CallsOK
  <2> QED  BY <1>2, <1>3, <1>7, <2>1 DEF CancelContext
<1>8. CASE CancelRow(c)
  <2>1. seen[c].stage \in 0..Stages /\ seen[c].files \in 0..MaxFiles
    BY DEF CallsOK
  <2>2. RowsOK'
    BY <1>8, <2>1, UpdateTaskType DEF CancelRow, RowStatus
  <2> QED  BY <1>2, <1>3, <1>8, <2>2 DEF CancelRow
<1>9. ASSUME NEW h \in Helper, RetryTask(c, h)
      PROVE  TypeOK' /\ StagesRemain'
  <2>1. RowsOK'
    BY <1>9, UpdateTaskType, Numbers DEF RetryTask, RowStatus
  <2>2. SchedulersOK'
    BY <1>9 DEF RetryTask, Spawn, SchedulersOK
  <2> QED  BY <1>2, <1>3, <1>9, <2>1, <2>2 DEF RetryTask
<1>10. CASE ResumeTask(c)
  <2>1. RowsOK'
    BY <1>10 DEF ResumeTask, RowsOK, RowStatus
  <2> QED  BY <1>2, <1>3, <1>10, <2>1 DEF ResumeTask
<1>11. CASE DeleteTask(c)
  <2>1. RowsOK'
    BY <1>11 DEF DeleteTask, RowsOK, RowStatus
  <2> QED  BY <1>2, <1>3, <1>11, <2>1 DEF DeleteTask
<1> QED
  BY <1>4, <1>5, <1>6, <1>7, <1>8, <1>9, <1>10, <1>11 DEF CallStep

\* Tasks come and become due.
Arrival ==
  \/ Tick \/ ClearCompletedTasks
  \/ \E t \in Task : BecomeDue(t) \/ \E h \in Helper : EnqueueTask(t, h)

\* The process starts and ends.
ProcessStep == Start \/ Close \/ Exit

LEMMA TypeArrival ==
  ASSUME TypeOK, StagesRemain, Arrival
  PROVE  TypeOK' /\ StagesRemain'
<1> USE PartsKept DEF TypeOK
<1>1. UNCHANGED workerVars
  BY DEF Arrival, Tick, ClearCompletedTasks, BecomeDue, EnqueueTask
<1>2. StagesRemain'
  BY <1>1 DEF StagesRemain, workerVars
<1>3. CASE Tick
  <2>1. SchedulersOK'
    BY <1>3 DEF Tick, Scheduler, SchedulersOK
  <2> QED  BY <1>2, <1>3, <2>1 DEF Tick
<1>4. CASE ClearCompletedTasks
  <2>1. RowsOK'
    BY <1>4 DEF ClearCompletedTasks, RowsOK, RowStatus
  <2> QED  BY <1>2, <1>4, <2>1 DEF ClearCompletedTasks
<1>5. ASSUME NEW t \in Task, BecomeDue(t)
      PROVE  TypeOK' /\ StagesRemain'
  <2>1. RowsOK'
    BY <1>5 DEF BecomeDue, RowsOK
  <2> QED  BY <1>2, <1>5, <2>1 DEF BecomeDue
<1>6. ASSUME NEW t \in Task, NEW h \in Helper, EnqueueTask(t, h)
      PROVE  TypeOK' /\ StagesRemain'
  <2>1. RowsOK'
    BY <1>6 DEF EnqueueTask, RowsOK, RowStatus
  <2>2. SchedulersOK'
    BY <1>6 DEF EnqueueTask, Spawn, SchedulersOK
  <2> QED  BY <1>2, <1>6, <2>1, <2>2 DEF EnqueueTask
<1> QED  BY <1>3, <1>4, <1>5, <1>6 DEF Arrival

LEMMA TypeProcess ==
  ASSUME TypeOK, StagesRemain, ProcessStep
  PROVE  TypeOK' /\ StagesRemain'
<1> USE PartsKept DEF TypeOK
<1>1. CASE Start
  <2>1. RowsOK'
    BY <1>1 DEF Start, Recovered, RowsOK, RowStatus
  <2>2. lives + 1 \in 0..MaxLives
    <3>1. lives \in 0..MaxLives /\ lives < MaxLives
      BY <1>1 DEF Start, ProcessOK
    <3>2. lives \in Nat
      BY <3>1, NumbersAreNatural
    <3> QED  BY <3>1, <3>2, Numbers, Within
  <2>3. ProcessOK'
    BY <1>1, <2>2 DEF Start, ProcessOK
  <2> QED  BY <1>1, <2>1, <2>3 DEF Start, StagesRemain, workerVars
<1>2. CASE Close
  <2>1. ProcessOK'
    BY <1>2 DEF Close, ProcessOK
  <2> QED  BY <1>2, <2>1 DEF Close, StagesRemain, workerVars
<1>3. CASE Exit
  <2>1. ProcessOK' /\ StagesRemain'
    BY <1>3 DEF Exit, ProcessOK, StagesRemain
  <2>2. SchedulersOK'
    BY <1>3, Numbers DEF Exit, SchedulersOK
  <2>3. WorkersOK'
    BY <1>3, Numbers DEF Exit, WorkersOK
  <2>4. CallsOK'
    BY <1>3, Numbers DEF Exit, CallsOK, NoCopy, RowStatus
  <2> QED  BY <1>3, <2>1, <2>2, <2>3, <2>4 DEF Exit
<1> QED  BY <1>1, <1>2, <1>3 DEF ProcessStep

\* Every step is one of these.
LEMMA Steps ==
  ASSUME [Next]_vars
  PROVE  \/ \E g \in Scheduler : SchedulerStep(g)
         \/ \E w \in Worker : WorkerStep(w)
         \/ \E c \in Caller : CallStep(c)
         \/ Arrival \/ ProcessStep
         \/ UNCHANGED vars
BY DEF Next, Arrival, ProcessStep

LEMMA TypeStep ==
  ASSUME TypeOK, StagesRemain, [Next]_vars
  PROVE  TypeOK' /\ StagesRemain'
<1>1. CASE UNCHANGED vars
  BY <1>1, PartsKept DEF vars, TypeOK, StagesRemain, workerVars
<1> QED
  BY <1>1, Steps, TypeScheduler, TypeWorker, TypeCall, TypeArrival, TypeProcess

(* Rows, memory and goroutines have their types in every reachable state   *)
(* of the queue, whatever is scheduled, cancelled, retried or restarted.   *)
THEOREM QueueTypeCorrect == Spec => []TypeOK
<1>1. Init => TypeOK /\ StagesRemain
  BY TypeInit
<1>2. TypeOK /\ StagesRemain /\ [Next]_vars => (TypeOK /\ StagesRemain)'
  BY TypeStep
<1> QED  BY <1>1, <1>2, PTL DEF Spec

-----------------------------------------------------------------------------
(* One worker per task.                                                    *)

ClaimVars == <<life, running, sched, hand, step, job>>

LEMMA ClaimsInit == Init => Claims
BY NamesDiffer DEF Init, Claims

\* What the steps below need of the types.
LEMMA ClaimTypes ==
  ASSUME TypeOK
  PROVE  /\ running \in [Task -> Worker \cup {None}]
         /\ job \in [Worker -> Task \cup {None}]
         /\ hand \in [Scheduler -> Worker \cup {None}]
         /\ sched = [g \in Scheduler |-> sched[g]]
         /\ step = [w \in Worker |-> step[w]]
         /\ \A g \in Scheduler : \A b \in batch[g] : b.task \in Task
<1>1. /\ running \in [Task -> Worker \cup {None}]
      /\ job \in [Worker -> Task \cup {None}]
      /\ hand \in [Scheduler -> Worker \cup {None}]
  BY DEF TypeOK, ProcessOK, WorkersOK, SchedulersOK
<1>2. sched = [g \in Scheduler |-> sched[g]]
  BY DEF TypeOK, SchedulersOK
<1>3. step = [w \in Worker |-> step[w]]
  BY DEF TypeOK, WorkersOK
<1>4. \A g \in Scheduler : \A b \in batch[g] : b.task \in Task
  BY DEF TypeOK, SchedulersOK
<1> QED  BY <1>1, <1>2, <1>3, <1>4

\* The scheduler hands a task to a worker only when runningTasks has no entry.
LEMMA ClaimsScheduler ==
  ASSUME TypeOK, Claims, NEW g \in Scheduler, SchedulerStep(g)
  PROVE  Claims'
<1> USE ClaimTypes
<1>1. ASSUME sched[g] \in {"ready", "counted", "starting"},
             NEW s \in {"idle", "ready", "counted", "starting"},
             sched' = [sched EXCEPT ![g] = s],
             UNCHANGED <<life, running, hand, step, job>>
      PROVE  Claims'
  BY <1>1 DEF Claims
<1>2. CASE CountSlots(g)
  BY <1>1, <1>2 DEF CountSlots, processVars, workerVars
<1>3. CASE FetchTasks(g)
  BY <1>1, <1>3 DEF FetchTasks, processVars, workerVars
<1>4. ASSUME NEW b \in batch[g], SkipTask(g, b)
      PROVE  Claims'
  BY <1>1, <1>4 DEF SkipTask, Rest, processVars, workerVars
<1>5. ASSUME NEW b \in batch[g], NEW w \in Worker, StartTask(g, b, w)
      PROVE  Claims'
  <2>1. b.task \in Task /\ running[b.task] = None
    BY <1>5 DEF StartTask, MayStart
  <2>2. /\ sched[g] = "starting" /\ sched' = [sched EXCEPT ![g] = "marking"]
        /\ hand' = [hand EXCEPT ![g] = w]
        /\ step[w] = "free" /\ step' = [step EXCEPT ![w] = "claimed"]
        /\ job' = [job EXCEPT ![w] = b.task]
        /\ running' = [running EXCEPT ![b.task] = w]
        /\ life' = life
    BY <1>5 DEF StartTask
  <2>3. \A v \in Worker : (step'[v] = "free") <=> (job'[v] = None)
    BY <2>1, <2>2, NamesDiffer DEF Claims
  <2>4. \A v \in Worker : job'[v] # None => running'[job'[v]] = v
    BY <2>1, <2>2, NamesDiffer DEF Claims
  <2>5. \A t \in Task : running'[t] # None => job'[running'[t]] = t
    BY <2>1, <2>2, NamesDiffer DEF Claims
  <2>6. \A h \in Scheduler :
          hand'[h] # None => sched'[h] = "marking" /\ step'[hand'[h]] = "claimed"
    BY <2>2 DEF Claims
  <2>7. \A g1, g2 \in Scheduler : hand'[g1] # None /\ hand'[g1] = hand'[g2] => g1 = g2
    BY <2>2 DEF Claims
  <2>8. life' # "down"
    BY <2>2 DEF Claims
  <2> QED  BY <2>3, <2>4, <2>5, <2>6, <2>7, <2>8 DEF Claims
<1>6. ASSUME NEW w \in Worker, MarkStarted(g, w)
      PROVE  Claims'
  <2>1. /\ sched[g] = "marking" /\ hand[g] = w
        /\ \E s \in {"idle", "starting"} : sched' = [sched EXCEPT ![g] = s]
        /\ hand' = [hand EXCEPT ![g] = None]
        /\ step' = [step EXCEPT ![w] = "loop"]
        /\ UNCHANGED <<life, running, job>>
    BY <1>6 DEF MarkStarted
  <2>2. step[w] = "claimed"
    BY <2>1, NamesDiffer DEF Claims
  <2> QED  BY <2>1, <2>2 DEF Claims
<1> QED  BY <1>2, <1>3, <1>4, <1>5, <1>6 DEF SchedulerStep

\* A worker keeps its task until it leaves, and then takes its entry along.
LEMMA ClaimsWorker ==
  ASSUME TypeOK, Claims, NEW w \in Worker, WorkerStep(w)
  PROVE  Claims'
<1> USE ClaimTypes
<1>1. ASSUME step[w] \notin {"free", "claimed"},
             NEW s, s \notin {"free", "claimed"},
             step' = [step EXCEPT ![w] = s],
             UNCHANGED <<life, running, sched, hand, job>>
      PROVE  Claims'
  BY <1>1 DEF Claims
<1>2. CASE BeginStage(w)
  BY <1>1, <1>2 DEF BeginStage, processVars, schedulerVars
<1>3. CASE CompleteStage(w)
  BY <1>1, <1>3 DEF CompleteStage, processVars, schedulerVars
<1>4. CASE ReportStage(w)
  BY <1>1, <1>4 DEF ReportStage, processVars, schedulerVars
<1>5. ASSUME NEW after \in {"error", "defer"}, FailStage(w, after)
      PROVE  Claims'
  BY <1>1, <1>5 DEF FailStage, processVars, schedulerVars
<1>6. CASE PanicStage(w)
  BY <1>1, <1>6 DEF PanicStage, schedulerVars
<1>7. CASE LeaveLoop(w)
  <2>1. PICK s \in {"error", "defer", "complete"} : step' = [step EXCEPT ![w] = s]
    BY <1>7 DEF LeaveLoop
  <2> QED  BY <1>1, <1>7, <2>1 DEF LeaveLoop, processVars, schedulerVars
<1>8. ASSUME NEW later \in BOOLEAN, FinishTask(w, later)
      PROVE  Claims'
  BY <1>1, <1>8 DEF FinishTask, processVars, schedulerVars
<1>9. CASE LeaveTask(w)
  <2>1. /\ step[w] = "finished" /\ step' = [step EXCEPT ![w] = "free"]
        /\ job' = [job EXCEPT ![w] = None]
        /\ running' = [running EXCEPT ![job[w]] = None]
        /\ UNCHANGED <<life, sched, hand>>
    BY <1>9 DEF LeaveTask, schedulerVars
  <2>2. job[w] \in Task /\ running[job[w]] = w
    BY <2>1 DEF Claims
  <2>3. \A v \in Worker : (step'[v] = "free") <=> (job'[v] = None)
    BY <2>1 DEF Claims
  <2>4. \A v \in Worker : job'[v] # None => running'[job'[v]] = v
    BY <2>1, <2>2 DEF Claims
  <2>5. \A t \in Task : running'[t] # None => job'[running'[t]] = t
    BY <2>1, <2>2 DEF Claims
  <2>6. \A h \in Scheduler :
          hand'[h] # None => sched'[h] = "marking" /\ step'[hand'[h]] = "claimed"
    BY <2>1 DEF Claims
  <2> QED  BY <2>1, <2>3, <2>4, <2>5, <2>6 DEF Claims
<1> QED  BY <1>2, <1>3, <1>4, <1>5, <1>6, <1>7, <1>8, <1>9 DEF WorkerStep

\* Nothing but a new goroutine of the scheduler comes from outside.
LEMMA ClaimsSpawn ==
  ASSUME TypeOK, Claims, NEW h \in Scheduler, Spawn(h), life = "up",
         UNCHANGED <<life, running, hand, step, job>>
  PROVE  Claims'
BY ClaimTypes DEF Claims, Spawn

LEMMA ClaimsKept ==
  ASSUME Claims, UNCHANGED ClaimVars
  PROVE  Claims'
BY DEF Claims, ClaimVars

LEMMA ClaimsOther ==
  ASSUME TypeOK, Claims,
         \/ \E c \in Caller : CallStep(c)
         \/ Arrival \/ ProcessStep \/ UNCHANGED vars
  PROVE  Claims'
<1> USE DEF processVars, schedulerVars, workerVars, ClaimVars
<1>1. ASSUME NEW c \in Caller, CallStep(c)
      PROVE  Claims'
  <2>1. ASSUME NEW h \in Helper, RetryTask(c, h)
        PROVE  Claims'
    BY <2>1, ClaimsSpawn, ClaimsKept DEF RetryTask, Scheduler
  <2>2. ASSUME NEW t \in Task, CheckDelete(c, t)
        PROVE  Claims'
    BY <2>2, ClaimsKept DEF CheckDelete
  <2>3. ASSUME NEW t \in Task, NEW what, ReadTask(c, t, what)
        PROVE  Claims'
    BY <2>3, ClaimsKept DEF ReadTask
  <2>4. CASE LookUpContext(c) \/ CancelContext(c) \/ CancelRow(c)
    BY <2>4, ClaimsKept DEF LookUpContext, CancelContext, CancelRow
  <2>5. CASE ResumeTask(c) \/ DeleteTask(c)
    BY <2>5, ClaimsKept DEF ResumeTask, DeleteTask
  <2> QED  BY <1>1, <2>1, <2>2, <2>3, <2>4, <2>5 DEF CallStep
<1>2. CASE Tick
  <2>1. Spawn(Poll) /\ Poll \in Scheduler
    BY <1>2 DEF Tick, Spawn, Scheduler
  <2> QED  BY <1>2, <2>1, ClaimsSpawn DEF Tick
<1>3. CASE ClearCompletedTasks
  BY <1>3, ClaimsKept DEF ClearCompletedTasks
<1>4. ASSUME NEW t \in Task, BecomeDue(t)
      PROVE  Claims'
  BY <1>4, ClaimsKept DEF BecomeDue
<1>5. ASSUME NEW t \in Task, NEW h \in Helper, EnqueueTask(t, h)
      PROVE  Claims'
  BY <1>5, ClaimsSpawn DEF EnqueueTask, Scheduler
<1>6. CASE Start
  BY <1>6 DEF Start, Claims
<1>7. CASE Close
  BY <1>7 DEF Close, Claims
<1>8. CASE Exit
  BY <1>8, NamesDiffer DEF Exit, Claims
<1>9. CASE UNCHANGED vars
  BY <1>9, ClaimsKept DEF vars
<1> QED
  BY <1>1, <1>2, <1>3, <1>4, <1>5, <1>6, <1>7, <1>8, <1>9 DEF Arrival, ProcessStep

LEMMA ClaimsStep ==
  ASSUME TypeOK, Claims, [Next]_vars
  PROVE  Claims'
BY Steps, ClaimsScheduler, ClaimsWorker, ClaimsOther

\* Inverse functions: two workers with one job would both be its entry.
LEMMA ClaimsAreUnique ==
  ASSUME TypeOK, Claims
  PROVE  OneWorkerPerTask
BY DEF Claims, OneWorkerPerTask

(* However many schedulers hold copies of a row, and whatever cancels,     *)
(* retries, resumes and deletes meet them, startTask never lets two        *)
(* workers execute one task at a time.                                     *)
THEOREM OneWorker == Spec => []OneWorkerPerTask
<1>1. Init => TypeOK /\ StagesRemain /\ Claims
  BY TypeInit, ClaimsInit
<1>2. TypeOK /\ StagesRemain /\ Claims /\ [Next]_vars
        => (TypeOK /\ StagesRemain /\ Claims)'
  BY TypeStep, ClaimsStep
<1>3. TypeOK /\ StagesRemain /\ Claims => OneWorkerPerTask
  BY ClaimsAreUnique
<1> QED  BY <1>1, <1>2, <1>3, PTL DEF Spec

-----------------------------------------------------------------------------
(* A row that says running, and one that says cancelled.                   *)

\* What UpdateTask makes of the status of the rows.
LEMMA UpdateTaskStatus ==
  ASSUME RowsOK, NEW t \in Task, NEW alive \in BOOLEAN, NEW s \in RowStatus,
         NEW i, NEW f, NEW d, UpdateTask(t, alive, s, i, f, d)
  PROVE  /\ \A u \in Task : u # t => status'[u] = status[u]
         /\ alive => status'[t] = s \/ status'[t] \in {"absent", "deleted"}
         /\ status'[t] = s \/ status'[t] = status[t]
         /\ ~alive => status'[t] = status[t]
BY DEF RowsOK, UpdateTask, Exists, rowVars

\* SaveProgress may only make the row of the worker's own task running.
LEMMA SaveProgressStatus ==
  ASSUME TypeOK, NEW w \in Worker, NEW i, NEW f, SaveProgress(w, i, f)
  PROVE  /\ job[w] \in Task
         /\ \A u \in Task :
              status'[u] = status[u] \/ (u = job[w] /\ status'[u] = "running")
<1>1. PICK t \in Task :
        t = job[w] /\ UpdateTask(t, ~Cancelled(w), "running", i, f, TRUE)
  BY DEF SaveProgress
<1> QED  BY <1>1, UpdateTaskStatus DEF TypeOK, RowStatus, Cancelled

LEMMA ServedInit == Init => Served
BY DEF Init, Served, RunningRowHasWorker, FinishedIsSaved

\* A step that makes no row running, lets no worker finish and takes no entry.
LEMMA ServedKept ==
  ASSUME TypeOK, Claims, Served,
         UNCHANGED <<running, step, job, stranded>>,
         life' = "up" => life = "up",
         \A t \in Task : status'[t] = "running" => status[t] = "running"
  PROVE  Served'
<1>1. \A w \in Worker : step[w] = "finished" => job[w] \in Task
  BY ClaimTypes DEF Claims
<1> QED  BY <1>1 DEF Served, RunningRowHasWorker, FinishedIsSaved

\* A worker that is at work makes its own row running at most.
LEMMA ServedAtWork ==
  ASSUME TypeOK, Claims, Served, NEW w \in Worker, job[w] \in Task,
         step[w] # "finished", NEW s, s # "finished",
         step' = [step EXCEPT ![w] = s],
         UNCHANGED <<life, running, job, stranded>>,
         \A u \in Task :
              status'[u] = status[u] \/ (u = job[w] /\ status'[u] = "running")
  PROVE  Served'
<1>1. RunningRowHasWorker'
  BY NamesDiffer DEF Served, RunningRowHasWorker, Claims
<1>2. FinishedIsSaved'
  BY ClaimTypes DEF Served, FinishedIsSaved, Claims
<1> QED  BY <1>1, <1>2 DEF Served

LEMMA ServedScheduler ==
  ASSUME TypeOK, Claims, Served, NEW g \in Scheduler, SchedulerStep(g)
  PROVE  Served'
<1> USE ClaimTypes
<1>1. CASE CountSlots(g)
  BY <1>1, ServedKept DEF CountSlots, rowVars, processVars, workerVars
<1>2. CASE FetchTasks(g)
  BY <1>2, ServedKept DEF FetchTasks, rowVars, processVars, workerVars
<1>3. ASSUME NEW b \in batch[g], SkipTask(g, b)
      PROVE  Served'
  BY <1>3, ServedKept DEF SkipTask, rowVars, processVars, workerVars
<1>4. ASSUME NEW b \in batch[g], NEW w \in Worker, StartTask(g, b, w)
      PROVE  Served'
  <2>1. /\ b.task \in Task
        /\ running' = [running EXCEPT ![b.task] = w]
        /\ step' = [step EXCEPT ![w] = "claimed"]
        /\ job' = [job EXCEPT ![w] = b.task]
        /\ UNCHANGED <<status, life, stranded>>
    BY <1>4 DEF StartTask, rowVars
  <2>2. RunningRowHasWorker'
    BY <2>1, NamesDiffer DEF Served, RunningRowHasWorker
  <2>3. FinishedIsSaved'
    BY <2>1 DEF Served, FinishedIsSaved
  <2> QED  BY <2>2, <2>3 DEF Served
<1>5. ASSUME NEW w \in Worker, MarkStarted(g, w)
      PROVE  Served'
  <2>1. /\ hand[g] = w
        /\ step' = [step EXCEPT ![w] = "loop"]
        /\ stranded' = stranded \ {job[w]}
        /\ UNCHANGED <<life, running, job>>
    BY <1>5 DEF MarkStarted
  <2>2. PICK t \in Task :
          t = job[w] /\ UpdateTask(t, life = "up", "running", wstage[w], wfiles[w], TRUE)
    BY <1>5 DEF MarkStarted
  <2>3. \A u \in Task : u # t => status'[u] = status[u]
    BY <2>2, UpdateTaskStatus DEF TypeOK, RowStatus
  <2>4. RunningRowHasWorker'
    BY <2>1, <2>2, <2>3, NamesDiffer DEF Served, RunningRowHasWorker, Claims
  <2>5. FinishedIsSaved'
    BY <2>1, <2>2, <2>3 DEF Served, FinishedIsSaved, Claims
  <2> QED  BY <2>4, <2>5 DEF Served
<1> QED  BY <1>1, <1>2, <1>3, <1>4, <1>5 DEF SchedulerStep

\* A worker leaves only when its row has got another status.
LEMMA ServedWorker ==
  ASSUME TypeOK, Claims, Served, NEW w \in Worker, WorkerStep(w)
  PROVE  Served'
<1> USE ClaimTypes
<1>1. CASE BeginStage(w)
  <2>1. SaveProgress(w, at[w], wfiles[w])
    BY <1>1 DEF BeginStage
  <2> QED  BY <1>1, <2>1, SaveProgressStatus, ServedAtWork DEF BeginStage, processVars
<1>2. CASE CompleteStage(w)
  <2>1. SaveProgress(w, at[w] + 1, wfiles[w] + 1)
    BY <1>2 DEF CompleteStage
  <2> QED  BY <1>2, <2>1, SaveProgressStatus, ServedAtWork DEF CompleteStage, processVars
<1>3. CASE ReportStage(w)
  <2>1. SaveProgress(w, at[w], wfiles[w])
    BY <1>3 DEF ReportStage
  <2> QED  BY <1>3, <2>1, SaveProgressStatus, ServedAtWork DEF ReportStage, processVars
<1>4. ASSUME NEW after \in {"error", "defer"}, FailStage(w, after)
      PROVE  Served'
  <2>1. SaveProgress(w, wstage[w], wfiles[w])
    BY <1>4 DEF FailStage
  <2> QED  BY <1>4, <2>1, SaveProgressStatus, ServedAtWork DEF FailStage, processVars
<1>5. CASE PanicStage(w)
  <2>1. /\ job[w] \in stranded' /\ stranded \subseteq stranded'
        /\ step' = [step EXCEPT ![w] = "finished"]
        /\ UNCHANGED <<status, life, running, job>>
    BY <1>5 DEF PanicStage, rowVars
  <2> QED  BY <2>1 DEF Served, RunningRowHasWorker, FinishedIsSaved
<1>6. CASE LeaveLoop(w)
  <2>1. PICK s \in {"error", "defer", "complete"} : step' = [step EXCEPT ![w] = s]
    BY <1>6 DEF LeaveLoop
  <2>2. job[w] \in Task
    BY <1>6 DEF LeaveLoop, Claims
  <2> QED  BY <1>6, <2>1, <2>2, ServedAtWork DEF LeaveLoop, rowVars, processVars
<1>7. ASSUME NEW later \in BOOLEAN, FinishTask(w, later)
      PROVE  Served'
  <2>1. PICK t \in Task, s \in {wstage[w], at[w]} :
          t = job[w] /\ UpdateTask(t, CanSaveResult(w), Result(w), s, wfiles[w], ~later)
    BY <1>7 DEF FinishTask
  <2>2. Result(w) \in RowStatus \ {"running"}
    BY <1>7 DEF FinishTask, Result, RowStatus
  <2>3. /\ \A u \in Task : status'[u] = "running" => status[u] = "running"
        /\ life = "up" => status'[t] # "running"
    <3>1. /\ \A u \in Task : u # t => status'[u] = status[u]
          /\ CanSaveResult(w) =>
               status'[t] = Result(w) \/ status'[t] \in {"absent", "deleted"}
          /\ ~CanSaveResult(w) => status'[t] = status[t]
      BY <2>1, <2>2, UpdateTaskStatus DEF TypeOK, CanSaveResult
    <3> QED  BY <2>2, <3>1 DEF CanSaveResult
  <2>4. /\ step' = [step EXCEPT ![w] = "finished"]
        /\ UNCHANGED <<life, running, job, stranded>>
    BY <1>7 DEF FinishTask, processVars
  <2>5. RunningRowHasWorker'
    BY <2>3, <2>4 DEF Served, RunningRowHasWorker
  <2>6. FinishedIsSaved'
    BY <2>1, <2>3, <2>4 DEF Served, FinishedIsSaved, Claims
  <2> QED  BY <2>5, <2>6 DEF Served
<1>8. CASE LeaveTask(w)
  <2>1. /\ step[w] = "finished" /\ step' = [step EXCEPT ![w] = "free"]
        /\ job' = [job EXCEPT ![w] = None]
        /\ running' = [running EXCEPT ![job[w]] = None]
        /\ UNCHANGED <<status, life, stranded>>
    BY <1>8 DEF LeaveTask, rowVars
  <2>2. job[w] \in Task
    BY <2>1 DEF Claims
  <2>3. RunningRowHasWorker'
    BY <2>1, <2>2 DEF Served, RunningRowHasWorker, FinishedIsSaved
  <2>4. FinishedIsSaved'
    BY <2>1 DEF Served, FinishedIsSaved
  <2> QED  BY <2>3, <2>4 DEF Served
<1> QED  BY <1>1, <1>2, <1>3, <1>4, <1>5, <1>6, <1>7, <1>8 DEF WorkerStep

LEMMA ServedOther ==
  ASSUME TypeOK, Claims, Served,
         \/ \E c \in Caller : CallStep(c)
         \/ Arrival \/ ProcessStep \/ UNCHANGED vars
  PROVE  Served'
<1> USE ServedKept DEF rowVars, processVars, workerVars
<1>1. RowsOK
  BY DEF TypeOK
<1>2. ASSUME NEW c \in Caller, CallStep(c)
      PROVE  Served'
  <2>1. UNCHANGED <<life, running, stranded, step, job>>
    BY <1>2
    DEF CallStep, CheckDelete, ReadTask, LookUpContext, CancelContext, CancelRow,
        RetryTask, ResumeTask, DeleteTask
  <2>2. \A t \in Task : status'[t] = "running" => status[t] = "running"
    <3>1. CASE CancelRow(c)
      BY <1>1, <3>1, UpdateTaskStatus DEF CancelRow, RowStatus
    <3>2. ASSUME NEW h \in Helper, RetryTask(c, h)
          PROVE  \A t \in Task : status'[t] = "running" => status[t] = "running"
      BY <1>1, <3>2, UpdateTaskStatus DEF RetryTask, RowStatus
    <3>3. CASE ResumeTask(c) \/ DeleteTask(c)
      BY <1>1, <3>3 DEF ResumeTask, DeleteTask, RowsOK
    <3>4. CASE UNCHANGED status
      BY <3>4
    <3> QED
      BY <1>2, <3>1, <3>2, <3>3, <3>4
      DEF CallStep, CheckDelete, ReadTask, LookUpContext, CancelContext
  <2> QED  BY <2>1, <2>2
<1>3. CASE Tick
  BY <1>3 DEF Tick
<1>4. CASE ClearCompletedTasks
  BY <1>4 DEF ClearCompletedTasks
<1>5. ASSUME NEW t \in Task, BecomeDue(t)
      PROVE  Served'
  BY <1>5 DEF BecomeDue
<1>6. ASSUME NEW t \in Task, NEW h \in Helper, EnqueueTask(t, h)
      PROVE  Served'
  BY <1>1, <1>6 DEF EnqueueTask, RowsOK
<1>7. CASE Start
  <2>1. \A t \in Task : status'[t] # "running"
    BY <1>7 DEF Start, Recovered
  <2>2. \A w \in Worker : step'[w] # "finished"
    BY <1>7 DEF Start, Claims
  <2> QED  BY <2>1, <2>2 DEF Served, RunningRowHasWorker, FinishedIsSaved
<1>8. CASE Close
  BY <1>8 DEF Close
<1>9. CASE Exit
  BY <1>9 DEF Exit, Served, RunningRowHasWorker, FinishedIsSaved
<1>10. CASE UNCHANGED vars
  BY <1>10 DEF vars
<1> QED
  BY <1>2, <1>3, <1>4, <1>5, <1>6, <1>7, <1>8, <1>9, <1>10 DEF Arrival, ProcessStep

LEMMA ServedStep ==
  ASSUME TypeOK, Claims, Served, [Next]_vars
  PROVE  Served'
BY Steps, ServedScheduler, ServedWorker, ServedOther

(* No path through executeTask and no call beside it leaves a row running  *)
(* without a worker while the process is up, unless a stage has panicked.  *)
THEOREM RunningRowsServed == Spec => []RunningRowHasWorker
<1>1. Init => TypeOK /\ StagesRemain /\ Claims /\ Served
  BY TypeInit, ClaimsInit, ServedInit
<1>2. TypeOK /\ StagesRemain /\ Claims /\ Served /\ [Next]_vars
        => (TypeOK /\ StagesRemain /\ Claims /\ Served)'
  BY TypeStep, ClaimsStep, ServedStep
<1>3. Served => RunningRowHasWorker
  BY DEF Served
<1> QED  BY <1>1, <1>2, <1>3, PTL DEF Spec

-----------------------------------------------------------------------------
(* Nothing is cancelled unasked.                                           *)

LEMMA CancellationInit == Init => Cancellation
BY DEF Init, Cancellation, Requests, CancelledOnRequest

\* A step that no handler takes and that marks no row as cancelled.
LEMMA CancellationKept ==
  ASSUME TypeOK, Cancellation,
         UNCHANGED <<callVars, asked, aborted, job>>,
         \A t \in Task : status'[t] = "cancelled" => status[t] = "cancelled"
  PROVE  Cancellation'
BY DEF Cancellation, Requests, CancelledOnRequest, callVars

\* A worker that is claimed was free, so nobody has found it or aborted it.
LEMMA CancellationScheduler ==
  ASSUME TypeOK, Claims, Cancellation, NEW g \in Scheduler, SchedulerStep(g)
  PROVE  Cancellation'
<1> USE ClaimTypes, CancellationKept DEF rowVars, processVars, workerVars
<1>1. CASE CountSlots(g)
  BY <1>1 DEF CountSlots
<1>2. CASE FetchTasks(g)
  BY <1>2 DEF FetchTasks
<1>3. ASSUME NEW b \in batch[g], SkipTask(g, b)
      PROVE  Cancellation'
  BY <1>3 DEF SkipTask
<1>4. ASSUME NEW b \in batch[g], NEW w \in Worker, StartTask(g, b, w)
      PROVE  Cancellation'
  <2>1. job[w] = None /\ job' = [job EXCEPT ![w] = b.task]
    BY <1>4 DEF StartTask, Claims
  <2>2. UNCHANGED <<status, aborted, call, arg, found, asked>>
    BY <1>4 DEF StartTask, callVars
  <2>3. None \notin asked
    BY NamesDiffer DEF Cancellation, Requests
  <2>4. \A c \in Caller :
          call[c] = "cancel context" /\ found[c] # None => found[c] # w
    BY <2>1, <2>3 DEF Cancellation, Requests
  <2>5. w \notin aborted
    BY <2>1, <2>3 DEF Cancellation, Requests
  <2>6. aborted \subseteq Worker /\ \A c \in Caller : found[c] \in Worker \cup {None}
    BY DEF TypeOK, ProcessOK, CallsOK
  <2>7. Requests'
    BY <2>1, <2>2, <2>4, <2>5, <2>6 DEF Cancellation, Requests
  <2> QED  BY <2>2, <2>7 DEF Cancellation, CancelledOnRequest
<1>5. ASSUME NEW w \in Worker, MarkStarted(g, w)
      PROVE  Cancellation'
  <2>1. \A t \in Task : status'[t] = "cancelled" => status[t] = "cancelled"
    BY <1>5, UpdateTaskStatus DEF MarkStarted, TypeOK, RowStatus
  <2> QED  BY <1>5, <2>1 DEF MarkStarted
<1> QED  BY <1>1, <1>2, <1>3, <1>4, <1>5 DEF SchedulerStep

\* A worker marks its row as cancelled only when its own context is cancelled.
LEMMA CancellationWorker ==
  ASSUME TypeOK, Claims, Cancellation, NEW w \in Worker, WorkerStep(w)
  PROVE  Cancellation'
<1> USE ClaimTypes, CancellationKept DEF rowVars, processVars, workerVars
<1>1. ASSUME NEW i, NEW f, SaveProgress(w, i, f),
             UNCHANGED <<callVars, asked, aborted, job>>
      PROVE  Cancellation'
  BY <1>1, SaveProgressStatus
<1>2. CASE BeginStage(w)
  BY <1>1, <1>2 DEF BeginStage
<1>3. CASE CompleteStage(w)
  BY <1>1, <1>3 DEF CompleteStage
<1>4. CASE ReportStage(w)
  BY <1>1, <1>4 DEF ReportStage
<1>5. ASSUME NEW after \in {"error", "defer"}, FailStage(w, after)
      PROVE  Cancellation'
  BY <1>1, <1>5 DEF FailStage
<1>6. CASE PanicStage(w)
  BY <1>6 DEF PanicStage
<1>7. CASE LeaveLoop(w)
  BY <1>7 DEF LeaveLoop
<1>8. ASSUME NEW later \in BOOLEAN, FinishTask(w, later)
      PROVE  Cancellation'
  <2>1. PICK t \in Task, s \in {wstage[w], at[w]} :
          t = job[w] /\ UpdateTask(t, CanSaveResult(w), Result(w), s, wfiles[w], ~later)
    BY <1>8 DEF FinishTask
  <2>2. Result(w) \in RowStatus
    BY <1>8 DEF FinishTask, Result, RowStatus
  <2>3. /\ \A u \in Task : u # t => status'[u] = status[u]
        /\ status'[t] = status[t] \/ (CanSaveResult(w) /\ status'[t] = Result(w))
    BY <2>1, <2>2, UpdateTaskStatus DEF TypeOK, CanSaveResult
  <2>4. CanSaveResult(w) /\ Result(w) = "cancelled" => w \in aborted
    BY <1>8 DEF FinishTask, CanSaveResult, Result, Cancelled
  <2>5. UNCHANGED <<callVars, asked, aborted, job>>
    BY <1>8 DEF FinishTask
  <2>6. w \in aborted => t \in asked
    BY <2>1 DEF Cancellation, Requests
  <2>7. Requests'
    BY <2>5 DEF Cancellation, Requests, callVars
  <2>8. CancelledOnRequest'
    BY <2>3, <2>4, <2>5, <2>6 DEF Cancellation, CancelledOnRequest
  <2> QED  BY <2>7, <2>8 DEF Cancellation
<1>9. CASE LeaveTask(w)
  <2>1. /\ job' = [job EXCEPT ![w] = None]
        /\ aborted' = aborted \ {w}
        /\ found' = [c \in Caller |-> IF found[c] = w THEN None ELSE found[c]]
        /\ UNCHANGED <<status, call, arg, asked>>
    BY <1>9 DEF LeaveTask
  <2>2. aborted \subseteq Worker /\ \A c \in Caller : found[c] \in Worker \cup {None}
    BY DEF TypeOK, ProcessOK, CallsOK
  <2>3. Requests'
    BY <2>1, <2>2 DEF Cancellation, Requests
  <2> QED  BY <2>1, <2>3 DEF Cancellation, CancelledOnRequest
<1> QED
  BY <1>2, <1>3, <1>4, <1>5, <1>6, <1>7, <1>8, <1>9 DEF WorkerStep

\* What the steps of the handlers need of the types.
LEMMA CallTypes ==
  ASSUME TypeOK
  PROVE  /\ call = [c \in Caller |-> call[c]]
         /\ arg \in [Caller -> Task \cup {None}]
         /\ found \in [Caller -> Worker \cup {None}]
         /\ RowsOK
BY DEF TypeOK, CallsOK

\* A handler cancels only the task it was called for.
LEMMA CancellationCall ==
  ASSUME TypeOK, Claims, Cancellation, NEW c \in Caller, CallStep(c)
  PROVE  Cancellation'
<1> USE ClaimTypes, CallTypes DEF rowVars, processVars, workerVars
<1>1. job' = job
  BY DEF CallStep, CheckDelete, ReadTask, LookUpContext, CancelContext, CancelRow,
         RetryTask, ResumeTask, DeleteTask
<1>2. ASSUME Return(c), UNCHANGED <<asked, aborted>>
      PROVE  Requests'
  BY <1>1, <1>2 DEF Return, Cancellation, Requests
<1>3. ASSUME NEW t \in Task, CheckDelete(c, t)
      PROVE  Cancellation'
  BY <1>1, <1>3 DEF CheckDelete, Cancellation, Requests, CancelledOnRequest
<1>4. ASSUME NEW t \in Task, NEW what \in {"cancel", "retry", "resume"},
             ReadTask(c, t, what)
      PROVE  Cancellation'
  <2>1. /\ call' = [call EXCEPT ![c] = what] /\ arg' = [arg EXCEPT ![c] = t]
        /\ asked' = IF what = "cancel" THEN asked \cup {t} ELSE asked
        /\ UNCHANGED <<status, aborted, found>>
    BY <1>4 DEF ReadTask
  <2>2. asked \subseteq asked' /\ asked' \subseteq Task
    BY <2>1 DEF Cancellation, Requests
  <2>3. Requests'
    BY <1>1, <2>1, <2>2 DEF Cancellation, Requests
  <2> QED  BY <2>1, <2>2, <2>3 DEF Cancellation, CancelledOnRequest
<1>5. CASE LookUpContext(c)
  <2>1. PICK t \in Task :
          /\ t = arg[c]
          /\ found' = [found EXCEPT ![c] = running[t]]
          /\ call' = [call EXCEPT ![c] =
               IF running[t] = None THEN "cancel row" ELSE "cancel context"]
    BY <1>5 DEF LookUpContext
  <2>2. call[c] = "cancel" /\ UNCHANGED <<status, aborted, arg, asked>>
    BY <1>5 DEF LookUpContext
  <2>3. running[t] # None => job[running[t]] = t
    BY DEF Claims
  <2>4. Requests'
    BY <1>1, <2>1, <2>2, <2>3 DEF Cancellation, Requests
  <2> QED  BY <2>2, <2>4 DEF Cancellation, CancelledOnRequest
<1>6. CASE CancelContext(c)
  <2>1. /\ call[c] = "cancel context" /\ Return(c)
        /\ aborted' = IF found[c] = None THEN aborted ELSE aborted \cup {found[c]}
        /\ UNCHANGED <<status, asked>>
    BY <1>6 DEF CancelContext
  <2>2. \A w \in aborted' : job[w] \in asked
    BY <2>1 DEF Cancellation, Requests
  <2>3. Requests'
    BY <1>1, <2>1, <2>2 DEF Return, Cancellation, Requests
  <2> QED  BY <2>1, <2>3 DEF Cancellation, CancelledOnRequest
<1>7. CASE CancelRow(c)
  <2>1. PICK t \in Task : t = arg[c]
          /\ UpdateTask(t, life = "up" /\ seen[c].status = "pending",
                        "cancelled", seen[c].stage, seen[c].files, TRUE)
    BY <1>7 DEF CancelRow
  <2>2. \A u \in Task : u # t => status'[u] = status[u]
    BY <2>1, UpdateTaskStatus DEF RowStatus
  <2>3. call[c] = "cancel row" /\ Return(c) /\ UNCHANGED <<asked, aborted>>
    BY <1>7 DEF CancelRow
  <2>4. t \in asked
    BY <2>1, <2>3 DEF Cancellation, Requests
  <2>5. Requests'
    BY <1>2, <2>3
  <2> QED  BY <2>2, <2>3, <2>4, <2>5 DEF Cancellation, CancelledOnRequest
<1>8. ASSUME NEW h \in Helper, RetryTask(c, h)
      PROVE  Cancellation'
  <2>1. \A t \in Task : status'[t] = "cancelled" => status[t] = "cancelled"
    BY <1>8, UpdateTaskStatus DEF RetryTask, RowStatus
  <2>2. Requests' /\ UNCHANGED asked
    BY <1>2, <1>8 DEF RetryTask
  <2> QED  BY <2>1, <2>2 DEF Cancellation, CancelledOnRequest
<1>9. CASE ResumeTask(c) \/ DeleteTask(c)
  <2>1. \A t \in Task : status'[t] = "cancelled" => status[t] = "cancelled"
    BY <1>9 DEF ResumeTask, DeleteTask, RowsOK
  <2>2. Requests' /\ UNCHANGED asked
    BY <1>2, <1>9 DEF ResumeTask, DeleteTask
  <2> QED  BY <2>1, <2>2 DEF Cancellation, CancelledOnRequest
<1> QED
  BY <1>3, <1>4, <1>5, <1>6, <1>7, <1>8, <1>9 DEF CallStep

LEMMA CancellationOther ==
  ASSUME TypeOK, Cancellation, Arrival \/ ProcessStep \/ UNCHANGED vars
  PROVE  Cancellation'
<1> USE CancellationKept, CallTypes DEF rowVars, processVars, workerVars
<1>1. CASE Tick
  BY <1>1 DEF Tick
<1>2. CASE ClearCompletedTasks
  BY <1>2 DEF ClearCompletedTasks
<1>3. ASSUME NEW t \in Task, BecomeDue(t)
      PROVE  Cancellation'
  BY <1>3 DEF BecomeDue
<1>4. ASSUME NEW t \in Task, NEW h \in Helper, EnqueueTask(t, h)
      PROVE  Cancellation'
  BY <1>4 DEF EnqueueTask, RowsOK
<1>5. CASE Start
  BY <1>5 DEF Start, Recovered
<1>6. CASE Close
  BY <1>6 DEF Close
<1>7. CASE Exit
  BY <1>7 DEF Exit, Cancellation, Requests, CancelledOnRequest
<1>8. CASE UNCHANGED vars
  BY <1>8 DEF vars
<1> QED
  BY <1>1, <1>2, <1>3, <1>4, <1>5, <1>6, <1>7, <1>8 DEF Arrival, ProcessStep

LEMMA CancellationStep ==
  ASSUME TypeOK, Claims, Cancellation, [Next]_vars
  PROVE  Cancellation'
BY Steps, CancellationScheduler, CancellationWorker, CancellationCall, CancellationOther

(* A shutdown or a crash cancels the contexts of all workers, but the row  *)
(* of a task is marked as cancelled only after a CancelTask for that task. *)
THEOREM NothingCancelledUnasked == Spec => []CancelledOnRequest
<1>1. Init => TypeOK /\ StagesRemain /\ Claims /\ Cancellation
  BY TypeInit, ClaimsInit, CancellationInit
<1>2. TypeOK /\ StagesRemain /\ Claims /\ Cancellation /\ [Next]_vars
        => (TypeOK /\ StagesRemain /\ Claims /\ Cancellation)'
  BY TypeStep, ClaimsStep, CancellationStep
<1>3. Cancellation => CancelledOnRequest
  BY DEF Cancellation
<1> QED  BY <1>1, <1>2, <1>3, PTL DEF Spec

=============================================================================
