\* One task, two handlers and three schedulers: copies of its row meet.
SPECIFICATION Spec
CONSTANTS
  w1 = w1
  w2 = w2
  c1 = c1
  c2 = c2
  h1 = h1
  Poll = Poll
  None = None
  Task = {1}
  Worker = {w1, w2}
  Caller = {c1, c2}
  Helper = {h1}
  MaxConcurrent = 1
  Stages = 1
  MaxLives = 2
  MaxFiles = 2
SYMMETRY Symmetry
INVARIANTS
  TypeOK
  OneWorkerPerTask
  RunningRowHasWorker
  CancelledOnRequest
CHECK_DEADLOCK FALSE
