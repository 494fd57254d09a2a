\* Two schedulers that count before either has started a task.
SPECIFICATION Spec
CONSTANTS
  w1 = w1
  w2 = w2
  c1 = c1
  h1 = h1
  h2 = h2
  Poll = Poll
  None = None
  Task = {1, 2}
  Worker = {w1, w2}
  Caller = {c1}
  Helper = {h1, h2}
  MaxConcurrent = 1
  Stages = 1
  MaxLives = 1
  MaxFiles = 1
SYMMETRY Symmetry
INVARIANTS
  LimitHolds
CHECK_DEADLOCK FALSE
