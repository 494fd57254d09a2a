\* A completed stage that runs again after a restart.
SPECIFICATION Spec
CONSTANTS
  w1 = w1
  c1 = c1
  h1 = h1
  Poll = Poll
  None = None
  Task = {1}
  Worker = {w1}
  Caller = {c1}
  Helper = {h1}
  MaxConcurrent = 1
  Stages = 2
  MaxLives = 2
  MaxFiles = 3
SYMMETRY Symmetry
INVARIANTS
  CompletedStagesStay
CHECK_DEADLOCK FALSE
