\* An update waits while splits, removals and a shutdown overlap.
SPECIFICATION SpecUpdate
CONSTANTS
  r1 = r1
  Main = Main
  None = None
  x1 = x1
  x2 = x2
  g1 = g1
  k1 = k1
  k2 = k2
  k3 = k3
  Room = {r1}
  Recorder = {x1, x2}
  Mortal = {x1, x2}
  Segment = {g1}
  Cron = {k1, k2, k3}
  MaxRequests = 1
SYMMETRY Symmetry
INVARIANTS
  UpdateTypeOK
  ActiveIsCounted
  NoZombieRecorder
  SplitIsScheduled
  NobodyWaitsInVain
  EndIsNoticed
PROPERTIES
  ClosedForGood
CHECK_DEADLOCK FALSE
