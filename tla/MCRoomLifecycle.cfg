CONSTANTS
  Event = {e1, e2, e3}
  Waiter = {w1}
  Control = w1
  Listener = {l1, l2}
  Recorder = {r1, r2}
  None = None
  MaxFaults = 1
SPECIFICATION Spec
INVARIANTS
  TypeOK
  StopIsComplete
  OrphanFree
  SeenIsRecorded
PROPERTIES
  StartIsClean
  ImplementsLane
