\* A waiting update that nothing will ever apply.
SPECIFICATION FairUpdate
CONSTANTS
  r1 = r1
  Main = Main
  None = None
  x1 = x1
  Room = {r1}
  Recorder = {x1}
  Mortal = {}
  Segment = {}
  Cron = {}
  MaxRequests = 1
PROPERTIES
  PromiseIsKept
CHECK_DEADLOCK FALSE
