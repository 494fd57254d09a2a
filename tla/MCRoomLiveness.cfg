CONSTANTS
  Event = {e1, e2}
  Waiter = {w1}
  Control = w1
  Listener = {l1, l2}
  Recorder = {r1, r2}
  None = None
  MaxFaults = 0
SPECIFICATION FairSpec
PROPERTIES
  LiveIsRecorded
  EndStopsRecording
