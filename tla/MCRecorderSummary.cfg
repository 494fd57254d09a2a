\* A segment that no summary ever mentions.
SPECIFICATION Spec
CONSTANTS
  r1 = r1
  Main = Main
  None = None
  x1 = x1
  x2 = x2
  x3 = x3
  g1 = g1
  g2 = g2
  k1 = k1
  k2 = k2
  Room = {r1}
  Recorder = {x1, x2, x3}
  Mortal = {}
  Segment = {g1, g2}
  Cron = {k1, k2}
SYMMETRY Symmetry
INVARIANTS
  NoSegmentLost
CHECK_DEADLOCK FALSE
