\* Two sessions, producers, tasks and run ids of a room, and one crash.
SPECIFICATION FairSpec
CONSTANTS
  r1 = r1
  s1 = s1
  s2 = s2
  p1 = p1
  p2 = p2
  t1 = t1
  t2 = t2
  None = None
  Room = {r1}
  Session = {s1, s2}
  Producer = {p1, p2}
  Task = {t1, t2}
  MaxRun = 2
  MaxCrash = 1
CONSTRAINT Bound
INVARIANTS
  TypeOK
  ActiveRunHasWork
  OneCapturePerRun
  CompletedHasPlayable
  ReadyFlagExact
  PublishedIsComplete
PROPERTIES
  TerminalUntilRearmed
  ImplementsQuota
  SealedIsFinal
  FinalizingIsSettled
