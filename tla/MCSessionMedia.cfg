\* A task of two files and one of one; two faults.  All tasks may be done.
SPECIFICATION Spec
CHECK_DEADLOCK FALSE
CONSTANTS
  t1 = t1
  t2 = t2
  i1 = i1
  i2 = i2
  i3 = i3
  Task = {t1, t2}
  Input = {i1, i2, i3}
  InputsOf <- TwoTasks
  Cleaner = Cleaner
  None = None
  MaxFaults = 2
INVARIANTS
  TypeOK
  BurnedOnce
  EpisodeStays
  NoHalfEpisode
  ResumeStaysPossible
PROPERTIES
  KeptIsKept
  NeverOverwrites
