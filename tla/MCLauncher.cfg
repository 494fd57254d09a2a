\* One other version, good or bad; two updates, one fault.
SPECIFICATION FairSpec
CONSTANTS
  Version = {v0, v1}
  Entry = v0
  Child = {c1, c2}
  MaxRetries = 2
  MaxFaults = 1
  MaxUpdates = 2
  None = None
INVARIANTS
  TypeOK
  TriesBounded
PROPERTIES
  ServiceReturns
  SignalEnds
