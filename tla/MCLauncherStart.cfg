\* As MCLauncher.cfg, to the first start that nobody has confirmed.
SPECIFICATION Spec
CONSTANTS
  Version = {v0, v1}
  Entry = v0
  Child = {c1, c2}
  MaxRetries = 2
  MaxFaults = 1
  MaxUpdates = 2
  None = None
INVARIANTS
  StartIsConfirmed
