SPECIFICATION Spec
CONSTANTS
  Engines = {e1, e2, e3}
  Calls = {c1}
  Reconnects = {r1}
  MaxAttempts = 2
  DestroyMayReject = FALSE
  OrderedWrites = TRUE
  AutoStart = TRUE
  MaxWrites = 2
  MaxStuck = 1
  MaxLeaked = 1
  MaxCrashes = 0
  None = none
CHECK_DEADLOCK FALSE
SYMMETRY Symmetry
INVARIANT StoppedIsDead
