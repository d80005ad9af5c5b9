SPECIFICATION Spec
CONSTANTS
  Engines = {e1, e2}
  Calls = {c1, c2}
  Reconnects = {r1}
  MaxAttempts = 1
  DestroyMayReject = TRUE
  OrderedWrites = TRUE
  AutoStart = TRUE
  MaxWrites = 2
  MaxStuck = 1
  MaxLeaked = 0
  MaxCrashes = 1
  None = none
CHECK_DEADLOCK FALSE
SYMMETRY Symmetry
INVARIANT TypeOK
INVARIANT NoGhostReady
INVARIANT StopWins
INVARIANT StopHolds
