SPECIFICATION Spec
CONSTANTS
  Calls = {c1, c2}
  Window = 2
  MaxUses = 1
  MaxChanges = 1
  MaxClock = 2
  MaxFailures = 0
  MaxCrashes = 0
SYMMETRY Symmetry
CHECK_DEADLOCK FALSE
INVARIANT RevokedStaysRevoked
