SPECIFICATION Spec
CONSTANTS
  N = 4
  SaveEvery = 2
  Cancellers = {c1, c2}
  MaxCrashes = 0
  MaxSaveFailures = 0
SYMMETRY Symmetry
CHECK_DEADLOCK FALSE
INVARIANT CancelWins
