SPECIFICATION FairSpec
CONSTANTS
  N = 4
  SaveEvery = 2
  Cancellers = {c1, c2}
  MaxCrashes = 1
  MaxSaveFailures = 1
CHECK_DEADLOCK FALSE
INVARIANT TypeOK
INVARIANT CountersBalance
INVARIANT CompletedIsComplete
INVARIANT CancelSticks
PROPERTY MeetsContract
PROPERTY ProcessingEnds
