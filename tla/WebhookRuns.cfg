SPECIFICATION FairSpec
CONSTANTS
  Webhooks = {w1, w2}
  Events = {e1}
  QueueModes = {TRUE, FALSE}
  w1 = w1
  w2 = w2
  RetryCount <- MCRetries
  MaxStalls = 1
  MaxCrashes = 2
  MaxDbFailures = 1
  MaxToggles = 1
CHECK_DEADLOCK FALSE
INVARIANT TypeOK
INVARIANT OneOutcome
INVARIANT AttemptsBounded
INVARIANT NoneForgotten
INVARIANT OnlyMatchedPosted
PROPERTY DispatchEnds
PROPERTY QueuedIsSettled
