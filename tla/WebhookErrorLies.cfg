SPECIFICATION Spec
CONSTANTS
  Webhooks = {w1, w2}
  Events = {e1}
  QueueModes = {TRUE}
  w1 = w1
  w2 = w2
  RetryCount <- MCRetries
  MaxStalls = 1
  MaxCrashes = 0
  MaxDbFailures = 1
  MaxToggles = 0
CHECK_DEADLOCK FALSE
INVARIANT ErrorMeansUndelivered
