SPECIFICATION GatewaySpec
CONSTANTS
  Calls = {c1, c2, c3}
  Sockets = {k1}
  Topics = {"s1", "s2", "*"}
  Kept = {"s1"}
  Window = 2
  MaxUses = 3
  MaxChanges = 2
  MaxClock = 3
  MaxFailures = 1
  MaxCrashes = 1
SYMMETRY Symmetry
CHECK_DEADLOCK FALSE
INVARIANT GatewayTypeOK
INVARIANT NeverOvercounts
INVARIANT ChangesHold
INVARIANT ExactUnlessOvertaken
INVARIANT RoomsWereGranted
