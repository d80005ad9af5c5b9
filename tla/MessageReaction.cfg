SPECIFICATION Spec
CONSTANTS
  m1 = m1
  m2 = m2
  s1 = s1
  s2 = s2
  x = x
  Messages <- MCMessages
  Sessions = {s1, s2}
  Ids = {x}
  SessionOf <- MCSessionOf
  IdOf <- MCIdOf
  Hands = {h}
  MaxReceipts = 3
  MaxSaveFailures = 0
CHECK_DEADLOCK FALSE
PROPERTY AdvancesOnly
