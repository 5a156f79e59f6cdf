SPECIFICATION Spec
CONSTANTS
  c1 = c1
  c2 = c2
  c3 = c3
  Client = {c1, c2, c3}
  Skew <- Apart
  MaxDelay = 2
  MaxRounds = 3
INVARIANTS
  TypeOK
  FirstRoundSynchronises
PROPERTIES
  AverageIsBetween
CHECK_DEADLOCK FALSE
