SPECIFICATION FairSpec
CONSTANTS
  p1 = p1
  p2 = p2
  p3 = p3
  i1 = i1
  i2 = i2
  i3 = i3
  Client = {p1, p2, p3}
  Members = {p1, p2}
  Big = {p2}
  Increment = {i1, i2, i3}
  PlayerOf <- TwoPlayers
  Factor = 2
  MaxFailures = 1
INVARIANTS
  TypeOK
  CopiesDurable
  Counted
PROPERTIES
  PutReplicates
  CallsEnd
CHECK_DEADLOCK FALSE
