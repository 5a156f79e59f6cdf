SPECIFICATION FairSpec
CONSTANTS
  a = a
  b = b
  c = c
  Node = {a, b, c}
  NoNode = NoNode
  InitPicks <- Star
  MinPeers = 2
  Mortal = {a}
  TTL = 1
  MaxFailures = 1
  MaxRestarts = 0
  MaxLost = 0
PROPERTY
  ReturnedAgain
CHECK_DEADLOCK FALSE
