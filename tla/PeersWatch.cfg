SPECIFICATION FairSpec
CONSTANTS
  a = a
  b = b
  c = c
  Node = {a, b, c}
  NoNode = NoNode
  InitPicks <- Star
  MinPeers = 2
  Mortal = {b}
  TTL = 1
  MaxFailures = 1
  MaxRestarts = 1
  MaxLost = 1
INVARIANTS
  TypeOK
  EveryPeerWatched
PROPERTIES
  NoFalseAlarm
  GoneForgotten
  PicksHeal
  AllBackIn
CHECK_DEADLOCK FALSE
