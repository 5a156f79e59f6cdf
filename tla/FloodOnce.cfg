SPECIFICATION FairSpec
CONSTANTS
  a = a
  b = b
  c = c
  Node = {a, b, c}
  Bots = {}
  Active = {a}
  Kinds = {"POSITION"}
  NoNode = NoNode
  InitPeers <- Mesh
  Skew <- NoSkew
  Window = 1
  Place <- Field
  Centre = 30
  Speed = 10
  Muzzle = 15
  Teleport = FALSE
  Offsets = {0, 1}
  MaxNow = 3
  MaxUpdates = 1
  MaxRemovals = 0
  MaxSyncs = 1
  MaxLost = 0
INVARIANTS
  HistoryExact
PROPERTIES
  FreshAtMostOnce
  FloodDiesOut
CHECK_DEADLOCK FALSE
