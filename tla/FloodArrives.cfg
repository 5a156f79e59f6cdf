SPECIFICATION Spec
CONSTANTS
  a = a
  b = b
  c = c
  Node = {a, b, c}
  Bots = {}
  Active = {a}
  Kinds = {"POSITION", "FIRE", "DEAD"}
  NoNode = NoNode
  InitPeers <- Line
  Skew <- Skewed
  Window = 3
  Place <- Strip
  Centre = 30
  Speed = 10
  Muzzle = 15
  Teleport = FALSE
  Offsets = {0}
  MaxNow = 1
  MaxUpdates = 3
  MaxRemovals = 0
  MaxSyncs = 0
  MaxLost = 0
INVARIANTS
  DeathsReachAll
  Converged
CHECK_DEADLOCK FALSE
