SPECIFICATION Spec
CONSTANTS
  a = a
  b = b
  c = c
  Node = {a, b}
  Bots = {b}
  Active = {a, b}
  Kinds = {"POSITION", "FIRE", "DEAD"}
  NoNode = NoNode
  InitPeers <- Mesh
  Skew <- NoSkew
  Window = 1
  Place <- Strip
  Centre = 30
  Speed = 10
  Muzzle = 15
  Teleport = TRUE
  Offsets = {0}
  MaxNow = 1
  MaxUpdates = 3
  MaxRemovals = 1
  MaxSyncs = 0
  MaxLost = 1
INVARIANTS
  TypeOK
  ScreenMatchesRecords
PROPERTIES
  KeepsReplicas
  ShotsComeFromTanks
CHECK_DEADLOCK FALSE
