SPECIFICATION Spec
CONSTANTS
  c1 = c1
  c2 = c2
  c3 = c3
  Client = {c1, c2, c3}
  Name <- Names
  NameOf <- Clash
  Addr = {"x"}
  NoPeer = NoPeer
  Slot = {s1, s2}
  MaxStarts <- Restarts
  MaxCrashes = 1
  MaxStops = 0
INVARIANTS
  TypeOK
  LockHeldOnce
  SpreadIsMeasured
  NamesDistinct
  IDsAreKnown
  HandleOnItsWay
  FaultsHaveCause
CHECK_DEADLOCK FALSE
SYMMETRY SlotSymmetry
