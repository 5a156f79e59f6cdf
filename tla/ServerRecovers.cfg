SPECIFICATION FairSpec
CONSTANTS
  c1 = c1
  c2 = c2
  c3 = c3
  Client = {c1, c2}
  Name <- Names
  NameOf <- Distinct
  Addr = {"x"}
  NoPeer = NoPeer
  Slot = {1}
  MaxStarts <- Once
  MaxCrashes = 0
  MaxStops = 1
PROPERTIES
  RecoveredEventually
  SyncsFinish
CHECK_DEADLOCK FALSE
