SPECIFICATION FairSpec
CONSTANTS
  Cap = 1
  MaxPeers = 2
  MaxRecovers = 2
INVARIANTS
  TypeOK
PROPERTIES
  CyclesStay
  KeepsRecording
  LockComesFree
CHECK_DEADLOCK FALSE
