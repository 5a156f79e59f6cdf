SPECIFICATION FairSpec
CONSTANTS
  b1 = b1
  b2 = b2
  b3 = b3
  b4 = b4
  Bullet = {b1, b2, b3, b4}
  Far = 3
  MaxStep = 2
INVARIANTS
  TypeOK
  InFlightOnce
  OnlyLastRunsAhead
PROPERTIES
  BulletsVanish
