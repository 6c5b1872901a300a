CONSTANTS
  NSlots = 3
  PageIds = {p1, p2, p3, p4, p5}
  NoPageId = NoPageId
  Modulus = 9
  MaxWraps = 2
  A1MaxSize = 1
  A1OutMaxSize = 2
SPECIFICATION MCSpec
INVARIANTS LruVictimIsOldest TwoQBookkeeping TwoQHasAVictim
PROPERTY KeepsTheQueues
SYMMETRY Symmetry
CHECK_DEADLOCK FALSE
