CONSTANTS
  k1 = k1
  k2 = k2
  d1 = d1
  d2 = d2
  Keys = {k1, k2}
  Details = {d1, d2}
  MaxPages = 3
SPECIFICATION FairSpec
INVARIANT TypeOK
INVARIANT NeverOrphaned
INVARIANT SpentKeysStaySpent
PROPERTY EveryWaitEnds
CHECK_DEADLOCK FALSE
