\* Three keys, room for two entries, two cleared at once; every
\* allocation may fail, also the one inside find().
CONSTANTS
  k1 = k1
  k2 = k2
  k3 = k3
  v1 = v1
  v2 = v2
  Key <- ThreeKeys
  Value <- TwoValues
  MaxObjectSize = 2
  NumberClearAtOnce = 2
  MaxTimestamp = 7
SPECIFICATION Spec
INVARIANTS
  TypeOK
  IndexesAgree
  SizeBounded
PROPERTIES
  OldestGoFirst
  ShrinksOnceFull
  ImplementsCache
\* the clock is bounded
CHECK_DEADLOCK FALSE
