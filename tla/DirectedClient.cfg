CONSTANTS
  n1 = n1
  n2 = n2
  n3 = n3
  NoNode = NoNode
  Node <- TwoNodes
  EdgeId = {1, 2}
  Bundles <- TwoNodeBundles
  MaxObjectSize = 1
  NumberClearAtOnce = 1
  CrashPoints = {"idle", "link"}
  WarmDestroy = FALSE
SPECIFICATION CSpec
INVARIANTS
  TypeOK
  CacheCoherent
  IdsHaveRecords
  SetsAreExact
PROPERTIES
  ImplementsGraph
