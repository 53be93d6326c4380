\* A careful client; the process stops between calls or while linking.
CONSTANTS
  n1 = n1
  n2 = n2
  n3 = n3
  NoNode = NoNode
  Node <- ThreeNodes
  EdgeId = {1, 2}
  Bundles <- ThreeNodeBundles
  MaxObjectSize = 2
  NumberClearAtOnce = 1
  CrashPoints = {"idle", "link"}
  WarmDestroy = FALSE
SPECIFICATION CSpec
SYMMETRY Interchangeable
INVARIANTS
  TypeOK
  CacheCoherent
  IdsHaveRecords
  SetsAreExact
PROPERTIES
  ImplementsGraph
