\* The process may also stop between the deletion of the node and the batch.
CONSTANTS
  n1 = n1
  n2 = n2
  n3 = n3
  NoNode = NoNode
  Node <- TwoNodes
  EdgeId = {1, 2}
  Bundles <- TwoNodeBundles
  MaxObjectSize = 2
  NumberClearAtOnce = 1
  CrashPoints = {"idle", "unlinkIn"}
  WarmDestroy = FALSE
SPECIFICATION CSpec
INVARIANTS
  EndsExist
