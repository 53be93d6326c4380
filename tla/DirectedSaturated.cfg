\* More insertions were made than the caches hold: they clear what they are given.
CONSTANTS
  n1 = n1
  n2 = n2
  n3 = n3
  NoNode = NoNode
  Node <- TwoNodes
  EdgeId = {1, 2}
  Bundles <- TwoNodeBundles
  MaxObjectSize = 1
  NumberClearAtOnce = 2
  CrashPoints = {"idle"}
  WarmDestroy = FALSE
SPECIFICATION CSpec
INVARIANTS
  EndsExist
