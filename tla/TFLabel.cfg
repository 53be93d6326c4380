\* Every graph of four nodes, short lists of edges on three and a few long
\* chains, with the labels of each; then a second object in the same process.
CONSTANTS
  Files <- allFiles
  Later <- laterFiles
  MaxTot = 8
  MaxNum = 9
  Ids <- digits
  KeyOrder <- digitOrder
SPECIFICATION ConstructSpec
INVARIANTS
  TypeOK
  ComponentsClosed
  StackIsOpen
  LevelsExact
  EveryNodeFolded
  FoldedApart
  ReachabilityKept
  LabelsSound
  LabelsComplete
