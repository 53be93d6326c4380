\* Patterns of up to three nodes, removals of nodes and edges between results, every outcome of the missing return.
CONSTANTS
  MaxNodes = 3
  Id <- ids
  NoId = 0
  Cases <- allCases
  FallOff = {"true", "false", "endless"}
  MayRemove = TRUE
SPECIFICATION FairQuerySpec
INVARIANTS
  ConstraintsExact
  BindsEachOnce
  ScansOnlyEndNodes
  QueryTypeOK
  ResultsMatch
  Complete
PROPERTIES
  NoneTwice
  EveryCallReturns
\* a finished query takes no further step
CHECK_DEADLOCK FALSE
