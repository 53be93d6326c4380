\* Patterns with a given edge next to a given node.
CONSTANTS
  MaxNodes = 3
  Id <- ids
  NoId = 0
  Cases <- simpleCases
  FallOff = {"true"}
  MayRemove = FALSE
SPECIFICATION QuerySpec
INVARIANTS
  NeverAborts
\* a finished query takes no further step
CHECK_DEADLOCK FALSE
