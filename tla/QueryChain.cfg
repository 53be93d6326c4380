\* Chains of two edges, whatever is given.
CONSTANTS
  MaxNodes = 3
  Id <- ids
  NoId = 0
  Cases <- chainCases
  FallOff = {"true"}
  MayRemove = FALSE
SPECIFICATION QuerySpec
INVARIANTS
  EveryResultMatches
\* a finished query takes no further step
CHECK_DEADLOCK FALSE
