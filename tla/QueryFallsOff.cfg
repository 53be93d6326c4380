\* The query of the repository's test, with every outcome of the missing return.
CONSTANTS
  MaxNodes = 3
  Id <- ids
  NoId = 0
  Cases <- testCases
  FallOff = {"true", "false", "endless"}
  MayRemove = FALSE
SPECIFICATION QuerySpec
INVARIANTS
  EveryMatchReturned
\* a finished query takes no further step
CHECK_DEADLOCK FALSE
