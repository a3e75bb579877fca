CONSTANTS
  Paths <- MCPaths
  Methods = {1, 2}
  Lines <- MCLines
  MaxLines = 4
SPECIFICATION Spec
INVARIANTS
  TypeOK
  LogAccounted
  RankingIsCanonical
  RateIsFinite
CHECK_DEADLOCK FALSE
