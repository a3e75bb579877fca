CONSTANTS
  Paths <- MCPaths
  Methods = {1, 2}
  Lines <- MCLines
  MaxLines = 3
SPECIFICATION Spec
INVARIANT RateUsesSpan
CHECK_DEADLOCK FALSE
