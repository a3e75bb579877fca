CONSTANTS
  Fields = {"requests_total"}
  Tracked = {"requests_total"}
  Values = {1, 2}
  Scenarios <- MCScenarios
  Cores = 1
  StartsWithBaseline = TRUE
  None = None
  MaxRuns = 1
SPECIFICATION Spec
INVARIANT
  DriftBlocksClaims
CHECK_DEADLOCK FALSE
