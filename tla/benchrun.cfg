CONSTANTS
  Fields = {"requests_total"}
  Tracked = {"requests_total"}
  Values = {1, 2}
  Scenarios <- MCScenarios
  Cores = 1
  StartsWithBaseline = TRUE
  None = None
  MaxRuns = 2
SPECIFICATION Spec
INVARIANTS
  TypeOK
  ClaimsEarned
  BalancedRounds
  ResultsAreComplete
  ResultsOfOneRun
  PublishedWithParity
CHECK_DEADLOCK FALSE
