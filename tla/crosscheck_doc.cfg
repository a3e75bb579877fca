CONSTANTS
  Scenarios = {s1}
  s1 = s1
  s2 = s2
  CoreMembers <- MCCoreMembers
  None = None
  Torn = Torn
  Features = {"redaction", "service-integration"}
  MaxRuns = 2
SPECIFICATION Spec
INVARIANT CrossCheckIsSameRun
CHECK_DEADLOCK FALSE
