CONSTANTS
  Scenarios = {s1, s2}
  s1 = s1
  s2 = s2
  CoreMembers <- MCCoreMembers
  None = None
  Torn = Torn
  Features = {"redaction"}
  MaxRuns = 3
SPECIFICATION Spec
INVARIANTS
  TypeOK
  PublishedIsCurrent
  RejectionExplained
  IndexTracksPublished
CHECK_DEADLOCK FALSE
