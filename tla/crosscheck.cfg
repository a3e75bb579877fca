SPECIFICATION Spec
CONSTANTS
  plain = plain
  variant = variant
  long = long
  broken = broken
  odd = odd
  large = large
  huge = huge
  empty = empty
  NoInput = NoInput
  Broken = Broken
  None = None
  j1 = j1
  j2 = j2
  j3 = j3
  Inputs <- MCInputs
  Size <- MCSize
  MaxInputSize <- MCLimit
  MaxBoots = 2
  JobIDs <- MCJobIDs
  QueueLimit = 1
  Workers = 1
  Analysis <- MCAnalysis
  Trimmed <- MCTrimmed
  RowLimit = 2
  Overhead = 1
  Situations <- MCSituations
  Forms <- MCForms
  OtherForms <- MCOtherForms
INVARIANTS
  TypeOK
  JobsOnlyAfterHealthz
  FormVerdict
  ReportIsOfOneJob
  MatchExact
  LostOnlyIfGone
PROPERTIES
  SignalStops
  CheckEnds
CHECK_DEADLOCK FALSE
