SPECIFICATION Spec
CONSTANTS
  Paths <- MCPaths
  Trimmed <- MCTrimmed
  Excluded <- MCExcluded
  Gitignore = ".gitignore"
  Initial <- MCInitial
  Absent = Absent
  Directory = Directory
  Public = Public
  Torn = Torn
  Link = Link
  Target <- MCTarget
  MaxChanges = 2
  MaxRuns = 2
INVARIANTS
  TypeOK
  NothingExcludedShips
  ManifestMeansComplete
  GitignoreIsPublic
  RevisionTold
CHECK_DEADLOCK FALSE
