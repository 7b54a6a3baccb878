CONSTANTS
  MaxObjects = 5
  MaxProcesses = 3
  MaxTotal = 6
  Names <- MCNames
  Paths <- MCPaths
SPECIFICATION TreeSpec
CHECK_DEADLOCK FALSE
INVARIANTS
  NamesMean
  NeverUp
  OnlyStartsFail
PROPERTIES
  StableNames
