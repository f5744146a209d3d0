SPECIFICATION Spec
CONSTANTS
  Globals = {a}
  Paths <- MCPaths
  ResultPaths <- MCResultPaths
  MaxArrays = 5
  MaxFrames = 2
  MaxLost = 0
  Faults = {}
  None = none
VIEW View
CHECK_DEADLOCK FALSE
INVARIANTS TypeOK RefsArePaths OnlyArraysUsed PendingStoresLive
