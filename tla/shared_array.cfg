SPECIFICATION Spec
CONSTANTS
  Globals = {a}
  Paths <- MCPaths
  ResultPaths <- MCResultPaths
  MaxArrays = 6
  MaxFrames = 2
  MaxLost = 0
  Faults = {"sharedStore"}
  None = none
VIEW View
CHECK_DEADLOCK FALSE
INVARIANTS ElementsHaveArrays
