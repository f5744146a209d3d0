SPECIFICATION Spec
CONSTANTS
  Files = {fa, fb}
  Texts <- FaultTexts
  Absent = absent
  Unreadable = unreadable
  NoFile = nofile
  NoText = notext
  Idle = idle
  NativeNames <- Natives
  OwnCommands <- Own
  MaxCmds = 3
  MaxClock = 2
  MaxLoads = 3
  MaxRunning = 1
  Faults <- AllFaults
CHECK_DEADLOCK FALSE
INVARIANT OneDefinition
