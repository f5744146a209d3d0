SPECIFICATION Spec
CONSTANTS
  Files = {fa, fb}
  Texts <- MCTexts
  Absent = absent
  Unreadable = unreadable
  NoFile = nofile
  NoText = notext
  Idle = idle
  NativeNames <- Natives
  OwnCommands <- Own
  MaxCmds = 3
  MaxClock = 3
  MaxLoads = 3
  MaxRunning = 1
  Faults <- NoFaults
CHECK_DEADLOCK FALSE
INVARIANTS TypeOK OneDefinition GlobalsOfLoadedFiles CommandsRegistered RunningIsLoaded DependIsFresh
PROPERTIES LoadedUntilUnload ImplementsRegistry
