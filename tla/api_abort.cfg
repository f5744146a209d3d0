SPECIFICATION Spec
CONSTANTS
  MaxFrames = 5
  MaxScopes = 6
  Residue = 1
  Faults <- ApiAbort
CHECK_DEADLOCK FALSE
INVARIANT NeverCrashes
