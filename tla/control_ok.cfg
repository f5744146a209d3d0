SPECIFICATION Spec
CONSTANTS
  MaxFrames = 7
  MaxScopes = 8
  Residue = 1
  Faults <- NoFaults
CHECK_DEADLOCK FALSE
INVARIANTS TypeOK JmpsMirrorFrames NeverCrashes ScopesInForce HandlersOwned
PROPERTIES StableScopes LoopJumpsEndOnlyLoops ImplementsStructured
