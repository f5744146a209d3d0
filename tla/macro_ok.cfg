SPECIFICATION Spec
CONSTANTS
  Names <- MCNames
  Files <- MCFiles
  Clean <- MCClean
  Included <- MCIncluded
  Api <- MCApi
  MAXIN = 9
  MaxLoads = 1
  NoMac = nomac
CHECK_DEADLOCK FALSE
INVARIANTS TypeOK SubsMirrorBuffers MarksMirrorBuffers NoResidue ExpandsAsC
PROPERTIES LoadsEnd
