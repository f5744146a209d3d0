SPECIFICATION Spec
CONSTANTS
    Words <- MCWords
    MaxToks = 4
    MaxRef = 2
    MaxVars = 2
    Faults = {}
    None = none
INVARIANTS TypeOK DeclaredAsC ReportedIffInvalid PrintedNameIsType
CHECK_DEADLOCK FALSE
