SPECIFICATION Spec
CONSTANTS
    Bits = 1
    DefSize = 8
    DefSign = FALSE
    Vars = {a, b}
    DeclTypes <- MCTypes
    Numbers <- MCNumbers
    CaseLists <- MCCases
    Strings <- MCStrings
    MaxOps = 3
    MaxStmts = 1
    Faults = {}
    None = none
    Default = default
INVARIANTS TypeOK ValueIsC VarsAreC SwitchIsC NeverTraps
CHECK_DEADLOCK FALSE
