SPECIFICATION Spec
CONSTANTS
    Bits = 1
    DefSize = 8
    DefSign = FALSE
    Vars = {a, b}
    DeclTypes <- MCTypes
    Numbers <- MCNumbers
    CaseLists <- MCCases
    Strings <- MCStrings
    MaxOps = 4
    MaxStmts = 1
    Faults = {"computed"}
    None = none
    Default = default
INVARIANTS VarsAreC
CHECK_DEADLOCK FALSE
