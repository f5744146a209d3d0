SPECIFICATION Spec
CONSTANTS
    outer = outer
    inner = inner
    alias = alias
    Names <- MCNames
    Structs <- MCStructs
    Mentions <- MCMentions
    Typedefs <- MCTypedefs
    MaxIdx = 3
    MaxLoads = 2
    MaxOpen = 2
    Faults = {}
    None = none
    Void = void
INVARIANTS TypeOK OneEntryPerIndex TypedefsAreScoped TypesKeepMeaning
CHECK_DEADLOCK FALSE
