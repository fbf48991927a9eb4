\* Containers may hold themselves and one realloc of a pair may fail alone.
\* A run stops where it would read a map's freed array.
SPECIFICATION FairSpec
CONSTANTS
    Obj = {o1, o2}
    NoObj = NoObj
    Handle = {h1, h2, h3}
    Key = {k1, k2}
    NoKey = NoKey
    InitCap = 1
    MaxItems = 3
    AllowCycles = TRUE
    PartialGrow = TRUE
INVARIANTS
    IInv
    WellFormed
PROPERTY
    ReleaseEnds
CHECK_DEADLOCK FALSE
