SPECIFICATION Spec
CONSTANTS
    Obj = {o1, o2}
    NoObj = NoObj
    Handle = {h1, h2}
    Key = {k1, k2}
    NoKey = NoKey
    InitCap = 1
    MaxItems = 2
    AllowCycles = FALSE
    PartialGrow = TRUE
INVARIANT ArraysOwned
