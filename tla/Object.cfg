\* Five objects shared by two handles: arrays of up to two items, which are
\* grown from a first capacity of one, so that every append grows; two objects
\* and the whole of their copy.
SPECIFICATION HandleSpec
CONSTANTS
    Obj = {o1, o2, o3, o4, o5}
    NoObj = NoObj
    Handle = {h1, h2}
    NoHandle = NoHandle
    Key = {k1}
    NoKey = NoKey
    InitCap = 1
    MaxItems = 2
    AllowCycles = FALSE
    PartialGrow = FALSE
SYMMETRY Symmetry
INVARIANTS
    HandleTypeOK
    RefCountExact
    NoDangling
    ReplaceSafe
    NoLeak
    CloneExact
    EqualsTells
    CloneApart
PROPERTY
    WrapperIsHeap
