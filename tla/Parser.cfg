SPECIFICATION FairSpec
CONSTANTS
    MaxTokens = 7
    Options <- MCOptions
    MallocFails = TRUE
INVARIANTS
    OwnershipExact
    NothingLeft
    DepthExact
    HeightBounded
    NullHasError
    StepsBounded
PROPERTIES
    ErrorIsFinal
    Terminates
