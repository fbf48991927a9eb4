SPECIFICATION Spec
CONSTANTS
    MaxTokens = 4
    Options <- NoLimits
    MallocFails = FALSE
INVARIANT
    CurrentTextIntact
