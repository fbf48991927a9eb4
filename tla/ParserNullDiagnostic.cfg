SPECIFICATION Spec
CONSTANTS
    MaxTokens = 5
    Options <- NoLimits
    MallocFails = FALSE
INVARIANT
    NullHasDiagnostic
