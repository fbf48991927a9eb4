\* Calls, instantiation, paths and diagnostics of one thread.
SPECIFICATION EvalSpec
CONSTANTS
    Thread = {t1}
    Code <- Codes
    OK = "ok"
    OutOfRange = "range"
    Forbidden = "forbidden"
    MaxCount = 2
    MaxRecords = 3
    Enabled <- Everything
    Options <- Choices
    Args <- Arguments
    Char <- Characters
    Path <- Paths
    NoPath <- Unresolved
    Arg = {"x", "y"}
    MaxInst = 3
INVARIANTS BudgetKept RefusedTold EchoInOrder SandboxExact
           FirstErrorKept ListHoldsFirst
