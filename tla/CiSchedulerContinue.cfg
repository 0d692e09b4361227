SPECIFICATION EndingSpec
CONSTANTS
    Steps = {1, 2, 3, 4, 5}
    Deps <- CycleDeps
    MaxParallel = 9
    FailFast = FALSE
    Reusable = {3}
CHECK_DEADLOCK FALSE
PROPERTIES
    RunReturns
