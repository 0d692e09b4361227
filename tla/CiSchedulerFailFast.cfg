SPECIFICATION FairSpec
CONSTANTS
    Steps = {1, 2, 3, 4, 5}
    Deps <- FreeJoinDeps
    MaxParallel = 2
    FailFast = TRUE
    Reusable = {2}
CHECK_DEADLOCK FALSE
PROPERTIES
    ImplementsDag
    CancelledRunReturns
