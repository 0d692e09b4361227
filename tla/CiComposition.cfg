SPECIFICATION PartSpec
CHECK_DEADLOCK FALSE
CONSTANTS
    a = a
    b = b
    c = c
    d = d
    stepA = stepA
    stepB = stepB
    rootA = rootA
    rootB = rootB
    rootD = rootD
    Nobody = Nobody
    Runs <- MCRuns
    Scopes <- MCScopes
    OwnerOf <- MCOwnerOf
    Via <- MCVia
    ChainOf <- MCChainOf
    Roots <- MCRoots
    RootOf <- MCRootOf
    Signaled = {b}
    MaxFaults = 1
INVARIANTS
    SuccessIsComplete
PROPERTIES
    OrphansEnd
    CancelReachesLeaves
