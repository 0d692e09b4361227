SPECIFICATION Spec
CONSTANTS
    p1 = p1
    p2 = p2
    Procs = {p1, p2}
    Skills = {1, 2}
    Versions = {1, 2}
    Names <- GrowingBundle
    Binary <- OldAndNew
    Runtimes = {"codex"}
    ForeignSkills = {1}
    MaxOps = 3
    MaxFaults = 2
    MaxCrashes = 1
    LateFaults = TRUE
    UserAdds = TRUE
    UserInWindow = FALSE
    Free = Free
    Stale = Stale
    NoClaim = NoClaim
    Torn = Torn
    NoReceipt = NoReceipt
    Nothing = Nothing
    Foreign = Foreign
    NotMoved = NotMoved
CHECK_DEADLOCK FALSE
INVARIANTS
    SuccessIsReal
PROPERTIES
    ForeignKept
    FollowsProtocol
