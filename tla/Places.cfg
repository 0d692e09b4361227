SPECIFICATION PlacesSpec
CONSTANTS
    p1 = p1
    p2 = p2
    Procs = {p1, p2}
    Skills = {1, 2}
    Versions = {1, 2}
    Names <- GrowingBundle
    Binary <- OldAndNew
    Runtimes = {"codex", "grok"}
    ForeignSkills = {}
    MaxOps = 3
    MaxFaults = 1
    MaxCrashes = 0
    LateFaults = FALSE
    UserAdds = FALSE
    UserInWindow = FALSE
    Free = Free
    Stale = Stale
    NoClaim = NoClaim
    Torn = Torn
    NoReceipt = NoReceipt
    Nothing = Nothing
    Foreign = Foreign
    NotMoved = NotMoved
    Spots = {1, 2}
    w1 = w1
    w2 = w2
    w3 = w3
    Writings = {w1, w2, w3}
    Ours = Ours
    Spoiled = Spoiled
    Empty = Empty
    MaxTries = 4
    MaxBreaks = 2
    AddsInWindow = FALSE
    Fetchers = {1, 2}
    Urls = {1, 2}
    NoUrl = NoUrl
    MaxTip = 2
    MaxMishaps = 1
    Openers = {1, 2}
    common = common
    plain = plain
    rival = rival
    port1 = port1
    port2 = port2
    Tunnel = {common, plain, rival}
    PortOf <- LocalPorts
    Needs <- TunnelNeeds
    Nobody = Nobody
    Stranger = Stranger
SYMMETRY Alike
CHECK_DEADLOCK FALSE
INVARIANTS
    ReadUnderLockStays
    FailedMeansUndone
    OriginalsKept
    PinnedSourceStays
    TunnelsAccounted
