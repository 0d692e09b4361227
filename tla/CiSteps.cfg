SPECIFICATION StepsSpec
CONSTANTS
    Files = {1, 2}
    Values = {0, 1}
    Fits <- Agreeing
    MaxAge = 1
    MaxTime = 2
    MaxRuns = 3
    MaxEdits = 3
    MaxSpoils = 1
    MaxSwitches = 2
    repo = repo
    cluster = cluster
    rival = rival
    Nobody = Nobody
    Runner = Runner
    w = w
    Pushes = {repo, cluster, rival}
    Destination <- Places
    KeysOf <- Keys
    AtOnce = {cluster}
    Entries = {1, 2}
    Imaged = {1}
    Before <- Targets
    Watchers = {w}
    Casts = {{rival}, {w}}
CHECK_DEADLOCK FALSE
INVARIANTS
    CacheTruthful
    OciAccounted
    NothingUnrecorded
    SuccessIsEarned
PROPERTIES
    ReuseIsSound
    ReceiptGrows
