SPECIFICATION PlansSpec
CONSTANTS
    Children = {1, 2, 3}
    Graphs <- EveryGraph
    FullGraphs <- WorkedGraphs
    Order <- OrderOf
    NumEntries <- EntryCounts
    Checked <- ChecksOf
    Native <- NativeOnes
    FirstUp <- UpBefore
    MaxDeaths = 1
    x = x
    y = y
    z = z
    ix = ix
    ia = ia
    db = db
    api = api
    None = None
    Missing = Missing
    Names = {x, y, z}
    ImportOf <- MCImport
    Books <- MCBooks
    Stack <- MCStack
    SiteRunner <- MCSite
    Environments <- MCEnvs
    MaxAlias = 2
    MaxExtends = 2
    Declarations <- MCDeclarations
    Shells <- MCShells
    MaxPasses = 3
    MaxUps = 2
CHECK_DEADLOCK FALSE
INVARIANTS
    WavesRight
    ReportTruthful
    LeftoversAccounted
    SplitMatchesStart
    ValidatedResolves
    ImportKeepsMeaning
    EnvSettled
    EntryGetsDeclared
PROPERTIES
    TeardownOrder
    ImplementsSaga
    CommandEnds
