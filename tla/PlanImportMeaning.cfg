SPECIFICATION ResolveSpec
CHECK_DEADLOCK FALSE
CONSTANTS
    x = x
    y = y
    z = z
    ix = ix
    ia = ia
    db = db
    api = api
    None = None
    Missing = Missing
    Names = {x, y, z}
    ImportOf <- MCImport
    Books <- MCBooks
    Stack <- MCStack
    SiteRunner <- MCSite
    Environments <- MCEnvs
    MaxAlias = 2
    MaxExtends = 2
INVARIANT EveryImportKeepsMeaning
