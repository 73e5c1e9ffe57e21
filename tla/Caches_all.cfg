SPECIFICATION AllSpec
CONSTANTS
    Thread = {t1, t2}
    k1 = k1
    Key = {k1, k2}
    MaxVersion = 2
    MaxCalls = 3
    MaxEntries = 5
    Configs <- CacheConfigs
    NoThread = NoThread
    NoKey = NoKey
    Request = {r1, r2}
    p1 = p1
    p2 = p2
    p3 = p3
    Page <- Pages
    UsesSession <- Sessions
    ErrorPage <- Errors
    PspConfigs <- PagesConfigs
    Size = 2
    NoPage = NoPage
    NoRequest = NoRequest
INVARIANTS WellKept PagesRun
PROPERTIES Fresh AllEnd
CHECK_DEADLOCK FALSE
