SPECIFICATION FairSpec
CONSTANTS
    Code = {c1}
    Url = {x1}
    User = {u1}
    Handler = {h1, h2}
    Worker = {w1, w2}
    WorkerOf <- OwnWorker
    Missing = Missing
    NoEntry = NoEntry
    Anonymous = Anonymous
    NoCode = NoCode
    MaxAttempts = 2
    CacheOn = TRUE
    NegativeOn = FALSE
    AuthRequired = TRUE
    Faults = {"redis", "db", "crash"}
    MaxRows = 2
    MaxLate = 1
INVARIANTS
    TypeOK
    StaleHasCause
    LookupsAreLinearizable
    AllocationIsExact
    AnnouncedLinkResolves
PROPERTIES
    DeletedLinkGoesDark
