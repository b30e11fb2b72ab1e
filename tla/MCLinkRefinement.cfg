SPECIFICATION HSpec
CONSTANTS
    Code = {c1}
    Url = {x1}
    User = {u1}
    Handler = {h1, h2, h3}
    Worker = {w1}
    WorkerOf <- OneWorker
    Missing = Missing
    NoEntry = NoEntry
    Anonymous = Anonymous
    NoCode = NoCode
    MaxAttempts = 2
    CacheOn = TRUE
    NegativeOn = TRUE
    AuthRequired = FALSE
    Faults = {}
    MaxRows = 2
    MaxLate = 1
SYMMETRY Symmetry
INVARIANTS
    StaleHasCause
    InvalidationsReach
    LookupsAreLinearizable
PROPERTIES
    ImplementsDirectory
