SPECIFICATION FairSpec
CONSTANTS
    Key = {k1}
    Request = {r1, r2}
    OneLimit = 2
    OneWindow = 1
    Limit <- Limits
    Window <- Windows
    TicksPerSecond = 4
    Enabled = TRUE
    FailOpen = FALSE
    Faults = {"redis", "persist"}
    MaxLate = 1
    MaxPersists = 1
INVARIANTS
    TypeOK
    ThrottledOnlyWhenBusy
    SlidingBound
    RetryAfterIsHonest
PROPERTIES
    ScriptLeavesExpiry
    ThrottleEnds
