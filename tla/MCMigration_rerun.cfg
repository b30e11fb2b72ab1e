SPECIFICATION Spec
CONSTANTS
    IntMin <- MCMin
    IntMax = 2
    MaxId = 4
    Legacy <- MCLegacy
    Code <- MCCode
    LegacyCode <- MCLegacyCode
    Attempts = 2
    BatchSize = 1
    Gone = Gone
    Null = Null
    MaxOpen = 2
    MaxStops = 2
    MaxDowngrades = 1
INVARIANTS
    FailsSafely
CHECK_DEADLOCK FALSE
