SPECIFICATION FairSpec
CONSTANTS
    IntMin <- MCMin
    IntMax = 2
    MaxId = 4
    Legacy <- MCLegacy
    Code <- MCCode
    LegacyCode <- MCLegacyCode
    Attempts = 2
    BatchSize = 1
    Gone = Gone
    Null = Null
    MaxOpen = 2
    MaxStops = 2
    MaxDowngrades = 1
INVARIANTS
    IdsAreKept
    NarrowIdsFit
    BackfillIsComplete
    FirstRunRefusesNothing
PROPERTIES
    UpgradeCompletes
    ImplementsTable
CHECK_DEADLOCK FALSE
