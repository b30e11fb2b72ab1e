SPECIFICATION Spec
CONSTANTS
    Thread = {t1, t2, t3}
    Cooldown = 2
    WarningInterval = 3
    MaxTime = 5
    MaxResets = 1
SYMMETRY ThreadSymmetry
CHECK_DEADLOCK FALSE
INVARIANTS
    CooldownBounded
    WarningsSpaced
PROPERTIES
    NoAttemptDuringCooldown
    ImplementsGate
