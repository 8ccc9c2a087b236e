SPECIFICATION Spec
CONSTANTS
    HEARTBEAT_S = 1
    IntervalS = 1
    BootIdReadable = TRUE
    VolatileWrites = TRUE
    MaxBoots = 3
    MaxClock = 1
    MaxRemounts = 1
INVARIANTS
    TypeOK
    CleanIsSound
    UncleanIsSound
PROPERTIES
    VerdictIsStable
CHECK_DEADLOCK FALSE
