SPECIFICATION Spec
CONSTANTS
    HEARTBEAT_S = 2
    IntervalS = 1
    BootIdReadable = TRUE
    VolatileWrites = FALSE
    MaxBoots = 3
    MaxClock = 4
    MaxRemounts = 0
INVARIANTS
    OutageIsDated
PROPERTIES VerdictIsAsPromised
CHECK_DEADLOCK FALSE
