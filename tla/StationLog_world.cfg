SPECIFICATION Spec
CONSTANTS
    LogWindow = 1
    SpikeWindow = 1
    TailLines = 3
    Old = 3
    MaxLines = 4
INVARIANTS
    TypeOK
    FatalIsRecent
    BackpressureIsEarned
    ProcessingIsExact
