SPECIFICATION Spec
CONSTANTS
    s1 = s1
    s2 = s2
    Stations = {s1, s2}
    Placeholder = {}
    InitiallyOn = {}
    MayGarble = TRUE
    MaxEdits = 2
    MaxDrops = 1
    MaxCrashes = 0
    MaxStops = 1
    MaxErrors = 1
    MaxFaults = 3
    MaxBacklog = 1
INVARIANTS
    TypeOK
    NeverOpenNeverNamed
    ClearedIsErased
    QuietCyclePublishes
    EndIsComplete
SYMMETRY Symmetry
