SPECIFICATION Spec
CONSTANTS
    s1 = s1
    s2 = s2
    Stations = {s1, s2}
    Placeholder = {}
    InitiallyOn = {s1}
    MayGarble = FALSE
    MaxEdits = 2
    MaxDrops = 0
    MaxCrashes = 0
    MaxStops = 0
    MaxErrors = 0
    MaxFaults = 0
    MaxBacklog = 4
INVARIANTS
    QuietCycleErases
