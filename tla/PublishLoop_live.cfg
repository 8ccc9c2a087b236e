SPECIFICATION FairSpec
CONSTANTS
    s1 = s1
    s2 = s2
    Stations = {s1, s2}
    Placeholder = {}
    InitiallyOn = {s2}
    MayGarble = FALSE
    MaxEdits = 2
    MaxDrops = 1
    MaxCrashes = 1
    MaxStops = 0
    MaxErrors = 1
    MaxFaults = 2
    MaxBacklog = 1
PROPERTIES
    ConsentIsPublished
    OptOutIsErased
