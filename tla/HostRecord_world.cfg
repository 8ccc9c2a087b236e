SPECIFICATION Spec
CONSTANTS
    Stations = {s1, s2}
    Nics = {n1, n2}
    OomRecent = 0
    PerTick = 2
    MaxNow = 1
    MaxErrors = 1
    MaxLines = 2
INVARIANTS
    TypeOK
    NicAlertIsExact
    OomIsKept
    DiskErrorIsFlagged
SYMMETRY Symmetry
