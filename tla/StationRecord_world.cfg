SPECIFICATION Spec
CONSTANTS
    Pids = {p1, p2, p3}
    nobody = nobody
    MaxAge = 2
    RestartGrace = 2
    Fresh = 2
    ActiveWindow = 1
    DetectionGrace = 1
    SwitchGrace = 2
    Disabled = {}
    Located = TRUE
    Continuous = TRUE
INVARIANTS
    TypeOK
    StalledIsReal
    DeadOutputIsPinged
    DuplicateIsReal
SYMMETRY Symmetry
