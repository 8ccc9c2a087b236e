SPECIFICATION Spec
CONSTANTS
    Uids = {"a", "b"}
    Endpoints = 2
    Limit = 1
INVARIANTS
    TypeOK
    NoOrphan
PROPERTIES
    WedgeEnds
    LinkReturns
