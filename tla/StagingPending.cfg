\* V2, two overlapping requests and every call of the API.
CONSTANTS
    Releases = {"v2"}
    Uuids = {a, b}
    NoRow = NoRow
    Clients = {c1, c2}
    Ops <- EveryCall
    MaxVersions = 1
    MaxPushes = 2
    MaxRejects = 1
    MaxGiveUps = 1
    MaxAborts = 1
    MaxForeign = 1
    MaxCrashes = 1
SPECIFICATION Spec
SYMMETRY Symmetry
INVARIANTS
    TypeOK
    PendingIsAccounted
PROPERTIES
    StagedRowsStay
CHECK_DEADLOCK FALSE
