\* One request at a time: V2 with retries, V1 with transfers and edits; given-up pushes and restarts.
CONSTANTS
    Releases = {"v1", "v2"}
    Uuids = {a, b}
    NoRow = NoRow
    Clients = {c1}
    Ops <- SomeCalls
    MaxVersions = 2
    MaxPushes = 3
    MaxRejects = 1
    MaxGiveUps = 1
    MaxAborts = 0
    MaxForeign = 0
    MaxCrashes = 1
SPECIFICATION FairSpec
INVARIANTS
    OnePush
    PublishedInOrder
    NoChangeLost
PROPERTIES
    CommitsSettle
CHECK_DEADLOCK FALSE
