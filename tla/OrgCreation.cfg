\* Two requests and a recovery; no creation lasts as long as the lock does.
CONSTANTS
    StoreTypes = {orgUid, registry}
    OrgUid = orgUid
    DataStores = {orgUid}
    Requests = {r1, r2}
    NoState = NoState
    MaxRetries = 3
    MaxStores = 6
    MaxTime = 1
    MaxErrors = 1
    MaxCrashes = 1
SPECIFICATION FairSpec
INVARIANTS
    TypeOK
    HomeIsReady
    
PROPERTIES
    StoresAreKept
    PendingEnds
CHECK_DEADLOCK FALSE
