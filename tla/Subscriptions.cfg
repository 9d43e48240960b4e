\* One foreign organization, V1 and V2, with and without ONLY_CADT_SUBSCRIPTIONS.
CONSTANTS
    Chain <- MCChain
    Configs <- MCConfigs
    MaxRequests = 1
    MaxChanges = 1
    MaxFaults = 1
SPECIFICATION FairSpec
INVARIANTS
    TypeOK
    DeletedHasNoRow
PROPERTIES
    RemovalIsDue
    SubscriptionsSettle
    ListedIsImported
    UnlistedIsRemoved
