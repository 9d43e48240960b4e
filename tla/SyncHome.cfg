\* The home organization in V2: resets between ticks, ticks fail and die.
CONSTANTS
    Keys = {k1, k2}
    Vals = {v1}
    NoRow = NoRow
    MaxGen = 3
    MaxReorgs = 0
    Version = "v2"
    IsHome = TRUE
    PrunesLate = FALSE
    RacyResets = FALSE
    MaxResets = 1
    MaxFaults = 1
    MaxIncidents = 2
SPECIFICATION FairSpec
INVARIANTS
    AuditHasNoGaps
PROPERTIES
    ImplementsRegistryLog
