\* A full audit reset in V2 leaves the data tables as they are.
CONSTANTS
    Keys = {k1}
    Vals = {v1}
    NoRow = NoRow
    MaxGen = 3
    MaxReorgs = 0
    Version = "v2"
    IsHome = FALSE
    PrunesLate = FALSE
    RacyResets = FALSE
    MaxResets = 1
    MaxFaults = 0
    MaxIncidents = 2
SPECIFICATION FairSpec
PROPERTIES
    FullResetCleansRows
