\* A foreign organization in V1: resets land inside a tick, ticks fail and die, the store loses generations.
CONSTANTS
    Keys = {k1}
    Vals = {v1}
    NoRow = NoRow
    MaxGen = 3
    MaxReorgs = 1
    Version = "v1"
    IsHome = FALSE
    PrunesLate = FALSE
    RacyResets = TRUE
    MaxResets = 1
    MaxFaults = 1
    MaxIncidents = 2
SPECIFICATION FairSpec
INVARIANTS
    TypeOK
    RowsConverge
    OneRowPerGeneration
PROPERTIES
    CatchesUp
    AheadIsResolved
