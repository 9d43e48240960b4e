SPECIFICATION FairSpec
CONSTANTS
    Rows = {1, 2}
    NoRow = NoRow
    MaxWrites = 2
    MaxTime = 1
    MaxTroubles = 1
CHECK_DEADLOCK FALSE
PROPERTIES
    
    
    BackfillAligns
    WritesSettle
