SPECIFICATION Spec
CONSTANTS
    Databases <- AllDatabases
    MaxCrashes <- Crashes
INVARIANTS
    
    NothingIsStuck
    SearchIsWhole
CHECK_DEADLOCK FALSE
