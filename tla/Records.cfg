\* Every family of tables, two requests and a commit, a failure and a retry.
CONSTANTS
    Families <- AllFamilies
    MaxEdits = 2
    MaxCommits = 2
    NoPush = NoPush
SPECIFICATION Spec
INVARIANTS
    OnlyOwnedPublished
    
PROPERTIES
    DeletesLeaveNoOrphan
CHECK_DEADLOCK FALSE
