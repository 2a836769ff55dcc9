SPECIFICATION FairSpec
CONSTANTS
    Window = {1, 2}
    MaxOpenings = 2
    ClusterSize = 3
    Reloaded = {1}
    MaxRepeats = 1
INVARIANTS
    TypeOK
    OneInitiator
    GivesUpOnlyAfterRepeat
    ClusterIsWhole

    
\* All windows may be introduced, or have given up.
CHECK_DEADLOCK FALSE
