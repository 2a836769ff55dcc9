SPECIFICATION FairSpec
CONSTANTS
    Window = {1, 2}
    MaxOpenings = 2
    ClusterSize = 2
    Reloaded = {2}
    MaxRepeats = 1
PROPERTIES
    RejoinsCluster
\* All windows may be introduced, or have given up.
CHECK_DEADLOCK FALSE
