SPECIFICATION SeededSpec
CONSTANTS
    Text = {"a"}
    Window = {1, 2}
    Reloaded = {1}
    User = {1}
    MaxCommands = 2
    MaxFaults = 1
INVARIANTS
    TypeOK
    SameCommandsSameState
    PanicsOnlyIfStale
PROPERTIES
    UsesReplicatedLog
    
    
\* Users may stop.
CHECK_DEADLOCK FALSE
