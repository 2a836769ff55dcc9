SPECIFICATION FairSpec
CONSTANTS
    Value = {a, b, c}
    None = None
    capacity = 2
    UsizeMod = 8
INVARIANTS
    TimedEntries
    AnswerIsOwn
PROPERTIES
    CallEnds
    ImplementsPeerCalls
\* All calls may have ended.
CHECK_DEADLOCK FALSE
