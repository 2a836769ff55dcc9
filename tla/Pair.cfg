SPECIFICATION OneIssuerSpec
CONSTANTS
    Server = {s1, s2}
    Cmd = {c1, c2, c3}
    None = None
    MAX_BATCH_SIZE = 2
    MaxTerm = 3
    MaxFaults = 1
SYMMETRY Symmetry
VIEW ReplicationView
INVARIANTS
    TypeOK
    LogMatching
    MatchIndexSound
    OneCallInFlight
    AckedWasApplied

    
\* Elections end at MaxTerm: a cluster without a leader stops there.
CHECK_DEADLOCK FALSE
