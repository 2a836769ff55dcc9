SPECIFICATION Spec
CONSTANTS
    Server = {s1, s2, s3}
    Cmd = {c1, c2}
    None = None
    MAX_BATCH_SIZE = 1
    MaxTerm = 2
    MaxFaults = 0
SYMMETRY Symmetry
VIEW ReplicationView
INVARIANTS
    StateMachineSafety
\* Elections end at MaxTerm: a cluster without a leader stops there.
CHECK_DEADLOCK FALSE
