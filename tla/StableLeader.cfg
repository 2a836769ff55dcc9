SPECIFICATION Spec
CONSTANTS
    Server = {s1, s2, s3}
    Cmd = {c1, c2}
    None = None
    MAX_BATCH_SIZE = 1
    MaxTerm = 1
    MaxFaults = 1
SYMMETRY Symmetry
VIEW ReplicationView
INVARIANTS
    AckedIsOnQuorum
PROPERTIES
    CommittedIsStable
    ImplementsReplicatedLog
\* Elections end at MaxTerm: a cluster without a leader stops there.
CHECK_DEADLOCK FALSE
