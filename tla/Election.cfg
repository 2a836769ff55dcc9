SPECIFICATION Spec
CONSTANTS
    Server = {s1, s2, s3}
    Cmd = {}
    None = None
    MAX_BATCH_SIZE = 1
    MaxTerm = 2
    MaxFaults = 2
SYMMETRY Symmetry
VIEW ElectionView
INVARIANTS
    OneVotePerTerm
    ElectionSafety
\* Elections end at MaxTerm: a cluster without a leader stops there.
CHECK_DEADLOCK FALSE
