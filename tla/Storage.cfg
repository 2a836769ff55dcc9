SPECIFICATION Spec
CONSTANTS
    Node = {n1, n2, n3}
    Self = n1
    Cmd = {c1, c2}
    None = None
    MaxTerm = 2
    MaxIndex = 3
    Faults = {"crash", "quota"}
INVARIANTS
    VoteBelongsToTerm
    TermOfVoteKept
    OnlyLastEntryMissing
    SavedEntriesSurvive
