\* The bounds on terms, logs and messages end behaviours.
CHECK_DEADLOCK FALSE
SPECIFICATION Spec
SYMMETRY Symmetry
CONSTANTS
    Node = {n1, n2, n3}
    Nobody = Nobody
    Command = {c}
    ClusterSize = 3
    MaxEntriesPerAppend = 1
    DrivenByCluster = TRUE
    MaxTerm = 2
    MaxLog = 0
    MaxInFlight = 4
INVARIANTS OneVoteUntilAnnounced SplitNeedsDoubleVote

