\* The bounds on terms, logs and messages end behaviours.
CHECK_DEADLOCK FALSE
SPECIFICATION Spec
SYMMETRY Symmetry
CONSTANTS
    Node = {n1, n2}
    Nobody = Nobody
    Command = {c}
    ClusterSize = 2
    MaxEntriesPerAppend = 1
    DrivenByCluster = FALSE
    MaxTerm = 2
    MaxLog = 2
    MaxInFlight = 2
INVARIANTS TypeOK LogIndexIsPosition LogTermsOrdered RequestsCarrySlices
PROPERTIES LeaderAppendOnly TermAndVoteStep
