\* The bounds on terms, logs and messages end behaviours.
CHECK_DEADLOCK FALSE
SPECIFICATION RepairSpec
SYMMETRY Symmetry
CONSTANTS
    Node = {n1, n2, n3}
    Nobody = Nobody
    Command = {c}
    ClusterSize = 3
    MaxEntriesPerAppend = 1
    DrivenByCluster = FALSE
    MaxTerm = 2
    MaxLog = 2
    MaxInFlight = 1
INVARIANTS LogMatchingUntilSplit
