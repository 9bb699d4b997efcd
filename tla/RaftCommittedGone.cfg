CHECK_DEADLOCK FALSE
SPECIFICATION Spec
CONSTANTS
    Node = {n1, n2, n3}
    Nobody = Nobody
    Command = {c}
    ClusterSize = 3
    MaxEntriesPerAppend = 2
    DrivenByCluster = FALSE
    MaxTerm = 1
    MaxLog = 2
    MaxInFlight = 3
INVARIANT CommittedEntryExists
