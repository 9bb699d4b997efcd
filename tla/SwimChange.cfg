SPECIFICATION Spec
SYMMETRY Symmetry
CONSTANTS
    Node = {n1, n2}
    Prober = {n1, n2}
    IndirectPings = 1
    GossipFanout = 1
    Offered <- AnyMembers
    MaxIncarnation = 3
    MaxRequest = 1
    MaxInFlight = 2
INVARIANT TypeOK
PROPERTY SuspicionsEndTogether
