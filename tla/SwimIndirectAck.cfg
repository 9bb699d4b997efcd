SPECIFICATION StableSpec
SYMMETRY Symmetry
CONSTANTS
    Node = {n1, n2, n3}
    Prober = {n1, n2, n3}
    IndirectPings = 1
    GossipFanout = 1
    Offered <- NewMembers
    MaxIncarnation = 3
    MaxRequest = 1
    MaxInFlight = 1
PROPERTY IndirectAckMarksAlive
