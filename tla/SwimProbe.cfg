SPECIFICATION StableSpec
SYMMETRY ProbedSymmetry
CONSTANTS
    Node = {n1, n2, n3, n4}
    Prober = {n1}
    IndirectPings = 1
    GossipFanout = 1
    Offered <- NewMembers
    MaxIncarnation = 3
    MaxRequest = 2
    MaxInFlight = 1
INVARIANT AckMatchesRequest
