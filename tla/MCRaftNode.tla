----------------------------- MODULE MCRaftNode -----------------------------
(* Small instances of RaftNode.                                            *)
EXTENDS RaftNode, TLC

Symmetry == Permutations(Node)
=============================================================================
