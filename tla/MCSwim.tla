------------------------------- MODULE MCSwim -------------------------------
(* Swim for TLC: the nodes are interchangeable. *)
EXTENDS Swim, TLC

CONSTANT Prober  \* the nodes whose protocol rounds run, as far as StableSpec goes

Symmetry == Permutations(Node)
ProbedSymmetry == Permutations(Node \ Prober)

\* Values of Offered: a new NodeInfo, and one that a caller has raised so that it
\* refutes a suspicion.
NewMembers == {NewInfo}
AnyMembers == {NewInfo, [status |-> "Alive", incarnation |-> 1]}

-----------------------------------------------------------------------------
(* A cluster whose members all know each other, as add_member on every node  *)
(* leaves it, and that nobody joins or leaves.                               *)

Joined == [n \in Node |-> [m \in Node |-> NewInfo]]

StableInit ==
    /\ members = Joined
    /\ suspects = [n \in Node |-> {}]
    /\ pending = [n \in Node |-> {}]
    /\ requests = [n \in Node |-> 0]
    /\ msgs = {}

StableNext ==
    \/ \E n \in Prober : ProtocolRound(n)
    \/ \E m \in msgs : HandleMessage(m.dst, m)

StableSpec == StableInit /\ [][StableNext]_vars
=============================================================================
