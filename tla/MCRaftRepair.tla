----------------------------- MODULE MCRaftRepair -----------------------------
(***************************************************************************)
(* Replication across leaderships.  An election is one step here: n starts *)
(* it, the members of Q grant their votes, their responses arrive and all  *)
(* other requests are lost.  That is one order of the steps StartElection, *)
(* ProcessVoteRequest, CountVote and Lose of RaftNode, so every state of   *)
(* this specification is one of RaftNode; what it leaves out are elections *)
(* whose own messages interleave, which MCRaftNode explores.  Append       *)
(* requests and responses stay separate messages, which outlive their      *)
(* leader, get lost and, where MaxInFlight allows two, overtake each other.*)
(***************************************************************************)
EXTENDS RaftNode, TLC

Symmetry == Permutations(Node)

WouldGrant(q, n) ==
    /\ currentTerm[q] <= currentTerm[n] + 1
    /\ currentTerm[q] = currentTerm[n] + 1 => votedFor[q] \in {Nobody, n}
    /\ IsLogUpToDate(log[q], LastIndex(log[n]), LastTerm(log[n]))

Election(n, Q) ==
    LET t == currentTerm[n] + 1
    IN  /\ state[n] # "Leader"
        /\ t <= MaxTerm
        /\ Cardinality(Q) + 1 = Majority
        /\ \A q \in Q : WouldGrant(q, n)
        /\ currentTerm' = [p \in Node |-> IF p \in Q \cup {n} THEN t ELSE currentTerm[p]]
        /\ votedFor' = [p \in Node |-> IF p \in Q \cup {n} THEN n ELSE votedFor[p]]
        /\ state' = [p \in Node |->
              IF p = n THEN "Leader"
              ELSE IF p \in Q /\ currentTerm[p] < t THEN "Follower" ELSE state[p]]
        /\ voteCount' = [p \in Node |->
              IF p = n THEN Cardinality(Q) + 1
              ELSE IF p \in Q /\ currentTerm[p] < t THEN 0 ELSE voteCount[p]]
        /\ elected' = elected \cup {<<t, n>>}
        /\ granted' = granted \cup {<<t, p, n>> : p \in Q \cup {n}}
        /\ UNCHANGED <<logVars, leaderVars, msgs, applied>>

Replicate(m) ==
    \/ HandleAppendEntries(m.dst, m)
    \/ HandleAppendEntriesResponse(m.dst, m)

RepairNext ==
    \/ \E n \in Node : \/ \E Q \in SUBSET (Node \ {n}) : Election(n, Q)
                       \/ \E c \in Command : AppendEntry(n, c)
                       \/ \E f \in Node : CreateAppendEntries(n, f)
    \/ \E m \in msgs : Replicate(m) \/ Lose(m)

RepairSpec == Init /\ [][RepairNext]_vars
=============================================================================
