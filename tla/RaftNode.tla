------------------------------ MODULE RaftNode ------------------------------
(***************************************************************************)
(* The Raft node of kaelix-cluster/src/consensus/mod.rs (mod raft), one    *)
(* copy per member of Node, the heartbeats of the driver RaftCluster       *)
(* (consensus/raft/cluster.rs) and the network between the nodes.          *)
(*                                                                         *)
(* Every handler takes &mut self, so a handler is one action.  What a      *)
(* handler returns is put on the network by its caller: a reply leaves in  *)
(* the step that handles the request.  The network may lose and reorder    *)
(* messages; it duplicates none (one TCP connection per peer, no           *)
(* retransmission in the code; the individual sends that follow a failed   *)
(* broadcast_raft_message only run when it has sent nothing).              *)
(*                                                                         *)
(* The driver uses only part of the node.  It sends its own heartbeats     *)
(* instead of create_append_entries, which nothing calls, and its          *)
(* route_raft_message drops append responses with a warning.  A RaftNode   *)
(* is public, though, and its functions are meant for replication.         *)
(* DrivenByCluster tells the two uses apart: TRUE is RaftCluster, FALSE an *)
(* owner that sends what create_append_entries returns and passes the      *)
(* answers to handle_append_entries_response.                              *)
(*                                                                         *)
(* Left out: clocks (an election timeout may happen at any time to a node  *)
(* that is not the leader), metrics, request ids, current_leader (only     *)
(* ever reported) and pre-votes.  handle_vote_request does read pre_vote   *)
(* (line 533), but every request is built with pre_vote: false.            *)
(***************************************************************************)
EXTENDS Integers, Sequences, FiniteSets

CONSTANTS
    Node,                   \* the cluster members
    Nobody,                 \* Option::None of a node id
    Command,                \* what clients append
    ClusterSize,            \* cluster_size, the same on all nodes and never changed
    MaxEntriesPerAppend,    \* RaftConfig::max_entries_per_append
    DrivenByCluster,        \* is RaftCluster the owner of the nodes?
    MaxTerm,                \* bound: no election starts beyond this term
    MaxLog,                 \* bound: a leader's log stops growing here
    MaxInFlight             \* bound: messages on the network

ASSUME NodeAssumption == Nobody \notin Node
ASSUME ClusterSizeAssumption == ClusterSize \in Nat \ {0}
ASSUME MaxEntriesAssumption == MaxEntriesPerAppend \in Nat \ {0}
ASSUME OwnerAssumption == DrivenByCluster \in BOOLEAN
ASSUME BoundAssumption == MaxTerm \in Nat /\ MaxLog \in Nat /\ MaxInFlight \in Nat

VARIABLES
    currentTerm,    \* [Node -> Nat]
    state,          \* [Node -> {"Follower", "Candidate", "Leader"}]
    votedFor,       \* [Node -> Node \cup {Nobody}]
    voteCount,      \* [Node -> Nat]
    log,            \* [Node -> Seq(Entry)]
    commitIndex,    \* [Node -> Nat]
    lastApplied,    \* [Node -> Nat]
    nextIndex,      \* [Node -> [Node -> Nat]]; a missing key reads as 1
    matchIndex,     \* [Node -> [Node -> Nat \cup {None}]]; None: no such key
    msgs,           \* messages on the network
    elected,        \* history: <<term, node>> of every election won
    granted,        \* history: <<term, voter, candidate>> of every vote
    applied         \* history: [Node -> indices apply_fn accepted]

electionVars == <<currentTerm, state, votedFor, voteCount>>
logVars == <<log, commitIndex, lastApplied>>
leaderVars == <<nextIndex, matchIndex>>
history == <<elected, granted, applied>>
vars == <<electionVars, logVars, leaderVars, msgs, history>>

-----------------------------------------------------------------------------
None == -1      \* Option::None of an index or a term

Entry == [term : Nat, command : Command, index : Nat]

VoteRequest ==
    [type : {"VoteRequest"}, src : Node, dst : Node, term : Nat,
     lastLogIndex : Nat, lastLogTerm : Nat]

VoteResponse ==
    [type : {"VoteResponse"}, src : Node, dst : Node, term : Nat,
     voteGranted : BOOLEAN]

AppendRequest ==
    [type : {"AppendRequest"}, src : Node, dst : Node, term : Nat,
     prevLogIndex : Nat, prevLogTerm : Nat, entries : Seq(Entry),
     leaderCommit : Nat]

AppendResponse ==
    [type : {"AppendResponse"}, src : Node, dst : Node, term : Nat,
     success : BOOLEAN, lastLogIndex : Nat,
     conflictIndex : Nat \cup {None}, conflictTerm : Nat \cup {None}]

Message == VoteRequest \cup VoteResponse \cup AppendRequest \cup AppendResponse

\* The handling of m puts the messages ms on the network.
Answer(m, ms) == msgs' = (msgs \ {m}) \cup ms

\* New messages ms, as far as the bound allows.
Send(ms) ==
    /\ Cardinality(msgs \cup ms) <= MaxInFlight
    /\ msgs' = msgs \cup ms

-----------------------------------------------------------------------------
(* Private helpers of RaftNode, as functions of one node's log.            *)

LastIndex(l) == IF l = <<>> THEN 0 ELSE l[Len(l)].index
LastTerm(l) == IF l = <<>> THEN 0 ELSE l[Len(l)].term

\* is_log_up_to_date: is a log that ends with (index, term) at least as
\* up-to-date as l?
IsLogUpToDate(l, index, term) ==
    IF term # LastTerm(l) THEN term > LastTerm(l) ELSE index >= LastIndex(l)

\* Mutant: the term at prev_log_index is not compared.
CheckLogLength(l, prevIndex, prevTerm) == prevIndex = 0 \/ prevIndex \in DOMAIN l

CheckLogConsistency(l, prevIndex, prevTerm) ==
    \/ prevIndex = 0
    \/ prevIndex \in DOMAIN l /\ l[prevIndex].term = prevTerm

FirstOfTerm(l, t) ==
    CHOOSE i \in DOMAIN l : l[i].term = t /\ \A j \in 1 .. i - 1 : l[j].term # t

LastOfTerm(l, t) ==
    CHOOSE i \in DOMAIN l :
        l[i].term = t /\ \A j \in i + 1 .. Len(l) : l[j].term # t

\* find_conflict_info, only called with a prevIndex > 0 that does not match.
ConflictIndex(l, prevIndex) ==
    IF prevIndex > Len(l) THEN Len(l) ELSE FirstOfTerm(l, l[prevIndex].term)

ConflictTerm(l, prevIndex) ==
    IF prevIndex > Len(l) THEN None ELSE l[prevIndex].term

\* Mutant: the conflicting suffix is kept.
AppendWithoutTruncating(l, prevIndex, entries) == l \o entries

\* append_new_entries: truncate to prevIndex, whatever follows it, and push.
AppendNewEntries(l, prevIndex, entries) == SubSeq(l, 1, prevIndex) \o entries

\* Mutant: the start index is taken for an offset.
EntriesAfter(l, start) ==
    SubSeq(l, start + 1, IF start + MaxEntriesPerAppend < Len(l)
                         THEN start + MaxEntriesPerAppend ELSE Len(l))

\* get_entries_from, cut to max_entries_per_append.
EntriesFrom(l, start) ==
    SubSeq(l, start, IF start + MaxEntriesPerAppend - 1 < Len(l)
                     THEN start + MaxEntriesPerAppend - 1 ELSE Len(l))

\* try_advance_commit_index sorts the values of match_index, the leader's own
\* log length pushed among them, and takes the one at position length / 2.
\* Only followers that have answered have a key in match_index.
MajorityIndex(n, mi) ==
    LET idx == [mi EXCEPT ![n] = Len(log[n])]
        D == {d \in Node : idx[d] # None}
        half == Cardinality(D) \div 2
    IN  CHOOSE v \in {idx[d] : d \in D} :
            /\ Cardinality({d \in D : idx[d] < v}) <= half
            /\ half < Cardinality({d \in D : idx[d] <= v})

\* The commit index after try_advance_commit_index, with mi as match_index.
AdvancedCommitIndex(n, mi) ==
    LET v == MajorityIndex(n, mi)
    IN  IF /\ v > commitIndex[n]
           /\ v \in DOMAIN log[n]
           /\ log[n][v].term = currentTerm[n]
        THEN v
        ELSE commitIndex[n]

\* Mutant: a reply without a conflict index is not told apart.
BackOffUnchecked(n, f, m) ==
    IF m.conflictTerm # None /\ \E i \in DOMAIN log[n] : log[n][i].term = m.conflictTerm
    THEN LastOfTerm(log[n], m.conflictTerm) + 1
    ELSE m.conflictIndex

\* handle_log_conflict: the new next_index of the follower.
BackedOffIndex(n, f, m) ==
    IF m.conflictIndex = None
    THEN IF nextIndex[n][f] > 1 THEN nextIndex[n][f] - 1 ELSE nextIndex[n][f]
    ELSE IF /\ m.conflictTerm # None
            /\ \E i \in DOMAIN log[n] : log[n][i].term = m.conflictTerm
         THEN LastOfTerm(log[n], m.conflictTerm) + 1
         ELSE m.conflictIndex

-----------------------------------------------------------------------------
Init ==
    /\ currentTerm = [n \in Node |-> 0]
    /\ state = [n \in Node |-> "Follower"]
    /\ votedFor = [n \in Node |-> Nobody]
    /\ voteCount = [n \in Node |-> 0]
    /\ log = [n \in Node |-> <<>>]
    /\ commitIndex = [n \in Node |-> 0]
    /\ lastApplied = [n \in Node |-> 0]
    /\ nextIndex = [n \in Node |-> [f \in Node |-> 1]]
    /\ matchIndex = [n \in Node |-> [f \in Node |-> None]]
    /\ msgs = {}
    /\ elected = {}
    /\ granted = {}
    /\ applied = [n \in Node |-> {}]

\* Mutant: a leader that learns of a newer term keeps leading.
BecomeFollowerUnlessLeader(n, term) ==
    /\ term >= currentTerm[n]
    /\ currentTerm' = [currentTerm EXCEPT ![n] = term]
    /\ state' = [state EXCEPT ![n] = IF @ = "Leader" THEN @ ELSE "Follower"]
    /\ votedFor' = [votedFor EXCEPT ![n] = Nobody]
    /\ voteCount' = [voteCount EXCEPT ![n] = 0]

\* become_follower(term).  The vote is forgotten even when the term stays the same.
\* An older term is an error that changes nothing; no caller passes one.
BecomeFollower(n, term) ==
    /\ term >= currentTerm[n]
    /\ currentTerm' = [currentTerm EXCEPT ![n] = term]
    /\ state' = [state EXCEPT ![n] = "Follower"]
    /\ votedFor' = [votedFor EXCEPT ![n] = Nobody]
    /\ voteCount' = [voteCount EXCEPT ![n] = 0]

\* Mutant: the term is not raised.
StartElectionAgain(n) ==
    /\ state[n] # "Leader"
    /\ currentTerm[n] < MaxTerm
    /\ state' = [state EXCEPT ![n] = "Candidate"]
    /\ votedFor' = [votedFor EXCEPT ![n] = n]
    /\ voteCount' = [voteCount EXCEPT ![n] = 1]
    /\ granted' = granted \cup {<<currentTerm[n], n, n>>}
    /\ Send({[type |-> "VoteRequest", src |-> n, dst |-> p,
              term |-> currentTerm[n],
              lastLogIndex |-> LastIndex(log[n]),
              lastLogTerm |-> LastTerm(log[n])] : p \in Node \ {n}})
    /\ UNCHANGED <<currentTerm, logVars, leaderVars, elected, applied>>

\* start_election, from an election tick that finds the timeout expired, and
\* the broadcast of the vote request it returns.
StartElection(n) ==
    /\ state[n] # "Leader"
    /\ currentTerm[n] < MaxTerm
    /\ currentTerm' = [currentTerm EXCEPT ![n] = @ + 1]
    /\ state' = [state EXCEPT ![n] = "Candidate"]
    /\ votedFor' = [votedFor EXCEPT ![n] = n]
    /\ voteCount' = [voteCount EXCEPT ![n] = 1]
    /\ granted' = granted \cup {<<currentTerm[n] + 1, n, n>>}
    /\ Send({[type |-> "VoteRequest", src |-> n, dst |-> p,
              term |-> currentTerm[n] + 1,
              lastLogIndex |-> LastIndex(log[n]),
              lastLogTerm |-> LastTerm(log[n])] : p \in Node \ {n}})
    /\ UNCHANGED <<logVars, leaderVars, elected, applied>>

VoteAnswer(n, m, term, grant) ==
    [type |-> "VoteResponse", src |-> n, dst |-> m.src, term |-> term,
     voteGranted |-> grant]

\* handle_vote_request of an outdated term.
RejectVoteRequest(n, m) ==
    /\ m.term < currentTerm[n]
    /\ Answer(m, {VoteAnswer(n, m, currentTerm[n], FALSE)})
    /\ UNCHANGED <<electionVars, logVars, leaderVars, history>>

\* Mutant: voted_for is not consulted.
ProcessVoteRequestAgain(n, m) ==
    LET newer == m.term > currentTerm[n]
        grant == IsLogUpToDate(log[n], m.lastLogIndex, m.lastLogTerm)
    IN  /\ m.term >= currentTerm[n]
        /\ currentTerm' = [currentTerm EXCEPT ![n] = m.term]
        /\ state' = [state EXCEPT ![n] = IF newer THEN "Follower" ELSE @]
        /\ voteCount' = [voteCount EXCEPT ![n] = IF newer THEN 0 ELSE @]
        /\ votedFor' = [votedFor EXCEPT ![n] = IF grant THEN m.src ELSE @]
        /\ granted' = granted \cup (IF grant THEN {<<m.term, n, m.src>>} ELSE {})
        /\ Answer(m, {VoteAnswer(n, m, m.term, grant)})
        /\ UNCHANGED <<logVars, leaderVars, elected, applied>>

\* handle_vote_request of the current or a newer term; a newer one makes the
\* node a follower first.
ProcessVoteRequest(n, m) ==
    LET newer == m.term > currentTerm[n]
        voted == IF newer THEN Nobody ELSE votedFor[n]
        grant == /\ voted \in {Nobody, m.src}
                 /\ IsLogUpToDate(log[n], m.lastLogIndex, m.lastLogTerm)
    IN  /\ m.term >= currentTerm[n]
        /\ currentTerm' = [currentTerm EXCEPT ![n] = m.term]
        /\ state' = [state EXCEPT ![n] = IF newer THEN "Follower" ELSE @]
        /\ voteCount' = [voteCount EXCEPT ![n] = IF newer THEN 0 ELSE @]
        /\ votedFor' = [votedFor EXCEPT ![n] = IF grant THEN m.src ELSE voted]
        /\ granted' = granted \cup (IF grant THEN {<<m.term, n, m.src>>} ELSE {})
        /\ Answer(m, {VoteAnswer(n, m, m.term, grant)})
        /\ UNCHANGED <<logVars, leaderVars, elected, applied>>

\* become_leader.  get_peer_ids returns no peer, so next_index and match_index
\* keep whatever an earlier leadership of this node left in them.
BecomeLeader(n) ==
    /\ state' = [state EXCEPT ![n] = "Leader"]
    /\ elected' = elected \cup {<<currentTerm[n], n>>}

Majority == (ClusterSize \div 2) + 1

\* handle_vote_response: a newer term ends the candidacy.
VoteResponseNewerTerm(n, m) ==
    /\ state[n] = "Candidate"
    /\ m.term > currentTerm[n]
    /\ BecomeFollower(n, m.term)
    /\ Answer(m, {})
    /\ UNCHANGED <<logVars, leaderVars, history>>

\* Mutant: vote_granted is not looked at.
CountResponse(n, m) ==
    /\ state[n] = "Candidate"
    /\ m.term = currentTerm[n]
    /\ voteCount' = [voteCount EXCEPT ![n] = @ + 1]
    /\ \/ /\ voteCount[n] + 1 >= Majority
          /\ BecomeLeader(n)
       \/ /\ voteCount[n] + 1 < Majority
          /\ UNCHANGED <<state, elected>>
    /\ Answer(m, {})
    /\ UNCHANGED <<currentTerm, votedFor, logVars, leaderVars, granted, applied>>

\* handle_vote_response: a vote for the current term is counted (the response
\* does not say whose it is) and a majority makes the candidate the leader.
CountVote(n, m) ==
    /\ state[n] = "Candidate"
    /\ m.term = currentTerm[n]
    /\ m.voteGranted
    /\ voteCount' = [voteCount EXCEPT ![n] = @ + 1]
    /\ \/ /\ voteCount[n] + 1 >= Majority
          /\ BecomeLeader(n)
       \/ /\ voteCount[n] + 1 < Majority
          /\ UNCHANGED <<state, elected>>
    /\ Answer(m, {})
    /\ UNCHANGED <<currentTerm, votedFor, logVars, leaderVars, granted, applied>>

\* handle_vote_response: nothing to do.
IgnoreVoteResponse(n, m) ==
    /\ \/ state[n] # "Candidate"
       \/ m.term < currentTerm[n]
       \/ m.term = currentTerm[n] /\ ~m.voteGranted
    /\ Answer(m, {})
    /\ UNCHANGED <<electionVars, logVars, leaderVars, history>>

\* The leadership lease of n expired: handle_fast_election_tick calls
\* become_follower with the current term.
LeaseExpired(n) ==
    /\ state[n] = "Leader"
    /\ BecomeFollower(n, currentTerm[n])
    /\ UNCHANGED <<logVars, leaderVars, msgs, history>>

-----------------------------------------------------------------------------
\* append_entry: a client command at the leader.
AppendEntry(n, c) ==
    /\ state[n] = "Leader"
    /\ Len(log[n]) < MaxLog
    /\ log' = [log EXCEPT ![n] = Append(@, [term |-> currentTerm[n],
                                           command |-> c,
                                           index |-> Len(@) + 1])]
    /\ UNCHANGED <<electionVars, commitIndex, lastApplied, leaderVars, msgs,
                   history>>

\* The term of every heartbeat, whatever the leader's own.
HeartbeatTerm == 1

\* The driver of a leader sends f a heartbeat: on every heartbeat tick, after a win
\* and after a client's entry.  It carries no entries and fixed indices.  The round
\* after a win does not look again whether n still leads; the network may keep a
\* heartbeat for as long, so one that leaves late is one that arrives late.
Heartbeat(n, f) ==
    /\ DrivenByCluster
    /\ state[n] = "Leader"
    /\ f # n
    /\ Send({[type |-> "AppendRequest", src |-> n, dst |-> f, term |-> HeartbeatTerm,
              prevLogIndex |-> 0, prevLogTerm |-> 0, entries |-> <<>>,
              leaderCommit |-> 0]})
    /\ UNCHANGED <<electionVars, logVars, leaderVars, history>>

\* create_append_entries for follower f.  A next_index beyond the log's end + 1
\* is an error, and no request leaves.
CreateAppendEntries(n, f) ==
    LET prev == IF nextIndex[n][f] = 0 THEN 0 ELSE nextIndex[n][f] - 1
    IN  /\ ~DrivenByCluster
        /\ state[n] = "Leader"
        /\ f # n
        /\ prev = 0 \/ prev \in DOMAIN log[n]
        /\ Send({[type |-> "AppendRequest", src |-> n, dst |-> f,
                  term |-> currentTerm[n],
                  prevLogIndex |-> prev,
                  prevLogTerm |-> IF prev = 0 THEN 0 ELSE log[n][prev].term,
                  entries |-> EntriesFrom(log[n], prev + 1),
                  leaderCommit |-> commitIndex[n]]})
        /\ UNCHANGED <<electionVars, logVars, leaderVars, history>>

AppendAnswer(n, m, term, success, lastIndex, cIndex, cTerm) ==
    [type |-> "AppendResponse", src |-> n, dst |-> m.src, term |-> term,
     success |-> success, lastLogIndex |-> lastIndex,
     conflictIndex |-> cIndex, conflictTerm |-> cTerm]

\* The handling of m is answered by the append response r.  The driver's router
\* would drop r on arrival, so it is not put on the network.
Respond(m, r) == Answer(m, IF DrivenByCluster THEN {} ELSE {r})

\* handle_append_entries of an outdated term.
RejectAppendEntries(n, m) ==
    /\ m.term < currentTerm[n]
    /\ Respond(m, AppendAnswer(n, m, currentTerm[n], FALSE, LastIndex(log[n]),
                               None, None))
    /\ UNCHANGED <<electionVars, logVars, leaderVars, history>>

\* handle_append_entries: the sender is the leader, but its log and this one
\* differ at prev_log_index.
ConflictAppendEntries(n, m) ==
    /\ m.term >= currentTerm[n]
    /\ BecomeFollower(n, m.term)
    /\ ~CheckLogConsistency(log[n], m.prevLogIndex, m.prevLogTerm)
    /\ Respond(m, AppendAnswer(n, m, m.term, FALSE, LastIndex(log[n]),
                               ConflictIndex(log[n], m.prevLogIndex),
                               ConflictTerm(log[n], m.prevLogIndex)))
    /\ UNCHANGED <<logVars, leaderVars, history>>

\* The follower's commit index after a request, its log being l by then.
FollowerCommitIndex(n, m, l) ==
    IF m.leaderCommit > commitIndex[n]
    THEN IF m.leaderCommit < Len(l) THEN m.leaderCommit ELSE Len(l)
    ELSE commitIndex[n]

\* handle_append_entries: the logs agree at prev_log_index.
AcceptAppendEntries(n, m) ==
    LET l == IF m.entries = <<>> THEN log[n]
             ELSE AppendNewEntries(log[n], m.prevLogIndex, m.entries)
    IN  /\ m.term >= currentTerm[n]
        /\ BecomeFollower(n, m.term)
        /\ CheckLogConsistency(log[n], m.prevLogIndex, m.prevLogTerm)
        /\ log' = [log EXCEPT ![n] = l]
        /\ commitIndex' = [commitIndex EXCEPT ![n] = FollowerCommitIndex(n, m, l)]
        /\ Respond(m, AppendAnswer(n, m, m.term, TRUE, LastIndex(l), None, None))
        /\ UNCHANGED <<lastApplied, leaderVars, history>>

\* handle_append_entries_response: no longer the leader.
IgnoreAppendResponse(n, m) ==
    /\ state[n] # "Leader"
    /\ Answer(m, {})
    /\ UNCHANGED <<electionVars, logVars, leaderVars, history>>

\* handle_append_entries_response: a newer term deposes the leader.
AppendResponseNewerTerm(n, m) ==
    /\ state[n] = "Leader"
    /\ m.term > currentTerm[n]
    /\ BecomeFollower(n, m.term)
    /\ Answer(m, {})
    /\ UNCHANGED <<logVars, leaderVars, history>>

\* handle_append_entries_response: success.  The follower's last index is taken
\* for the index up to which its log agrees with the leader's.
AppendSucceeded(n, m) ==
    /\ state[n] = "Leader"
    /\ m.term <= currentTerm[n]
    /\ m.success
    /\ nextIndex' = [nextIndex EXCEPT ![n][m.src] = m.lastLogIndex + 1]
    /\ matchIndex' = [matchIndex EXCEPT ![n][m.src] = m.lastLogIndex]
    /\ commitIndex' = [commitIndex EXCEPT ![n] =
                          AdvancedCommitIndex(n, matchIndex'[n])]
    /\ Answer(m, {})
    /\ UNCHANGED <<electionVars, log, lastApplied, history>>

\* handle_append_entries_response: failure.
AppendFailed(n, m) ==
    /\ state[n] = "Leader"
    /\ m.term <= currentTerm[n]
    /\ ~m.success
    /\ nextIndex' = [nextIndex EXCEPT ![n][m.src] = BackedOffIndex(n, m.src, m)]
    /\ Answer(m, {})
    /\ UNCHANGED <<electionVars, logVars, matchIndex, history>>

\* apply_committed_entries: last_applied moves to `to` before apply_fn sees that
\* entry.  The call stops at the first entry apply_fn refuses, at a committed
\* index the log no longer has, or at the commit index.
ApplyCommitted(n, to) ==
    /\ to \in lastApplied[n] + 1 .. commitIndex[n]
    /\ to <= Len(log[n]) + 1 \/ to = lastApplied[n] + 1
    /\ lastApplied' = [lastApplied EXCEPT ![n] = to]
    /\ \/ /\ to = commitIndex[n]
          /\ to \in DOMAIN log[n]
          /\ applied' = [applied EXCEPT ![n] = @ \cup (lastApplied[n] + 1 .. to)]
       \/ applied' = [applied EXCEPT ![n] = @ \cup (lastApplied[n] + 1 .. to - 1)]
    /\ UNCHANGED <<electionVars, log, commitIndex, leaderVars, msgs, elected, granted>>

\* A message is lost.
Lose(m) ==
    /\ Answer(m, {})
    /\ UNCHANGED <<electionVars, logVars, leaderVars, history>>

-----------------------------------------------------------------------------
HandleVoteRequest(n, m) ==
    /\ m.type = "VoteRequest" /\ m.dst = n
    /\ RejectVoteRequest(n, m) \/ ProcessVoteRequest(n, m)

\* RaftCluster's branch for pre-votes never runs: no response is marked as one.  What
\* it broadcasts after a win is a round of Heartbeat.
HandleVoteResponse(n, m) ==
    /\ m.type = "VoteResponse" /\ m.dst = n
    /\ \/ VoteResponseNewerTerm(n, m)
       \/ CountVote(n, m)
       \/ IgnoreVoteResponse(n, m)

HandleAppendEntries(n, m) ==
    /\ m.type = "AppendRequest" /\ m.dst = n
    /\ \/ RejectAppendEntries(n, m)
       \/ ConflictAppendEntries(n, m)
       \/ AcceptAppendEntries(n, m)

HandleAppendEntriesResponse(n, m) ==
    /\ m.type = "AppendResponse" /\ m.dst = n
    /\ \/ IgnoreAppendResponse(n, m)
       \/ AppendResponseNewerTerm(n, m)
       \/ AppendSucceeded(n, m)
       \/ AppendFailed(n, m)

Next ==
    \/ \E n \in Node :
        \/ StartElection(n)
        \/ LeaseExpired(n)
        \/ \E c \in Command : AppendEntry(n, c)
        \/ \E f \in Node : Heartbeat(n, f) \/ CreateAppendEntries(n, f)
        \/ \E to \in 1 .. commitIndex[n] : ApplyCommitted(n, to)
    \/ \E m \in msgs : \/ HandleVoteRequest(m.dst, m)
                       \/ HandleVoteResponse(m.dst, m)
                       \/ HandleAppendEntries(m.dst, m)
                       \/ HandleAppendEntriesResponse(m.dst, m)
                       \/ Lose(m)

Spec == Init /\ [][Next]_vars

-----------------------------------------------------------------------------
(* Properties.                                                             *)

\* Every field of every node and every message has its type.
TypeOK ==
    /\ currentTerm \in [Node -> Nat]
    /\ state \in [Node -> {"Follower", "Candidate", "Leader"}]
    /\ votedFor \in [Node -> Node \cup {Nobody}]
    /\ voteCount \in [Node -> Nat]
    /\ log \in [Node -> Seq(Entry)]
    /\ commitIndex \in [Node -> Nat]
    /\ lastApplied \in [Node -> Nat]
    /\ nextIndex \in [Node -> [Node -> Nat]]
    /\ matchIndex \in [Node -> [Node -> Nat \cup {None}]]
    /\ msgs \subseteq Message
    /\ elected \subseteq Nat \X Node
    /\ granted \subseteq Nat \X Node \X Node
    /\ applied \in [Node -> SUBSET Nat]

\* The entry at position i of a log carries index i.  last_log_info and every
\* reply report the index field of the last entry, while truncation, lookup
\* and commit use positions: the node is only sound if the two never part,
\* whatever requests are lost, reordered or sent by deposed leaders.
LogIndexIsPosition ==
    \A n \in Node : \A i \in DOMAIN log[n] : log[n][i].index = i

\* Terms never decrease along a log, and none is ahead of the node's term.
\* is_log_up_to_date compares last entries only, which is meaningless without it.
LogTermsOrdered ==
    \A n \in Node : \A i \in DOMAIN log[n] :
        /\ log[n][i].term <= currentTerm[n]
        /\ \A j \in 1 .. i : log[n][j].term <= log[n][i].term

\* The entries of a request continue the log at prev_log_index: their indices
\* follow on, and their terms lie between the terms of the previous entry and of
\* the sender and do not decrease.  A request stays like that however long it is
\* under way, which is what lets a follower append it without looking.
RequestsCarrySlices ==
    \A m \in msgs : m.type = "AppendRequest" =>
        \A k \in DOMAIN m.entries :
            /\ m.entries[k].index = m.prevLogIndex + k
            /\ m.prevLogTerm <= m.entries[k].term
            /\ m.entries[k].term <= m.term
            /\ \A j \in 1 .. k : m.entries[j].term <= m.entries[k].term

\* No term has been won twice.
OneLeaderPerTerm ==
    \A e1, e2 \in elected : e1[1] = e2[1] => e1 = e2

\* Log matching: two entries with the same index and term have the same command,
\* and so has everything before them.  It can only be broken once a term has
\* been won twice: truncation, conflict back-off, stale requests and stale
\* next_index values of an earlier leadership never break it by themselves.
LogMatchingUntilSplit ==
    OneLeaderPerTerm =>
        \A n1, n2 \in Node : \A i \in DOMAIN log[n1] \cap DOMAIN log[n2] :
            log[n1][i].term = log[n2][i].term =>
                \A j \in 1 .. i : log[n1][j] = log[n2][j]

\* A term is open to second votes once an append request may carry it: somebody has
\* won it, or it is the term of all heartbeats and somebody has won any term.
Announced(t) == \E e \in elected : e[1] = t \/ (DrivenByCluster /\ t = HeartbeatTerm)

\* A node votes for two candidates in a term only after that term was announced:
\* handle_vote_request gives one vote, and become_follower makes a node forget it
\* within the term only for a leader's request or for a leader itself.
OneVoteUntilAnnounced ==
    \A g1, g2 \in granted :
        g1[1] = g2[1] /\ g1[2] = g2[2] /\ g1[3] # g2[3] => Announced(g1[1])

\* Two leaders of one term need a voter that voted for both: vote_count never
\* exceeds the votes really cast, though responses do not name the voter.
SplitNeedsDoubleVote ==
    \A e1, e2 \in elected :
        e1[1] = e2[1] /\ e1 # e2 =>
            \E v \in Node : /\ <<e1[1], v, e1[2]>> \in granted
                            /\ <<e1[1], v, e2[2]>> \in granted

\* A leader never removes or rewrites an entry of its own log.
LeaderAppendOnly ==
    [][\A n \in Node :
          state[n] = "Leader" /\ state'[n] = "Leader" =>
              /\ Len(log[n]) <= Len(log'[n])
              /\ log[n] = SubSeq(log'[n], 1, Len(log[n]))]_vars

\* Terms never go back.  Within a term a vote is never swapped for another, and it is
\* forgotten only by a leader that steps down and on an append request of that term:
\* no vote request, no response and no message of an older term touches it.
TermAndVoteStep ==
    [][\A n \in Node :
          /\ currentTerm[n] <= currentTerm'[n]
          /\ (/\ currentTerm[n] = currentTerm'[n]
              /\ votedFor[n] # Nobody
              /\ votedFor'[n] # votedFor[n]) =>
                 /\ votedFor'[n] = Nobody
                 /\ \/ state[n] = "Leader"
                    \/ \E m \in msgs \ msgs' :
                          /\ m.type = "AppendRequest" /\ m.dst = n
                          /\ m.term = currentTerm[n]]_vars

-----------------------------------------------------------------------------
(* What comments and tests of the source say and the code does not do.     *)

\* "At most one leader per term" (kaelix-tests/src/properties/consensus.rs:370):
\* no two nodes lead the same term at the same time.
ElectionSafety ==
    \A n1, n2 \in Node :
        state[n1] = "Leader" /\ state[n2] = "Leader"
            /\ currentTerm[n1] = currentTerm[n2] => n1 = n2

\* "Find the highest index replicated on majority" (line 886): the step that
\* advances a leader's commit index finds its entry on a majority of logs.  The
\* step is handle_append_entries_response, which RaftCluster never reaches.
CommitOnMajority ==
    [][\A n \in Node :
          state[n] = "Leader" /\ commitIndex'[n] > commitIndex[n] =>
              2 * Cardinality({p \in Node :
                      /\ commitIndex'[n] \in DOMAIN log[p]
                      /\ log[p][commitIndex'[n]] = log[n][commitIndex'[n]]})
                > ClusterSize]_vars

\* "Index of highest log entry known to be committed" (line 183): there is an
\* entry with that index.
CommittedEntryExists ==
    \A n \in Node : commitIndex[n] <= Len(log[n])

\* "Index of highest log entry applied to state machine" (line 185).
LastAppliedWasApplied ==
    \A n \in Node : lastApplied[n] > 0 => lastApplied[n] \in applied[n]
=============================================================================
