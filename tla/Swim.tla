-------------------------------- MODULE Swim --------------------------------
(***************************************************************************)
(* SWIM membership (kaelix-cluster/src/membership/mod.rs), one             *)
(* SwimMembership per member of Node and the messages between them.        *)
(*                                                                         *)
(* Every operation takes &mut self, the protocol round included: while a   *)
(* round sleeps for the answers to an indirect ping the same membership    *)
(* handles no message, so a round is one action and the number of answers  *)
(* it finds is the 0 it started with.                                      *)
(*                                                                         *)
(* Left out: addresses, metadata, the phi failure detectors (only ever     *)
(* reported) and clocks: a suspicion or a pending request may be found     *)
(* expired by any round.  A send may fail, and a message may never arrive. *)
(* As written, indirect_ping ends in a bool where its signature promises a *)
(* Result<bool>; the model takes that value for the Ok it stands for.      *)
(***************************************************************************)
EXTENDS Naturals, FiniteSets

CONSTANTS
    Node,           \* the cluster members
    IndirectPings,  \* SwimConfig::indirect_ping_count
    GossipFanout,   \* SwimConfig::gossip_fanout
    Offered,        \* what callers pass to add_member
    MaxIncarnation, \* bound: no failure is declared at this incarnation
    MaxRequest,     \* bound: indirect pings started by one node
    MaxInFlight     \* bound: messages under way

ASSUME FanoutAssumption == IndirectPings \in Nat /\ GossipFanout \in Nat
ASSUME BoundAssumption == MaxIncarnation \in Nat /\ MaxRequest \in Nat /\ MaxInFlight \in Nat

VARIABLES
    members,    \* [Node -> [Node -> Info \cup {Absent}]]
    suspects,   \* [Node -> SUBSET Node]
    pending,    \* [Node -> <<id, target>> of its unfinished indirect pings]
    requests,   \* [Node -> Nat], request_id_counter
    msgs        \* messages under way

vars == <<members, suspects, pending, requests, msgs>>

-----------------------------------------------------------------------------
Status == {"Alive", "Suspect", "Failed", "Left"}

\* NodeInfo, what a node knows of another.
Info == [status : Status, incarnation : Nat]
Absent == [status |-> "Absent", incarnation |-> 0]
NewInfo == [status |-> "Alive", incarnation |-> 0]

ASSUME OfferedAssumption == Offered \subseteq Info

\* local_node.incarnation, which every ping and ack carries: nothing assigns it after
\* NodeInfo::new, and add_member changes the table only.
LocalIncarnation == 0

Known(n) == {m \in Node : members[n][m] # Absent}
Alive(n) == {m \in Known(n) : members[n][m].status = "Alive"}

\* Mutant: the counter is read and never moved.
SameRequestId(n, P) == requests[n]

\* request_id_counter once an indirect ping has been sent to the proxies P.
NextRequestId(n, P) == IF P = {} THEN requests[n] ELSE requests[n] + 1

\* At most k of S, as many as there are.
Take(S, k) ==
    {T \in SUBSET S : Cardinality(T) = IF Cardinality(S) < k THEN Cardinality(S) ELSE k}

Table == [Node -> Info \cup {Absent}]

\* get_gossip_updates: some of what table knows.
GossipUpdates(table) ==
    {[m \in Node |-> IF m \in T THEN table[m] ELSE Absent] :
        T \in Take({m \in Node : table[m] # Absent}, GossipFanout)}

Message ==
    [type : {"Ping", "Ack"}, src : Node, dst : Node, updates : Table]
      \cup [type : {"Gossip"}, dst : Node, updates : Table]
      \cup [type : {"IndirectPing"}, src : Node, dst : Node, target : Node, id : Nat]
      \cup [type : {"IndirectAck"}, dst : Node, target : Node, id : Nat, success : BOOLEAN]

\* Of the messages ms some are sent; m, if there is one, has been handled.
Sent(m, ms) ==
    \E S \in SUBSET ms :
        /\ Cardinality((msgs \ m) \cup S) <= MaxInFlight
        /\ msgs' = (msgs \ m) \cup S

-----------------------------------------------------------------------------
(* Operations on one node's table and suspect set.                         *)

\* update_node_info and NodeInfo::update_status: a report is taken over unless
\* it is older than what is known; an unknown node stays unknown.
UpdateNodeInfo(table, m, status, inc) ==
    IF table[m] # Absent /\ inc >= table[m].incarnation
    THEN [table EXCEPT ![m] = [status |-> status, incarnation |-> inc]]
    ELSE table

\* Mutant: a member reported alive stays among the suspects.
ClearedNever(table, m, status, inc) == {}

\* Who leaves the suspects when update_node_info reports m.
Cleared(table, m, status, inc) ==
    IF table[m] # Absent /\ inc >= table[m].incarnation /\ status = "Alive"
    THEN {m} ELSE {}

\* Mutant: reports about the node itself are merged as well.
MergedWithSelf(n, table, updates) ==
    [m \in Node |->
        IF updates[m] # Absent
        THEN UpdateNodeInfo(table, m, updates[m].status, updates[m].incarnation)[m]
        ELSE table[m]]

\* process_membership_updates at n: an update of every node but n itself.
Merged(n, table, updates) ==
    [m \in Node |->
        IF m # n /\ updates[m] # Absent
        THEN UpdateNodeInfo(table, m, updates[m].status, updates[m].incarnation)[m]
        ELSE table[m]]

MergeCleared(n, table, updates) ==
    UNION {Cleared(table, m, updates[m].status, updates[m].incarnation) : m \in Node \ {n}}

\* Mutant: the incarnation is not raised with the suspicion.
MarkSuspectInPlace(table, m) ==
    IF table[m] # Absent /\ table[m].status = "Alive"
    THEN [table EXCEPT ![m].status = "Suspect"]
    ELSE table

\* mark_suspect, and whom it adds to the suspects.
MarkSuspect(table, m) ==
    IF table[m] # Absent /\ table[m].status = "Alive"
    THEN [table EXCEPT ![m] = [status |-> "Suspect", incarnation |-> @.incarnation + 1]]
    ELSE table

MarkFailed(table, m) ==
    [table EXCEPT ![m] = [status |-> "Failed", incarnation |-> @.incarnation + 1]]

-----------------------------------------------------------------------------
\* SwimMembership::new on every node.
Init ==
    /\ members = [n \in Node |-> [m \in Node |-> IF m = n THEN NewInfo ELSE Absent]]
    /\ suspects = [n \in Node |-> {}]
    /\ pending = [n \in Node |-> {}]
    /\ requests = [n \in Node |-> 0]
    /\ msgs = {}

\* add_member: whatever was known of m is replaced, but a suspect stays one.
AddMember(n, m, info) ==
    /\ members' = [members EXCEPT ![n][m] = info]
    /\ UNCHANGED <<suspects, pending, requests, msgs>>

\* Mutant: the entry is kept and only marked.
RemoveMemberInPlace(n, m) ==
    /\ members[n][m] # Absent
    /\ members' = [members EXCEPT ![n][m].status = "Absent"]
    /\ suspects' = [suspects EXCEPT ![n] = @ \ {m}]
    /\ UNCHANGED <<pending, requests, msgs>>

\* remove_member.
RemoveMember(n, m) ==
    /\ members[n][m] # Absent
    /\ members' = [members EXCEPT ![n][m] = Absent]
    /\ suspects' = [suspects EXCEPT ![n] = @ \ {m}]
    /\ UNCHANGED <<pending, requests, msgs>>

\* The rest of a round, once the ping left the messages out, the table and the
\* suspects S and the requests R: expired suspicions become failures, the table is
\* gossiped to alive members, and requests may be dropped as expired.  A suspicion
\* of this very round has not expired yet.
FinishRound(n, table, S, R, out) ==
    \E E \in SUBSET {m \in suspects[n] : table[m] = members[n][m]} :
        LET failed == [m \in Node |-> IF m \in E THEN MarkFailed(table, m)[m] ELSE table[m]]
        IN  /\ \A m \in E : table[m].incarnation < MaxIncarnation
            /\ members' = [members EXCEPT ![n] = failed]
            /\ suspects' = [suspects EXCEPT ![n] = S \ E]
            /\ \E P \in SUBSET R : pending' = [pending EXCEPT ![n] = P]
            /\ \E G \in Take({m \in Node \ {n} : failed[m].status = "Alive"}, GossipFanout),
                  u \in GossipUpdates(failed) :
                   Sent({}, out \cup {[type |-> "Gossip", dst |-> m, updates |-> u] : m \in G})

\* execute_protocol_round with nobody to ping.
RoundWithoutTarget(n) ==
    /\ Alive(n) \ {n} = {}
    /\ FinishRound(n, members[n], suspects[n], pending[n], {})
    /\ UNCHANGED requests

\* execute_protocol_round: the ping of m is sent.
RoundWithPing(n, m) ==
    /\ m \in Alive(n) \ {n}
    /\ \E u \in GossipUpdates(members[n]) :
          FinishRound(n, members[n], suspects[n], pending[n],
                      {[type |-> "Ping", src |-> n, dst |-> m, updates |-> u]})
    /\ UNCHANGED requests

\* execute_protocol_round: sending the ping of m fails or times out, which it may do
\* after the ping has left (handle_ping_timeout).  Proxies, if there are any, are
\* asked to ping m (indirect_ping); m becomes a suspect, because no answer is
\* handled before the round looks for one.
RoundWithPingTimeout(n, m) ==
    /\ m \in Alive(n) \ {n}
    /\ requests[n] < MaxRequest
    /\ \E P \in Take(Alive(n) \ {n, m}, IndirectPings), u \in GossipUpdates(members[n]) :
          LET id == requests[n]
              asked == {[type |-> "IndirectPing", src |-> n, dst |-> p,
                         target |-> m, id |-> id] : p \in P}
          IN  /\ requests' = [requests EXCEPT ![n] = NextRequestId(n, P)]
              /\ FinishRound(n, MarkSuspect(members[n], m), suspects[n] \cup {m},
                     IF P = {} THEN pending[n] ELSE pending[n] \cup {<<id, m>>},
                     asked \cup {[type |-> "Ping", src |-> n, dst |-> m, updates |-> u]})

\* The source of a ping or an ack is alive, and its updates are merged.
HeardFrom(n, m) ==
    LET table == UpdateNodeInfo(members[n], m.src, "Alive", LocalIncarnation)
    IN  /\ members' = [members EXCEPT ![n] = Merged(n, table, m.updates)]
        /\ suspects' = [suspects EXCEPT ![n] =
              @ \ (Cleared(members[n], m.src, "Alive", LocalIncarnation)
                      \cup MergeCleared(n, table, m.updates))]

HandlePing(n, m) ==
    /\ m.type = "Ping"
    /\ HeardFrom(n, m)
    /\ \E u \in GossipUpdates(members'[n]) :
          Sent({m}, {[type |-> "Ack", src |-> n, dst |-> m.src, updates |-> u]})
    /\ UNCHANGED <<pending, requests>>

HandleAck(n, m) ==
    /\ m.type = "Ack"
    /\ HeardFrom(n, m)
    /\ Sent({m}, {})
    /\ UNCHANGED <<pending, requests>>

\* handle_indirect_ping: "success" is that the ping left, not that it was answered;
\* a ping whose sending timed out may still arrive.
HandleIndirectPing(n, m) ==
    /\ m.type = "IndirectPing"
    /\ \E success \in {FALSE, members[n][m.target] # Absent}, u \in GossipUpdates(members[n]) :
          LET ping == [type |-> "Ping", src |-> n, dst |-> m.target, updates |-> u]
          IN  Sent({m}, {[type |-> "IndirectAck", dst |-> m.src, target |-> m.target,
                          id |-> m.id, success |-> success]}
                        \cup (IF members[n][m.target] # Absent THEN {ping} ELSE {}))
    /\ UNCHANGED <<members, suspects, pending, requests>>

\* handle_indirect_ack: the target is reported alive with incarnation 0, and is no
\* suspect any more whether or not that report was taken over.
HandleIndirectAck(n, m) ==
    LET ok == m.success /\ \E t \in Node : <<m.id, t>> \in pending[n]
    IN  /\ m.type = "IndirectAck"
        /\ members' = [members EXCEPT ![n] =
              IF ok THEN UpdateNodeInfo(@, m.target, "Alive", 0) ELSE @]
        /\ suspects' = [suspects EXCEPT ![n] = IF ok THEN @ \ {m.target} ELSE @]
        /\ Sent({m}, {})
        /\ UNCHANGED <<pending, requests>>

HandleGossip(n, m) ==
    /\ m.type = "Gossip"
    /\ members' = [members EXCEPT ![n] = Merged(n, @, m.updates)]
    /\ suspects' = [suspects EXCEPT ![n] = @ \ MergeCleared(n, members[n], m.updates)]
    /\ Sent({m}, {})
    /\ UNCHANGED <<pending, requests>>

\* handle_swim_message.
HandleMessage(n, m) ==
    \/ HandlePing(n, m)
    \/ HandleAck(n, m)
    \/ HandleIndirectPing(n, m)
    \/ HandleIndirectAck(n, m)
    \/ HandleGossip(n, m)

\* execute_protocol_round, once the protocol period is over.
ProtocolRound(n) ==
    \/ RoundWithoutTarget(n)
    \/ \E m \in Node : RoundWithPing(n, m) \/ RoundWithPingTimeout(n, m)

Next ==
    \/ \E n \in Node : ProtocolRound(n)
    \/ \E n, m \in Node : \/ \E info \in Offered : AddMember(n, m, info)
                         \/ RemoveMember(n, m)
    \/ \E m \in msgs : HandleMessage(m.dst, m)

Spec == Init /\ [][Next]_vars

-----------------------------------------------------------------------------
(* Properties.                                                             *)

\* Every table, request set and message has its type.
TypeOK ==
    /\ members \in [Node -> Table]
    /\ suspects \in [Node -> SUBSET Node]
    /\ pending \in [Node -> SUBSET (Nat \X Node)]
    /\ requests \in [Node -> Nat]
    /\ msgs \subseteq Message

\* Everything anybody knows or has said about m.
Reports(m) ==
    ({members[n][m] : n \in Node}
       \cup {x.updates[m] : x \in {y \in msgs : y.type \in {"Ping", "Ack", "Gossip"}}})
      \ {Absent}

\* Two reports about a node with the same incarnation say the same, as long as nobody
\* is added or removed.  This is what makes "higher or equal wins" (update_node_info)
\* independent of the order in which pings, acks and gossip of different nodes arrive.
IncarnationDecides ==
    \A m \in Node : \A r1, r2 \in Reports(m) :
        r1.incarnation = r2.incarnation => r1 = r2

\* Nothing a node hears makes it doubt itself: its own entry is what it started with.
SelfIsAlive == \A n \in Node : members[n][n] = NewInfo

\* The suspect set and the table move together: a suspect is somebody the node knows,
\* and nothing but add_member makes a member alive and leaves it among the suspects.
\* A report that it is alive, when update_node_info takes it over, and remove_member
\* end the suspicion together with the status.
SuspicionsEndTogether ==
    [][\A n, m \in Node : m \in suspects'[n] =>
          /\ members'[n][m] # Absent
          /\ members'[n][m].status = "Alive" =>
                /\ m \in suspects[n]
                /\ \/ members[n][m].status = "Alive"
                   \/ \E info \in Offered : AddMember(n, m, info)]_vars

\* A late answer to an indirect ping is taken for the request it belongs to: the
\* handler looks the id up and believes the target that the answer names.
AckMatchesRequest ==
    \A m \in msgs : m.type = "IndirectAck" =>
        \A t \in Node : <<m.id, t>> \in pending[m.dst] => t = m.target

-----------------------------------------------------------------------------
(* What comments of the source say and the code does not do.               *)

\* "Suspect members awaiting confirmation" (line 314): every member that is suspected
\* waits in suspects, the only place where a suspicion is ever confirmed.
SuspectsAwaitConfirmation ==
    \A n, m \in Node : members[n][m].status = "Suspect" => m \in suspects[n]

\* "Mark target as alive if indirect ping succeeded" (line 841): a member whose
\* indirect ping is reported successful, for a request still pending, is alive then.
IndirectAckMarksAlive ==
    [][\A m \in msgs :
          /\ m.type = "IndirectAck" /\ HandleIndirectAck(m.dst, m) /\ m.success
          /\ \E t \in Node : <<m.id, t>> \in pending[m.dst]
          /\ members[m.dst][m.target] # Absent
          => members'[m.dst][m.target].status = "Alive"]_vars
=============================================================================
