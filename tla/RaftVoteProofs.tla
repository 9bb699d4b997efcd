--------------------------- MODULE RaftVoteProofs ---------------------------
(***************************************************************************)
(* What the vote bookkeeping of RaftNode guarantees, for any set of nodes. *)
(* A node forgets its vote whenever become_follower runs, so "one vote per *)
(* term" does not hold; it holds in every term that was not announced: a   *)
(* term nobody has won and, as heartbeats always carry term 1, for term 1  *)
(* as long as nobody has won any term.  The inductive invariant remembers  *)
(* why: a recorded vote is still in voted_for or its term is announced,    *)
(* who leads has won its term, and append requests carry announced terms.  *)
(***************************************************************************)
EXTENDS RaftNodeProofs

\* Somebody has won term t.
Won(t) == \E e \in elected : e[1] = t

\* A vote of a node's present term is still in voted_for, or the term is announced.
VotesKept ==
    \A g \in granted :
        /\ g[1] <= currentTerm[g[2]]
        /\ g[1] = currentTerm[g[2]] => votedFor[g[2]] = g[3] \/ Announced(g[1])

\* Who leads has won its term.
LeadersWon == \A n \in Node : state[n] = "Leader" => Won(currentTerm[n])

\* Append requests carry an announced term.
RequestsAnnounced == \A m \in msgs : m.type = "AppendRequest" => Announced(m.term)

\* The inductive invariant.
VoteBook ==
    /\ TypeOK
    /\ VotesKept
    /\ LeadersWon
    /\ RequestsAnnounced
    /\ OneVoteUntilAnnounced

-----------------------------------------------------------------------------
\* A term that was won or announced stays so.
LEMMA AnnouncedStays ==
    ASSUME [Next]_vars, NEW t
    PROVE  (Won(t) => Won(t)') /\ (Announced(t) => Announced(t)')
  <1>1. elected \subseteq elected'
    <2> USE DEF history
    <2>1. ASSUME NEW n \in Node,
                 \/ StartElection(n)
                 \/ LeaseExpired(n)
                 \/ \E c \in Command : AppendEntry(n, c)
                 \/ \E f \in Node : Heartbeat(n, f) \/ CreateAppendEntries(n, f)
                 \/ \E to \in 1 .. commitIndex[n] : ApplyCommitted(n, to)
          PROVE  elected \subseteq elected'
      BY <2>1 DEF StartElection, LeaseExpired, AppendEntry, Heartbeat, CreateAppendEntries,
                  ApplyCommitted
    <2>2. ASSUME NEW m \in msgs, HandleVoteRequest(m.dst, m)
          PROVE  elected \subseteq elected'
      BY <2>2 DEF HandleVoteRequest, RejectVoteRequest, ProcessVoteRequest
    <2>3. ASSUME NEW m \in msgs, HandleVoteResponse(m.dst, m)
          PROVE  elected \subseteq elected'
      BY <2>3 DEF HandleVoteResponse, VoteResponseNewerTerm, CountVote, IgnoreVoteResponse,
                  BecomeLeader
    <2>4. ASSUME NEW m \in msgs, HandleAppendEntries(m.dst, m)
          PROVE  elected \subseteq elected'
      BY <2>4 DEF HandleAppendEntries, RejectAppendEntries, ConflictAppendEntries,
                  AcceptAppendEntries
    <2>5. ASSUME NEW m \in msgs, HandleAppendEntriesResponse(m.dst, m) \/ Lose(m)
          PROVE  elected \subseteq elected'
      BY <2>5 DEF HandleAppendEntriesResponse, IgnoreAppendResponse,
                  AppendResponseNewerTerm, AppendSucceeded, AppendFailed, Lose
    <2>6. CASE UNCHANGED vars
      BY <2>6 DEF vars
    <2> QED  BY <2>1, <2>2, <2>3, <2>4, <2>5, <2>6 DEF Next
  <1> QED  BY <1>1 DEF Won, Announced

\* A node becomes a follower in a newer term, or in its own once that is announced.
FollowsLeader(n, t) ==
    /\ BecomeFollower(n, t)
    /\ UNCHANGED granted
    /\ t > currentTerm[n] \/ (t = currentTerm[n] /\ Announced(t))

\* The four ways in which a step deals with terms and votes.
LEMMA VoteOrigin ==
    ASSUME VoteBook, [Next]_vars
    PROVE  \/ UNCHANGED <<currentTerm, votedFor, granted>>
           \/ \E n \in Node, t \in Nat : FollowsLeader(n, t)
           \/ \E n \in Node : StartElection(n)
           \/ \E m \in msgs : m.type = "VoteRequest" /\ ProcessVoteRequest(m.dst, m)
  <1> USE DEF electionVars, history
  <1>0. TypeOK /\ LeadersWon /\ RequestsAnnounced
    BY DEF VoteBook
  <1>1. ASSUME NEW n \in Node, LeaseExpired(n) PROVE \E t \in Nat : FollowsLeader(n, t)
    <2>1. /\ currentTerm[n] \in Nat /\ Announced(currentTerm[n])
          /\ BecomeFollower(n, currentTerm[n]) /\ UNCHANGED granted
      BY <1>0, <1>1 DEF TypeOK, LeadersWon, LeaseExpired, Won, Announced
    <2> QED  BY <2>1 DEF FollowsLeader
  <1>2. ASSUME NEW n \in Node,
               \/ \E c \in Command : AppendEntry(n, c)
               \/ \E f \in Node : Heartbeat(n, f) \/ CreateAppendEntries(n, f)
               \/ \E to \in 1 .. commitIndex[n] : ApplyCommitted(n, to)
        PROVE  UNCHANGED <<currentTerm, votedFor, granted>>
    BY <1>2 DEF AppendEntry, Heartbeat, CreateAppendEntries, ApplyCommitted
  <1>3. ASSUME NEW m \in msgs PROVE m.dst \in Node /\ m.term \in Nat /\ currentTerm[m.dst] \in Nat
    BY <1>0, MessageKinds DEF TypeOK
  <1>4. ASSUME NEW m \in msgs, HandleVoteRequest(m.dst, m), ~ProcessVoteRequest(m.dst, m)
        PROVE  UNCHANGED <<currentTerm, votedFor, granted>>
    BY <1>4 DEF HandleVoteRequest, RejectVoteRequest
  <1>5. ASSUME NEW m \in msgs, HandleVoteResponse(m.dst, m)
        PROVE  \/ UNCHANGED <<currentTerm, votedFor, granted>>
               \/ FollowsLeader(m.dst, m.term)
    <2>1. CASE VoteResponseNewerTerm(m.dst, m)
      BY <2>1 DEF VoteResponseNewerTerm, FollowsLeader
    <2>2. CASE CountVote(m.dst, m) \/ IgnoreVoteResponse(m.dst, m)
      BY <2>2 DEF CountVote, IgnoreVoteResponse
    <2> QED  BY <1>5, <2>1, <2>2 DEF HandleVoteResponse
  <1>6. ASSUME NEW m \in msgs, HandleAppendEntries(m.dst, m)
        PROVE  \/ UNCHANGED <<currentTerm, votedFor, granted>>
               \/ FollowsLeader(m.dst, m.term)
    <2>1. CASE RejectAppendEntries(m.dst, m)
      BY <2>1 DEF RejectAppendEntries
    <2>2. CASE ConflictAppendEntries(m.dst, m) \/ AcceptAppendEntries(m.dst, m)
      <3>1. /\ BecomeFollower(m.dst, m.term) /\ UNCHANGED granted
            /\ m.term >= currentTerm[m.dst]
        BY <2>2 DEF ConflictAppendEntries, AcceptAppendEntries
      <3>2. Announced(m.term)
        BY <1>0, <1>6 DEF RequestsAnnounced, HandleAppendEntries
      <3> QED  BY <1>3, <3>1, <3>2 DEF FollowsLeader
    <2> QED  BY <1>6, <2>1, <2>2 DEF HandleAppendEntries
  <1>7. ASSUME NEW m \in msgs, HandleAppendEntriesResponse(m.dst, m) \/ Lose(m)
        PROVE  \/ UNCHANGED <<currentTerm, votedFor, granted>>
               \/ FollowsLeader(m.dst, m.term)
    <2>1. CASE AppendResponseNewerTerm(m.dst, m)
      BY <2>1 DEF AppendResponseNewerTerm, FollowsLeader
    <2>2. CASE \/ IgnoreAppendResponse(m.dst, m) \/ AppendSucceeded(m.dst, m)
               \/ AppendFailed(m.dst, m) \/ Lose(m)
      BY <2>2 DEF IgnoreAppendResponse, AppendSucceeded, AppendFailed, Lose
    <2> QED  BY <1>7, <2>1, <2>2 DEF HandleAppendEntriesResponse
  <1>8. CASE UNCHANGED vars
    BY <1>8 DEF vars
  <1>9. ASSUME NEW m \in msgs, HandleVoteRequest(m.dst, m)
        PROVE  \/ UNCHANGED <<currentTerm, votedFor, granted>>
               \/ m.type = "VoteRequest" /\ ProcessVoteRequest(m.dst, m)
    BY <1>4, <1>9 DEF HandleVoteRequest
  <1> QED  BY <1>1, <1>2, <1>3, <1>5, <1>6, <1>7, <1>8, <1>9 DEF Next

\* What a vote of v for c in term t adds to the record keeps it consistent: v had
\* no other vote in t, or t was won already.
LEMMA VoteRecorded ==
    ASSUME VoteBook, TypeOK', [Next]_vars,
           NEW v \in Node, NEW c \in Node, NEW t \in Nat,
           t >= currentTerm[v],
           t = currentTerm[v] => votedFor[v] \in {Nobody, c},
           granted' = granted \cup {<<t, v, c>>},
           currentTerm' = [currentTerm EXCEPT ![v] = t],
           votedFor' = [votedFor EXCEPT ![v] = c]
    PROVE  VotesKept' /\ OneVoteUntilAnnounced'
  <1>0. /\ currentTerm \in [Node -> Nat] /\ votedFor \in [Node -> Node \cup {Nobody}]
        /\ granted \subseteq Nat \X Node \X Node
    BY DEF VoteBook, TypeOK
  <1>1. ASSUME NEW g \in granted, g[1] = t, g[2] = v, g[3] # c PROVE Announced(t)
    <2>1. t = currentTerm[v] /\ (votedFor[v] = g[3] \/ Announced(t))
      BY <1>0, <1>1 DEF VoteBook, VotesKept
    <2>2. g[3] \in Node
      BY <1>0
    <2> QED  BY <1>1, <2>1, <2>2, NodeAssumption
  <1>2. VotesKept'
    <2> SUFFICES ASSUME NEW g \in granted'
                 PROVE  /\ g[1] <= currentTerm'[g[2]]
                        /\ g[1] = currentTerm'[g[2]] => votedFor'[g[2]] = g[3] \/ Announced(g[1])'
      BY DEF VotesKept, Announced
    <2>1. CASE g = <<t, v, c>>
      BY <1>0, <2>1
    <2>2. CASE g \in granted /\ g[2] # v
      <3>1. g[2] \in Node /\ currentTerm'[g[2]] = currentTerm[g[2]] /\ votedFor'[g[2]] = votedFor[g[2]]
        BY <1>0, <2>2
      <3>2. /\ g[1] <= currentTerm[g[2]]
            /\ g[1] = currentTerm[g[2]] => votedFor[g[2]] = g[3] \/ Announced(g[1])
        BY <2>2 DEF VoteBook, VotesKept
      <3> QED  BY <3>1, <3>2, AnnouncedStays
    <2>3. CASE g \in granted /\ g[2] = v
      <3>1. g[1] \in Nat /\ g[1] <= currentTerm[v] /\ currentTerm'[v] = t /\ votedFor'[v] = c
        BY <1>0, <2>3 DEF VoteBook, VotesKept
      <3>2. g[1] <= t
        BY <1>0, <3>1
      <3>3. g[1] = t => g[3] = c \/ Announced(t)
        BY <1>1, <2>3
      <3> QED  BY <2>3, <3>1, <3>2, <3>3, AnnouncedStays
    <2> QED  BY <2>1, <2>2, <2>3
  <1>3. OneVoteUntilAnnounced'
    <2> SUFFICES ASSUME NEW g1 \in granted', NEW g2 \in granted',
                        g1[1] = g2[1], g1[2] = g2[2], g1[3] # g2[3]
                 PROVE  Announced(g1[1])'
      BY DEF OneVoteUntilAnnounced, Announced
    <2>1. Announced(g1[1])
      <3>1. CASE g1 \in granted /\ g2 \in granted
        BY <3>1 DEF VoteBook, OneVoteUntilAnnounced, Announced
      <3>2. CASE g1 = <<t, v, c>> /\ g2 \in granted
        BY <1>1, <3>2
      <3>3. CASE g2 = <<t, v, c>> /\ g1 \in granted
        BY <1>1, <3>3
      <3> QED  BY <3>1, <3>2, <3>3
    <2> QED  BY <2>1, AnnouncedStays
  <1> QED  BY <1>2, <1>3

\* Every step keeps the record of votes consistent.
LEMMA VotesStep ==
    ASSUME VoteBook, TypeOK', [Next]_vars
    PROVE  VotesKept' /\ OneVoteUntilAnnounced'
  <1>0. /\ currentTerm \in [Node -> Nat] /\ votedFor \in [Node -> Node \cup {Nobody}]
        /\ granted \subseteq Nat \X Node \X Node
        /\ VotesKept /\ OneVoteUntilAnnounced
    BY DEF VoteBook, TypeOK
  <1>1. ASSUME UNCHANGED granted PROVE OneVoteUntilAnnounced'
    <2> SUFFICES ASSUME NEW g1 \in granted, NEW g2 \in granted,
                        g1[1] = g2[1], g1[2] = g2[2], g1[3] # g2[3]
                 PROVE  Announced(g1[1])'
      BY <1>1 DEF OneVoteUntilAnnounced, Announced
    <2>1. Announced(g1[1])
      BY <1>0 DEF OneVoteUntilAnnounced, Announced
    <2> QED  BY <2>1, AnnouncedStays
  <1>2. CASE UNCHANGED <<currentTerm, votedFor, granted>>
    <2>1. ASSUME NEW g \in granted
          PROVE  /\ g[1] <= currentTerm[g[2]]
                 /\ g[1] = currentTerm[g[2]] => votedFor[g[2]] = g[3] \/ Announced(g[1])'
      BY <1>0, AnnouncedStays DEF VotesKept
    <2>2. VotesKept'
      BY <1>2, <2>1 DEF VotesKept, Announced
    <2> QED  BY <1>1, <1>2, <2>2
  <1>3. ASSUME NEW n \in Node, NEW t \in Nat, FollowsLeader(n, t)
        PROVE  VotesKept' /\ OneVoteUntilAnnounced'
    <2>1. /\ currentTerm' = [currentTerm EXCEPT ![n] = t]
          /\ votedFor' = [votedFor EXCEPT ![n] = Nobody]
          /\ granted' = granted
          /\ t > currentTerm[n] \/ (t = currentTerm[n] /\ Announced(t))
      BY <1>3 DEF FollowsLeader, BecomeFollower
    <2>2. ASSUME NEW g \in granted
          PROVE  /\ g[1] <= currentTerm'[g[2]]
                 /\ g[1] = currentTerm'[g[2]] => votedFor'[g[2]] = g[3] \/ Announced(g[1])'
      <3>1. /\ g[1] <= currentTerm[g[2]]
            /\ g[1] = currentTerm[g[2]] => votedFor[g[2]] = g[3] \/ Announced(g[1])
        BY <1>0 DEF VotesKept
      <3>2. g[1] \in Nat /\ g[2] \in Node
        BY <1>0
      <3>3. CASE g[2] # n
        BY <1>0, <2>1, <3>1, <3>2, <3>3, AnnouncedStays
      <3>4. CASE g[2] = n
        <4>1. currentTerm'[g[2]] = t /\ currentTerm[n] \in Nat
          BY <1>0, <2>1, <3>4
        <4>2. g[1] <= t /\ (g[1] = t => Announced(t))
          BY <2>1, <3>1, <3>2, <3>4, <4>1
        <4> QED  BY <4>1, <4>2, AnnouncedStays
      <3> QED  BY <3>3, <3>4
    <2>3. VotesKept'
      BY <2>1, <2>2 DEF VotesKept, Announced
    <2> QED  BY <1>1, <2>1, <2>3
  <1>4. ASSUME NEW n \in Node, StartElection(n) PROVE VotesKept' /\ OneVoteUntilAnnounced'
    <2>1. currentTerm[n] \in Nat
      BY <1>0
    <2>2. /\ currentTerm' = [currentTerm EXCEPT ![n] = currentTerm[n] + 1]
          /\ votedFor' = [votedFor EXCEPT ![n] = n]
          /\ granted' = granted \cup {<<currentTerm[n] + 1, n, n>>}
      BY <1>4 DEF StartElection
    <2>3. /\ currentTerm[n] + 1 \in Nat
          /\ currentTerm[n] + 1 >= currentTerm[n]
          /\ currentTerm[n] + 1 # currentTerm[n]
      BY <2>1
    <2> QED  BY <2>2, <2>3, VoteRecorded
  <1>5. ASSUME NEW m \in msgs, m.type = "VoteRequest", ProcessVoteRequest(m.dst, m)
        PROVE  VotesKept' /\ OneVoteUntilAnnounced'
    <2> DEFINE n == m.dst
               voted == IF m.term > currentTerm[n] THEN Nobody ELSE votedFor[n]
               grant == /\ voted \in {Nobody, m.src}
                        /\ IsLogUpToDate(log[n], m.lastLogIndex, m.lastLogTerm)
    <2>0. n \in Node /\ m.src \in Node /\ m.term \in Nat /\ currentTerm[n] \in Nat
      BY MessageKinds DEF VoteBook, TypeOK
    <2>1. /\ m.term >= currentTerm[n]
          /\ currentTerm' = [currentTerm EXCEPT ![n] = m.term]
          /\ votedFor' = [votedFor EXCEPT ![n] = IF grant THEN m.src ELSE voted]
          /\ granted' = granted \cup (IF grant THEN {<<m.term, n, m.src>>} ELSE {})
      BY <1>5 DEF ProcessVoteRequest
    <2>2. CASE grant
      <3>1. m.term = currentTerm[n] => votedFor[n] \in {Nobody, m.src}
        BY <2>0, <2>2
      <3> HIDE DEF n, voted, grant
      <3> QED  BY <2>0, <2>1, <2>2, <3>1, VoteRecorded
    <2>3. CASE ~grant /\ m.term > currentTerm[n]
      <3>1. voted = Nobody
        BY <2>3
      <3> HIDE DEF n, voted, grant
      <3>2. ASSUME NEW g \in granted
            PROVE  /\ g[1] <= currentTerm'[g[2]]
                   /\ g[1] = currentTerm'[g[2]] => votedFor'[g[2]] = g[3] \/ Announced(g[1])'
        <4>1. /\ g[1] <= currentTerm[g[2]]
              /\ g[1] = currentTerm[g[2]] => votedFor[g[2]] = g[3] \/ Announced(g[1])
          BY <1>0 DEF VotesKept
        <4>2. g[1] \in Nat /\ g[2] \in Node
          BY <1>0
        <4>3. CASE g[2] # n
          BY <1>0, <2>0, <2>1, <4>1, <4>2, <4>3, AnnouncedStays
        <4>4. CASE g[2] = n
          BY <1>0, <2>0, <2>1, <2>3, <4>1, <4>2, <4>4
        <4> QED  BY <4>3, <4>4
      <3>3. granted' = granted
        BY <2>1, <2>3
      <3>4. VotesKept'
        BY <3>2, <3>3 DEF VotesKept, Announced
      <3> QED  BY <1>1, <3>3, <3>4
    <2>4. CASE ~grant /\ m.term = currentTerm[n]
      <3>1. voted = votedFor[n]
        BY <2>0, <2>4
      <3> HIDE DEF n, voted, grant
      <3>2. UNCHANGED <<currentTerm, votedFor, granted>>
        BY <1>0, <2>0, <2>1, <2>4, <3>1
      <3> QED  BY <1>2, <3>2
    <2> QED  BY SMTT(30), <2>0, <2>1, <2>2, <2>3, <2>4
  <1> QED  BY <1>2, <1>3, <1>4, <1>5, VoteOrigin

\* A node that leads after a step led before it in the same term, or has just won.
LEMMA LeadersStep ==
    ASSUME VoteBook, [Next]_vars
    PROVE  LeadersWon'
  <1> USE DEF electionVars
  <1> SUFFICES ASSUME NEW q \in Node, state'[q] = "Leader" PROVE Won(currentTerm[q])'
    BY DEF LeadersWon, Won
  <1>0. /\ currentTerm \in [Node -> Nat] /\ LeadersWon
        /\ state \in [Node -> {"Follower", "Candidate", "Leader"}]
    BY DEF VoteBook, TypeOK
  <1>1. ASSUME state[q] = "Leader", currentTerm'[q] = currentTerm[q]
        PROVE  Won(currentTerm[q])'
    <2>1. Won(currentTerm[q])
      BY <1>0, <1>1 DEF LeadersWon
    <2> QED  BY <1>1, <2>1, AnnouncedStays DEF Won
  <1>2. ASSUME UNCHANGED <<currentTerm, state>> PROVE Won(currentTerm[q])'
    BY <1>1, <1>2
  <1>3. ASSUME NEW n \in Node, NEW t \in Nat, BecomeFollower(n, t)
        PROVE  Won(currentTerm[q])'
    BY <1>0, <1>1, <1>3 DEF BecomeFollower
  <1>4. ASSUME NEW n \in Node, StartElection(n) PROVE Won(currentTerm[q])'
    BY <1>0, <1>1, <1>4 DEF StartElection
  <1>5. ASSUME NEW n \in Node, LeaseExpired(n) PROVE Won(currentTerm[q])'
    BY <1>0, <1>3, <1>5 DEF LeaseExpired
  <1>6. ASSUME NEW n \in Node,
               \/ \E c \in Command : AppendEntry(n, c)
               \/ \E f \in Node : Heartbeat(n, f) \/ CreateAppendEntries(n, f)
               \/ \E to \in 1 .. commitIndex[n] : ApplyCommitted(n, to)
        PROVE  Won(currentTerm[q])'
    BY <1>2, <1>6 DEF AppendEntry, Heartbeat, CreateAppendEntries, ApplyCommitted
  <1>7. ASSUME NEW m \in msgs PROVE m.dst \in Node /\ m.term \in Nat
    BY MessageKinds DEF VoteBook, TypeOK
  <1>8. ASSUME NEW m \in msgs, ProcessVoteRequest(m.dst, m)
        PROVE  Won(currentTerm[q])'
    <2> DEFINE n == m.dst
    <2>1. /\ m.term >= currentTerm[n]
          /\ currentTerm' = [currentTerm EXCEPT ![n] = m.term]
          /\ state' = [state EXCEPT ![n] = IF m.term > currentTerm[n] THEN "Follower" ELSE @]
      BY <1>8 DEF ProcessVoteRequest
    <2>2. n \in Node /\ m.term \in Nat /\ currentTerm[n] \in Nat
      BY <1>0, <1>7
    <2> HIDE DEF n
    <2> QED  BY <1>0, <1>1, <2>1, <2>2
  <1>9. ASSUME NEW m \in msgs, CountVote(m.dst, m)
        PROVE  Won(currentTerm[q])'
    <2> DEFINE n == m.dst
    <2>1. CASE BecomeLeader(n) /\ q = n
      <3>1. currentTerm' = currentTerm /\ elected' = elected \cup {<<currentTerm[q], q>>}
        BY <1>9, <2>1 DEF CountVote, BecomeLeader
      <3>2. <<currentTerm[q], q>>[1] = currentTerm[q] /\ <<currentTerm[q], q>> \in elected'
        BY <3>1
      <3> QED  BY ONLY <3>1, <3>2 DEF Won
    <2>2. CASE BecomeLeader(n) /\ q # n
      <3>1. state[q] = "Leader"
        BY <1>0, <2>2 DEF BecomeLeader
      <3>2. currentTerm'[q] = currentTerm[q]
        BY <1>9 DEF CountVote
      <3> QED  BY <1>1, <3>1, <3>2
    <2>3. CASE UNCHANGED state
      <3>1. currentTerm' = currentTerm
        BY <1>9 DEF CountVote
      <3> QED  BY <1>2, <2>3, <3>1
    <2> QED  BY <1>9, <2>1, <2>2, <2>3 DEF CountVote
  <1>10. ASSUME NEW m \in msgs, HandleVoteRequest(m.dst, m) PROVE Won(currentTerm[q])'
    BY <1>2, <1>8, <1>10 DEF HandleVoteRequest, RejectVoteRequest
  <1>11. ASSUME NEW m \in msgs, HandleVoteResponse(m.dst, m) PROVE Won(currentTerm[q])'
    BY <1>2, <1>3, <1>7, <1>9, <1>11
       DEF HandleVoteResponse, VoteResponseNewerTerm, IgnoreVoteResponse
  <1>12. ASSUME NEW m \in msgs, HandleAppendEntries(m.dst, m) PROVE Won(currentTerm[q])'
    BY <1>2, <1>3, <1>7, <1>12
       DEF HandleAppendEntries, RejectAppendEntries, ConflictAppendEntries, AcceptAppendEntries
  <1>13. ASSUME NEW m \in msgs, HandleAppendEntriesResponse(m.dst, m) \/ Lose(m)
         PROVE  Won(currentTerm[q])'
    BY <1>2, <1>3, <1>7, <1>13
       DEF HandleAppendEntriesResponse, IgnoreAppendResponse, AppendResponseNewerTerm,
           AppendSucceeded, AppendFailed, Lose
  <1>14. CASE UNCHANGED vars
    BY <1>2, <1>14 DEF vars
  <1> QED  BY <1>4, <1>5, <1>6, <1>10, <1>11, <1>12, <1>13, <1>14 DEF Next

\* A new request carries the term of a leader or, as a leader's heartbeat, term 1.
LEMMA RequestsStep ==
    ASSUME VoteBook, [Next]_vars
    PROVE  RequestsAnnounced'
  <1> SUFFICES ASSUME NEW r \in msgs', r.type = "AppendRequest" PROVE Announced(r.term)'
    BY DEF RequestsAnnounced, Announced
  <1>1. Announced(r.term)
    <2>1. CASE r \in msgs
      BY <2>1 DEF VoteBook, RequestsAnnounced
    <2>2. CASE r \notin msgs
      <3>1. PICK n \in Node, f \in Node : Heartbeat(n, f) \/ CreateAppendEntries(n, f)
        BY <2>2, RequestOrigin DEF VoteBook
      <3>2. Won(currentTerm[n])
        BY <3>1 DEF VoteBook, LeadersWon, Heartbeat, CreateAppendEntries
      <3>3. CASE Heartbeat(n, f)
        <4>1. DrivenByCluster /\ r.term = HeartbeatTerm
          BY <2>2, <3>3 DEF Heartbeat, Send
        <4> QED  BY <3>2, <4>1 DEF Won, Announced
      <3>4. CASE CreateAppendEntries(n, f)
        <4>1. \E d, i, t, e, c :
                msgs' = msgs \cup {[type |-> "AppendRequest", src |-> n, dst |-> d,
                                    term |-> currentTerm[n], prevLogIndex |-> i,
                                    prevLogTerm |-> t, entries |-> e, leaderCommit |-> c]}
          BY <3>4 DEF CreateAppendEntries, Send
        <4>2. r.term = currentTerm[n]
          BY <2>2, <4>1
        <4> QED  BY <3>2, <4>2 DEF Won, Announced
      <3> QED  BY <3>1, <3>3, <3>4
    <2> QED  BY <2>1, <2>2
  <1> QED  BY <1>1, AnnouncedStays

\* The inductive invariant holds in every behaviour.
LEMMA VoteBookCorrect == Spec => []VoteBook
  <1>1. Init => VoteBook
    <2> SUFFICES ASSUME Init PROVE VoteBook
      OBVIOUS
    <2>1. TypeOK
      BY EmptySeq DEF Init, TypeOK
    <2> QED  BY <2>1 DEF Init, VoteBook, VotesKept, LeadersWon, RequestsAnnounced,
                         OneVoteUntilAnnounced
  <1>2. VoteBook /\ [Next]_vars => VoteBook'
    <2> SUFFICES ASSUME VoteBook, [Next]_vars PROVE VoteBook'
      OBVIOUS
    <2>1. TypeOK'
      BY TypeStep DEF VoteBook
    <2> QED  BY <2>1, VotesStep, LeadersStep, RequestsStep DEF VoteBook
  <1> QED  BY <1>1, <1>2, PTL DEF Spec

\* No node has voted for two candidates in a term that was not announced:
\* handle_vote_request gives one vote per term, and become_follower makes a node
\* forget it within the term only for a leader, or for an append request, of that
\* term; requests carry a term somebody has won, or term 1 as heartbeats of a leader.
THEOREM OneVoteCorrect == Spec => []OneVoteUntilAnnounced
  <1>1. VoteBook => OneVoteUntilAnnounced
    BY DEF VoteBook
  <1> QED  BY <1>1, VoteBookCorrect, PTL

=============================================================================
