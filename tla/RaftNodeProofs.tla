--------------------------- MODULE RaftNodeProofs ---------------------------
(***************************************************************************)
(* Proofs about RaftNode for any set of nodes, cluster size and bounds.    *)
(* The inductive invariant is the conjunction of the type invariant, the   *)
(* shape of the logs and the shape of the append requests under way: what  *)
(* a follower appends comes from a request, so the shape of the logs is    *)
(* only preserved because every request carries a slice of a log.          *)
(***************************************************************************)
EXTENDS RaftNode, TLAPS, SequenceTheorems, WellFoundedInduction

-----------------------------------------------------------------------------
(* Facts about the operators on logs.                                      *)

\* Every non-empty set of naturals has a least element.
LEMMA LeastNatural ==
    ASSUME NEW T \in SUBSET Nat, T # {}
    PROVE  \E x \in T : \A y \in T : x <= y
  <1> DEFINE R == OpToRel(<, Nat)
  <1>1. IsWellFoundedOn(R, Nat)
    BY NatLessThanWellFounded
  <1>2. \A x, y \in Nat : <<y, x>> \in R <=> y < x
    BY DEF OpToRel
  <1> HIDE DEF R
  <1>3. PICK x \in T : \A y \in T : ~ (<<y, x>> \in R)
    BY <1>1, WFMin, Zenon
  <1>4. \A y \in T : x <= y
    <2> TAKE y \in T
    <2>1. ~ (y < x)
      BY <1>2, <1>3
    <2> QED  BY <2>1
  <1> QED  BY <1>4

\* The fields of a log's entries are naturals.
LEMMA LogFields ==
    ASSUME NEW l \in Seq(Entry)
    PROVE  /\ DOMAIN l = 1 .. Len(l) /\ Len(l) \in Nat
           /\ \A i \in DOMAIN l : l[i].term \in Nat /\ l[i].index \in Nat
  <1>1. DOMAIN l = 1 .. Len(l) /\ Len(l) \in Nat
    BY LenProperties
  <1>2. \A i \in 1 .. Len(l) : l[i] \in Entry
    BY ElementOfSeq
  <1> QED  BY <1>1, <1>2 DEF Entry

\* last_log_info returns naturals.
LEMMA LastInfoType ==
    ASSUME NEW l \in Seq(Entry)
    PROVE  LastIndex(l) \in Nat /\ LastTerm(l) \in Nat
  <1>1. CASE l = <<>>
    BY <1>1 DEF LastIndex, LastTerm
  <1>2. CASE l # <<>>
    <2>1. Len(l) \in 1 .. Len(l)
      BY <1>2, EmptySeq, LenProperties
    <2>2. l[Len(l)] \in Entry
      BY <2>1, ElementOfSeq
    <2> QED  BY <1>2, <2>2 DEF LastIndex, LastTerm, Entry
  <1> QED  BY <1>1, <1>2

\* find_conflict_info finds the first entry of a term that occurs.
LEMMA FirstOfTermType ==
    ASSUME NEW l \in Seq(Entry), NEW t, \E i \in DOMAIN l : l[i].term = t
    PROVE  FirstOfTerm(l, t) \in DOMAIN l
  <1> DEFINE T == {i \in DOMAIN l : l[i].term = t}
  <1>1. DOMAIN l = 1 .. Len(l) /\ Len(l) \in Nat
    BY LenProperties
  <1>2. PICK x \in T : \A y \in T : x <= y
    <2>1. T \in SUBSET Nat /\ T # {}
      BY <1>1
    <2> QED  BY <2>1, LeastNatural
  <1>3. x \in DOMAIN l /\ l[x].term = t /\ \A j \in 1 .. x - 1 : l[j].term # t
    BY <1>1, <1>2
  <1> QED  BY <1>3 DEF FirstOfTerm

\* handle_log_conflict finds the last entry of a term that occurs.
LEMMA LastOfTermType ==
    ASSUME NEW l \in Seq(Entry), NEW t, \E i \in DOMAIN l : l[i].term = t
    PROVE  LastOfTerm(l, t) \in DOMAIN l
  <1> DEFINE T == {i \in DOMAIN l : l[i].term = t}
             D == {Len(l) - i : i \in T}
  <1>1. DOMAIN l = 1 .. Len(l) /\ Len(l) \in Nat
    BY LenProperties
  <1>2. PICK d \in D : \A y \in D : d <= y
    <2>1. D \in SUBSET Nat /\ D # {}
      BY <1>1
    <2> QED  BY <2>1, LeastNatural
  <1>3. PICK x \in T : d = Len(l) - x
    OBVIOUS
  <1>4. \A y \in T : y <= x
    <2> TAKE y \in T
    <2>1. d <= Len(l) - y
      BY <1>2
    <2> QED  BY <2>1, <1>1, <1>3
  <1>5. x \in DOMAIN l /\ l[x].term = t
            /\ \A j \in x + 1 .. Len(l) : l[j].term # t
    BY <1>1, <1>4
  <1> QED  BY <1>5 DEF LastOfTerm

\* What get_entries_from and the cut return are the entries of the log from
\* start on.
LEMMA EntriesFromSlice ==
    ASSUME NEW l \in Seq(Entry), NEW start \in Nat \ {0}
    PROVE  /\ EntriesFrom(l, start) \in Seq(Entry)
           /\ \A k \in DOMAIN EntriesFrom(l, start) :
                 /\ k \in Nat \ {0}
                 /\ start + k - 1 \in DOMAIN l
                 /\ EntriesFrom(l, start)[k] = l[start + k - 1]
  <1> DEFINE last == IF start + MaxEntriesPerAppend - 1 < Len(l)
                     THEN start + MaxEntriesPerAppend - 1 ELSE Len(l)
  <1>1. Len(l) \in Nat /\ DOMAIN l = 1 .. Len(l) /\ \A i \in 1 .. Len(l) : l[i] \in Entry
    BY LenProperties, ElementOfSeq
  <1>2. last \in Nat /\ last <= Len(l)
    BY <1>1, MaxEntriesAssumption
  <1>3. \A i \in start .. last : l[i] \in Entry
    BY <1>1, <1>2
  <1> HIDE DEF last
  <1>4. /\ SubSeq(l, start, last) \in Seq(Entry)
        /\ Len(SubSeq(l, start, last)) = IF start <= last THEN last - start + 1 ELSE 0
        /\ \A k \in 1 .. last - start + 1 : SubSeq(l, start, last)[k] = l[start + k - 1]
    BY <1>2, <1>3, SubSeqProperties
  <1>5. DOMAIN SubSeq(l, start, last) = 1 .. Len(SubSeq(l, start, last))
    BY <1>4, LenProperties
  <1>6. EntriesFrom(l, start) = SubSeq(l, start, last)
    BY DEF EntriesFrom, last
  <1> QED  BY <1>1, <1>2, <1>4, <1>5, <1>6

\* append_new_entries keeps the entries up to prevIndex and puts the new ones
\* right after them.
LEMMA AppendNewEntriesShape ==
    ASSUME NEW l \in Seq(Entry), NEW e \in Seq(Entry), NEW p \in 0 .. Len(l)
    PROVE  /\ AppendNewEntries(l, p, e) \in Seq(Entry)
           /\ DOMAIN AppendNewEntries(l, p, e) = 1 .. p + Len(e)
           /\ \A i \in 1 .. p : i \in DOMAIN l /\ AppendNewEntries(l, p, e)[i] = l[i]
           /\ \A i \in p + 1 .. p + Len(e) :
                 /\ i - p \in DOMAIN e
                 /\ AppendNewEntries(l, p, e)[i] = e[i - p]
  <1> DEFINE s == SubSeq(l, 1, p)
  <1>1. Len(l) \in Nat /\ DOMAIN l = 1 .. Len(l) /\ \A i \in 1 .. Len(l) : l[i] \in Entry
    BY LenProperties, ElementOfSeq
  <1>2. Len(e) \in Nat /\ DOMAIN e = 1 .. Len(e)
    BY LenProperties
  <1>3. s \in Seq(Entry) /\ Len(s) = p /\ \A i \in 1 .. p : s[i] = l[i]
    <2>1. \A i \in 1 .. p : l[i] \in Entry
      BY <1>1
    <2> QED  BY <1>1, <2>1, SubSeqProperties
  <1> HIDE DEF s
  <1>4. /\ s \o e \in Seq(Entry)
        /\ Len(s \o e) = p + Len(e)
        /\ \A i \in 1 .. p + Len(e) :
              (s \o e)[i] = IF i <= p THEN s[i] ELSE e[i - p]
    BY <1>3, ConcatProperties
  <1>5. DOMAIN (s \o e) = 1 .. p + Len(e)
    BY <1>4, LenProperties
  <1>6. AppendNewEntries(l, p, e) = s \o e
    BY DEF AppendNewEntries, s
  <1> QED  BY <1>1, <1>2, <1>3, <1>4, <1>5, <1>6

-----------------------------------------------------------------------------
(* Type correctness.                                                       *)

\* The type field tells the four kinds of message apart.
LEMMA MessageKinds ==
    ASSUME NEW m \in Message
    PROVE  /\ m.dst \in Node /\ m.src \in Node /\ m.term \in Nat
           /\ m.type = "VoteRequest" => m \in VoteRequest
           /\ m.type = "VoteResponse" => m \in VoteResponse
           /\ m.type = "AppendRequest" => m \in AppendRequest
           /\ m.type = "AppendResponse" => m \in AppendResponse
  BY DEF Message, VoteRequest, VoteResponse, AppendRequest, AppendResponse

\* become_follower leaves the four fields it writes well typed.
LEMMA BecomeFollowerType ==
    ASSUME TypeOK, NEW n \in Node, NEW t \in Nat, BecomeFollower(n, t)
    PROVE  /\ currentTerm' \in [Node -> Nat]
           /\ state' \in [Node -> {"Follower", "Candidate", "Leader"}]
           /\ votedFor' \in [Node -> Node \cup {Nobody}]
           /\ voteCount' \in [Node -> Nat]
  BY DEF TypeOK, BecomeFollower

\* Handling a message and answering with messages keeps the network well typed.
LEMMA AnswerType ==
    ASSUME TypeOK, NEW m, NEW ms, ms \subseteq Message, Answer(m, ms)
    PROVE  msgs' \subseteq Message
  BY DEF TypeOK, Answer

\* So does an append response, whether or not it reaches the network.
LEMMA RespondType ==
    ASSUME TypeOK, NEW m, NEW r \in Message, Respond(m, r)
    PROVE  msgs' \subseteq Message
  BY DEF TypeOK, Respond, Answer

\* Type correctness is preserved by the steps a node takes on its own.
LEMMA TypeOwnStep ==
    ASSUME TypeOK, NEW n \in Node,
           \/ StartElection(n)
           \/ LeaseExpired(n)
           \/ \E c \in Command : AppendEntry(n, c)
           \/ \E f \in Node : Heartbeat(n, f) \/ CreateAppendEntries(n, f)
           \/ \E to \in 1 .. commitIndex[n] : ApplyCommitted(n, to)
    PROVE  TypeOK'
  <1> USE DEF electionVars, logVars, leaderVars, history
  <1>0. log[n] \in Seq(Entry) /\ currentTerm[n] \in Nat
    BY DEF TypeOK
  <1>1. CASE StartElection(n)
    <2>1. \A p \in Node :
            [type |-> "VoteRequest", src |-> n, dst |-> p,
             term |-> currentTerm[n] + 1,
             lastLogIndex |-> LastIndex(log[n]),
             lastLogTerm |-> LastTerm(log[n])] \in Message
      BY <1>0, LastInfoType DEF Message, VoteRequest
    <2>2. msgs' \subseteq Message
      BY <1>1, <2>1 DEF TypeOK, StartElection, Send
    <2>3. granted' \subseteq Nat \X Node \X Node
      BY <1>0, <1>1 DEF TypeOK, StartElection
    <2> QED  BY <1>1, <2>2, <2>3 DEF TypeOK, StartElection
  <1>2. CASE LeaseExpired(n)
    <2>1. BecomeFollower(n, currentTerm[n])
      BY <1>2 DEF LeaseExpired
    <2> QED  BY <1>0, <1>2, <2>1, BecomeFollowerType DEF TypeOK, LeaseExpired
  <1>3. ASSUME NEW c \in Command, AppendEntry(n, c) PROVE TypeOK'
    <2> DEFINE e == [term |-> currentTerm[n], command |-> c, index |-> Len(log[n]) + 1]
    <2>1. e \in Entry
      BY <1>0, LenProperties DEF Entry
    <2>2. Append(log[n], e) \in Seq(Entry)
      BY <1>0, <2>1, AppendProperties
    <2>3. log' = [log EXCEPT ![n] = Append(log[n], e)]
      BY <1>3 DEF AppendEntry
    <2> HIDE DEF e
    <2>4. log' \in [Node -> Seq(Entry)]
      BY <2>2, <2>3 DEF TypeOK
    <2> QED  BY <1>3, <2>4 DEF TypeOK, AppendEntry
  <1>4. ASSUME NEW f \in Node, CreateAppendEntries(n, f) PROVE TypeOK'
    <2> DEFINE prev == IF nextIndex[n][f] = 0 THEN 0 ELSE nextIndex[n][f] - 1
               r == [type |-> "AppendRequest", src |-> n, dst |-> f,
                     term |-> currentTerm[n],
                     prevLogIndex |-> prev,
                     prevLogTerm |-> IF prev = 0 THEN 0 ELSE log[n][prev].term,
                     entries |-> EntriesFrom(log[n], prev + 1),
                     leaderCommit |-> commitIndex[n]]
    <2>1. prev \in Nat /\ commitIndex[n] \in Nat /\ (prev = 0 \/ prev \in DOMAIN log[n])
      <3>1. nextIndex[n][f] \in Nat /\ commitIndex[n] \in Nat
        BY DEF TypeOK
      <3>2. prev = 0 \/ prev \in DOMAIN log[n]
        BY <1>4 DEF CreateAppendEntries
      <3> QED  BY <3>1, <3>2
    <2>2. msgs' = msgs \cup {r}
      BY <1>4 DEF CreateAppendEntries, Send
    <2> HIDE DEF prev
    <2>3. (IF prev = 0 THEN 0 ELSE log[n][prev].term) \in Nat
      <3>1. CASE prev = 0
        BY <3>1
      <3>2. CASE prev # 0
        <4>1. log[n][prev] \in Entry
          BY <1>0, <2>1, <3>2, LenProperties, ElementOfSeq
        <4> QED  BY <3>2, <4>1 DEF Entry
      <3> QED  BY <3>1, <3>2
    <2>4. EntriesFrom(log[n], prev + 1) \in Seq(Entry)
      BY <1>0, <2>1, EntriesFromSlice
    <2>5. r \in Message
      BY <1>0, <2>1, <2>3, <2>4 DEF Message, AppendRequest
    <2> HIDE DEF r
    <2>6. msgs' \subseteq Message
      BY <2>2, <2>5 DEF TypeOK
    <2> QED  BY <1>4, <2>6 DEF TypeOK, CreateAppendEntries
  <1>5. ASSUME NEW to \in 1 .. commitIndex[n], ApplyCommitted(n, to) PROVE TypeOK'
    <2>1. to \in Nat /\ lastApplied[n] \in Nat /\ commitIndex[n] \in Nat
      BY DEF TypeOK
    <2>2. applied' \in [Node -> SUBSET Nat]
      <3>1. PICK S \in SUBSET Nat : applied' = [applied EXCEPT ![n] = @ \cup S]
        <4>1. lastApplied[n] + 1 .. to \in SUBSET Nat /\ lastApplied[n] + 1 .. to - 1 \in SUBSET Nat
          BY <2>1
        <4> QED  BY <1>5, <4>1, Zenon DEF ApplyCommitted
      <3>2. applied[n] \cup S \in SUBSET Nat
        BY DEF TypeOK
      <3> QED  BY <3>1, <3>2 DEF TypeOK
    <2> QED  BY <1>5, <2>1, <2>2 DEF TypeOK, ApplyCommitted
  <1>6. ASSUME NEW f \in Node, Heartbeat(n, f) PROVE TypeOK'
    <2> DEFINE r == [type |-> "AppendRequest", src |-> n, dst |-> f, term |-> HeartbeatTerm,
                     prevLogIndex |-> 0, prevLogTerm |-> 0, entries |-> <<>>,
                     leaderCommit |-> 0]
    <2>1. msgs' = msgs \cup {r}
      BY <1>6 DEF Heartbeat, Send
    <2>2. r \in Message
      BY EmptySeq DEF Message, AppendRequest, HeartbeatTerm
    <2> HIDE DEF r
    <2>3. msgs' \subseteq Message
      BY <2>1, <2>2 DEF TypeOK
    <2> QED  BY <1>6, <2>3 DEF TypeOK, Heartbeat
  <1> QED  BY <1>1, <1>2, <1>3, <1>4, <1>5, <1>6

\* Type correctness is preserved by the handling of a vote request or response.
LEMMA TypeVoteStep ==
    ASSUME TypeOK, NEW m \in msgs,
           HandleVoteRequest(m.dst, m) \/ HandleVoteResponse(m.dst, m)
    PROVE  TypeOK'
  <1> USE DEF electionVars, logVars, leaderVars, history
  <1> DEFINE n == m.dst
  <1>0. m \in Message /\ n \in Node /\ m.src \in Node /\ m.term \in Nat
    BY MessageKinds DEF TypeOK
  <1>1. log[n] \in Seq(Entry) /\ currentTerm[n] \in Nat
    BY <1>0 DEF TypeOK
  <1> HIDE DEF n
  <1>2. \A t \in Nat, g \in BOOLEAN : VoteAnswer(n, m, t, g) \in Message
    BY <1>0 DEF VoteAnswer, Message, VoteResponse
  <1>3. CASE RejectVoteRequest(n, m)
    <2>1. msgs' \subseteq Message
      BY <1>1, <1>2, <1>3, AnswerType DEF RejectVoteRequest
    <2> QED  BY <1>3, <2>1 DEF TypeOK, RejectVoteRequest
  <1>4. CASE ProcessVoteRequest(n, m)
    <2>1. PICK g \in BOOLEAN, voted \in Node \cup {Nobody} :
            /\ currentTerm' = [currentTerm EXCEPT ![n] = m.term]
            /\ state' \in {state, [state EXCEPT ![n] = "Follower"]}
            /\ voteCount' \in {voteCount, [voteCount EXCEPT ![n] = 0]}
            /\ votedFor' = [votedFor EXCEPT ![n] = IF g THEN m.src ELSE voted]
            /\ granted' = granted \cup (IF g THEN {<<m.term, n, m.src>>} ELSE {})
            /\ Answer(m, {VoteAnswer(n, m, m.term, g)})
            /\ UNCHANGED <<logVars, leaderVars, elected, applied>>
      <3> DEFINE voted == IF m.term > currentTerm[n] THEN Nobody ELSE votedFor[n]
                 g == /\ voted \in {Nobody, m.src}
                      /\ IsLogUpToDate(log[n], m.lastLogIndex, m.lastLogTerm)
      <3>1. voted \in Node \cup {Nobody} /\ g \in BOOLEAN
        BY <1>0 DEF TypeOK
      <3>2. /\ state' \in {state, [state EXCEPT ![n] = "Follower"]}
            /\ voteCount' \in {voteCount, [voteCount EXCEPT ![n] = 0]}
        BY <1>0, <1>4 DEF TypeOK, ProcessVoteRequest
      <3>3. /\ currentTerm' = [currentTerm EXCEPT ![n] = m.term]
            /\ votedFor' = [votedFor EXCEPT ![n] = IF g THEN m.src ELSE voted]
            /\ granted' = granted \cup (IF g THEN {<<m.term, n, m.src>>} ELSE {})
            /\ Answer(m, {VoteAnswer(n, m, m.term, g)})
            /\ UNCHANGED <<logVars, leaderVars, elected, applied>>
        BY <1>4, Zenon DEF ProcessVoteRequest
      <3> QED  BY <3>1, <3>2, <3>3, Zenon
    <2>2. msgs' \subseteq Message
      BY <1>0, <1>2, <2>1, AnswerType
    <2>3. granted' \subseteq Nat \X Node \X Node
      <3>1. <<m.term, n, m.src>> \in Nat \X Node \X Node
        BY <1>0
      <3>2. granted' \subseteq granted \cup {<<m.term, n, m.src>>}
        BY <2>1, Zenon
      <3> QED  BY <3>1, <3>2, Zenon DEF TypeOK
    <2>4. votedFor' \in [Node -> Node \cup {Nobody}]
      BY <1>0, <2>1 DEF TypeOK
    <2>5. /\ currentTerm' \in [Node -> Nat] /\ voteCount' \in [Node -> Nat]
          /\ state' \in [Node -> {"Follower", "Candidate", "Leader"}]
      <3>1. /\ currentTerm' = [currentTerm EXCEPT ![n] = m.term]
            /\ state' = state \/ state' = [state EXCEPT ![n] = "Follower"]
            /\ voteCount' = voteCount \/ voteCount' = [voteCount EXCEPT ![n] = 0]
        BY <2>1, Zenon
      <3>2. /\ currentTerm \in [Node -> Nat] /\ voteCount \in [Node -> Nat]
            /\ state \in [Node -> {"Follower", "Candidate", "Leader"}]
        BY DEF TypeOK
      <3> QED  BY <1>0, <3>1, <3>2
    <2>6. UNCHANGED <<logVars, leaderVars, elected, applied>>
      BY <2>1, Zenon
    <2> QED  BY <2>2, <2>3, <2>4, <2>5, <2>6 DEF TypeOK
  <1>5. CASE VoteResponseNewerTerm(n, m)
    <2>1. msgs' \subseteq Message
      BY <1>5, AnswerType DEF VoteResponseNewerTerm
    <2>2. BecomeFollower(n, m.term)
      BY <1>5 DEF VoteResponseNewerTerm
    <2> QED  BY <1>0, <1>5, <2>1, <2>2, BecomeFollowerType DEF TypeOK, VoteResponseNewerTerm
  <1>6. CASE CountVote(n, m)
    <2>1. msgs' \subseteq Message
      BY <1>6, AnswerType DEF CountVote
    <2>2. elected' \subseteq Nat \X Node /\ state' \in [Node -> {"Follower", "Candidate", "Leader"}]
      <3>1. CASE BecomeLeader(n)
        <4>1. <<currentTerm[n], n>> \in Nat \X Node
          BY <1>0, <1>1
        <4>2. elected' \subseteq Nat \X Node
          BY <3>1, <4>1, Zenon DEF TypeOK, BecomeLeader
        <4> QED  BY <1>0, <3>1, <4>2 DEF TypeOK, BecomeLeader
      <3>2. CASE UNCHANGED <<state, elected>>
        BY <3>2 DEF TypeOK
      <3> QED  BY <1>6, <3>1, <3>2 DEF CountVote
    <2>3. /\ voteCount' = [voteCount EXCEPT ![n] = @ + 1]
          /\ UNCHANGED <<currentTerm, votedFor, logVars, leaderVars, granted, applied>>
      BY <1>6 DEF CountVote
    <2>4. voteCount' \in [Node -> Nat]
      <3>1. voteCount \in [Node -> Nat] /\ n \in Node
        BY <1>0 DEF TypeOK
      <3>2. voteCount' = [voteCount EXCEPT ![n] = @ + 1]
        BY <2>3
      <3> QED  BY <3>1, <3>2
    <2> QED  BY <2>1, <2>2, <2>3, <2>4 DEF TypeOK
  <1>7. CASE IgnoreVoteResponse(n, m)
    <2>1. msgs' \subseteq Message
      BY <1>7, AnswerType DEF IgnoreVoteResponse
    <2> QED  BY <1>7, <2>1 DEF TypeOK, IgnoreVoteResponse
  <1> QED  BY <1>3, <1>4, <1>5, <1>6, <1>7 DEF HandleVoteRequest, HandleVoteResponse, n

\* The log a follower has after accepting a request, and where it can differ
\* from the one before: nowhere without entries, else from prev_log_index on.
LEMMA AcceptedLog ==
    ASSUME TypeOK, NEW m \in AppendRequest, NEW n \in Node, AcceptAppendEntries(n, m)
    PROVE  /\ log' \in [Node -> Seq(Entry)]
           /\ \A q \in Node \ {n} : log'[q] = log[q]
           /\ \/ log'[n] = log[n]
              \/ /\ m.prevLogIndex \in 0 .. Len(log[n])
                 /\ log'[n] = AppendNewEntries(log[n], m.prevLogIndex, m.entries)
  <1> DEFINE l == IF m.entries = <<>> THEN log[n]
                  ELSE AppendNewEntries(log[n], m.prevLogIndex, m.entries)
  <1>1. log' = [log EXCEPT ![n] = l]
    BY DEF AcceptAppendEntries
  <1>2. log \in [Node -> Seq(Entry)] /\ log[n] \in Seq(Entry)
    BY DEF TypeOK
  <1>3. m.prevLogIndex \in 0 .. Len(log[n])
    <2>1. m.prevLogIndex \in Nat /\ CheckLogConsistency(log[n], m.prevLogIndex, m.prevLogTerm)
      BY DEF AcceptAppendEntries, AppendRequest
    <2>2. DOMAIN log[n] = 1 .. Len(log[n]) /\ Len(log[n]) \in Nat
      BY <1>2, LenProperties
    <2> QED  BY <2>1, <2>2 DEF CheckLogConsistency
  <1>4. l \in Seq(Entry)
    <2>1. m.entries \in Seq(Entry)
      BY DEF AppendRequest
    <2>2. AppendNewEntries(log[n], m.prevLogIndex, m.entries) \in Seq(Entry)
      BY <1>2, <1>3, <2>1, AppendNewEntriesShape
    <2> QED  BY <1>2, <2>2
  <1>5. l = log[n] \/ l = AppendNewEntries(log[n], m.prevLogIndex, m.entries)
    OBVIOUS
  <1> HIDE DEF l
  <1> QED  BY <1>1, <1>2, <1>3, <1>4, <1>5

\* Type correctness is preserved by the handling of an append request.
LEMMA TypeAppendStep ==
    ASSUME TypeOK, NEW m \in msgs, HandleAppendEntries(m.dst, m)
    PROVE  TypeOK'
  <1> USE DEF electionVars, logVars, leaderVars, history
  <1> DEFINE n == m.dst
  <1>0. m \in AppendRequest /\ n \in Node /\ m.src \in Node /\ m.term \in Nat
    BY MessageKinds DEF TypeOK, HandleAppendEntries
  <1>1. log[n] \in Seq(Entry) /\ currentTerm[n] \in Nat /\ commitIndex[n] \in Nat
    BY <1>0 DEF TypeOK
  <1> HIDE DEF n
  <1>2. \A t, i \in Nat, b \in BOOLEAN, ci, ct \in Nat \cup {None} :
            AppendAnswer(n, m, t, b, i, ci, ct) \in Message
    BY <1>0 DEF AppendAnswer, Message, AppendResponse
  <1>3. CASE RejectAppendEntries(n, m)
    <2>1. AppendAnswer(n, m, currentTerm[n], FALSE, LastIndex(log[n]), None, None) \in Message
      BY <1>1, <1>2, LastInfoType
    <2>2. msgs' \subseteq Message
      BY <1>3, <2>1, RespondType DEF RejectAppendEntries
    <2> QED  BY <1>3, <2>2 DEF TypeOK, RejectAppendEntries
  <1>4. CASE ConflictAppendEntries(n, m)
    <2>1. /\ ConflictIndex(log[n], m.prevLogIndex) \in Nat
          /\ ConflictTerm(log[n], m.prevLogIndex) \in Nat \cup {None}
      <3>1. m.prevLogIndex \in Nat \ {0}
        BY <1>0, <1>4 DEF ConflictAppendEntries, CheckLogConsistency, AppendRequest
      <3>2. Len(log[n]) \in Nat /\ DOMAIN log[n] = 1 .. Len(log[n])
        BY <1>1, LenProperties
      <3>3. CASE m.prevLogIndex > Len(log[n])
        BY <3>2, <3>3 DEF ConflictIndex, ConflictTerm
      <3>4. CASE ~(m.prevLogIndex > Len(log[n]))
        <4>1. m.prevLogIndex \in DOMAIN log[n] /\ log[n][m.prevLogIndex] \in Entry
          BY <1>1, <3>1, <3>2, <3>4, ElementOfSeq
        <4>2. FirstOfTerm(log[n], log[n][m.prevLogIndex].term) \in DOMAIN log[n]
          BY <1>1, <4>1, FirstOfTermType
        <4> QED  BY <3>2, <3>4, <4>1, <4>2 DEF ConflictIndex, ConflictTerm, Entry
      <3> QED  BY <3>3, <3>4
    <2>2. AppendAnswer(n, m, m.term, FALSE, LastIndex(log[n]),
                       ConflictIndex(log[n], m.prevLogIndex),
                       ConflictTerm(log[n], m.prevLogIndex)) \in Message
      BY <1>0, <1>1, <1>2, <2>1, LastInfoType
    <2>3. msgs' \subseteq Message
      BY <1>4, <2>2, RespondType DEF ConflictAppendEntries
    <2>4. BecomeFollower(n, m.term) /\ UNCHANGED <<logVars, leaderVars, history>>
      BY <1>4 DEF ConflictAppendEntries
    <2> QED  BY <1>0, <2>3, <2>4, BecomeFollowerType DEF TypeOK
  <1>5. CASE AcceptAppendEntries(n, m)
    <2>1. log' \in [Node -> Seq(Entry)]
      BY <1>0, <1>5, AcceptedLog
    <2> DEFINE l == IF m.entries = <<>> THEN log[n]
                    ELSE AppendNewEntries(log[n], m.prevLogIndex, m.entries)
    <2>2. /\ BecomeFollower(n, m.term)
          /\ log' = [log EXCEPT ![n] = l]
          /\ commitIndex' = [commitIndex EXCEPT ![n] = FollowerCommitIndex(n, m, l)]
          /\ Respond(m, AppendAnswer(n, m, m.term, TRUE, LastIndex(l), None, None))
          /\ UNCHANGED <<lastApplied, leaderVars, history>>
      BY <1>5 DEF AcceptAppendEntries
    <2> HIDE DEF l
    <2>3. l \in Seq(Entry)
      <3>1. log'[n] = l
        BY <1>0, <2>2 DEF TypeOK
      <3> QED  BY <1>0, <2>1, <3>1
    <2>4. commitIndex' \in [Node -> Nat]
      <3>1. FollowerCommitIndex(n, m, l) \in Nat
        BY <1>0, <1>1, <2>3, LenProperties DEF FollowerCommitIndex, AppendRequest
      <3>2. commitIndex \in [Node -> Nat]
        BY DEF TypeOK
      <3> QED  BY <1>0, <2>2, <3>1, <3>2
    <2>5. msgs' \subseteq Message
      <3>1. AppendAnswer(n, m, m.term, TRUE, LastIndex(l), None, None) \in Message
        BY <1>0, <1>2, <2>3, LastInfoType
      <3> QED  BY <2>2, <3>1, RespondType
    <2>6. /\ currentTerm' \in [Node -> Nat]
          /\ state' \in [Node -> {"Follower", "Candidate", "Leader"}]
          /\ votedFor' \in [Node -> Node \cup {Nobody}]
          /\ voteCount' \in [Node -> Nat]
      BY <1>0, <2>2, BecomeFollowerType
    <2>7. UNCHANGED <<lastApplied, leaderVars, history>>
      BY <2>2
    <2> QED  BY <2>1, <2>4, <2>5, <2>6, <2>7 DEF TypeOK
  <1> QED  BY <1>3, <1>4, <1>5 DEF HandleAppendEntries, n

\* Type correctness is preserved by the handling of an append response.
LEMMA TypeAppendResponseStep ==
    ASSUME TypeOK, NEW m \in msgs, HandleAppendEntriesResponse(m.dst, m)
    PROVE  TypeOK'
  <1> USE DEF electionVars, logVars, leaderVars, history
  <1> DEFINE n == m.dst
  <1>0. m \in AppendResponse /\ n \in Node /\ m.src \in Node /\ m.term \in Nat
    BY MessageKinds DEF TypeOK, HandleAppendEntriesResponse
  <1>1. /\ log[n] \in Seq(Entry) /\ commitIndex[n] \in Nat
        /\ nextIndex \in [Node -> [Node -> Nat]]
        /\ matchIndex \in [Node -> [Node -> Nat \cup {None}]]
        /\ commitIndex \in [Node -> Nat]
    BY <1>0 DEF TypeOK
  <1> HIDE DEF n
  <1>2. DOMAIN log[n] = 1 .. Len(log[n]) /\ Len(log[n]) \in Nat
    BY <1>1, LenProperties
  <1>3. CASE IgnoreAppendResponse(n, m)
    <2>1. msgs' \subseteq Message
      BY <1>3, AnswerType DEF IgnoreAppendResponse
    <2> QED  BY <1>3, <2>1 DEF TypeOK, IgnoreAppendResponse
  <1>4. CASE AppendResponseNewerTerm(n, m)
    <2>1. msgs' \subseteq Message
      BY <1>4, AnswerType DEF AppendResponseNewerTerm
    <2>2. BecomeFollower(n, m.term) /\ UNCHANGED <<logVars, leaderVars, history>>
      BY <1>4 DEF AppendResponseNewerTerm
    <2> QED  BY <1>0, <2>1, <2>2, BecomeFollowerType DEF TypeOK
  <1>5. CASE AppendSucceeded(n, m)
    <2>1. msgs' \subseteq Message
      BY <1>5, AnswerType DEF AppendSucceeded
    <2>2. /\ nextIndex' = [nextIndex EXCEPT ![n][m.src] = m.lastLogIndex + 1]
          /\ matchIndex' = [matchIndex EXCEPT ![n][m.src] = m.lastLogIndex]
          /\ commitIndex' = [commitIndex EXCEPT ![n] = AdvancedCommitIndex(n, matchIndex'[n])]
          /\ UNCHANGED <<electionVars, log, lastApplied, history>>
      BY <1>5 DEF AppendSucceeded
    <2>3. m.lastLogIndex \in Nat
      BY <1>0 DEF AppendResponse
    <2>4. AdvancedCommitIndex(n, matchIndex'[n]) \in Nat
      BY <1>1, <1>2 DEF AdvancedCommitIndex
    <2>5. commitIndex' \in [Node -> Nat]
      BY <1>0, <1>1, <2>2, <2>4
    <2>6. nextIndex' \in [Node -> [Node -> Nat]]
      BY <1>0, <1>1, <2>2, <2>3
    <2>7. matchIndex' \in [Node -> [Node -> Nat \cup {None}]]
      BY <1>0, <1>1, <2>2, <2>3
    <2> QED  BY <2>1, <2>2, <2>5, <2>6, <2>7 DEF TypeOK
  <1>6. CASE AppendFailed(n, m)
    <2>1. msgs' \subseteq Message
      BY <1>6, AnswerType DEF AppendFailed
    <2>2. /\ nextIndex' = [nextIndex EXCEPT ![n][m.src] = BackedOffIndex(n, m.src, m)]
          /\ UNCHANGED <<electionVars, logVars, matchIndex, history>>
      BY <1>6 DEF AppendFailed
    <2>3. BackedOffIndex(n, m.src, m) \in Nat
      <3>1. nextIndex[n][m.src] \in Nat /\ m.conflictIndex \in Nat \cup {None}
        BY <1>0, <1>1 DEF AppendResponse
      <3>2. CASE m.conflictIndex = None
        BY <3>1, <3>2 DEF BackedOffIndex
      <3>3. CASE m.conflictIndex # None
        <4>1. (\E i \in DOMAIN log[n] : log[n][i].term = m.conflictTerm)
                => LastOfTerm(log[n], m.conflictTerm) \in DOMAIN log[n]
          BY <1>1, LastOfTermType
        <4> QED  BY <1>2, <3>1, <3>3, <4>1 DEF BackedOffIndex
      <3> QED  BY <3>2, <3>3
    <2>4. nextIndex' \in [Node -> [Node -> Nat]]
      BY <1>0, <1>1, <2>2, <2>3
    <2> QED  BY <2>1, <2>2, <2>4 DEF TypeOK
  <1> QED  BY <1>3, <1>4, <1>5, <1>6 DEF HandleAppendEntriesResponse, n

\* Type correctness is preserved by every step.
LEMMA TypeStep ==
    TypeOK /\ [Next]_vars => TypeOK'
  <1> SUFFICES ASSUME TypeOK, [Next]_vars PROVE TypeOK'
    OBVIOUS
  <1>1. ASSUME NEW m \in msgs, Lose(m) PROVE TypeOK'
    <2>1. msgs' \subseteq Message
      BY <1>1, AnswerType DEF Lose
    <2> QED  BY <1>1, <2>1 DEF TypeOK, Lose, electionVars, logVars, leaderVars, history
  <1>2. CASE UNCHANGED vars
    BY <1>2 DEF TypeOK, vars, electionVars, logVars, leaderVars, history
  <1> QED  BY <1>1, <1>2, TypeOwnStep, TypeVoteStep, TypeAppendStep,
              TypeAppendResponseStep DEF Next

\* Every field of every node and every message always has its type, whatever
\* messages are lost, late or reordered.
THEOREM TypeCorrect == Spec => []TypeOK
  <1>1. Init => TypeOK
    BY EmptySeq DEF Init, TypeOK
  <1> QED  BY <1>1, TypeStep, PTL DEF Spec

-----------------------------------------------------------------------------
(* Terms, votes and where logs and requests come from.                     *)

\* The step handles an append request that n received in its own term.
HeardLeader(n) ==
    \E m \in msgs \ msgs' :
        /\ m.type = "AppendRequest" /\ m.dst = n
        /\ m.term = currentTerm[n]

\* What a step may do to a node's term and vote.
TermAndVote(n) ==
    /\ currentTerm[n] <= currentTerm'[n]
    /\ (/\ currentTerm[n] = currentTerm'[n]
        /\ votedFor[n] # Nobody
        /\ votedFor'[n] # votedFor[n]) =>
           /\ votedFor'[n] = Nobody
           /\ state[n] = "Leader" \/ HeardLeader(n)

\* Terms never go back, a vote is never replaced by another one in its term, and it
\* is forgotten only for a leader.
LEMMA TermAndVoteNext ==
    ASSUME TypeOK, [Next]_vars, NEW q \in Node
    PROVE  TermAndVote(q)
  <1> USE DEF electionVars, logVars, leaderVars, history, TermAndVote
  <1>0. /\ currentTerm \in [Node -> Nat] /\ currentTerm[q] \in Nat
        /\ votedFor \in [Node -> Node \cup {Nobody}]
    BY DEF TypeOK
  <1>1. ASSUME UNCHANGED <<currentTerm, votedFor>> PROVE TermAndVote(q)
    BY <1>0, <1>1
  <1>2. ASSUME NEW n \in Node, NEW t \in Nat, BecomeFollower(n, t),
               t > currentTerm[n] \/ state[n] = "Leader" \/ HeardLeader(n)
        PROVE  TermAndVote(q)
    <2>1. /\ currentTerm[n] <= t
          /\ currentTerm' = [currentTerm EXCEPT ![n] = t]
          /\ votedFor' = [votedFor EXCEPT ![n] = Nobody]
      BY <1>0, <1>2 DEF BecomeFollower
    <2>2. CASE q # n
      BY <1>0, <2>1, <2>2
    <2>3. CASE q = n
      <3>1. currentTerm'[q] = t /\ votedFor'[q] = Nobody
        BY <1>0, <2>1, <2>3
      <3> QED  BY <1>0, <1>2, <2>1, <2>3, <3>1
    <2> QED  BY <2>2, <2>3
  <1>3. ASSUME NEW n \in Node, StartElection(n) PROVE TermAndVote(q)
    <2>1. /\ currentTerm' = [currentTerm EXCEPT ![n] = @ + 1]
          /\ votedFor' = [votedFor EXCEPT ![n] = n]
      BY <1>3 DEF StartElection
    <2>2. /\ currentTerm'[q] = IF q = n THEN currentTerm[q] + 1 ELSE currentTerm[q]
          /\ q # n => votedFor'[q] = votedFor[q]
      BY <1>0, <2>1
    <2> QED  BY <1>0, <2>2
  <1>4. ASSUME NEW n \in Node, LeaseExpired(n) PROVE TermAndVote(q)
    <2>1. BecomeFollower(n, currentTerm[n]) /\ currentTerm[n] \in Nat /\ state[n] = "Leader"
      BY <1>0, <1>4 DEF LeaseExpired
    <2> QED  BY <1>2, <2>1
  <1>5. ASSUME NEW n \in Node,
               \/ \E c \in Command : AppendEntry(n, c)
               \/ \E f \in Node : Heartbeat(n, f) \/ CreateAppendEntries(n, f)
               \/ \E to \in 1 .. commitIndex[n] : ApplyCommitted(n, to)
        PROVE  TermAndVote(q)
    BY <1>1, <1>5 DEF AppendEntry, Heartbeat, CreateAppendEntries, ApplyCommitted
  <1>6. ASSUME NEW m \in msgs, Lose(m) PROVE TermAndVote(q)
    BY <1>1, <1>6 DEF Lose
  <1>7. ASSUME NEW m \in msgs, HandleVoteRequest(m.dst, m) PROVE TermAndVote(q)
    <2>0. m.dst \in Node /\ m.term \in Nat
      BY MessageKinds DEF TypeOK
    <2>1. CASE RejectVoteRequest(m.dst, m)
      BY <1>1, <2>1 DEF RejectVoteRequest
    <2>2. CASE ProcessVoteRequest(m.dst, m)
      <3>1. /\ currentTerm[m.dst] <= m.term
            /\ currentTerm' = [currentTerm EXCEPT ![m.dst] = m.term]
        BY <2>2 DEF ProcessVoteRequest
      <3>2. ASSUME q # m.dst PROVE votedFor'[q] = votedFor[q]
        BY <1>0, <2>0, <2>2, <3>2 DEF ProcessVoteRequest
      <3>3. ASSUME m.term = currentTerm[m.dst], votedFor[m.dst] # Nobody
            PROVE  votedFor'[m.dst] = votedFor[m.dst]
        <4>1. ~(m.term > currentTerm[m.dst])
          BY <1>0, <2>0, <3>3
        <4> QED  BY <1>0, <2>0, <2>2, <3>3, <4>1 DEF ProcessVoteRequest
      <3> QED  BY <1>0, <2>0, <3>1, <3>2, <3>3
    <2> QED  BY <1>7, <2>1, <2>2 DEF HandleVoteRequest
  <1>8. ASSUME NEW m \in msgs, HandleVoteResponse(m.dst, m) PROVE TermAndVote(q)
    <2>0. m.dst \in Node /\ m.term \in Nat /\ currentTerm[m.dst] \in Nat
      BY MessageKinds DEF TypeOK
    <2>1. CASE VoteResponseNewerTerm(m.dst, m)
      <3>1. BecomeFollower(m.dst, m.term) /\ m.term > currentTerm[m.dst]
        BY <2>0, <2>1 DEF VoteResponseNewerTerm
      <3> QED  BY <1>2, <2>0, <3>1
    <2>2. CASE CountVote(m.dst, m)
      BY <1>1, <2>2 DEF CountVote
    <2>3. CASE IgnoreVoteResponse(m.dst, m)
      BY <1>1, <2>3 DEF IgnoreVoteResponse
    <2> QED  BY <1>8, <2>1, <2>2, <2>3 DEF HandleVoteResponse
  <1>9. ASSUME NEW m \in msgs, HandleAppendEntries(m.dst, m) PROVE TermAndVote(q)
    <2>0. m.dst \in Node /\ m.term \in Nat /\ currentTerm[m.dst] \in Nat
      BY MessageKinds DEF TypeOK
    <2>1. CASE RejectAppendEntries(m.dst, m)
      BY <1>1, <2>1 DEF RejectAppendEntries
    <2>2. CASE ConflictAppendEntries(m.dst, m) \/ AcceptAppendEntries(m.dst, m)
      <3>1. /\ BecomeFollower(m.dst, m.term) /\ m.term >= currentTerm[m.dst]
            /\ m.type = "AppendRequest"
            /\ \E t, s, i, ci, ct : Respond(m, AppendAnswer(m.dst, m, t, s, i, ci, ct))
        BY <1>9, <2>2 DEF HandleAppendEntries, ConflictAppendEntries, AcceptAppendEntries
      <3>2. m \notin msgs'
        BY <3>1 DEF Respond, Answer, AppendAnswer
      <3>3. m.term > currentTerm[m.dst] \/ HeardLeader(m.dst)
        BY <2>0, <3>1, <3>2 DEF HeardLeader
      <3> QED  BY <1>2, <2>0, <3>1, <3>3
    <2> QED  BY <1>9, <2>1, <2>2 DEF HandleAppendEntries
  <1>10. ASSUME NEW m \in msgs, HandleAppendEntriesResponse(m.dst, m)
         PROVE  TermAndVote(q)
    <2>0. m.dst \in Node /\ m.term \in Nat /\ currentTerm[m.dst] \in Nat
      BY MessageKinds DEF TypeOK
    <2>1. CASE IgnoreAppendResponse(m.dst, m) \/ AppendSucceeded(m.dst, m)
                 \/ AppendFailed(m.dst, m)
      BY <1>1, <2>1 DEF IgnoreAppendResponse, AppendSucceeded, AppendFailed
    <2>2. CASE AppendResponseNewerTerm(m.dst, m)
      <3>1. BecomeFollower(m.dst, m.term) /\ m.term > currentTerm[m.dst]
        BY SMTT(30), <2>0, <2>2 DEF AppendResponseNewerTerm
      <3> QED  BY <1>2, <2>0, <3>1
    <2> QED  BY <1>10, <2>1, <2>2 DEF HandleAppendEntriesResponse
  <1>11. CASE UNCHANGED vars
    BY <1>1, <1>11 DEF vars
  <1> HIDE DEF TermAndVote
  <1> QED  BY <1>3, <1>4, <1>5, <1>6, <1>7, <1>8, <1>9, <1>10, <1>11 DEF Next

\* In every behaviour terms never go back, and within its term a node's vote is never
\* given to another candidate in one step and is forgotten only by a leader that
\* steps down (handle_fast_election_tick) or on an append request of that term.
THEOREM TermAndVoteCorrect == Spec => TermAndVoteStep
  <1>1. TypeOK /\ [Next]_vars =>
          [\A n \in Node :
              /\ currentTerm[n] <= currentTerm'[n]
              /\ (/\ currentTerm[n] = currentTerm'[n]
                  /\ votedFor[n] # Nobody
                  /\ votedFor'[n] # votedFor[n]) =>
                     /\ votedFor'[n] = Nobody
                     /\ \/ state[n] = "Leader"
                        \/ \E m \in msgs \ msgs' :
                              /\ m.type = "AppendRequest" /\ m.dst = n
                              /\ m.term = currentTerm[n]]_vars
    BY TermAndVoteNext DEF TermAndVote, HeardLeader
  <1> QED  BY <1>1, TypeCorrect, PTL DEF Spec, TermAndVoteStep

\* An append request appears on the network only when a leader creates it or its
\* driver sends a heartbeat.
LEMMA RequestOrigin ==
    ASSUME TypeOK, [Next]_vars, NEW r \in msgs', r \notin msgs, r.type = "AppendRequest"
    PROVE  \E n, f \in Node : Heartbeat(n, f) \/ CreateAppendEntries(n, f)
  <1>1. ASSUME NEW n \in Node, StartElection(n) PROVE FALSE
    BY SMTT(30), <1>1 DEF StartElection, Send
  <1>2. ASSUME NEW n \in Node,
               \/ LeaseExpired(n)
               \/ \E c \in Command : AppendEntry(n, c)
               \/ \E to \in 1 .. commitIndex[n] : ApplyCommitted(n, to)
        PROVE  FALSE
    BY <1>2 DEF LeaseExpired, AppendEntry, ApplyCommitted
  <1>3. ASSUME NEW m \in msgs, HandleVoteRequest(m.dst, m) PROVE FALSE
    <2>1. \E t, g : msgs' = (msgs \ {m}) \cup {VoteAnswer(m.dst, m, t, g)}
      BY <1>3 DEF HandleVoteRequest, RejectVoteRequest, ProcessVoteRequest, Answer
    <2> QED  BY <2>1 DEF VoteAnswer
  <1>4. ASSUME NEW m \in msgs, HandleVoteResponse(m.dst, m) PROVE FALSE
    BY <1>4 DEF HandleVoteResponse, VoteResponseNewerTerm, CountVote, IgnoreVoteResponse, Answer
  <1>5. ASSUME NEW m \in msgs, HandleAppendEntries(m.dst, m) PROVE FALSE
    <2>1. \E t, s, i, ci, ct : Respond(m, AppendAnswer(m.dst, m, t, s, i, ci, ct))
      <3>1. CASE RejectAppendEntries(m.dst, m)
        BY <3>1 DEF RejectAppendEntries
      <3>2. CASE ConflictAppendEntries(m.dst, m)
        BY <3>2 DEF ConflictAppendEntries
      <3>3. CASE AcceptAppendEntries(m.dst, m)
        BY <3>3 DEF AcceptAppendEntries
      <3> QED  BY <1>5, <3>1, <3>2, <3>3 DEF HandleAppendEntries
    <2> QED  BY <2>1 DEF Respond, Answer, AppendAnswer
  <1>6. ASSUME NEW m \in msgs, HandleAppendEntriesResponse(m.dst, m) PROVE FALSE
    BY <1>6 DEF HandleAppendEntriesResponse, IgnoreAppendResponse,
                AppendResponseNewerTerm, AppendSucceeded, AppendFailed, Answer
  <1>7. ASSUME NEW m \in msgs, Lose(m) PROVE FALSE
    BY <1>7 DEF Lose, Answer
  <1>8. CASE UNCHANGED vars
    BY <1>8 DEF vars
  <1> QED  BY <1>1, <1>2, <1>3, <1>4, <1>5, <1>6, <1>7, <1>8 DEF Next

\* A log changes only when a leader appends to it or a follower accepts a request.
LEMMA LogOrigin ==
    ASSUME TypeOK, [Next]_vars
    PROVE  \/ UNCHANGED log
           \/ \E n \in Node, c \in Command : AppendEntry(n, c)
           \/ \E m \in msgs : m.type = "AppendRequest" /\ AcceptAppendEntries(m.dst, m)
  <1> USE DEF logVars
  <1>1. ASSUME NEW n \in Node,
               \/ StartElection(n)
               \/ LeaseExpired(n)
               \/ \E f \in Node : Heartbeat(n, f) \/ CreateAppendEntries(n, f)
               \/ \E to \in 1 .. commitIndex[n] : ApplyCommitted(n, to)
        PROVE  UNCHANGED log
    BY <1>1 DEF StartElection, LeaseExpired, Heartbeat, CreateAppendEntries, ApplyCommitted
  <1>2. ASSUME NEW m \in msgs,
               HandleVoteRequest(m.dst, m) \/ HandleVoteResponse(m.dst, m)
        PROVE  UNCHANGED log
    BY <1>2 DEF HandleVoteRequest, RejectVoteRequest, ProcessVoteRequest,
                HandleVoteResponse, VoteResponseNewerTerm, CountVote, IgnoreVoteResponse
  <1>3. ASSUME NEW m \in msgs,
               \/ RejectAppendEntries(m.dst, m)
               \/ ConflictAppendEntries(m.dst, m)
               \/ HandleAppendEntriesResponse(m.dst, m)
               \/ Lose(m)
        PROVE  UNCHANGED log
    BY <1>3 DEF RejectAppendEntries, ConflictAppendEntries, HandleAppendEntriesResponse,
                IgnoreAppendResponse, AppendResponseNewerTerm, AppendSucceeded,
                AppendFailed, Lose
  <1>4. CASE UNCHANGED vars
    BY <1>4 DEF vars
  <1> QED  BY <1>1, <1>2, <1>3, <1>4 DEF Next, HandleAppendEntries

-----------------------------------------------------------------------------
(* The shape of logs and of append requests.                               *)

\* The inductive invariant.
LogShape ==
    /\ TypeOK
    /\ LogIndexIsPosition
    /\ LogTermsOrdered
    /\ RequestsCarrySlices

\* A heartbeat carries nothing.
LEMMA HeartbeatSlice ==
    ASSUME LogShape, NEW n \in Node, NEW f \in Node, Heartbeat(n, f)
    PROVE  RequestsCarrySlices'
  <1>1. \E r : r.entries = <<>> /\ msgs' = msgs \cup {r}
    BY DEF Heartbeat, Send
  <1>2. \A r \in msgs' : r \in msgs \/ DOMAIN r.entries = {}
    BY <1>1
  <1> QED  BY <1>2 DEF LogShape, RequestsCarrySlices

\* A request that a leader creates carries a slice of its log.
LEMMA CreatedSlice ==
    ASSUME LogShape, NEW n \in Node, NEW f \in Node, CreateAppendEntries(n, f)
    PROVE  RequestsCarrySlices'
  <1> DEFINE prev == IF nextIndex[n][f] = 0 THEN 0 ELSE nextIndex[n][f] - 1
             e == EntriesFrom(log[n], prev + 1)
             pt == IF prev = 0 THEN 0 ELSE log[n][prev].term
             r == [type |-> "AppendRequest", src |-> n, dst |-> f,
                   term |-> currentTerm[n],
                   prevLogIndex |-> prev, prevLogTerm |-> pt,
                   entries |-> e, leaderCommit |-> commitIndex[n]]
  <1>1. msgs' = msgs \cup {r}
    BY DEF CreateAppendEntries, Send
  <1>2. prev \in Nat /\ (prev = 0 \/ prev \in DOMAIN log[n])
    <2>1. nextIndex[n][f] \in Nat
      BY DEF LogShape, TypeOK
    <2>2. prev = 0 \/ prev \in DOMAIN log[n]
      BY DEF CreateAppendEntries
    <2> QED  BY ONLY <2>1, <2>2
  <1>3. log[n] \in Seq(Entry)
    BY DEF LogShape, TypeOK
  <1> HIDE DEF prev
  <1>4. \A k \in DOMAIN e : /\ k \in Nat \ {0}
                            /\ prev + k \in DOMAIN log[n]
                            /\ e[k] = log[n][prev + k]
    <2>1. prev + 1 \in Nat \ {0} /\ \A k \in Nat : (prev + 1) + k - 1 = prev + k
      BY ONLY <1>2
    <2>2. \A k \in DOMAIN e : /\ k \in Nat \ {0}
                              /\ (prev + 1) + k - 1 \in DOMAIN log[n]
                              /\ e[k] = log[n][(prev + 1) + k - 1]
      BY <1>3, <2>1, EntriesFromSlice
    <2> HIDE DEF e
    <2> QED  BY <2>1, <2>2
  <1> HIDE DEF e
  <1>5. \A i \in DOMAIN log[n] : /\ log[n][i].index = i
                                 /\ log[n][i].term \in Nat
                                 /\ log[n][i].term <= currentTerm[n]
                                 /\ \A j \in 1 .. i : log[n][j].term <= log[n][i].term
    BY <1>3, LogFields DEF LogShape, LogIndexIsPosition, LogTermsOrdered
  <1>6. DOMAIN log[n] = 1 .. Len(log[n]) /\ Len(log[n]) \in Nat
    BY <1>3, LenProperties
  <1>7. ASSUME NEW k \in DOMAIN e
        PROVE  /\ e[k].index = prev + k
               /\ pt <= e[k].term
               /\ e[k].term <= currentTerm[n]
               /\ \A j \in 1 .. k : e[j].term <= e[k].term
    <2>1. k \in Nat \ {0} /\ prev + k \in DOMAIN log[n] /\ e[k] = log[n][prev + k]
      BY <1>4
    <2>2. e[k].index = prev + k /\ e[k].term <= currentTerm[n] /\ e[k].term \in Nat
      BY <1>5, <2>1
    <2>3. pt <= e[k].term
      <3>1. CASE prev = 0
        BY <2>2, <3>1
      <3>2. CASE prev # 0
        <4>1. prev \in 1 .. prev + k
          BY <1>2, <2>1, <3>2
        <4> QED  BY <1>5, <2>1, <3>2, <4>1
      <3> QED  BY <3>1, <3>2
    <2>4. ASSUME NEW j \in 1 .. k PROVE e[j].term <= e[k].term
      <3>1. DOMAIN e = 1 .. Len(e) /\ Len(e) \in Nat
        BY SMTT(30), <1>2, <1>3, EntriesFromSlice, LenProperties DEF e
      <3>2. j \in DOMAIN e /\ prev + j \in 1 .. prev + k
        BY <1>2, <2>1, <3>1
      <3> QED  BY <1>4, <1>5, <2>1, <3>2
    <2> QED  BY <2>2, <2>3, <2>4
  <1> HIDE DEF pt
  <1>8. \A m \in msgs' : m \in msgs \/ m = r
    BY <1>1
  <1>9. r.type = "AppendRequest" /\ r.entries = e /\ r.prevLogIndex = prev
          /\ r.prevLogTerm = pt /\ r.term = currentTerm[n]
    OBVIOUS
  <1> HIDE DEF r
  <1> QED  BY <1>7, <1>8, <1>9 DEF LogShape, RequestsCarrySlices

\* Appending at the leader keeps the logs in shape.
LEMMA AppendKeepsShape ==
    ASSUME LogShape, NEW n \in Node, NEW c \in Command, AppendEntry(n, c)
    PROVE  LogIndexIsPosition' /\ LogTermsOrdered'
  <1> DEFINE e == [term |-> currentTerm[n], command |-> c, index |-> Len(log[n]) + 1]
             l == Append(log[n], e)
  <1>1. log[n] \in Seq(Entry) /\ log \in [Node -> Seq(Entry)] /\ currentTerm[n] \in Nat
    BY DEF LogShape, TypeOK
  <1>2. log' = [log EXCEPT ![n] = l] /\ currentTerm' = currentTerm
    BY DEF AppendEntry, electionVars
  <1>3. e \in Entry /\ e.index = Len(log[n]) + 1 /\ e.term = currentTerm[n]
    BY SMTT(30), <1>1, LenProperties DEF Entry
  <1> HIDE DEF e
  <1>4. /\ l \in Seq(Entry) /\ Len(l) = Len(log[n]) + 1
        /\ \A i \in 1 .. Len(log[n]) : l[i] = log[n][i]
        /\ l[Len(log[n]) + 1] = e
    BY <1>1, <1>3, AppendProperties
  <1> HIDE DEF l
  <1>5. /\ DOMAIN l = 1 .. Len(log[n]) + 1 /\ Len(log[n]) \in Nat
        /\ DOMAIN log[n] = 1 .. Len(log[n])
    BY <1>1, <1>4, LenProperties
  <1>6. \A i \in DOMAIN l : l[i].index = i
    BY <1>3, <1>4, <1>5 DEF LogShape, LogIndexIsPosition
  <1>7. ASSUME NEW i \in DOMAIN l
        PROVE  l[i].term <= currentTerm[n] /\ \A j \in 1 .. i : l[j].term <= l[i].term
    <2>1. \A k \in DOMAIN log[n] :
            /\ log[n][k].term \in Nat /\ log[n][k].term <= currentTerm[n]
            /\ \A j \in 1 .. k : log[n][j].term <= log[n][k].term
      BY <1>1, LogFields DEF LogShape, LogTermsOrdered
    <2>2. CASE i \in 1 .. Len(log[n])
      <3>1. l[i] = log[n][i] /\ \A j \in 1 .. i : l[j] = log[n][j]
        BY <1>4, <1>5, <2>2
      <3> QED  BY <1>5, <2>1, <2>2, <3>1
    <2>3. CASE i = Len(log[n]) + 1
      <3>1. l[i].term = currentTerm[n]
        BY <1>3, <1>4, <2>3
      <3>2. ASSUME NEW j \in 1 .. i PROVE l[j].term <= currentTerm[n]
        <4>1. j \in 1 .. Len(log[n]) \/ j = i
          BY ONLY <1>5, <2>3, <3>2
        <4>2. CASE j \in 1 .. Len(log[n])
          BY ONLY <1>4, <1>5, <2>1, <4>2
        <4>3. CASE j = i
          BY ONLY <1>1, <3>1, <4>3
        <4> QED  BY ONLY <4>1, <4>2, <4>3
      <3> QED  BY ONLY <1>1, <3>1, <3>2
    <2> QED  BY SMTT(30), <1>5, <2>2, <2>3
  <1>8. \A q \in Node : log'[q] = IF q = n THEN l ELSE log[q]
    BY <1>1, <1>2
  <1>9. LogIndexIsPosition'
    BY <1>6, <1>8 DEF LogShape, LogIndexIsPosition
  <1>10. LogTermsOrdered'
    BY <1>2, <1>7, <1>8 DEF LogShape, LogTermsOrdered
  <1> QED  BY <1>9, <1>10

\* Accepting a request keeps the logs in shape.
LEMMA AcceptKeepsShape ==
    ASSUME LogShape, NEW m \in msgs, m.type = "AppendRequest",
           AcceptAppendEntries(m.dst, m)
    PROVE  LogIndexIsPosition' /\ LogTermsOrdered'
  <1> DEFINE n == m.dst
             p == m.prevLogIndex
             e == m.entries
             l == AppendNewEntries(log[n], p, e)
  <1>0. n \in Node /\ m \in AppendRequest
    BY MessageKinds DEF LogShape, TypeOK
  <1>1. /\ log[n] \in Seq(Entry) /\ currentTerm[n] \in Nat /\ m.term \in Nat
        /\ e \in Seq(Entry) /\ p \in Nat /\ m.prevLogTerm \in Nat
        /\ currentTerm \in [Node -> Nat]
    BY <1>0 DEF LogShape, TypeOK, AppendRequest
  <1>2. /\ \A q \in Node \ {n} : log'[q] = log[q]
        /\ log'[n] = log[n] \/ (p \in 0 .. Len(log[n]) /\ log'[n] = l)
    BY <1>0, AcceptedLog DEF LogShape
  <1>3. /\ currentTerm[n] <= m.term
        /\ currentTerm' = [currentTerm EXCEPT ![n] = m.term]
        /\ p = 0 \/ (p \in DOMAIN log[n] /\ log[n][p].term = m.prevLogTerm)
    BY <1>1 DEF AcceptAppendEntries, BecomeFollower, CheckLogConsistency
  <1>4. \A k \in DOMAIN e : /\ e[k].index = p + k /\ m.prevLogTerm <= e[k].term
                            /\ e[k].term <= m.term
                            /\ \A j \in 1 .. k : e[j].term <= e[k].term
    BY DEF LogShape, RequestsCarrySlices
  <1>5. /\ DOMAIN log[n] = 1 .. Len(log[n]) /\ Len(log[n]) \in Nat
        /\ DOMAIN e = 1 .. Len(e) /\ Len(e) \in Nat
        /\ \A i \in DOMAIN e : e[i].term \in Nat
        /\ \A i \in DOMAIN log[n] : log[n][i].term \in Nat
    BY <1>1, LogFields
  <1>6. \A i \in DOMAIN log[n] : /\ log[n][i].index = i
                                 /\ log[n][i].term <= currentTerm[n]
                                 /\ \A j \in 1 .. i : log[n][j].term <= log[n][i].term
    BY <1>0 DEF LogShape, LogIndexIsPosition, LogTermsOrdered
  <1> HIDE DEF n, p, e, l
  <1>7. ASSUME p \in 0 .. Len(log[n]), NEW i \in DOMAIN l
        PROVE  /\ l[i].index = i
               /\ l[i].term <= m.term
               /\ \A j \in 1 .. i : l[j].term <= l[i].term
    <2>1. /\ DOMAIN l = 1 .. p + Len(e)
          /\ \A k \in 1 .. p : k \in DOMAIN log[n] /\ l[k] = log[n][k]
          /\ \A k \in p + 1 .. p + Len(e) : k - p \in DOMAIN e /\ l[k] = e[k - p]
      BY <1>1, <1>7, AppendNewEntriesShape DEF l
    <2>2. CASE i \in 1 .. p
      <3>1. l[i] = log[n][i] /\ i \in DOMAIN log[n] /\ \A j \in 1 .. i : l[j] = log[n][j]
        BY <1>1, <2>1, <2>2
      <3>2. l[i].term \in Nat /\ l[i].term <= currentTerm[n]
        BY <1>5, <1>6, <3>1
      <3>3. l[i].term <= m.term
        BY <1>1, <1>3, <3>2
      <3> QED  BY <1>6, <3>1, <3>3
    <2>3. CASE i \in p + 1 .. p + Len(e)
      <3>1. i - p \in DOMAIN e /\ l[i] = e[i - p] /\ i \in Nat
        BY <1>1, <2>1, <2>3
      <3>2. l[i].index = i /\ l[i].term <= m.term
        BY <1>1, <1>4, <3>1
      <3>3. ASSUME NEW j \in 1 .. i PROVE l[j].term <= l[i].term
        <4>1. CASE j \in 1 .. p
          <5>1. l[j] = log[n][j] /\ j \in DOMAIN log[n] /\ p \in DOMAIN log[n]
            BY <1>1, <1>5, <1>7, <2>1, <4>1
          <5>2. log[n][j].term <= log[n][p].term /\ log[n][p].term = m.prevLogTerm
            <6>1. log[n][p].term = m.prevLogTerm
              BY <1>1, <1>3, <4>1, <5>1
            <6>2. j \in 1 .. p
              BY <4>1
            <6> QED  BY ONLY <1>6, <5>1, <6>1, <6>2
          <5>3. m.prevLogTerm <= l[i].term /\ l[i].term \in Nat
            BY <1>4, <1>5, <3>1
          <5>4. l[j].term \in Nat /\ m.prevLogTerm \in Nat
            BY <1>5, <5>1, <5>2
          <5>5. l[j].term <= m.prevLogTerm
            BY ONLY <5>1, <5>2
          <5> QED  BY ONLY <5>3, <5>4, <5>5
        <4>2. CASE j \in p + 1 .. i
          <5>1. j \in p + 1 .. p + Len(e) /\ j - p \in 1 .. i - p
            BY SMTT(30), <1>1, <1>5, <2>3, <4>2
          <5>2. l[j] = e[j - p]
            BY <2>1, <5>1
          <5> QED  BY <1>4, <3>1, <5>1, <5>2
        <4> QED  BY <1>1, <3>1, <4>1, <4>2
      <3> QED  BY <3>2, <3>3
    <2>4. i \in 1 .. p \/ i \in p + 1 .. p + Len(e)
      BY <1>1, <1>5, <2>1
    <2> QED  BY <2>2, <2>3, <2>4
  <1>8. ASSUME NEW i \in DOMAIN log'[n]
        PROVE  /\ log'[n][i].index = i
               /\ log'[n][i].term <= m.term
               /\ \A j \in 1 .. i : log'[n][j].term <= log'[n][i].term
    <2>1. CASE log'[n] = log[n]
      <3>1. i \in DOMAIN log[n] /\ log[n][i].term \in Nat /\ log[n][i].term <= currentTerm[n]
        BY <1>5, <1>6, <2>1
      <3>2. log[n][i].term <= m.term
        BY <1>1, <1>3, <3>1
      <3>3. log[n][i].index = i /\ \A j \in 1 .. i : log[n][j].term <= log[n][i].term
        BY <1>6, <3>1
      <3> QED  BY ONLY <2>1, <3>2, <3>3
    <2>2. CASE p \in 0 .. Len(log[n]) /\ log'[n] = l
      BY <1>7, <2>2
    <2> QED  BY <1>2, <2>1, <2>2
  <1>9. \A q \in Node \ {n} : currentTerm'[q] = currentTerm[q]
    BY <1>1, <1>3
  <1>10. currentTerm'[n] = m.term
    BY <1>0, <1>1, <1>3
  <1> QED  BY <1>2, <1>8, <1>9, <1>10 DEF LogShape, LogIndexIsPosition, LogTermsOrdered

\* Every step preserves the inductive invariant.
LEMMA LogShapeStep ==
    LogShape /\ [Next]_vars => LogShape'
  <1> SUFFICES ASSUME LogShape, [Next]_vars PROVE LogShape'
    OBVIOUS
  <1>1. TypeOK /\ TypeOK'
    BY TypeStep DEF LogShape
  <1>2. RequestsCarrySlices'
    <2>1. CASE \E n, f \in Node : Heartbeat(n, f) \/ CreateAppendEntries(n, f)
      BY <2>1, HeartbeatSlice, CreatedSlice
    <2>2. CASE ~ \E n, f \in Node : Heartbeat(n, f) \/ CreateAppendEntries(n, f)
      <3>1. \A r \in msgs' : r.type = "AppendRequest" => r \in msgs
        BY <1>1, <2>2, RequestOrigin
      <3> QED  BY <3>1 DEF LogShape, RequestsCarrySlices
    <2> QED  BY <2>1, <2>2
  <1>3. LogIndexIsPosition' /\ LogTermsOrdered'
    <2>1. CASE UNCHANGED log
      <3>1. ASSUME NEW n \in Node PROVE currentTerm[n] <= currentTerm'[n]
        BY <1>1, TermAndVoteNext DEF TermAndVote
      <3>2. ASSUME NEW n \in Node, NEW i \in DOMAIN log[n]
            PROVE  log[n][i].term <= currentTerm'[n]
        <4>1. /\ log[n][i].term \in Nat
              /\ currentTerm[n] \in Nat /\ currentTerm'[n] \in Nat
          BY <1>1, LogFields DEF TypeOK
        <4>2. log[n][i].term <= currentTerm[n]
          BY DEF LogShape, LogTermsOrdered
        <4> QED  BY <3>1, <4>1, <4>2
      <3> QED  BY <2>1, <3>2 DEF LogShape, LogIndexIsPosition, LogTermsOrdered
    <2>2. CASE \E n \in Node, c \in Command : AppendEntry(n, c)
      BY <2>2, AppendKeepsShape
    <2>3. CASE \E m \in msgs : m.type = "AppendRequest" /\ AcceptAppendEntries(m.dst, m)
      BY <2>3, AcceptKeepsShape
    <2> QED  BY <1>1, <2>1, <2>2, <2>3, LogOrigin
  <1> QED  BY <1>1, <1>2, <1>3 DEF LogShape

\* In every reachable state indices are positions, terms are ordered along every
\* log and bounded by the node's term, and requests carry slices of logs.
THEOREM LogShapeCorrect ==
    Spec => [](LogIndexIsPosition /\ LogTermsOrdered /\ RequestsCarrySlices)
  <1>1. Init => LogShape
    <2>1. Init => TypeOK
      BY EmptySeq DEF Init, TypeOK
    <2>2. ASSUME Init, NEW n \in Node PROVE DOMAIN log[n] = {}
      BY <2>2 DEF Init
    <2> QED  BY <2>1, <2>2
             DEF LogShape, LogIndexIsPosition, LogTermsOrdered, RequestsCarrySlices, Init
  <1>2. LogShape => LogIndexIsPosition /\ LogTermsOrdered /\ RequestsCarrySlices
    BY DEF LogShape
  <1> QED  BY <1>1, <1>2, LogShapeStep, PTL DEF Spec

\* A leader never removes or rewrites an entry of its own log: accepting a request
\* ends the leadership in the same step, and append_entry only adds at the end.
THEOREM LeaderAppendOnlyCorrect == Spec => LeaderAppendOnly
  <1> DEFINE Keeps(n) == state[n] = "Leader" /\ state'[n] = "Leader" =>
                           /\ Len(log[n]) <= Len(log'[n])
                           /\ log[n] = SubSeq(log'[n], 1, Len(log[n]))
  <1>1. ASSUME TypeOK, [Next]_vars, NEW n \in Node PROVE Keeps(n)
    <2>0. log[n] \in Seq(Entry) /\ log \in [Node -> Seq(Entry)] /\ Len(log[n]) \in Nat
      BY <1>1, LenProperties DEF TypeOK
    <2>1. ASSUME log'[n] = log[n] PROVE Keeps(n)
      BY <2>0, <2>1, SubSeqFull
    <2>2. ASSUME NEW q \in Node, NEW c \in Command, AppendEntry(q, c) PROVE Keeps(n)
      <3> DEFINE e == [term |-> currentTerm[q], command |-> c, index |-> Len(log[q]) + 1]
      <3>1. log' = [log EXCEPT ![q] = Append(log[q], e)]
        BY <2>2 DEF AppendEntry
      <3>2. CASE q # n
        BY <2>0, <2>1, <3>1, <3>2
      <3>3. CASE q = n
        <4>1. e \in Entry
          BY SMTT(30), <1>1, <2>0, <3>3 DEF TypeOK, Entry
        <4> HIDE DEF e
        <4>2. log'[n] = Append(log[n], e)
          BY <2>0, <3>1, <3>3
        <4>3. /\ log'[n] \in Seq(Entry) /\ Len(log'[n]) = Len(log[n]) + 1
              /\ \A i \in 1 .. Len(log[n]) : log'[n][i] = log[n][i]
          BY <2>0, <4>1, <4>2, AppendProperties
        <4>4. /\ SubSeq(log'[n], 1, Len(log[n])) \in Seq(Entry)
              /\ Len(SubSeq(log'[n], 1, Len(log[n]))) = Len(log[n])
              /\ \A i \in 1 .. Len(log[n]) : SubSeq(log'[n], 1, Len(log[n]))[i] = log'[n][i]
          <5>1. \A i \in 1 .. Len(log[n]) : log'[n][i] \in Entry
            BY <2>0, <4>3, ElementOfSeq
          <5> QED  BY SMTT(30), <2>0, <5>1, SubSeqProperties
        <4>5. log[n] = SubSeq(log'[n], 1, Len(log[n]))
          BY <2>0, <4>3, <4>4, SeqEqual
        <4> QED  BY <2>0, <4>3, <4>5
      <3> QED  BY <3>2, <3>3
    <2>3. ASSUME NEW m \in msgs, m.type = "AppendRequest", AcceptAppendEntries(m.dst, m)
          PROVE  Keeps(n)
      <3>1. m \in AppendRequest /\ m.dst \in Node
        BY <1>1, <2>3, MessageKinds DEF TypeOK
      <3>2. CASE m.dst # n
        <4>1. log'[n] = log[n]
          BY <1>1, <2>3, <3>1, <3>2, AcceptedLog
        <4> QED  BY <2>1, <4>1
      <3>3. CASE m.dst = n
        <4>1. state'[n] = "Follower"
          BY <1>1, <2>3, <3>1, <3>3 DEF TypeOK, AcceptAppendEntries, BecomeFollower
        <4> QED  BY <4>1
      <3> QED  BY <3>2, <3>3
    <2>4. ASSUME UNCHANGED log PROVE Keeps(n)
      <3>1. log'[n] = log[n]
        BY <2>4
      <3> QED  BY <2>1, <3>1
    <2> HIDE DEF Keeps
    <2> QED  BY <1>1, <2>2, <2>3, <2>4, LogOrigin
  <1>2. TypeOK /\ [Next]_vars => [\A n \in Node : Keeps(n)]_vars
    BY <1>1
  <1> QED  BY <1>2, TypeCorrect, PTL DEF Spec, LeaderAppendOnly
=============================================================================
