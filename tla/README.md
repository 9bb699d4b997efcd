# Kaelix: TLA+ specifications

This directory specifies parts of Kaelix in TLA+, checks them with TLC and proves
some of their properties with TLAPS. Paths below are relative to `src/`.
`PROJECT.json` holds the same information for tools: components, runs, mutants, the
map from definitions to source lines, findings, hazards and theorems.

Two components are specified so far: the **Raft node**, the core of the cluster, with
machine-checked proofs, and the **SWIM membership**, model-checked only. The rest is
inventoried here and planned.

## 1. The system

Kaelix is a distributed message-streaming system in Rust, about 63,000 lines outside
its test and bench directories.

| Crate | Parts |
|---|---|
| `kaelix-cluster` | Raft node and its driver, SWIM membership, communication, clocks, high availability, node registry |
| `kaelix-storage` | storage engine, write-ahead log, segments, quorum replication, consistency sessions, replica recovery, transactions |
| `kaelix-core` | stream multiplexing (registry, scheduler, router, backpressure), runtime (executor, workers, queues), plugins, configuration, telemetry |
| `kaelix-broker`, `kaelix-publisher`, `kaelix-consumer` | broker, connections, batches, offsets |

How they interact:

- `RaftCluster` (`consensus/raft/cluster.rs`) owns a `RaftNode` behind a lock. A timer
  task calls its election and heartbeat ticks; message handlers call `handle_*` and send
  what they return. `RaftNode` performs no I/O of its own.
- `SwimMembership` runs its protocol rounds and message handlers through `&mut self`
  and sends through the `MessageRouter` of `communication`.
- `ha` watches members and executes failover plans against the Raft role.
- `StorageEngine` writes to the WAL, then to segments, and optionally through the
  replication manager, which uses quorum, sessions and recovery.
- The multiplexer combines registry, router, scheduler and backpressure for a message;
  the runtime executes the tasks.

### Inventory

State, the operations that change it, what makes it hard, and what should hold.

| Component | State | Operations | Hard behaviour | Properties | Module |
|---|---|---|---|---|---|
| Raft node | term, role, vote, log, commit, apply, next/match index | `start_election`, `handle_vote_*`, `handle_append_entries*`, `append_entry`, `apply_committed_entries` | late, lost, reordered messages; change of leader | one vote, log shape, log matching | **RaftNode** |
| SWIM membership | member table, suspects, pending requests | rounds, five messages, add, remove | gossip in any order, late indirect acks | incarnation decides, suspicions end with the status | **Swim** |
| Raft driver, election coordinator | four locks, tallies, timers | ticks, message handlers, optimiser, health check | nested locks taken in different orders | no cycle of waiters | RaftCluster |
| Communication | connection table, handlers | connect, send, broadcast, route | connection lost during a send | one connection per peer | Transport |
| Clocks | Lamport, vector, hybrid, version vectors | tick, update, merge | update is a load and a store | causality, monotonicity | Clocks |
| Failover | plan, step, role | detect, plan, execute, time out | late success of a step after its timeout | one plan at a time | Failover |
| Failover client | endpoint health, topology | select, execute, retry | retry of what was done | bounded retries | FailoverClient |
| Node registry | nodes, role indexes | register, update, clean up | stale clean-up against update | indexes agree | NodeRegistry |
| WAL | batch, segment, rotation | write, flush, rotate, seal, recover | shutdown between add and flush; crash in a write | acknowledged is durable | WalBatch, WalSegment |
| Segments | segment set, index | append, read, seal, compact | seal against append | offsets stay readable | SegmentStorage |
| Quorum, topology | replicas, healthy count | read, write, add, remove, fail | membership change during an operation | reads meet writes | Quorum, ReplicaTopology |
| Sessions | last write, last read | write, read check, clean up | clean-up of a live session | no going backwards | Sessions |
| Replica recovery | tasks, status | start, cancel, complete | cancel against completion | one task per replica | ReplicaRecovery |
| Transactions | status, active count | begin, commit, abort | count at its limit | count is exact | Transactions |
| Backpressure | credits, pressure | consume, restore, refill, add | two consumers at zero | credits bounded | Backpressure |
| Stream registry | shards, Bloom filter, count | register, unregister, update | duplicate registration | count is exact | StreamRegistry |
| Multiplexed scheduler | queues, task table | add, next, demote, age, steal | a task aged while it runs | no task lost or doubled | Mlfq |
| Router | streams, hash ring, metrics | add, remove, route | metrics of a removed stream | routes to a live stream | StreamRouter |
| Runtime | running flag, workers, queues | start, stop, schedule, steal | stop against schedule | every task runs | Executor, TaskQueues |
| Plugins | instances, names, lifecycle | register, start, stop, unregister | name checked before an await | one plugin per name | PluginRegistry, PluginLifecycle |
| Telemetry export | batch, shutdown flag | record, export, shut down | shutdown with a part-filled batch | nothing dropped | Exporter |
| Broker, connections | running, topics, connections | start, stop, publish, accept, clean up | limit checked before the insert | limit holds | Broker, Connections |

Only the two modules in bold exist; the properties of the other rows are questions still
to be asked of the code, not results. `PROJECT.json` lists all 42 components, and the
hazards at the lines where they bite.

## 2. The Raft node

### RaftNode.tla

Source: `kaelix-cluster/src/consensus/mod.rs`, `mod raft`. One copy of the node's
fields per member of `Node`, the part of the driver `RaftCluster`
(`consensus/raft/cluster.rs`) that decides what reaches a node, and the set `msgs` of
messages on the network.

| Code | Model |
|---|---|
| `current_term`, `state`, `voted_for`, `vote_count` | `currentTerm`, `state`, `votedFor`, `voteCount` |
| `log`, `commit_index`, `last_applied` | `log`, `commitIndex`, `lastApplied` |
| `next_index`, `match_index` (hash maps) | `nextIndex` (a missing key reads as 1), `matchIndex` (`None`: no key) |
| `start_election` | `StartElection` |
| `handle_vote_request` | `RejectVoteRequest`, `ProcessVoteRequest` |
| `handle_vote_response`, `become_leader` | `VoteResponseNewerTerm`, `CountVote`, `IgnoreVoteResponse`, `BecomeLeader` |
| `become_follower` | `BecomeFollower`, part of every action that calls it |
| lease check of `handle_fast_election_tick` | `LeaseExpired` |
| `append_entry`, `create_append_entries` | `AppendEntry`, `CreateAppendEntries` |
| `send_optimized_heartbeat` and its three callers | `Heartbeat`, `HeartbeatTerm` |
| `route_raft_message` | the `Handle...` actions; `Respond` for the responses it drops |
| `handle_append_entries` | `RejectAppendEntries`, `ConflictAppendEntries`, `AcceptAppendEntries` |
| `handle_append_entries_response` | `IgnoreAppendResponse`, `AppendResponseNewerTerm`, `AppendSucceeded`, `AppendFailed` |
| `apply_committed_entries` | `ApplyCommitted` |

`elected`, `granted` and `applied` are history variables; no guard reads them.

Decisions:

- A handler takes `&mut self`, so it is one action; an early return is an action of its
  own. The caller sends the reply in the same step.
- `Lose` drops any message, and messages are handled in any order. None is duplicated,
  because nothing in the code retransmits.
- Timers are not modelled: a node that is not the leader may time out at any time, and a
  lease may expire at any time.
- `get_peer_ids` returns no peer, so `become_leader` initialises neither index map. The
  model keeps what an earlier leadership left there.
- `DrivenByCluster` says who owns the nodes. TRUE is `RaftCluster`: a leader sends only
  heartbeats, on every tick, after a win and after a client's entry, and
  `route_raft_message` drops append responses with a warning (`cluster.rs:985`). FALSE is
  an owner that sends what `create_append_entries` returns and hands the answers to
  `handle_append_entries_response`. Nothing in the repository is such an owner, but
  `RaftNode` is public and these are its replication functions; what the runs with FALSE
  show is about them.
- A heartbeat carries term 1 whatever the leader's term (`cluster.rs:933`), no entries
  and zero indices. The round sent after a win does not look again whether the node still
  leads; that is covered, since a heartbeat sent at the win may arrive at any later time.
- `ClusterSize` is one constant for all nodes. In the code `RaftCluster` starts with
  `cluster_size` 1 (`cluster.rs:193`) and `update_membership` changes it
  (`cluster.rs:745`) without any agreement. What depends on the majority
  (`SplitNeedsDoubleVote`, `LogMatchingUntilSplit` and the four runs of the next section)
  is about nodes that have the same, settled size; the proved theorems hold for any size.
- `become_follower` refuses an older term with an error (lines 606-611). That is the
  guard of `BecomeFollower`; all callers have compared the terms, so it never refuses.
- Pre-votes are left out. `handle_vote_request` does read `pre_vote` (line 533), and
  `RaftCluster::handle_vote_response` has a branch for it (`cluster.rs:504-531`), but
  every request is built with `pre_vote: false` (line 501) and a response copies the
  request's flag.
- `broadcast_election_message` falls back to individual sends when the broadcast fails.
  The broadcast fails only before it has sent anything, so no request is doubled.
- Nodes do not restart: the code keeps no Raft state on disk.
- `current_leader` and metrics are left out; no guard reads them.
- `cluster.rs` does not compile as written: `is_leadership_lease_valid` (line 313) and
  `initiate_leadership_transfer` (line 841) are not defined for `RaftNode`. The first is
  modelled as an arbitrary answer, the second not at all.

### Runs

No run or theorem assumes fairness: every Raft and SWIM property here is a safety
property. The code gives no ground for more, since nothing calls
`create_append_entries` periodically and lost messages are not sent again. Deadlock is
not checked for Raft because the bounds on terms, logs and messages end behaviours.

| Run | Instance | Distinct states | Shows |
|---|---|---|---|
| `raft_election` | `RaftCluster`, 3 nodes, 2 terms, no entries, 4 messages in flight | 842 thousand | `OneVoteUntilAnnounced`, `SplitNeedsDoubleVote` |
| `raft_replication` | replicating owner, 2 nodes, 2 terms, 2 entries, 2 in flight | 709 thousand | `TypeOK`, `LogIndexIsPosition`, `LogTermsOrdered`, `RequestsCarrySlices`, `LeaderAppendOnly`, `TermAndVoteStep` |
| `raft_repair` | replicating owner, 3 nodes, 2 terms, 2 entries, 1 in flight | 2.38 million | `LogMatchingUntilSplit` |

- `OneVoteUntilAnnounced`: a node has voted for one candidate in a term nobody has won.
  Term 1 is an exception under `RaftCluster`: heartbeats carry it whoever sends them, so
  there it holds until anybody has won any term. The run reaches the case: a leader of
  term 2 makes a voter of term 1, which nobody has won, vote twice.
- `SplitNeedsDoubleVote`: two winners of a term share a voter. Votes carry no sender, so
  this says that `vote_count` counts only votes really cast.
- `LogMatchingUntilSplit`: logs that agree on an entry's term agree on everything before
  it, as long as no term has two winners.
- `LogIndexIsPosition`, `LogTermsOrdered`, `RequestsCarrySlices`: the shape that
  truncation, lookup and the up-to-date check rely on.
- `LeaderAppendOnly`: a leader's log only grows, whatever terms and requests it meets.
- `TermAndVoteStep`: terms never go back; within a term a vote is never swapped, and only
  a leader that steps down or an append request of that very term makes a node forget it.

Two of these properties are conditional because the unconditional ones are false of this
code; the next section lists them.

Why the bounds suffice, and where they do not:

- Three nodes are the least with a majority that is neither one node nor all. Two terms
  give a change of leader with messages of the old one still under way. Two entries
  give a suffix to truncate.
- Two messages in flight let one overtake another. An election of three nodes sends two
  requests at once, so `raft_election` needs four for two candidates at the same time.
- With two nodes a follower has voted for its leader, so it knows the leader's term before
  any request comes. That no entry is newer than the node's term, the first half of
  `LogTermsOrdered`, is therefore hardly put to the test in `raft_replication`; the
  theorem `LogShapeCorrect` covers it for any set of nodes.
- `raft_repair` (`MCRaftRepair.tla`) makes an election one step, which is one order of
  RaftNode's own steps, so it reaches only states of RaftNode. It explores fewer
  behaviours: elections whose messages interleave are left to `raft_election`, and with
  one message in flight append requests do not overtake each other there.
- `LogMatchingUntilSplit` is therefore not checked against overtaking requests on three
  nodes; that instance is too large. The two-node instance would not help, since
  weakening the log check does not break the property there.

### Where the code and its comments disagree

Each run below checks one statement of the repository, and TLC finds a behaviour of the
code that contradicts it. `PROJECT.json` quotes the statements in full.

| Run | Statement | What the code does |
|---|---|---|
| `raft_two_leaders` | "At most one leader per term" (`kaelix-tests/src/properties/consensus.rs:370`) | `become_follower` clears `voted_for` even at the same term, so `RaftCluster`'s heartbeat of term 1 makes a voter of term 1 forget its vote |
| `raft_commit_majority` | "highest index replicated on majority" (`consensus/mod.rs:886`) | the median is over followers that have answered, so an entry only the leader has is committed. The defect is in `RaftNode`'s own functions: `route_raft_message` never delivers append responses |
| `raft_committed_gone` | "highest log entry known to be committed" (`:183`) | a late request of `create_append_entries` truncates entries committed since |
| `raft_skipped_apply` | "highest log entry applied" (`:185`) | `last_applied` moves before `apply_fn` accepts the entry |

### Proofs

`RaftNodeProofs.tla` and `RaftVoteProofs.tla` prove the following for every set of nodes,
every cluster size, every batch size and every bound. The assumptions are the named
`ASSUME`s of `RaftNode.tla`: `Nobody` is not a node, the cluster and batch sizes are
positive, `DrivenByCluster` is a Boolean, the bounds are naturals. The bounds are arbitrary naturals and occur only in
guards, so they do not restrict the result: any finite behaviour fits some bound.

| Theorem | States |
|---|---|
| `TypeCorrect` | `Spec => []TypeOK` |
| `TermAndVoteCorrect` | `Spec => TermAndVoteStep` |
| `LogShapeCorrect` | `LogIndexIsPosition`, `LogTermsOrdered` and `RequestsCarrySlices` always hold |
| `LeaderAppendOnlyCorrect` | `Spec => LeaderAppendOnly` |
| `OneVoteCorrect` | `Spec => []OneVoteUntilAnnounced` |

- **Types.** One lemma per group of actions. `LastOfTerm`, `FirstOfTerm` and the
  conflict indices need a least or greatest index of a term to exist (`LeastNatural`).
- **Log shape.** `LogIndexIsPosition` is not inductive alone: a follower appends the
  entries of a request without looking at their indices. The inductive invariant
  `LogShape` adds `RequestsCarrySlices`, which says what a request under way carries,
  and `LogTermsOrdered`, which makes a slice of a leader's log ordered when it is sent.
  `LogOrigin` and `RequestOrigin` say what a step can make of a log and of the requests.
- **One vote.** `VoteBook` adds three facts to `OneVoteUntilAnnounced`. A vote of the
  node's present term is still in `voted_for`, or the term is announced (`VotesKept`). A
  leader has won its term (`LeadersWon`). A request's term is announced
  (`RequestsAnnounced`): it is the term of a leader, or it is a leader's heartbeat of
  term 1. The last two show that a vote is forgotten at an unchanged term only when that
  term is announced.

Only model-checked: `SplitNeedsDoubleVote` and `LogMatchingUntilSplit`. The first needs
votes in flight to be counted as a set, the second an inductive invariant that also ties
every entry to the leader that created it.

## 3. The SWIM membership

### Swim.tla

Source: `kaelix-cluster/src/membership/mod.rs`.

| Code | Model |
|---|---|
| `members`, `suspects` | `members` (`Absent`: no entry), `suspects` |
| `pending_indirect_pings`, `request_id_counter` | `pending`, `requests` |
| `execute_protocol_round` | `RoundWithoutTarget`, `RoundWithPing`, `RoundWithPingTimeout`, each ended by `FinishRound` |
| `handle_ping_timeout`, `indirect_ping` | part of `RoundWithPingTimeout` |
| `process_suspicion_timeouts`, gossip, clean-up of requests | `FinishRound` |
| `handle_swim_message` and its five handlers | `HandleMessage`, `HandlePing`, `HandleAck`, `HandleIndirectPing`, `HandleIndirectAck`, `HandleGossip` |
| `update_node_info`, `process_membership_updates` | `UpdateNodeInfo`, `Merged`, `Cleared` |
| `mark_suspect`, `mark_failed` | `MarkSuspect`, `MarkFailed` |
| `add_member`, `remove_member` | `AddMember`, `RemoveMember` |

- Every operation takes `&mut self`, including a round that sleeps for the answers to an
  indirect ping. The round is one action, and no answer is handled before it ends.
- A send may fail, and one that timed out may still deliver its message.
- Any earlier suspicion, and any request, may be found expired. A suspicion of the same
  round has not expired.
- `add_member` takes any `NodeInfo`; the constant `Offered` holds the ones callers pass.
  Only tests and benches call it, mostly with `NodeInfo::new`. Adding and removing the
  node itself is allowed, as in the code.
- A ping and an ack carry `local_node.incarnation`. Nothing ever raises it, so it is
  `LocalIncarnation`, the 0 of `NodeInfo::new`.
- The phi detectors are left out: they are fed and reported, and decide nothing. The
  status `Left` is never assigned.
- `indirect_ping` does not compile as written: its last expression is a `bool` where a
  `Result<bool>` is declared. It is modelled as if wrapped in `Ok`.

### Runs

`Spec` lets anybody be added or removed at any time. `StableSpec` (`MCSwim.tla`) starts
from members that all know each other, with nobody joining or leaving, and lets the
nodes in `Prober` run rounds; all nodes answer. Deadlock is checked.

| Run | Instance | Distinct states | Shows |
|---|---|---|---|
| `swim_change` | `Spec`, 2 nodes, 2 in flight, new and raised `NodeInfo` | 300 thousand | `TypeOK`, `SuspicionsEndTogether` |
| `swim_stable` | `StableSpec`, 3 nodes, all probe, 1 in flight | 72 thousand | `IncarnationDecides`, `SelfIsAlive` |
| `swim_probe` | `StableSpec`, 4 nodes, one probes, 2 requests, 1 in flight | 11 thousand | `AckMatchesRequest` |

- `SuspicionsEndTogether`: a suspect is a known member, and nothing but `add_member`
  makes a member alive while it stays among the suspects. `add_member` does: it writes
  the table only, and the old suspicion may still expire.
- `IncarnationDecides`: reports about a node with equal incarnations are equal. That makes
  "higher or equal wins" independent of the order of arrival. It needs a stable
  membership: a suspect that is added again has incarnation 0 and is still a suspect, so
  it may fail at incarnation 1, which elsewhere says `Suspect`.
- `SelfIsAlive`: gossip about itself never changes a node's own entry.
- `AckMatchesRequest`: a late indirect ack is matched to its own request.

Bounds: three nodes are the least with a proxy for an indirect ping; four with one prober
give two requests for different targets. Incarnation 3 is above the 2 that a suspicion
and a failure reach. Not covered: joining and leaving with three nodes, and three nodes
with two messages in flight; both are too large.

| Run | Statement | What the code does |
|---|---|---|
| `swim_unconfirmed` | "Suspect members awaiting confirmation" (`membership/mod.rs:314`) | a suspicion learnt by gossip never enters `suspects`, so it is never confirmed |
| `swim_indirect_ack` | "Mark target as alive if indirect ping succeeded" (`:841`) | the report has incarnation 0, which the suspicion has passed, and is refused |

## 4. Plan

In this order; each module comes with proofs where noted. Runs stay few: components that
interact are checked through the module that composes them (WAL, segments and engine;
registry, scheduler, router and backpressure; executor and queues) rather than one by one.

1. **SwimProofs**: `IncarnationDecides` and `SelfIsAlive` of `StableSpec` for any set of
   nodes. Strengthening: a report is `Alive` exactly when its incarnation is 0, 1 is
   `Suspect` and 2 or more `Failed`.
2. **RaftCluster**: the locks `raft`, `coordinator`, `metrics` and `members` as the
   handlers take them, the driver task and the handlers interleaved, one step per lock
   operation. Run: 2 or 3 concurrent handlers; deadlock, and liveness of a handler under
   weak fairness of the lock queues. Composed with the coordinator's tallies.
3. **WalBatch, WalSegment**: batch, flush timer and shutdown; write, sync, seal, rotate,
   crash and the recovery scan. Abstract specification: a log whose acknowledged entries
   survive; refinement checked by TLC, its step proved. Then **SegmentStorage** and the
   storage engine as a composition.
4. **Clocks**: Lamport clock with the load and the store apart, vector and hybrid clocks,
   version vectors against the happened-before relation. Proof: merge lemmas.
5. **Quorum, ReplicaTopology, Sessions, ReplicaRecovery, Transactions**. Proof: the
   overlap of read and write quorums from `QuorumConfig`.
6. **Backpressure, StreamRegistry, Mlfq, StreamRouter**, and the multiplexer as their
   composition. Two threads, credits near zero, two streams. Proof: credit bound, count.
7. **Executor, TaskQueues**: start and stop against schedule; every accepted task runs.
8. **Failover, FailoverClient, NodeRegistry, Transport**.
9. **PluginRegistry, PluginLifecycle, Broker, Connections, Exporter**.
10. Raft again: proofs of `SplitNeedsDoubleVote` and `LogMatchingUntilSplit`, then
    **LogReplication**, which no build compiles and so comes last.

## 5. What is not modelled

Besides what the plan lists:

- Code that no module declares, so that no build runs it: `ha/recovery.rs`, `ha/chaos.rs`,
  storage backends and the broker bridge, the frame protocol.
- `ClusterNode` of `kaelix-cluster/src/lib.rs` calls methods that `SwimMembership` does
  not have.
- Counters, histograms, affinity calls, configuration parsing, error types and traits:
  no control flow depends on them, or they hold no state.
- Consumer and publisher networking: stubs that return `Ok`.

Out of the prover's reach and left to TLC: liveness under fairness, `ENABLED`, and what a
recursive definition computes for every input. No specification uses the first two yet.

## 6. Running

    tlc -config RaftElection.cfg MCRaftNode
    tlc -config RaftRepair.cfg MCRaftRepair
    tlc -config SwimStable.cfg MCSwim
    tlapm RaftNodeProofs.tla
    tlapm RaftVoteProofs.tla

`PROJECT.json` pairs every configuration with its module.
