# A TLA+ model of the Raft, key/value and MapReduce code

This directory specifies the Go packages under `src/src/` in TLA+, checks them
with TLC on small instances and proves the central results with TLAPS for every
value of the constants. `PROJECT.json` lists the parts, the runs, the source
lines each definition stands for, the mutations that show each property can
fail, the findings, the hazards and the theorems.

Paths below are relative to `src/src/` unless they start with `src/`.

## 1. Inventory

| Part | State | Operations | What is hard about it |
|---|---|---|---|
| Raft (`raft1/raft.go`) | `currentTerm`, `votedFor`, `log`, snapshot (persistent); role, votes, `commitIndex`, `lastApplied`, `nextIndex`, `matchIndex`, `isSnapshotApplied` (volatile) | `Make`, `Start`, `Snapshot`, the RPC handlers `RequestVote`, `AppendEntries`, `InstallSnapshot`, the goroutines `startElection`, `runHeartbeatCycle`, `sendRequestVote`, `sendEntries`, `sendInstallSnapshot`, `applyTicker` | lost, late and reordered RPCs; crash and restart between any two locked sections; the unlocked send on `applyCh`; two index systems |
| rfsrv (`raft1/server.go`) | the applied log | `newRfsrv`, `applierSnap`, `ingestSnap` | calls `Snapshot` while Raft moves on |
| labrpc (`labrpc/labrpc.go`) | ends, the server behind a name, requests and replies under way | `Call`, `processReq`, `Enable`, `AddServer`, `DeleteServer` | drops, delays and reorders; drops replies of dead servers |
| Persister (`tester1/persister.go`) | Raft state and snapshot | `Save`, `Read...` | atomic by its lock |
| Key/value server and clerk (`kvsrv1`) | versioned map | `Get`, `Put`, retries | `ErrMaybe` after a lost reply |
| Lock (`kvsrv1/lock`) | owner and version under one key | `Acquire`, `Release`, `resync` | own success learnt late; a refused release |
| RSM (`kvraft1/rsm`) | waiting `Submit`s by (id, server, index) | `Submit`, `Read`, `applyCommand`, `maybeSnapshot` | leadership lost while waiting; snapshot races |
| KV on Raft (`kvraft1`) | versioned map | `DoOp`, `Snapshot`, `Restore`, the rotating clerk | operations submitted twice |
| Shard configuration (`shardkv1/shardcfg`) | shards to groups | `Rebalance`, `Join`, `Leave` | termination and balance |
| Shard controller (`shardkv1/shardctrler`) | current and wanted configuration, lease lock | `ChangeConfigTo`, `InitController`, `moveShardToGroup`, `acquireLock` | controllers that supersede each other in mid-migration |
| Shard groups (`shardkv1/shardgrp`, `shardkv1/client.go`) | shards with state and configuration number | `DoOp`: Put, Get, Freeze, Install, Delete; clerks | repeated and late migration steps |
| MapReduce (`mr`) | task states, two queues, counters, timers | `GetJob`, `OnJobFinish`, requeue timer; workers | late completion of a requeued task |
| Tester servers (`tester1/group.go`, `srv.go`, `daemonclnt.go`, `daemonsrv.go`) | a process per server, the Persister kept between two of them | `StartServer`, `ShutdownServer`, `CheckpointPersister`, `kill`, `forward` | a server that runs on while its state is copied |
| Demultiplexer (`tester1/demux`, `tester1/sockrpc`) | the outstanding calls of a connection | `SendReceive`, the readers, `callMap` | a connection that breaks between two steps of a call |

Interactions: a service hands commands to Raft with `Start` and reads decided
ones from `applyCh`; RSM is such a service, and the key/value and shard servers
are RSM's state machines. The lock and the shard controller are clients of the
single key/value server. Calls go through labrpc and, to a server process,
through the demultiplexer. `src/README.md:20-21` calls `kvraft1` and `shardkv1`
unmodified skeletons; the source implements both, and the inventory follows the
source.

Correctness, in one line each: one leader per term; committed commands are
never lost or changed; services see one log, in order; a lagging follower
catches up; puts take effect at most once and the clerk says so truthfully; at
most one client holds a lock; every shard is served by at most one group and
loses no write when it moves; reduce outputs are made from all maps, and the
job ends; what a server has told anybody survives its restart, and no caller
waits for ever.

## 2. Modules

### Raft

**`RaftLog`** holds the log arithmetic as operators: the placeholder at slice
offset 0, absolute and physical indices, trimming, the merge loop of
`AppendEntries`, the conflict index of `buildFailedReply`, the log
`InstallSnapshot` leaves, and the median of `updateCommitIndex`.

**`Raft`** is a cluster of peers, each with its Persister and its service, over
the network. Every section of code that holds `rf.mu` is one action, with the
deferred `persist()` as its last conjunct. What lies between two such sections
of one goroutine is state:

* `msgs` holds RPCs. A request is sent by `startElection`, `runHeartbeatCycle`
  or `Start`. Its handler (`RequestVote`, `AppendEntries`, `InstallSnapshot`)
  consumes it and answers. The action named after the sending goroutine
  (`sendRequestVote`, `sendEntries`, `sendInstallSnapshot`) is what that
  goroutine does once `Call` has returned true, so a reply carries what the
  goroutine remembers of its request. Any message may be lost when it is sent
  and messages are taken in any order. A leader's heartbeat repeats its
  requests, so a handler may leave a copy of a leader's request in the network;
  a vote is asked for once per election and has no second copy.
* `offer` is what `applyTicker` is handing over while it does not hold the
  lock. `applierSnap` is the service at the other end of the channel, and
  `snapCall` its pending call of `Snapshot`.
* `disk` is the Persister. `Make` is a crash followed by a restart: volatile
  fields are reset, `readPersist` and `newRfsrv` restore the rest, and requests
  of the dead process can still arrive but nobody waits for the answer.
* `panicked` collects peers whose process died of a slice index out of range.
  Every index computed in `updateCommitIndex`, `StartSendEntries`, `Snapshot`
  and `applyTicker` is checked as Go would.

A snapshot is the sequence of commands it stands for. `FailedTerm` is left out
because the leader never reads it. Timers are left out: an election may start
at any time, which includes every timing.

**`ReplicatedLog`** is what `raftapi.go` promises to services: one sequence of
decided commands that only grows, handed to each service from the front.
**`RaftDecided`** adds to `Raft` the history variable `decided`, the longest
sequence any peer ever regarded as committed, and states the refinement.

**`CatchUp`** isolates one fresh leader and one follower and runs their
exchanges under fairness, from any two matching logs and any snapshots that an
election can find them with. It uses the operators of `RaftLog`, which are also
those of `Raft`.

**`MCRaft`** gives TLC an instance: leaders propose their own term number as the
command, which is enough to tell the proposals of different leaders apart, and
`Candidates`, `Successors` and `Readers` choose whose timers and
services run (a successor campaigns only once it has been in a term). `Followers`
are the peers whose AppendEntries are not all lost. Its symmetry
permutes peers that these choices treat alike. Its view `LiveState` leaves out
`nextIndex` and `matchIndex` of a peer that does not lead and the votes of a
peer that has not voted for itself. The code sets all of these anew before it
reads them again.

### Key/value store and lock

**`KVModel`** is the abstract specification of every key/value service here: the
sequential model of `models1/kv.go`, which the tests give to the linearizability
checker, with the concurrent calls around it. A call is taken from `pending`,
takes effect at most once between its call and its return, and returns an
answer that the model's `Step` allows: for a Put `OK`, `ErrVersion` or
`ErrMaybe`. A Put that returns `ErrMaybe` is `dangling` and may still take
effect; no other is. The safety part of linearizability is refinement of this
module.

The servers have a fourth answer. For a nonzero version of a missing key `Put`
answers `ErrNoKey`, as `kvsrv1/server.go:59-60` says and `kvsrv_test.go:39`
asks, and `models1/kv.go:59-63` rejects it. The clerks turn only `ErrVersion`
into `ErrMaybe`, so a Put refused in this way may even take effect afterwards,
through a late copy. The refinements are therefore stated for clients with
`VersionsKnown`: a version other than 0 is put only for a key that is there.
Clients that have their versions from the store keep to it, as no key ever
vanishes, and for `Lock` it is proved.

**`KVServer`** is `kvsrv1/server.go` with its clerks. One action is one RPC
handler or one step of a clerk: `CallGet`/`CallPut` send, `Serve` runs the
handler and brings the reply, `Retry` is a call that failed, whose request is
lost or goes to `late`, from where `ServeLate` runs it at any later time.
`done` in a clerk's record is history: has one of the copies of the Put taken
effect. The refinement mapping reads it.

**`Lock`** extends `KVServer` by `lock.go`: `Acquire`, `resync` and `Release`
call the clerk, and each has an action for what it does with the answer. A
client's random id is the client itself. `found` is history: the client learnt
from `resync` that it owns the lock.

### Replicated key/value service

**`RSM`** composes `rsm.go`, `kvraft1/server.go` and `kvraft1/client.go` over an
abstract Raft: commands are proposed at an index (`Submit`), one is decided for
each index (`Decide`), and every server is handed the decided ones in order
(`applyCommand`), or a snapshot (`Restore`). That is `ReplicatedLog`, with the
proposals of deposed leaders made visible. A waiting `Submit` is found by
(id, server, index), as in `constructKey`. `MakeRSM` is a crash and restart
from the stored snapshot; `Restore` decodes into the existing map, as gob does.
`strayed` is set when that leaves anything but the snapshot, or when a restarted
server, whose ids begin at 0 again, gives out a key that was used before. The
runs claim nothing beyond such a point (section 6).

### Sharded service

**`ShardCfg`** holds the configurations as operators. `CheckConfig` states the
balance the tests ask for; `FewestMoves` adds that no shard is moved that need
not be.

**`ShardGrp`** is `DoOp` of a shard group. The replicas of a group are one
machine, which is what `RSM` shows of them. A shard holds one key. A nil map,
which `Install` stores when it is given no state, is kept apart from an empty
one: Go panics when it writes to it.

**`ShardCtrler`** runs several controllers, one action for each call of their
clerk. Put answers are those `KVModel` allows, `ErrMaybe` among them if
`LostReplies`. Of `lockVersion` only its distance from the server's version is
kept. `NoResponse` is a group's clerk giving up; its operation is lost or goes
to `late` and may run at any later time. `strayed` is set when a controller
reads two configurations that are two apart, or goes on with the next shard
without having moved the one before.

**`ShardKV`** adds the clients: the sharded clerk (`QueryGroup`, `WrongGroup`)
around the group's clerk (`Serve`, `Retry`), and the composed specification.

### MapReduce

**`MapReduce`** has the coordinator's handlers, the requeue goroutines
(`Requeue`), and workers that read and rename one file per step and may crash
between any two. What the coordinator keeps for maps and reduces is indexed by
the kind. `repeated` is history: a finished task was handed out again.

### Network and server processes

**`Labrpc`** follows the calls to one server name through `processReq`.
**`Daemon`** composes it with the demultiplexer and the process behind the name:
`put`, `WriteCall` and `reply` are the steps of `SendReceive`; `ReadError`,
`TakeOutstanding` and `FailOutstanding` those of its reader; `StartDaemon`,
`Register`, `ShutdownServer`, `CloseForwarding`, `CheckpointPersister` and
`kill` those of the tester. The server in the process is any that persists
before it answers or sends, as Raft does.

The theorems are in `RaftLogProofs`, `RaftProofs`, `ElectionProofs`,
`KVServerProofs`, `LockProofs`, `MapReduceProofs` and `DaemonProofs`.

## 3. Runs

Raft runs have three peers, the fewest in which a majority can do without one.
`MaxTerm` limits elections, `MaxIndex` the log, `MaxInFlight` the messages under
way at once; with one message under way the steps of different leaders still
interleave, since any step may come between a message and its handler.

| Run | Instance | Shows |
|---|---|---|
| `replication` | 4 terms with one proposal each, 2 entries, 1 message, two candidates; 519 k states | `LeaderCompleteness`, `LogMatching`. Four terms is the least in which an entry of an old term can be on a majority and be overwritten. |
| `crash` | 2 terms, up to 2 entries, 2 messages; one peer may campaign in both terms and another in the second, entries reach these two, the third votes; all three may restart at any point; 156 k | `ElectionSafety`, `VoteOncePerTerm` and the inductive invariant `ElectionInv`; `CommittedIsDecided`; `CommitNeverRetreats` (`updateCommitIndex` assigns the median of `matchIndex` unguarded, replies for overlapping ranges arrive in either order, and the median never falls below `commitIndex`). |
| `snapshot` | 2 terms, 2 entries, one proposal per term, leader and one follower apply and snapshot at both indices, the leader restarts and is elected again; 195 k | `TypeOK`, `AppliesInOrder`, `NoPanic`, `ImplementsReplicatedLog`: with one candidate no interleaving of `applyTicker`, the service, `Snapshot` and `InstallSnapshot` skips, misorders or misreads an entry. |
| `lock` | 2 clients, versions to 4 (two full turns), 2 late requests; 318 k | `LockTypeOK`, `MutualExclusion`, `ReleaseFrees`, `ImplementsKVModel`. |
| `mapreduce` | 2 maps, 2 reduces, 2 workers of which one may crash; 515 k | `TypeOK`, `QueueHasRoom`, `CountsExact`, `OutputComplete`, `EventuallyDone`. |
| `rsm` | 2 servers, 2 clients, 2 log entries, a submit per server and life, one crash; 502 k | `ReplicasAgree`, `OwnAnswer`, `ImplementsKVModel`. |
| `controllers` | 2 controllers that change the configuration and recover, 2 shards, 2 groups, 3 configurations, a late operation, lost replies; 981 k | `OneOwner`, `ConfigMoved`, `OneAhead`; `RebalanceMinimal`, also from every configuration of 4 shards and 3 groups and of 2 shards and 4 groups. |
| `shards` | 1 controller, 1 client, 2 shards that move there and back, versions to 1, a late operation; 218 k | `TypeOK`, `NothingLost`, `ImplementsKVModel`. |
| `daemon` | 1 end with 1 call, 2 requests of the server, 2 lives; 45 k | `AckSaved`, `SentSaved`, `EventuallyReturns`, `EventuallyAnswered`. |
| `catch_up`, `panic`, `shards_lost` | see section 4 | end in a counterexample |

Why the bounds are enough for the hazards in question: a second client, a second
controller, a second life of a server and one late request are each what it
takes for a stale step to meet a fresh one; versions and terms go at least one
round beyond the first such meeting. What does not depend on a bound is proved
(section 5) where the prover reaches.

In `crash` entries reach the two peers that may lead. A leader and one follower
are a majority, so this follower's replies, in whatever order they arrive,
decide the median; the third peer decides elections.

Deadlock is not checked: a system that has used up its bounds stops, and a
reconciled pair, a finished job and a tester that has killed its last server
have nothing left to do. That nobody waits for ever is stated as liveness, and
as `QueueHasRoom` for the one send that could block under a lock.

Constraint `OnCourse` of `rsm`, `controllers` and `shards` stops at states in
which the history variable `strayed` is set; section 6 says what happens there,
and `shards_lost` shows one such behaviour. Constraint `VersionsKnown` of `rsm`
and `shards` is the assumption on clients of section 2; without it TLC refutes
the refinement in `shards`. The clients of `rsm` put version 0 only.

Fairness is assumed in three modules.

* `CatchUp`: weak fairness of the exchange, because `runHeartbeatCycle` repeats
  for as long as the peer leads and the module considers a period without
  crashes and losses.
* `MapReduce`: weak fairness of each worker's work, which is a loop without
  conditions, and of each timer. `Crash` ends a worker's obligations. A worker
  that sleeps and one that asks again are told apart, so fairness does not
  force a worker's timing.
* `Daemon`: weak fairness of each call's goroutine in the network and the
  demultiplexer, and of the readers. Nothing is assumed of handlers, which may
  hang, nor of the tester.

Each property is shown to be able to fail: `PROJECT.json` names for each a
mutation of the code (a vote given twice, a log not persisted, the current-term
rule dropped, a Put that ignores versions, a timer that goes on, a channel found
by index only, a shard that serves while frozen, a server that forwards after
its checkpoint, ...) under which TLC finds it violated.

## 4. Findings

Three runs end in a counterexample, each against a statement in the repository.

1. `catch_up`: `src/README.md:33-35` has a lagging follower reconciled in
   O(terms) round-trips. A follower that has compacted everything it holds and
   lacks the last entry of a leader which has compacted less rejects the
   leader's first `AppendEntries` with the index of its snapshot. The leader
   goes back to that index, so that its `prevLogIndex` is one below the
   follower's snapshot, and is rejected with the same index for ever
   (`raft.go:447`). New commands do not help, as `prevLogIndex` stays where it
   is; a snapshot of the leader's own, or a new leader, does.
2. `panic`: `InstallSnapshot` does not adopt a higher term (Figure 2's rule for
   all servers), so a deposed leader that takes its successor's snapshot keeps
   leading its old term with a log that begins behind the indices its late
   replies talk about, and `updateCommitIndex` indexes the log below zero.
3. `shards_lost`: `changeConfiguration` reads the current configuration and the
   one to apply in two calls. A controller that is overtaken between them may
   hold configurations that are two apart. It asks a group to freeze a shard
   that has already left it; the refusal carries no state, `moveShardToGroup`
   goes on with it, and `Install` puts a nil map over the shard. A Put that was
   acknowledged is gone.

## 5. Proofs

TLAPS checks these for all values of the constants, under the named assumptions
of the modules: `Nil` is not a value (nor a peer), bounds are naturals, the set
of peers is finite and not empty, the lock's values are the clients and
`Available`, there is at least one map and one reduce.

* **`RaftProofs!TypeCorrect`**: `Spec => []TypeOK`. `TypeOK` is inductive as it
  stands. The work is in showing that a log never loses its placeholder:
  `MergeType` (the merge cuts behind the entry that passed the consistency
  check), `TrimType`, `InstalledType`, and `FailedIndexType` for the minimum in
  the conflict reply. `LeastNatural` (a nonempty set of naturals has a least
  element) is derived from the well-foundedness of finite sets under inclusion.
* **`ElectionProofs!ElectionInvariant`**: `Spec => []ElectionInv`.
  `ElectionSafety` is not inductive, as it says nothing of the votes that are
  still under way. `ElectionInv` adds that the disk holds what memory holds
  (`DiskHoldsVotes`), that votes are asked for and granted only in terms the
  candidate voted for itself (`AskedAsCandidate`), that a voter remembers its
  vote while it stays in the term (`VotesAreKept`), that no vote serves two
  candidates (`VotesAreUnique`) and that a leader has counted a threshold of
  them (`LeadersWereElected`). One lemma per action; most actions are
  `SilentStep` or `FollowerVotes`, and `CandidateElection`, `VoterElection` and
  `CountElection` carry the argument.
* **`ElectionProofs!VotesOutliveCrashes`**: `Spec => VoteOncePerTerm`, from the
  same step lemmas.
* **`ElectionProofs!OneLeaderPerTerm`**: if the number of peers is odd,
  `Spec => []ElectionSafety`, from `ElectionInv` and the fact that two
  thresholds intersect (`QuorumsIntersect`).

* **`KVServerProofs!KVInvariant`** and **`KVRefines`**: `KVSpec => []KVInv`, where
  clients call anything at any time, and
  `KVSpec /\ []VersionsKnown => ImplementsKVModel`.
  `KVInv` says that of the copies of a Put one at most has taken effect, that
  the key has then passed its version, and that a clerk which has not repeated
  itself knows which way it went. It is needed because the mapping alone does
  not exclude that a late copy takes effect a second time: its version rules
  that out. One lemma per action shows the invariant kept (`SendInv`,
  `ServeInv`, ...) and one that the action is a step of `KVModel` or none
  (`SendRefines`, `ServeRefines`, ...). Under `VersionsKnown` no Put is answered
  `ErrNoKey` (`NoKeyStep`), and a Put that has returned can only take effect
  late if its answer was `ErrMaybe` (`ReturnRefines`).
* **`LockProofs!LockInvariant`**, **`LockMutualExclusion`**,
  **`LockReleaseFrees`**, **`LockType`**, **`LockRefines`**. `MutualExclusion`
  alone is not inductive: a Put under way may yet take the lock. `LockInv` says
  that the key's version is odd exactly while somebody owns the lock and that
  Puts which take it bear even versions, so that only the owner's own Put to
  give it back can match an odd one. Per client it is a predicate of the
  client's own state, its Puts and the key (`ClientI`); lemmas about that
  predicate (`AcquireI` to `OtherEffectI`) carry the argument and the action
  lemmas apply them to the acting client and to the others. `LockRefines` needs
  no assumption on clients: `LockInv` implies `VersionsKnown`
  (`LockVersionsKnown`).
* **`MapReduceProofs!MRInvariant`**, **`MRType`**, **`MRQueueHasRoom`**,
  **`MRCountsExact`**, **`MROutputComplete`**, **`MRDone`**. `QueueHasRoom` follows from `Scheduled`
  (no task is queued twice or while its timer runs) by counting: a queue
  without repetitions that lacks a task is shorter than its capacity
  (`RoomInQueue`). The other three need that finished maps have written every
  bucket and that running reduces began after the last map.
* **`DaemonProofs!DaemonInvariant`**, **`DaemonAckSaved`**,
  **`DaemonSentSaved`**: any number of ends, calls and lives. The invariant ties
  the server in the network to the last process and what that process has
  answered or is about to send to its disk.

Only model-checked: log matching, leader completeness, the refinement of
`ReplicatedLog`, the ordering of applied commands, everything in `CatchUp`,
`RSM` and the shard modules, and all liveness, which is out of the prover's
reach.

## 6. Known limits of the code

Behaviour that modelling brought to light and the properties are stated around.

* `raft.go:646`: `InstallSnapshot` accepts a snapshot older than `lastApplied`.
  The service is taken back and is handed commands a second time, in order;
  `ReplicatedLog!Restore` allows it.
* `raft.go:85`: `(n+1)/2` is not a majority of an even number of peers.
  `OneLeaderPerTerm` assumes an odd number.
* `kvsrv1/client.go:83`, `shardkv1/client.go:95`: a Put for a nonzero version of
  a missing key is answered `ErrNoKey`, which the tests' model rejects and after
  which a late copy may still take effect (`VersionsKnown`, section 2).
* `lock.go:46`: a client that learns of its own success from `resync` stores a
  version that is one too high. Its `Release` is refused, nobody looks at the
  answer, and the lock stays held until the same client acquires again
  (`found` in `ReleaseFrees`).
* `coordinator.go:121`, `136`: a requeued task that is completed late is still
  in the queue, is handed out again and counted twice (`repeated`). `Done` may
  then be true early, or `finishedMaps` pass `totalMaps`, after which no reduce
  is ever handed out. `coordinator.go:64-65` calls `Done` "to find out if the
  entire job has finished".
* `kvraft1/server.go:105`: decoding a snapshot into a map that is there keeps
  keys the snapshot lacks, and `rsm.id` begins at 0 after a restart, so that a
  key of `results` may be used twice (`strayed` in `RSM`). The first
  needs a server that is taken back (first item above), the second a restarted
  leader that is given an index it had used before.
* `shardctrler.go:243`: a controller that finds the lock its own stores a
  version that is one too high, so a superseded controller may be let back in
  and pass over the shard it had given up (`strayed` in `ShardCtrler`).
* `daemonsrv.go:160-162`: the comment says that closing `rpcs` stops replies.
  It stops new connections only; replies are stopped by `isServerDead`
  (`AckSaved` holds because of that test and the order of `ShutdownServer`).

## 7. Not modelled

* The slice aliasing between `rf.log` and the entries a `sendEntries` goroutine
  encodes after the lock is released (hazard at `raft.go:563`): a request
  carries the entries it was started with.
* The order of `raft.Make` and the reading of the snapshot in `MakeRSM`
  (`rsm.go:82`), and a result channel that is filled twice (`rsm.go:159`):
  starting and handing over a result are single steps of `RSM`.
* Late duplicates of the controllers' lock Puts at the key/value server: in
  `ShardCtrler` a Put takes effect while its call is under way.
* Snapshots of a shard group's replicas, which are those of `RSM`.
* Time: timeouts, sleeps and the election timer are nondeterminism.
* Encoding (`labgob`), reflection and statistics in `labrpc`, framing in
  `tester1/demux/transport.go`, the tester's configuration, annotations and
  history checking, the MapReduce applications, the counter service that tests
  RSM, and the command line programs: no state that the properties speak of.
