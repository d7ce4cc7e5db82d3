# Verification of Tesseract

TLA+ specifications, TLC configurations and TLAPS proofs for Tesseract, a vector
database in Rust: a tiered storage engine with a write-ahead log
(`tesseract-storage`), an ANN index (`tesseract-index`), a query language
(`tesseract-vql`), a cluster layer with sharding, replication and failover
(`tesseract-cluster`) and HTTP/gRPC front ends (`tesseract-api`).

The project covers the part of the system whose failure loses data (write-ahead log,
storage engine with its hot and cold tier, replication), the cluster node (elections,
failover, shard table, registry, distributed search and insert forwarding), the
search side of the engine (HNSW graph, hot buffer, Merkle tree and their files) and
the path of a request from the front ends through parser, planner and executor.
`PROJECT.json` lists components, runs, mutants, the source lines behind each
definition, findings, hazards and theorems.

## Inventory

| Component | State | Operations | Interacts with | Hard behaviour | What makes it correct |
|---|---|---|---|---|---|
| Write-ahead log (`wal.rs`) | segment files, `checkpoint.bin`, merged files; current segment behind a tokio mutex; atomic `next_txn_id` | `open`, `append`, `flush`, `recover`, `compact`, `write_checkpoint` | called by the engine | ids drawn before the lock; crash between write and fsync; torn entries; failed writes; rotation; ids restarting after a checkpoint; write errors reported by a later call | an acknowledged durable operation is recovered; fast mode loses a bounded number; recovery skips only what was flushed; `append` always returns |
| Storage engine (`engine.rs`) | log, hot store, cold store, index, caches | `open`, `insert`, `get`, `search`, `recover`, `apply_replicated_entry`, `shutdown` | every other part of the crate, replication, API | concurrent inserts that evict; handlers dropped at an await; crash between log and tiers; replay into a bounded store; shutdown order | an acknowledged record is in some tier and in the index, now and after a restart |
| Hot store (`hot_store.rs`) | concurrent map, capacity | `insert`, `get`, `delete`, `drain_least_accessed` | engine, lifecycle | capacity check and insertion are two steps; draining is many | bounded; nothing drained twice |
| Cold store (`cold_store.rs`) | batch files, `meta.json`, `manifest.json`, map of partition metadata | `open`, `write_batch`, `read_partition` | engine, lifecycle | five steps with the lock taken twice in between; files written in place | a recorded batch is never overwritten or forgotten |
| Tier lifecycle (`lifecycle.rs`) | a background task | promotion, demotion | hot and cold store, skeleton | runs beside clients that evict | moves records, never loses them |
| Page cache, skeleton | LRU map; centroids | insert; add | engine, lifecycle | none that another part can see: nothing reads them back | bounded |
| Replication (`replication*.rs`) | queue of entries, per-replica last acknowledged id and state, behind two locks | `record_entry`, `add_replica`, `remove_replica`, `pending_for_replica`, `ack`, `trim_acked`, `replication_lag`; `handle_replicate` on the follower | WAL on the leader, engine on the follower, failover | lost, repeated, delayed and reordered messages; locks released between read and update; rejoining and restarting followers | an acknowledgement covers a prefix; the lag is never an understatement |
| Leader election, failover (`leader_election.rs`, `failover.rs`) | per-shard state and last heartbeat; monitoring task; replication engine per shard | `set_leader`, `become_candidate`, `win_election`, heartbeats; `check_and_failover`, `promote_to_leader` | replication lag, shard table | every lock is released between two steps of a promotion; `set_leader` and a second promotion come in between; one node decides alone | no shard stuck as candidate; what is led is routed here; an eligible follower of a silent leader is promoted |
| Shard table, registry, cluster state (`shard_manager.rs`, `discovery.rs`, `cluster.rs`) | assignments; node infos with heartbeats; two election objects | `assign_shard`, `remove_node`, `register`, `heartbeat`, `check_heartbeats`; `join`, `leave` | coordinator, failover, status endpoints | operators and peers change both while tasks use them | a dead node comes back only by itself |
| Query coordinator, cluster API (`query_coordinator.rs`, `api.rs`) | none of its own | fan-out, merge; insert forwarding; internal handlers | shard table, registry, engines of the peers | timeouts, silent peers, error answers, peers without storage | best k of the shards that answered; every search ends; a client is told the truth about its insert |
| HNSW index (`hnsw.rs`, `topological_index.rs`, `serialization.rs`) | layered graph with tombstones, entry point; a file | insert, search, remove, save, load | engine | long sequences of inserts that shrink edge lists; replacement of a vector in place; a log replayed over a saved graph | edges in range and bounded; small graphs complete; contents are the log's |
| Merkle tier (`merkle/*.rs`) | hot buffer; tree of clusters; a file | insert, drain, merge, split, search, save, load | engine | merge at capacity under two locks and a flag | nothing lost or counted twice; sizes, ids and hashes consistent |
| VQL (`grammar.rs`, `planner.rs`, `executor.rs`) | none | parse, plan, execute | engine, episodic memory, embedding | repeated clauses, budgets, merge branches that see different states | pages tile; a query ends in time |
| Topological bias, episodic memory (`topological.rs`, `episodic.rs`) | running sums, Welford statistics, buckets; footprints | update, shift of the query | engine insert, executor | three locks, inserts dropped in between, vectors of the wrong length | trackers exact |
| HTTP and gRPC API, authentication, rate limiter, embedding (`tesseract-api`, `embedding.rs`) | windows per address; result channels; retries | middleware, handlers, `shutdown_signal` | executor, engine | fixed windows that touch; clients that leave; slow readers; silent services; shutdown with requests open | limit, entitlement, ordered streams, bounded retries, shutdown completes |

How the parts meet: `StorageEngine::insert` appends to the WAL, then puts the
record into the hot store, evicting to the cold store when full, then into the
index. The lifecycle task works on the same two stores. On `open` the WAL is
replayed into hot store and index. On a shard leader each mutation is also handed
to a `ReplicationEngine`; followers apply batches with `apply_replicated_entry`,
without logging them. Failover asks the replication lag whether this node may
become leader, and writes the shard table that the coordinator and insert forwarding
read. A search over the cluster asks the engine of each shard's leader; a query of
the API goes through parser, planner and executor to the engine's search, which asks
graph, buffer and tree.

## Modules

| Module | Models | Checked by |
|---|---|---|
| `WAL` | `wal.rs` | `MCWAL` (two configurations), `WALProofs` |
| `StorageEngine` | `engine.rs`, `hot_store.rs`, `cold_store.rs`, `lifecycle.rs` | `MCStorageEngine` (two configurations), `StorageEngineProofs` |
| `Replication` | `replication.rs`, `replication_client.rs`, `replication_handler.rs` | `MCReplication` (two configurations), `ReplicationProofs` |
| `LeaderElection`, `ShardManager`, `Failover`, `QueryCoordinator` | the files of these names, `discovery.rs`, `api.rs` | through `Cluster` |
| `Cluster` | `cluster.rs`, `cluster_node.rs`: composes the four above | `MCCluster` (three configurations), `ClusterProofs` |
| `ScatterGather` | what a distributed search promises: an abstract specification | `Cluster` implements it (`ScatterGatherPromise`) |
| `Hnsw`, `MerkleIndex` | `hnsw.rs`, `distance.rs`, `merkle/*.rs` | through `VectorIndex` |
| `VectorIndex` | index, buffer, tree and their files in `engine.rs`, `serialization.rs` | `MCVectorIndex`, `VectorIndexProofs` |
| `Vql`, `QueryPlanner`, `TopologicalBias`, `EpisodicMemory`, `QueryExecutor` | the query language and its execution | through `QueryService` |
| `RateLimiter`, `Authentication`, `Embedding` | the files of these names | through `QueryService` |
| `QueryService` | `http.rs`, `grpc.rs`, `main.rs`: composes the eight above | `MCQueryService` (two configurations), `QueryServiceProofs` |
| `Ranking`, `ClusterConfig` | shared sorting and cutting of result lists; shared constants | `RankingProofs` |
| `InductionFacts` | induction over the naturals, stated for sets | TLAPS |
| `RankingProofs` | what sorting, deduplication and cutting leave of a list | TLAPS |
| `WALProofs`, `StorageEngineProofs`, `ReplicationProofs`, `ClusterProofs`, `VectorIndexProofs`, `QueryServiceProofs` | theorems about the modules of these names | TLAPS |

Definitions called "Mutant of ..." are plausible bugs. They are in no
specification; replacing the named definition by one must break a property.

### WAL

A segment is a sequence of entries and of `Torn`, the bytes of an entry only partly
written; `stable` is the length of its fsynced prefix. `append` is split where other
tasks can run: `Assign` (the atomic counter), `Rotate` or `Write` (under the mutex,
which is held while `pc` is `rotated` or `written`), `Finish` (fsync if due,
acknowledge), and the error exits `RotateError`, `WriteError`, `FsyncError`.
`tokio::fs::File` writes behind: `write_all` hands the bytes to a background thread
and succeeds, and a failure waits in `lateError` for the next call on the file, which
returns it (`ReportError`) without having written or fsynced anything itself. That
call may be another writer's append, a rotation or a `flush`; until then the operation
whose bytes are missing counts as acknowledged. `Crash` keeps at least the fsynced
prefix of each file, then whole entries in order, then perhaps a torn one; a process
kill and a power failure differ in what is stable afterwards, and both are allowed.
`Open` appends to the newest segment as it finds it and restarts ids after the
checkpoint, as the code does. `write_checkpoint` has two steps, because the file is
emptied first, and an error exit; so has `compact`, after its read, its rename and
each removal. A checkpoint's caller may vouch for ids of appends that have returned
only. The history variables `ackedDurable`, `ackedFast`, `flushed`, `removed` and
`failedLate` say what callers were told.

Abstractions: an entry has size one (`SegmentSize` counts entries); after `Torn`
nothing can be parsed (a CRC collision is ignored); one compaction and one checkpoint
run at a time, as neither has a caller outside tests. There is no timed fsync in the
model, as `fsync_interval_ms` is configured and documented but never read: a fast
append is fsynced only by later operations. `FastLossBounded` is what fast mode
promises: fewer than `fsync_interval_ops` acknowledged operations are missing on disk
without anybody having been told. Of the writes whose failure a later caller was told
of there is no bound, as that call's fsync resets the counter while nothing writes
them again.

### StorageEngine

The log is the sequence of ids that `recover` would return. That it behaves so -
an append adds to it, a crash cuts it at or after the fsynced prefix - is what
`WAL` establishes, apart from its listed exceptions. Every client and the
lifecycle task has a program counter; both share `write_batch`, which is
`PeekBatchNum`, `WriteBatchFile`, `UpdateMeta`, `WriteMetaFile`, `WriteManifest`,
with `WriteBatchError` at each of them. A file write that fails or is interrupted
may leave a cut-off file (`CutOff`). A server drops the handler of a client that has
gone, at the await it is in: `DropHandler` ends an insert in any step of `write_batch` or
before the index, and a file write it had begun goes on by itself (`orphans`,
`OrphanWrite`), perhaps after other calls. `HotStore::insert` is `CheckCapacity` and
`Put`; `drain_least_accessed` is a choice of ids and their removal. `Open` loads
manifest and metadata, replays at most `HotMax` distinct ids into the hot store
and all of them into the index; `OpenError` is an open that fails for good.

`Safe` is what `get` finds in the hot store or in a batch that the metadata counts
(`Recorded`). `NoSilentLoss` accounts for every acknowledged record: it is in `Safe`, in
the hands of a task that moves it, or in one of the losses the code has, each of which
has a history variable:

* `failed`: drained by a call of `write_batch` that returned an error;
* `abandoned`: drained by an insert whose handler was dropped in `write_batch`;
* `replaced`: in a batch of a `contested` partition, one where a call was given its
  batch number while another call, or the late write of a dropped one, still had to
  use its own;
* `dropped`: in the log, and `open` found no place in the hot store and no batch with
  it (`let _ = hot.insert`, `engine.rs:618`).

That there are no others, for any number of clients, is what is checked and proved. The
losses themselves are not excused by it: the last disagrees with
`openspec/specs/hot-tier/spec.md:72`, which asks that a replay produce the state before
the crash, and records are removed from the hot store before the cold store has them
(`engine.rs:292`, `lifecycle.rs:128`) although `hot-tier/spec.md:61` asks for the
opposite order. A whole batch file that the metadata does not count is not `Safe`,
although `get` reads it: after a crash between the batch file and `meta.json` the next
`write_batch` takes its number again. `BatchesImmutable` makes the same exception for
contested partitions and no other.

Abstractions: a record is its id; the drained ids are arbitrary, since
`access_count` is never changed; cold files are not fsynced by the code, and
files completely written are taken to survive; vectors that do not fit the index
are the ids in `Misfits`; graph and Merkle tier are in `VectorIndex`, the trackers
in `QueryService`; page cache and skeleton carry nothing that another part reads.

### Replication

An entry is its transaction id. Every action is one critical section of the code:
`record_entry` is `RecordPush`, `RecordReadMax`, `RecordUpdate`; `pending_for_replica`
is `SendRead` and `Send`; `ack` is `AckRead` and `AckUpdate`; `trim_acked` is
`TrimRead` and `TrimRetain`. Requests and responses are never taken from their sets,
so each may arrive never, once or often, in any order. `lost` records the entries a
follower lacks for a reason outside the protocol's promise: they were trimmed, or
about to be, when it was added, or it restarted; `overtaken` are the entries queued
behind a larger id, as two writers draw their ids before they queue. What is said of
acknowledgements and lag is said of the other entries; `AckCoversPrefix`, without the
exception, fails. The code that calls `pending_for_replica`, `replicate` and `ack` in
a loop is not in the repository; any order of these calls is allowed. `Bounds` holds
the histories to explore: which writers write, which followers may join, how often
membership changes and how often a follower restarts.

### Cluster

One node, `Self`, and the peers as they appear to it. `ClusterState::new` makes two
election objects; `LeaderElection` is extended once, with the variables of the
failover manager's, and instantiated once more for the one the status endpoints
read. A failover pass is a task: the monitoring loop and a caller of
`check_and_failover` or `promote_to_leader` run through `Tick`, `CheckTimeout`,
`CheckEligible`, `Campaign`, `Win` or `Lose` and `Promote`, one action per lock
section, so that `set_leader`, the registry and the other task come in between.
Instants are abstracted to "within the timeout or not", the lag to "within the
bound, behind, or unknown".

A search is a snapshot of the leaders and one task per shard (`SearchShard`, the
peer's answer or failure, `ShardTimeout`), then `Collect`, with the order of the hash
map a choice. A peer answers an insert only if it has storage. An insert follows
`handle_forward_insert` exit by exit; its status code is what the client is told. The
shard of an id is the constant `ShardOf`, as jump hash computes in floating point.
`stored` is what each node's engine would find, with its distance (0 stands for an
absent id), or nothing for a node without storage. The assumptions say that there are
finitely many shards and ids, and that ids are numbers: they are `u64`, and a store
lists its ids in an order.

`ScatterGather` says what a search owes without saying how: it waits for every shard,
then returns the distinct ids of highest score, flagged partial exactly when a shard
did not answer. `IsTopK` says what that means without a sorting algorithm: each id
once, with its best score and in descending order, no missing id better than a listed
one, and none missing at all unless `Limit` are listed. The mapping takes a spawned or
asked shard for a pending one; an error answer that parses counts as an answer, in the
code as in the mapping. The promise is about the shards of the table: that a shard may
be missing from it without the answer being partial is `cluster_unassigned`.

### VectorIndex

`Hnsw` has the graph as sequences indexed by node, as in the code: ids, vectors,
tombstones and one edge list per layer. Search with its candidate and result heaps
is a recursive function over the same steps; `random_level` is a choice up to
`max_allowed_level`. Vectors are points of a line with a weight, enough for
distances to tie, to be zero and to order nodes differently. `MerkleIndex` has the
phases of `insert_batch`; means are kept as sums and counts and a hash is the tuple
it is taken of. `insert` is `Insert` (log), `IndexInsert` or `IndexReject`,
`BufferAndAck`, with `InsertFails` for what can happen between log and index: an error of
the append's fsync, of `write_batch`, of the second `hot.insert` or of a poisoned lock,
or a handler dropped at an await. Its id is then `astray`, as is one that two inserts
race for: the index may not have the vector the log has last, until the id is inserted
again or the log replayed. Shutdown is `ShutdownSave` or `ShutdownFails`, then `ShutdownDrain`;
`Stop` may come anywhere and leave a file cut off; `Open` loads and replays.
The assumptions: coordinates and weights are integers, as distances are to be exact; a
vector that does not fit the index is none of them; `m`, `m_max0`, `ef_construction`
and the cluster bound are at least 1, as in every configuration the repository has;
the buffer may have capacity 0, and a search may ask for any number of results.

### QueryService

A text is given as its parts: similarity expression and clauses in order. `parse`
makes of it what the grammar does (clauses in any order, each at most once, `EN` for
`WITHIN`), `plan_to_tree` the chain of plan nodes, `execute_plan` runs it. Numbers
are integers: scores and footprints in hundredths, costs in thousandths of a
millisecond, Welford's means and moments times the number of observations, where they
are whole numbers for every number of observations. Every
await of a handler is a stage of its request; `ClientLeaves` drops the handler there.
A vector has a length and its number in one dimension, `Followed`: the trackers run
before the index compares the length with its own (`engine.rs:251-275`, `314`), so a
short one adds nothing to the sums and is counted, a short first one fixes how many
dimensions Welford's step will go through, and two that are too long make it panic
(`TrackPanics`). The panic ends the connection's task with the lock of the correlations
held: it stays poisoned, and every insert and biased query that needs it fails from
then on (`InsertFails`, `BiasFails`). The other two locks are never poisoned, as nothing
panics while they are held. Queries keep the index's length.
The clock moves only while the HTTP client is idle, since nothing else reads it.
The assumptions on the constants are what Rust's types and the code's own checks give:
a header occurs at most once, `LIMIT`, `OFFSET` and `WITHIN` take unsigned numbers,
clicked and query vectors are normalised, `mpsc::channel` refuses capacity 0,
vector ids are numbers, and so are vectors and what `as_f64` accepts. One is the
caller's duty: the boundaries of a bucketed field are sorted, as the documentation of
`register_field` asks and nothing checks.

## Runs

| Run | Instance | States | Result |
|---|---|---|---|
| `wal` | 2 writers, segments of 2 entries, 3 segments, fsync every 2 operations, 3 appends, 1 crash | 549 k | `TypeOK`, `SealedStable`, `DurableNotLost`, `CheckpointSound`, `FastLossBounded`, `AppendReturns` hold |
| `wal_durable_torn` | the same | - | `DurableSurvives` is violated |
| `engine` | 1 client, lifecycle, 3 ids (1 misfit), capacity 1, 1 day; 3 inserts, 1 lifecycle cycle, 1 stop and 1 fault, or 4 inserts of 2 ids with a stop or a fault, or 2 cycles with neither | 2.9 M | `TypeOK`, `HotBounded`, `NoSilentLoss`, `IndexCovers`, `BatchesImmutable` hold |
| `engine_evict` | 2 clients, capacity 2, no stop, no fault | - | `NewBatchFile` is violated |
| `replication` | 2 entries; 1 writer, 2 followers and 2 membership changes, or 2 writers, 1 follower, 3 changes and 1 restart | 2.7 M | `TypeOK`, `NoGap`, `LagCovers` hold |
| `replication_order` | 2 writers, 1 follower | - | `AckCoversPrefix` is violated |
| `cluster` | 2 nodes, 2 shards, 2 ids, 3 starting states, 3 calls besides the loop | 114 k | `TypeOK`, `NoStuckCandidate`, `LeaderIsRouted`, `InsertOutcome`, `DeadStaysDead`, `ScatterGatherPromise`, `EligiblePromoted`, `SearchUnblocked` hold |
| `cluster_partial` | the same | - | `PartialReported` is violated |
| `cluster_unassigned` | the same | - | `UnassignedReported` is violated |
| `index` | 2 clients, 3 ids, 2 points and a misfit, 2 graph configurations, buffer of 2, clusters of 1, 3 inserts, 1 removal, 1 stop | 1.1 M | `TypeOK`, `GraphSound`, `MerkleSound`, `SearchSound`, `SmallGraphComplete`, `IndexMatchesLog`, `MergeConserves`, `ReopenAnswers` hold |
| `query` | 1 HTTP and 1 gRPC client, 8 texts, 5 entries of 3 lengths, 2 configurations, 3 requests, the first 2 overlapping, channel of 1, 1 retry, limit of 1 per window | 283 k | `TypeOK`, `WindowBounded`, `OnlyEntitled`, `TrackersExact`, `PagesTile`, `StreamFaithful`, `CallsBounded`, `ShutdownCompletes` hold |
| `query_rate` | 1 HTTP client, 4 requests, limit of 2 per window | - | `SlidingWindow` is violated |

What the bounds leave room for. `wal`: three appends in segments of two rotate and
leave sealed segments to compact; two writers draw ids in one order and write in the
other; a crash before, between or after them, a torn tail, and an append behind it.
`engine`: with capacity 1 every second insert evicts, the second id goes to a
partition while the lifecycle promotes it back, one stop and reopen meet every
intermediate state of the files; a fault is a failed write or a dropped handler at any
step, and the fourth insert's batch meets the late write of a dropped one. The third
id lets client and lifecycle overfill the store together. A second client makes the
state space too large for the regular run; 2 clients with 4 inserts of 2 ids and
neither stop nor fault (4.2 M states), and with 3 inserts, 1 stop and 1 fault (5.7 M),
were checked once, and the proofs are for any number. `replication`: two entries are
enough for an acknowledgement to overtake another and for a trim between the read and
the update of every other call; the second follower is what makes the lowest
acknowledged id differ from the highest. `cluster`: the starting states are an empty
cluster, one whose table and stores are set up with an id stored on both nodes, and
one without local storage or registered peers; three calls suffice to become a
follower, time out and be given a lag while the loop is in the middle of a pass, or to
run a search beside two changes of table or registry. `index`: with degree 1 the third
node makes a list shrink, with degree 2 a graph of three stays whole; two inserts fill
the buffer, a cluster of two splits. `query`: two overlapping requests meet every pair
of stages, the third starts when they are done; two vectors with the same id, with and
without the tracked fields, give the trackers something to mix up, and a vector too
short and one too long reach every tracker. The bounds are constants whose names begin
with `Max`, and the members of `Bounds`: `StorageEngine` and `Replication` explore the
union of several.

Deadlock is checked in the runs of `WAL` and `Replication`. In `WAL` the checkpoint,
`Flush` and compaction keep the log busy even when no appends are left; in `Replication`
messages can always arrive once more. In the others the bounded calls run out and the
system may rest; there, progress is the business of `EligiblePromoted`,
`SearchUnblocked` and `ShutdownCompletes`.

### Findings

* **Durable entries behind a torn one** (`wal_durable_torn`). A crash or a failed
  write leaves a partial entry at the end of the newest segment. `open` appends
  behind it, and recovery stops at it. `DurableNotLost` shows that this, a
  checkpoint and compaction are the only ways to lose a durable operation.
* **Batches overwritten** (`engine_evict`). The comment in `cold_store.rs` relies
  on the lifecycle to serialise flushes; evictions run in the clients' tasks, peek the
  same number and replace a file that `get` reads. A crash between the batch file and
  `meta.json`, and the late write of a dropped handler, have the same effect.
* **Entries skipped in replication** (`replication_order`). Two writers may queue
  entries out of id order; a follower that acknowledged the later one is never
  sent the earlier one. `NoGap` shows that these are the only gaps.
* **Failed shards count as answers** (`cluster_partial`). The coordinator does not
  look at the HTTP status of a peer, and a peer that cannot search answers 500 with an
  empty, parsable list; the result is not marked partial.
* **Unassigned shards are passed over** (`cluster_unassigned`). The coordinator asks the
  shards of the table only, where the shard manager's specification wants an error for
  the missing one and `partial: true`.
* **The window does not slide** (`query_rate`). The limiter counts in fixed windows: up
  to twice the limit passes within one window length. `WindowBounded` shows that it is
  never more.

Met on the way, and without a run of their own: a replay that does not fit the hot store
drops records, and draining comes before the batch write, both against the hot tier's
specification (see `StorageEngine`); `TESSERACT_SHUTDOWN_TIMEOUT_SECS`, the "Shutdown
drain timeout" of `main.rs:21`, is passed to the server in the TLS branch only
(`main.rs:195`); `fsync_interval_ms` is never read; a vector of the wrong length is
refused after it was logged, counted and stored, and can poison a lock.

### Fairness

`WAL`: `SF` on each writer's `Progress`: tokio polls a woken task, and its mutex is
handed over first come, first served, so a writer whose next step is enabled again
and again takes it. `WF` on `Open`: a closed log is opened again by its operator; the
process is not assumed to crash, to write a checkpoint or to compact. Nothing is
assumed of calls of `append`: `AppendReturns` is about those that were made.

`Cluster`: `WF` on the monitoring loop, which tokio's interval wakes for ever, and on
the timers of a search. Peers, operators and clients owe nothing: `SearchUnblocked`
holds with peers that never answer.

`QueryService`: a request at a stage where its own handler can go on moves on, unless
it ceases to be there, as handlers are polled; `WF` on the query timeout and on `Exit`.
The embedding service and the readers of gRPC streams owe nothing: `ShutdownCompletes`
holds although both may be silent. Nothing makes an HTTP client send its body, and
nothing in the code bounds the wait for it without TLS (`main.rs:200`, `210`):
`ShutdownCompletes` says so, with the premise that no client stalls its body for ever.
Answers to HTTP requests are taken to fit the socket's buffer; a client that does not
read a longer one holds the drain up the same way.

`StorageEngine`, `Replication` and `VectorIndex` state no fairness and no liveness.

## Proofs

Every theorem holds for all values of the constants that satisfy the named assumptions
of its module: any writers, clients, followers, nodes, shards, texts and bounds,
without a restriction on how many of them act at once. An invariant that a run checks
is seldom inductive, so each module first proves a stronger one.

| Module | Invariant proved | From it |
|---|---|---|
| `WALProofs` | `IInv`, `FastInv` | `WALTypes`, `WALSealedStable`, `WALCheckpointSound`, `WALDurableNotLost`, `WALFastLossBounded` |
| `StorageEngineProofs` | `LInv` | `EngineTypes`, `EngineHotBounded`, `EngineIndexCovers` |
| | `CInv` | `EngineNoSilentLoss`, `EngineBatchesImmutable` |
| `ReplicationProofs` | `TInv` | `ReplicationTypes` |
| | `IInv` | `ReplicationNoGap`, `ReplicationLagCovers` |
| `ClusterProofs` | `CInv` | `ClusterTypes`, `ClusterNoStuckCandidate`, `ClusterLeaderIsRouted`, `ClusterInsertOutcome`, `ClusterDeadStaysDead` |
| | `SearchInv` and `CInv` | `ClusterScatterGather`: the refinement of `ScatterGather` |
| `VectorIndexProofs` | `TypeInv` with `Sound` graphs | `VectorIndexTypeOK`, `GraphAlwaysSound`, `SearchAlwaysSound`, `SmallGraphAlwaysComplete` |
| | `LogInv` | `IndexAlwaysMatchesLog` |
| | `SealInv` | `ReopenAlwaysAnswers` |
| | `TreeInv` | `MerkleAlwaysSound`, `MergesAlwaysConserve` |
| `QueryServiceProofs` | `ServiceInv` | `ServiceTypes`, `ServiceWindowBounded`, `ServiceOnlyEntitled`, `ServiceStreamFaithful`, `ServiceCallsBounded` |
| | `TrackersFit`, `WelfordFit` | `ServiceCentroidsExact`, `ServiceWelfordExact`, together `ServiceTrackersExact` |
| | - | `ServicePagesTile`: for every index and statistics |
| `RankingProofs` | - | `SortDedupTruncate` |

**WAL.** `IInv` has these parts:

* `Mutex`, `DownQuiet`: one writer at a time is past the lock, and a closed log has
  no calls in progress; without them a second writer could rotate between the
  first one's write and its fsync.
* `CurNewest`: writers append to the newest file and compaction touches older ones
  only; without it a sealed segment could grow again.
* `StableLen`, `SealedStable`: the fsynced prefix is within the file, and is all of
  it once a newer one exists.
* `IdsAboveCheckpoint`: ids in flight lie above the checkpoint on disk and the one
  being written, and below the next id. This is what makes a checkpoint that
  overtakes an append harmless, and what keeps `Open`'s restart of ids sound.
* `InFile`: a writer about to fsync finds its entry in the current segment, so its
  acknowledgement is for something that is there.
* `FlushedBelow`: `CheckpointSound`, also for the checkpoint being written.
* `DurableOnDisk`: a durable acknowledgement is an entry of a fsynced prefix, until
  compaction removes its file.

`FastInv` bounds the acknowledged operations that are not on disk and that nobody was
told of by the counter `ops_since_fsync`: each was counted, and is in a file, or its
failed write is the one in `lateError`. An fsync can reset the counter only after it has
reported that one. The counter itself has no bound: a failed fsync leaves it at the
interval, and the next operation raises it further. It is the acknowledgements that
stay below the interval, since the operation that meets a failing fsync gets an error.

**StorageEngine.** `LInv` holds for any number of clients. Its parts are the types and
roles of the tasks; `FilesCounted`, no count exceeds the files that are there, and a
task about to write one numbers it at most one higher; `DownQuiet`; `Logged`, what is
acknowledged or in an insert's hands is in the log; `IndexCovers`; and `Promised`: the
hot store and the records that passed the capacity check but are not yet in exceed the
capacity by at most one per task, which gives `HotBounded`. `CInv` adds `Alone`, in a
partition that is not contested a call with a batch number is the only one, late writes
of dropped handlers included, and its number is still the next; and `Kept`, what is
acknowledged or about to be is in a tier, in a task's hands or in one of the named
losses. A call that overlaps another makes the partition contested in the same step, so
`Alone` survives any number of clients.

**Replication.** `QueueOrdered` says that an entry not overtaken is above all before it
in the queue. The rest of `IInv` says of a sender's read, of each request and response
under way and of the trimmer's minimum that it reaches no further than what the
follower has of the entries in order, or lost for the reasons `lost` records.
`LagCovers` follows, as the entries a replica lacks have distinct ids between the last
acknowledged and the highest recorded one; it needs the queue to end with an entry in
order, whose id the lag is computed from.

**Cluster.** `CInv` ties each Candidate to the failover task that made it and each won
shard to the table or to the promotion that will write it; it has to say what each
task has read and not yet written. `ClusterScatterGather` is the whole safety part of
the refinement: `ScatterGather` states no fairness. `SearchInv` says that each task of
a search is in a state the promise can see, with an answer of the right form,
`OwnStorage` that a node that searches keeps its storage engine, and `MergeIsTopK`
that `merge_results` computes what `IsTopK` describes. That rests on
`SortDedupTruncate`, which is proved for every list and every limit: the rank of a
position is a bijection (`RankBijection`), hence sorting rearranges (`Rearranged`);
deduplication keeps the first occurrence of each id (`DedupKeepsFirst`), which after
sorting is its best.

**VectorIndex.** `Sound` is what every graph satisfies, in memory and in a whole file:
its lists have one length, ids occur once, every edge stays on its layer, the entry
point is on the top layer, edge lists keep their bounds without repetition, and
`SmallMeshed`, as long as the nodes fit `m_max0` and `ef_construction` and none is
tombstoned, every node is linked with every other on layer 0. An insertion is followed
layer by layer: what a greedy walk or an ef-search returns are nodes of that layer (a
tombstoned start included), so linking both ways and shrinking stay within `Sound`.

* `LogInv`: only logged ids are in the graph and its file, and each id that is not astray
  has its last logged vector or one insert, the last logged, about to give it.
  A replay over a saved graph that already has part of the log keeps it, since an
  insert of an id that is there replaces its vector.
* `SealInv`: after an orderly shutdown without ids astray the files hold a graph and a
  tree that answer as the engine did. Replay then only writes vectors that are there,
  so the reopened engine is the same one.
* `TreeInv`: the tree is built of sound leaves. `MergesAlwaysConserve` follows the
  counts as sums through the phases of `insert_batch`: vectors are grouped by nearest
  leaf (`GroupsAddUp`), a cluster above the bound is split in halves that add up, and
  the final order by id is a permutation.
* `SearchAlwaysSound`: each tier returns distinct ids; sorting, deduplication and
  cutting are those of `RankingProofs`.
* `SmallGraphAlwaysComplete`: with room for all nodes an ef-search never drops a
  result, and by `SmallMeshed` the first expansion meets all of them.

**QueryService.** `ServiceInv` is the conjunction of `ConnInv` (a request's stage
determines which of its fields are set and how they relate to its text, its channel
and what its client read), `InsertInv` (an insert owns the log position it counts, and
the entry there is its own), `LimiterInv` (what was admitted since the window began is
counted in it, and what was admitted before is at most one window's worth),
`FootprintsInv` (a footprint stays within [-1, 1]) and that no lock but the
correlations' is poisoned.

* `ServicePagesTile` is about the operators: two pages have plans that differ in their
  last node only, so the list before it is the same, and `PagesJoin` says that two
  touching pages of one list are the longer page.
* `ServiceCentroidsExact`: sums over the log are a recursive function along it. Logging
  an entry changes no sum, since nothing has counted it; counting it adds it to one
  tracker once, by `InsertInv`; and `bucket_index` finds the one bucket that encloses
  a number, for sorted boundaries.
* `ServiceWelfordExact`: kept times the number of observations, Welford's step makes a
  cross moment grow from n P - X Y to (n + 1)(P + x y) - (X + x)(Y + y), and its
  division leaves no remainder. The field's own statistics do not depend on lengths;
  those of a dimension follow as long as every vector counted for the field reaches it,
  and a panic changes neither statistics nor counts. The Cauchy-Schwarz inequality, which keeps a
  correlation within [-1, 1], is carried along the same step.

**Induction over data.** The library's induction rules have an operator as a
parameter, which the provers cannot instantiate. `InductionFacts` states induction for
a set of numbers instead, derived from `WFMin`, and can be cited for the set of
numbers with the property in question. What the recursive functions of the proved
modules compute, and that ranks are a bijection, is proved that way.

Proving changed the model where it said more or less than the code: `InternalReplicate`
had been allowed at a node without storage; `NoSilentLoss` counted whole files that
the metadata does not count; Welford's statistics had been exact
for a few observations only; and that bucket boundaries are sorted, which
`TrackersExact` needs, was nowhere stated.

Only model-checked: `AppendReturns`, `EligiblePromoted`, `SearchUnblocked` and
`ShutdownCompletes`, liveness under fairness, which is out of the prover's reach. Every
invariant and every action property of a passing run is stated by a theorem.

## Plan

The plan has been carried out: write-ahead log, storage engine and replication first,
then cluster and distributed search with its abstract specification, index, and the
path of a request; then the proofs of what the runs check. What could follow are the
two hazards without a property (`PROJECT.json`): a compaction whose merged file
recovery reads, and a follower's hot store that is full. In both the code has to decide
first what it promises.

## Not modelled

* Characters: the lexical side of VQL, error positions, the REPL, byte formats of
  files and messages, OpenAPI text, logging and metrics.
* Floating point beyond what the integer models keep: projections, SIMD kernels,
  NaN, rounding, and jump hash's multiplication, whose result is a constant.
* `StorageEngine::recover` on an open engine, which nothing calls;
  `apply_replicated_entry` meeting a full hot store; versions of a record in the two
  tiers.
* Page cache and skeleton, which are filled and never asked.
* The etcd adapter, the MCP server and the PostgreSQL extension: thin clients of
  other services, without state of their own.
* The health, metrics and documentation endpoints of the API, which report constants.
