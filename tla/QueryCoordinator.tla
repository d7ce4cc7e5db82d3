-------------------------- MODULE QueryCoordinator --------------------------
(***************************************************************************)
(* Distributed search and insert forwarding of one node                    *)
(* (tesseract-cluster/src/query_coordinator.rs, api.rs).                   *)
(*                                                                         *)
(* A search snapshots the assigned shards, spawns one task per shard and   *)
(* waits for all of them; each task reads the leader again when it runs.   *)
(* A shard's answer is what its leader's whole storage returns: the engine *)
(* does not know shards.  Latency is a nondeterministic timeout of every   *)
(* unfinished task.  Peers are reached by HTTP: a request or its response  *)
(* can be lost, and a peer may fail inside the handler.                    *)
(***************************************************************************)
EXTENDS ShardManager, Ranking
SeqX == INSTANCE SequencesExt

CONSTANTS Ids, ShardOf,    \* vector ids and shard_for (jump hash)
          Distances,       \* scores StorageEngine::search returns: distances
          Ef, Limit        \* results asked of a shard, and of the query
ASSUME ShardFunction == ShardOf \in [Ids -> Shards]
\* 0 stands for an absent vector, so no distance is 0.
ASSUME VectorsAssumption == IsFiniteSet(Ids) /\ Ids \subseteq Nat /\ Distances \subseteq Nat \ {0}
ASSUME LimitsAssumption == Ef \in Nat /\ Limit \in Nat

VARIABLES stored,   \* node -> id -> distance of the stored vector, 0 if absent;
                    \* <<>> for a node without a storage engine
          search,   \* the running or last search
          insert    \* the running or last forwarded insert

Result == [id : Ids, score : Distances]

HasStorage == {n \in Nodes : stored[n] # <<>>}

\* StorageEngine::search: closest first, at most ef.
StorageSearch(n) ==
  LET held == {i \in Ids : stored[n][i] # 0}
      rank(i) == Cardinality({j \in held :
                   stored[n][j] < stored[n][i] \/ (stored[n][j] = stored[n][i] /\ j <= i)})
      all == [k \in 1..Cardinality(held) |->
                LET i == CHOOSE i \in held : rank(i) = k
                IN  [id |-> i, score |-> stored[n][i]]]
  IN  Truncate(all, Ef)

NoTask == <<"none">>
Spawned == <<"spawned">>
AskedOf(n) == <<"asked", n>>      \* the HTTP request is on its way to n
Ok(rs) == <<"ok", rs>>
Failed == <<"failed">>            \* an error or the timeout

\* searched: history, shards whose leader really ran the query.
IdleSearch == [pc |-> "idle", shards |-> [s \in Shards |-> NoTask],
               answer |-> <<>>, searched |-> {}]
\* at: history, nodes that stored the vector of this insert.
IdleInsert == [pc |-> "idle", id |-> 0, dist |-> 0, leader |-> {}, status |-> 0, at |-> {}]

CoordinatorInit ==
  /\ search = IdleSearch
  /\ insert = IdleInsert

-----------------------------------------------------------------------------
\* search: no assignment at all is AllShardsFailed at once.  A coordinator is
\* always built with a storage engine of its own.
BeginSearch ==
  /\ Self \in HasStorage
  /\ search.pc # "gather"
  /\ search' = IF AssignedLeaders = {}
               THEN [IdleSearch EXCEPT !.pc = "done", !.answer = <<"AllShardsFailed">>]
               ELSE [IdleSearch EXCEPT !.pc = "gather",
                       !.shards = [s \in Shards |-> IF s \in AssignedLeaders
                                                    THEN Spawned ELSE NoTask]]
  /\ UNCHANGED <<stored, insert>>

Resolve(s, res) == search' = [search EXCEPT !.shards[s] = res]

\* search_shard: the leader is read now, not when the search began.
SearchShard(s) ==
  /\ search.pc = "gather" /\ search.shards[s] = Spawned
  /\ \/ ~Assigned(s) /\ Resolve(s, Failed)
     \/ /\ Assigned(s) /\ LeaderOf(s) = Self
        /\ \/ search' = [search EXCEPT !.shards[s] = Ok(StorageSearch(Self)),
                                       !.searched = @ \union {s}]
           \/ Resolve(s, Failed)
     \/ /\ Assigned(s) /\ LeaderOf(s) # Self
        /\ Resolve(s, IF Registered(LeaderOf(s)) THEN AskedOf(LeaderOf(s)) ELSE Failed)
  /\ UNCHANGED <<stored, insert>>

\* The peer runs internal_search_handler.  Without a storage engine, and when
\* its search fails, it answers 500 with an empty result list; the
\* coordinator never looks at the status and the body parses.
PeerSearches(s, n) ==
  /\ search.pc = "gather" /\ search.shards[s] = AskedOf(n)
  /\ \/ n \in HasStorage /\ search' = [search EXCEPT !.shards[s] = Ok(StorageSearch(n)),
                                                     !.searched = @ \union {s}]
     \/ Resolve(s, Ok(<<>>))
  /\ UNCHANGED <<stored, insert>>

\* The request or its response is lost, or its body does not parse.
PeerUnreachable(s, n) ==
  /\ search.pc = "gather" /\ search.shards[s] = AskedOf(n)
  /\ Resolve(s, Failed)
  /\ UNCHANGED <<stored, insert>>

\* Mutant: the timeout does not cover the HTTP request.
ShardTimeout_Local(s) ==
  /\ search.pc = "gather"
  /\ search.shards[s] = Spawned
  /\ Resolve(s, Failed)
  /\ UNCHANGED <<stored, insert>>

\* tokio::time::timeout(max(50, within / total) or query_timeout_ms) of the task.
ShardTimeout(s) ==
  /\ search.pc = "gather"
  /\ search.shards[s] = Spawned \/ \E n \in Nodes : search.shards[s] = AskedOf(n)
  /\ Resolve(s, Failed)
  /\ UNCHANGED <<stored, insert>>

\* Mutant: the limit is applied before duplicates are removed.
MergeResults_CutFirst(lists, limit) ==
  DedupById(Truncate(StableSort(SeqX!FlattenSeq(lists), Descending), limit))

\* merge_results: the lists one after the other, highest score first.
MergeResults(lists, limit) ==
  Truncate(DedupById(StableSort(SeqX!FlattenSeq(lists), Descending)), limit)

Responded == {s \in Shards : search.shards[s][1] = "ok"}
Total == {s \in Shards : search.shards[s] # NoTask}

\* The orders in which the snapshot, a HashMap's, may list the shards.
Orders(S) == {o \in [1..Cardinality(S) -> S] : \A i, j \in DOMAIN o : o[i] = o[j] => i = j}

Collect ==
  /\ search.pc = "gather"
  /\ \A s \in Total : search.shards[s][1] \in {"ok", "failed"}
  /\ \/ /\ Responded = {}
        /\ search' = [search EXCEPT !.pc = "done", !.answer = <<"AllShardsFailed">>]
     \/ /\ Responded # {}
        /\ \E o \in Orders(Responded) :
             LET lists == [i \in DOMAIN o |-> search.shards[o[i]][2]]
             IN  search' = [search EXCEPT !.pc = "done",
                   !.answer = <<"ok", MergeResults(lists, Limit), Responded # Total>>]
  /\ UNCHANGED <<stored, insert>>

-----------------------------------------------------------------------------
\* handle_forward_insert.

Respond(status) ==
  /\ insert' = [insert EXCEPT !.pc = "done", !.status = status]
  /\ UNCHANGED stored
\* The same, after node n has stored the vector.
RespondStored(status, n) ==
  /\ insert' = [insert EXCEPT !.pc = "done", !.status = status, !.at = {n}]
  /\ stored' = [stored EXCEPT ![n][insert.id] = insert.dist]

BeginInsert(i, d) ==
  /\ insert.pc \in {"idle", "done"}
  /\ insert' = [IdleInsert EXCEPT !.pc = "lookup", !.id = i, !.dist = d]
  /\ UNCHANGED <<stored, search>>

\* Mutant: a missing leader is 404.
LookupLeader_NotFound ==
  /\ insert.pc = "lookup"
  /\ ~Assigned(ShardOf[insert.id])
  /\ Respond(404)
  /\ UNCHANGED search

LookupLeader ==
  /\ insert.pc = "lookup"
  /\ LET s == ShardOf[insert.id] IN
       \/ ~Assigned(s) /\ Respond(503)
       \/ /\ Assigned(s)
          /\ insert' = [insert EXCEPT !.leader = {LeaderOf(s)},
                          !.pc = IF LeaderOf(s) = Self THEN "local" ELSE "resolve"]
          /\ UNCHANGED stored
  /\ UNCHANGED search

\* A storage error may come before or after the vector was stored.
LocalInsert ==
  /\ insert.pc = "local"
  /\ \/ Self \notin HasStorage /\ Respond(500)
     \/ Self \in HasStorage /\ (RespondStored(201, Self) \/ RespondStored(400, Self) \/ Respond(400))
  /\ UNCHANGED search

ResolveLeader(n) ==
  /\ insert.pc = "resolve" /\ insert.leader = {n}
  /\ \/ ~Registered(n) /\ Respond(503)
     \/ Registered(n) /\ insert' = [insert EXCEPT !.pc = "sent"] /\ UNCHANGED stored
  /\ UNCHANGED search

\* Mutant: a request that was sent counts as done.
PeerInserts_Sent(n) ==
  /\ insert.pc = "sent" /\ insert.leader = {n}
  /\ RespondStored(201, n) \/ Respond(201)
  /\ UNCHANGED search

\* internal_insert_handler of the peer, and the response that reaches the
\* coordinator: 502 when it is lost or unreadable.  A peer without storage
\* answers 500 with success = false, which the coordinator reports as 400.
PeerInserts(n) ==
  /\ insert.pc = "sent" /\ insert.leader = {n}
  /\ \/ /\ n \in HasStorage
        /\ RespondStored(201, n) \/ RespondStored(400, n) \/ RespondStored(502, n)
     \/ Respond(400) \/ Respond(502)
  /\ UNCHANGED search

\* internal_insert_handler of this node: no check that it leads the shard.
InternalInsert(i, d) ==
  /\ Self \in HasStorage
  /\ stored' = [stored EXCEPT ![Self][i] = d]
  /\ UNCHANGED <<search, insert>>

\* internal_replicate_handler: an entry of peer n's log is applied.
InternalReplicate(i, n) ==
  /\ Self \in HasStorage
  /\ n \in HasStorage /\ stored[n][i] # 0
  /\ stored' = [stored EXCEPT ![Self][i] = stored[n][i]]
  /\ UNCHANGED <<search, insert>>
=============================================================================
