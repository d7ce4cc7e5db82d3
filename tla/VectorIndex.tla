----------------------------- MODULE VectorIndex -----------------------------
(***************************************************************************)
(* The search side of the storage engine: the HNSW index, the hot buffer   *)
(* and the Merkle tree behind StorageEngine::insert, search, shutdown and  *)
(* open (tesseract-storage/src/engine.rs, tesseract-index), with the two   *)
(* files they are saved in (serialization.rs, merkle/tree.rs).             *)
(*                                                                         *)
(* An insert logs its entry, then takes the index lock, then the buffer    *)
(* lock: other inserts and shutdown run in between, and it may end with    *)
(* its entry logged and not indexed.  Module StorageEngine has the tiers   *)
(* the entry passes on the way, module WAL the log; here the log keeps     *)
(* what was appended.  The engine never calls remove: it stands for a      *)
(* caller of the library.                                                  *)
(***************************************************************************)
EXTENDS Hnsw, MerkleIndex

CONSTANTS Clients,             \* tasks that call insert
          Ks,                  \* result sizes asked for
          MaxInserts, MaxRemoves, MaxStops, \* bounds: calls and stops of the process
          MaxOverlapping       \* bound: of the inserts, the first so many may overlap others
ASSUME ResultSizes == Ks \subseteq Nat

VARIABLES log,        \* the entries WriteAheadLog::recover returns
          indexFile,  \* config.index.path
          treeFile,   \* config.merkle.merkle_tree_path
          up,         \* the process runs
          stopping,   \* where shutdown is: "no", "saved", "done"
          pc, rec,    \* where each insert is, and its entry
          removes, stops,
          sealed,     \* history: the answers when an orderly shutdown ended
          astray      \* history: ids the index may have another vector for than the
                      \* log: an insert of the id ended before the index, or two of
                      \* them overlapped, and nothing has put it right since

\* A file: not there, cut off while it was written, or whole.
NoFile == [state |-> "none"]
Torn == [state |-> "torn"]
Saved(x) == [state |-> "whole", content |-> x]

memory == <<graph, buffer, tree>>
files == <<log, indexFile, treeFile>>
history == <<removes, stops, sealed, astray>>
vars == <<config, memory, files, up, stopping, pc, rec, history>>

Entry == [id : Ids, vec : Points \cup {Misfit}]
Idle == \A c \in Clients : pc[c] = "idle"

\* Some insert of id has logged its entry and not indexed it.
UnderWay(id) == \E d \in Clients : pc[d] = "index" /\ rec[d][1].id = id

\* Mutant of search_tiers: an id may be returned by two tiers.
search_tiers_Repeat(g, b, t, q, k, w) ==
  LET all == hnsw_search(g, q, k, w) \o buffer_search(b, q, k) \o tree_search(t, q, k)
  IN  Truncate(StableSort(all, Ascending), k)

\* StorageEngine::search with the index and the Merkle tier enabled.
search_tiers(g, b, t, q, k, w) ==
  LET all == hnsw_search(g, q, k, w) \o buffer_search(b, q, k) \o tree_search(t, q, k)
  IN  Truncate(DedupById(StableSort(all, Ascending)), k)

engine_search(q, k, w) == search_tiers(graph, buffer, tree, q, k, w)

\* The answers to every query without a mask.
Answers(g, b, t) == [q \in Points |-> [k \in Ks |-> search_tiers(g, b, t, q, k, 1)]]

Init ==
  /\ config \in Configs
  /\ graph = EmptyGraph /\ buffer = <<>> /\ tree = EmptyTree
  /\ log = <<>> /\ indexFile = NoFile /\ treeFile = NoFile
  /\ up = TRUE /\ stopping = "no"
  /\ pc = [c \in Clients |-> "idle"] /\ rec = [c \in Clients |-> <<>>]
  /\ removes = 0 /\ stops = 0 /\ sealed = <<>> /\ astray = {}

-----------------------------------------------------------------------------
\* New ids are taken in order: the index only compares ids.
NextIds == {id \in Ids : \A j \in Ids : j < id => \E i \in DOMAIN log : log[i].id = j}

\* The gRPC server takes inserts until main returns, after shutdown.
Insert(c, id, v) ==
  /\ up /\ stopping # "done" /\ pc[c] = "idle" /\ Len(log) < MaxInserts
  /\ Idle \/ Len(log) < MaxOverlapping
  /\ log' = Append(log, [id |-> id, vec |-> v])
  /\ pc' = [pc EXCEPT ![c] = "index"]
  /\ rec' = [rec EXCEPT ![c] = <<[id |-> id, vec |-> v]>>]
  /\ astray' = IF UnderWay(id) THEN astray \cup {id}
               ELSE IF v = Misfit THEN astray ELSE astray \ {id}
  /\ sealed' = <<>>
  /\ UNCHANGED <<config, memory, indexFile, treeFile, up, stopping, removes, stops>>

\* AnyIndex::insert under the write lock, with the level it draws.
IndexInsert(c, level) ==
  /\ pc[c] = "index" /\ rec[c][1].vec # Misfit
  /\ graph' = hnsw_insert(graph, rec[c][1].id, rec[c][1].vec, level)
  /\ pc' = [pc EXCEPT ![c] = "buffer"]
  /\ UNCHANGED <<config, buffer, tree, files, up, stopping, rec, history>>

\* append fails with the entry in the log, a tracker's lock is poisoned, write_batch
\* or the second hot.insert fails, or the client goes and its handler is dropped
\* where it awaits write_batch or the index lock: the entry stays in the log only.
InsertFails(c) ==
  /\ pc[c] = "index"
  /\ astray' = IF rec[c][1].vec = Misfit THEN astray ELSE astray \cup {rec[c][1].id}
  /\ pc' = [pc EXCEPT ![c] = "idle"]
  /\ rec' = [rec EXCEPT ![c] = <<>>]
  /\ UNCHANGED <<config, memory, files, up, stopping, removes, stops, sealed>>

\* DimensionMismatch: insert returns the error with its entry in the log.
IndexReject(c) ==
  /\ pc[c] = "index" /\ rec[c][1].vec = Misfit
  /\ pc' = [pc EXCEPT ![c] = "idle"]
  /\ rec' = [rec EXCEPT ![c] = <<>>]
  /\ UNCHANGED <<config, memory, files, up, stopping, history>>

\* MerkleTree::save writes the file in place; an error is only logged.
SaveTree == treeFile' \in {Saved(tree'), treeFile, Torn}

\* HotBuffer::insert, the merge of a full buffer and its save; insert returns.
BufferAndAck(c) ==
  /\ pc[c] = "buffer"
  /\ BufferInsert(rec[c][1].id, rec[c][1].vec)
  /\ IF buffer' = <<>> THEN SaveTree ELSE treeFile' = treeFile
  /\ pc' = [pc EXCEPT ![c] = "idle"]
  /\ rec' = [rec EXCEPT ![c] = <<>>]
  /\ UNCHANGED <<config, graph, log, indexFile, up, stopping, history>>

RemoveVector(id) ==
  /\ up /\ stopping = "no" /\ removes < MaxRemoves /\ id \in ToSet(graph.ids)
  /\ graph' = hnsw_remove(graph, id)
  /\ removes' = removes + 1
  /\ sealed' = <<>>
  /\ UNCHANGED <<config, buffer, tree, files, up, stopping, pc, rec, stops, astray>>

-----------------------------------------------------------------------------
\* shutdown, step 1: HnswIndex::save.
ShutdownSave ==
  /\ up /\ stopping = "no"
  /\ indexFile' = Saved(graph)
  /\ stopping' = "saved"
  /\ UNCHANGED <<config, memory, log, treeFile, up, pc, rec, history>>

\* The file cannot be created or written, or the wait for the lock times out:
\* shutdown returns the error and does none of its other steps.
ShutdownFails ==
  /\ up /\ stopping = "no"
  /\ indexFile' \in {indexFile, Torn}
  /\ stopping' = "done"
  /\ UNCHANGED <<config, memory, log, treeFile, up, pc, rec, history>>

\* Steps 2 and 3: the buffer is merged and the tree saved; the log is flushed.
ShutdownDrain ==
  /\ stopping = "saved"
  /\ IF buffer = <<>> THEN UNCHANGED <<buffer, tree, treeFile>> ELSE DrainBuffer /\ SaveTree
  /\ stopping' = "done"
  /\ UNCHANGED <<config, graph, log, indexFile, up, pc, rec, removes, stops, astray>>
  /\ sealed' = IF /\ Idle /\ astray = {} /\ indexFile = Saved(graph)
                  /\ treeFile' = IF tree' = EmptyTree THEN NoFile ELSE Saved(tree')
               THEN <<Answers(graph, <<>>, tree')>> ELSE <<>>

\* The process ends, after shutdown or by a crash at any point; a file that is
\* being written is cut off.
Stop ==
  /\ up /\ stops < MaxStops
  /\ indexFile' \in {indexFile} \cup (IF stopping = "no" THEN {Torn} ELSE {})
  /\ treeFile' \in {treeFile} \cup
       (IF \/ stopping = "saved" /\ buffer # <<>>
           \/ Len(buffer) + 1 >= Capacity /\ \E c \in Clients : pc[c] = "buffer"
        THEN {Torn} ELSE {})
  /\ up' = FALSE /\ stopping' = "no" /\ stops' = stops + 1
  /\ graph' = EmptyGraph /\ buffer' = <<>> /\ tree' = EmptyTree
  /\ pc' = [c \in Clients |-> "idle"] /\ rec' = [c \in Clients |-> <<>>]
  /\ UNCHANGED <<config, log, removes, sealed, astray>>

\* replay_index_entry_inner: an error is dropped.
ReplayEntry(g, e, level) ==
  LET cap == max_allowed_level(Len(g.ids))
  IN  IF e.vec = Misfit THEN g ELSE hnsw_insert(g, e.id, e.vec, IF level < cap THEN level ELSE cap)

ReplayIndex(g, entries, levels) ==
  LET Replayed[i \in 0..Len(entries)] ==
        IF i = 0 THEN g ELSE ReplayEntry(Replayed[i - 1], entries[i], levels[i])
  IN  Replayed[Len(entries)]

\* Mutant of LoadTree: open starts with an empty tree.
LoadTree_Fresh(file) == EmptyTree

\* MerkleTree::load; any error is answered by an empty tree.
LoadTree(file) == IF file.state = "whole" THEN file.content ELSE EmptyTree

\* open: the saved index, the log on top of it, and the saved tree.  A torn index
\* file makes open fail; a torn tree file is replaced by an empty tree.
Open ==
  /\ ~up /\ indexFile # Torn
  /\ \E levels \in [DOMAIN log -> 0..MaxLayer] :
       graph' = ReplayIndex(IF indexFile = NoFile THEN EmptyGraph ELSE indexFile.content, log, levels)
  /\ tree' = LoadTree(treeFile)
  /\ up' = TRUE
  /\ astray' = {}
  /\ UNCHANGED <<config, buffer, files, stopping, pc, rec, removes, stops, sealed>>

Next ==
  \/ \E c \in Clients :
       \/ \E id \in NextIds, v \in Points \cup {Misfit} : Insert(c, id, v)
       \/ \E level \in random_level(graph) : IndexInsert(c, level)
       \/ InsertFails(c) \/ IndexReject(c) \/ BufferAndAck(c)
  \/ \E id \in Ids : RemoveVector(id)
  \/ ShutdownSave \/ ShutdownFails \/ ShutdownDrain \/ Stop \/ Open

Spec == Init /\ [][Next]_vars

-----------------------------------------------------------------------------
TypeOK ==
  /\ Len(graph.vec) = Len(graph.ids) /\ ToSet(graph.ids) \subseteq Ids /\ ToSet(graph.vec) \subseteq Points
  /\ Cardinality(ToSet(graph.ids)) = Len(graph.ids)
  /\ Len(buffer) < (IF Capacity = 0 THEN 1 ELSE Capacity)
  /\ ToSet(log) \subseteq Entry
  /\ \A c \in Clients : rec[c] = <<>> <=> pc[c] = "idle"
  /\ up \in BOOLEAN /\ astray \subseteq Ids /\ stopping \in {"no", "saved", "done"}

\* However nodes were linked, shrunk, tombstoned, saved and replayed, no search
\* or insert can index a missing edge list, and lists keep their bounds.
GraphSound == Navigable(graph) /\ Bounded(graph)

\* Merges, splits and reloads keep the tree's ids, sizes and hashes in order.
MerkleSound == TreeSound(tree)

ResultSound(r, k) ==
  /\ Len(r) <= k /\ Cardinality(IdsOf(r)) = Len(r)
  /\ \A i \in 1..Len(r) - 1 : r[i].score <= r[i + 1].score
  /\ \A i \in DOMAIN r :
       \/ \E n \in NodesOf(graph) : graph.ids[n] = r[i].id /\ ~graph.del[n]
       \/ r[i].id \in IdsOf(buffer) \/ r[i].id \in IdsOf(tree.leaves)

\* search returns at most k results, closest first, each id once, never a
\* tombstoned id of the index unless the buffer or a cluster has that number.
SearchSound == \A q \in Points, k \in Ks : ResultSound(engine_search(q, k, 1), k)

\* While no list can have been shrunk and nothing is tombstoned, a search with
\* room for everything finds every vector, from any entry point and with any mask.
SmallGraphComplete ==
  (Len(graph.ids) <= config.m_max0 + 1 /\ Len(graph.ids) <= config.ef_construction + 1 /\ \A n \in NodesOf(graph) : ~graph.del[n])
    => \A q \in Points, w \in Weights \cup {1} :
         IdsOf(hnsw_search(graph, q, Len(graph.ids), w)) = ToSet(graph.ids)

LastLogged(id) ==
  CHOOSE i \in DOMAIN log :
    /\ log[i].id = id /\ log[i].vec # Misfit
    /\ \A j \in DOMAIN log : j > i /\ log[j].id = id => log[j].vec = Misfit

LoggedIds == {log[i].id : i \in {j \in DOMAIN log : log[j].vec # Misfit}}

\* The index has no id that was not logged, and it holds the last vector logged
\* for every id of which no insert is under way, whatever happens to the inserts
\* of other ids: unless an insert of the id itself ended between the log and the
\* index, or two of them overlapped, since the last insert of it that ran alone.
\* Any reopening puts those right too.
IndexMatchesLog ==
  up => /\ ToSet(graph.ids) \subseteq LoggedIds
        /\ \A id \in LoggedIds : UnderWay(id) \/ id \in astray
             \/ \E n \in NodesOf(graph) : graph.ids[n] = id /\ graph.vec[n] = log[LastLogged(id)].vec

\* A merge neither loses nor counts twice: while the process runs, the buffer and
\* the clusters together grow by exactly the inserts that reach the buffer.
MergeConserves ==
  [][up /\ up' =>
       TotalCount(tree') + Len(buffer') = TotalCount(tree) + Len(buffer)
         + Cardinality({c \in Clients : pc[c] = "buffer" /\ pc'[c] = "idle"})]_vars

\* After an orderly shutdown whose files were written, the reopened engine gives
\* every query the answers it gave before, although open replays the whole log on
\* top of the saved index: unless some id was astray, which the replay puts right.
ReopenAnswers ==
  [][(~up /\ up' /\ sealed # <<>>) => <<Answers(graph', buffer', tree')>> = sealed]_vars
=============================================================================
