---------------------------- MODULE StorageEngine ----------------------------
(***************************************************************************)
(* The tiered storage engine of tesseract-storage (engine.rs) with its hot *)
(* store, its cold store and the background tier lifecycle.                *)
(*                                                                         *)
(* Clients insert concurrently; a full hot store makes the inserting       *)
(* client evict records to the cold partition of the day.  The lifecycle   *)
(* task demotes records to partition 0 and promotes whole partitions.      *)
(* write_batch and its file writes are shared by all of them.  The log is  *)
(* the sequence of ids WriteAheadLog::recover would return (module WAL).   *)
(* A record is identified with its id: no property is about its value.     *)
(*                                                                         *)
(* The server drops the handler of a client that has gone, at the await it *)
(* is in.  A file write it had begun goes on in the background: tokio::fs  *)
(* runs it on a thread of its own.                                         *)
(***************************************************************************)
EXTENDS Integers, Sequences, FiniteSets

CONSTANTS
    Clients,      \* tasks that call insert
    Lifecycle,    \* the task started by TierLifecycle::start
    Ids,          \* VectorIds
    Misfits,      \* ids whose vector does not have the index's dimension
    HotMax,       \* HotStoreConfig.max_records; 0: unlimited
    DrainMax,     \* records an eviction asks for (100 in the code)
    Watermark,    \* LifecycleConfig.hot_max_records
    Days,         \* days an eviction may fall on
    NoId,         \* not a VectorId
    Torn,         \* content of a file whose write was cut off
    Bounds        \* bounds: how many ids, calls of insert, cycles of the lifecycle task,
                  \* stops of the process and calls that fail or are dropped half-way
                  \* a behaviour may have together

ASSUME LifecycleAssumption == Lifecycle \notin Clients
ASSUME ClientsAssumption == IsFiniteSet(Clients)
ASSUME IdsAssumption == IsFiniteSet(Ids) /\ Misfits \subseteq Ids
ASSUME LimitsAssumption == HotMax \in Nat /\ DrainMax \in Nat /\ Watermark \in Nat
ASSUME DaysAssumption == Days \subseteq Nat \ {0}
ASSUME TornAssumption ==
    \A S \in (SUBSET Ids) \cup (SUBSET (Days \cup {0})) : S # Torn
ASSUME NoIdAssumption == NoId \notin Ids
ASSUME BoundsAssumption ==
    Bounds \subseteq [ids : Nat, inserts : Nat, cycles : Nat, stops : Nat, faults : Nat]

Actors == Clients \cup {Lifecycle}
Part == Days \cup {0}

VARIABLES
    \* on disk
    log,        \* ids in the write-ahead log
    stable,     \* length of the log's fsynced prefix
    batches,    \* batch files 1, 2, ... of each partition: sets of ids, or Torn
    metaFile,   \* batch_count in each partition's meta.json; 0: none or torn
    manifest,   \* partitions listed in manifest.json; {}: none; or Torn
    indexFile,  \* ids of the saved index; {}: none; or Torn
    \* in memory
    up,         \* the engine is open
    hot,        \* ids in the hot store
    known,      \* ColdStore.writers: batch_count of each partition; 0: unknown
    index,      \* ids in the ANN index
    stopping,   \* where shutdown is
    pc,         \* where each client is in insert and the lifecycle in its cycle
    rec,        \* the id an actor is inserting into the hot store
    held,       \* ids an actor has chosen to drain, then drained, from hot
    part,       \* the partition an actor writes a batch to or reads
    num,        \* the batch number an actor has peeked
    listed,     \* the manifest an actor has serialised
    todo,       \* partitions the promotion cycle has still to read
    queue,      \* batches the promotion cycle has read and not yet inserted
    orphans,    \* file writes of dropped handlers that are still to happen
    \* history
    inserts, cycles, crashes, faults,
    acked,      \* ids whose insert returned Ok and whose log entry survived
    failed,     \* ids held by a call of write_batch that failed
    dropped,    \* ids in the log that open found neither a place for in the hot
                \* store nor a recorded batch with
    abandoned,  \* ids held by a call of write_batch whose handler was dropped
    contested,  \* partitions on which two calls of write_batch overlapped since
                \* the engine was opened
    replaced    \* ids whose batch such a call overwrote or no longer counted

disk == <<log, stable, batches, metaFile, manifest, indexFile>>
memory == <<hot, known, index>>
locals == <<pc, rec, held, part, num, listed, todo, queue>>
history == <<inserts, cycles, crashes, faults, acked, failed, dropped>>
overlap == <<contested, replaced>>
cold == <<orphans, abandoned, overlap>>
vars == <<disk, memory, locals, history, up, stopping, cold>>

Elems(s) == {s[k] : k \in DOMAIN s}

\* Mutant of Full: one record too many.
FullLate == HotMax > 0 /\ Cardinality(hot) > HotMax

Full == HotMax > 0 /\ Cardinality(hot) >= HotMax

\* read_partition fails on a file cut off in the middle.
Readable(p) == Torn \notin Elems(batches[p])

\* The ids in the whole batch files of partition p.
Contents(p) == UNION (Elems(batches[p]) \ {Torn})

\* get: in the hot store, or in a partition this process knows.
Stored == hot \cup UNION {Contents(p) : p \in {q \in Part : known[q] > 0}}

\* The batches that batch_count counts.  Whole files beyond them, left by a call
\* of write_batch that a crash cut short, are read too, until they are replaced.
Recorded(p) == UNION ({batches[p][n] : n \in 1..known[p]} \ {Torn})

Counted == UNION {Recorded(p) : p \in Part}

Safe == hot \cup Counted

\* A write of a file: which one, and what it writes.
WriteOf(a) == [stage |-> pc[a], part |-> part[a], num |-> num[a],
               held |-> held[a], listed |-> listed[a]]

\* A call of write_batch for partition p has a batch number and not counted it.
Numbered(p) ==
    \/ \E a \in Actors : pc[a] \in {"file", "update"} /\ part[a] = p
    \/ \E w \in orphans : w.stage = "file" /\ w.part = p

\* History: a write in partition p may leave some of the records S uncounted.
Overtake(p, S) ==
    replaced' = IF p \in contested THEN replaced \cup (S \ Counted') ELSE replaced

Fault == faults' = faults + 1

\* The state is within one of the bounds; a shutdown counts as a stop to come.
Bounded ==
    \E b \in Bounds :
        /\ inserts <= b.inserts /\ cycles <= b.cycles /\ faults <= b.faults
        /\ crashes + (IF stopping = "no" THEN 0 ELSE 1) <= b.stops
        /\ Cardinality(Elems(log)) <= b.ids

Jump(a, label) == pc' = [pc EXCEPT ![a] = label]

-----------------------------------------------------------------------------
Init ==
    /\ log = <<>> /\ stable = 0
    /\ batches = [p \in Part |-> <<>>]
    /\ metaFile = [p \in Part |-> 0]
    /\ manifest = {}
    /\ indexFile = {}
    /\ up = TRUE
    /\ hot = {}
    /\ known = [p \in Part |-> 0]
    /\ index = {}
    /\ stopping = "no"
    /\ pc = [a \in Actors |-> "idle"]
    /\ rec = [a \in Actors |-> NoId]
    /\ held = [a \in Actors |-> {}]
    /\ part = [a \in Actors |-> 0]
    /\ num = [a \in Actors |-> 0]
    /\ listed = [a \in Actors |-> {}]
    /\ todo = {} /\ queue = <<>>
    /\ inserts = 0 /\ cycles = 0 /\ crashes = 0 /\ faults = 0
    /\ acked = {} /\ failed = {} /\ dropped = {}
    /\ orphans = {} /\ abandoned = {} /\ contested = {} /\ replaced = {}

-----------------------------------------------------------------------------
(* insert: the log, then the hot store *)

\* The entry is appended; a durable append has fsynced the log.
Insert(c, id) ==
    /\ up
    /\ pc[c] = "idle"
    /\ inserts' = inserts + 1
    /\ log' = Append(log, id)
    /\ stable' \in {stable, Len(log) + 1}
    /\ rec' = [rec EXCEPT ![c] = id]
    /\ Jump(c, "insert")
    /\ UNCHANGED <<batches, metaFile, manifest, indexFile, memory, held, part, num,
                   listed, todo, queue, cycles, crashes, faults, acked, failed, dropped, up,
                   stopping, cold>>

\* Mutant of InsertError: the entry counts as fsynced although it may be missing.
InsertErrorFsynced(c, id) ==
    /\ up
    /\ pc[c] = "idle"
    /\ inserts' = inserts + 1
    /\ Fault
    /\ log' \in {log, Append(log, id)}
    /\ stable' = Len(log) + 1
    /\ UNCHANGED <<batches, metaFile, manifest, indexFile, memory, locals,
                   cycles, crashes, acked, failed, dropped, up, stopping, cold>>

\* append fails, a tracker's lock is poisoned or the handler is dropped while it
\* appends: insert does not return Ok, and the entry may be in the log.
InsertError(c, id) ==
    /\ up
    /\ pc[c] = "idle"
    /\ inserts' = inserts + 1
    /\ Fault
    /\ log' \in {log, Append(log, id)}
    /\ stable' \in {stable, Len(log')}
    /\ UNCHANGED <<batches, metaFile, manifest, indexFile, memory, locals,
                   cycles, crashes, acked, failed, dropped, up, stopping, cold>>

\* HotStore::insert, first half: the capacity check.
CheckCapacity(a) ==
    /\ pc[a] \in {"insert", "retry", "promote"}
    /\ rec[a] # NoId
    /\ ~Full
    /\ Jump(a, CASE pc[a] = "insert" -> "put"
                 [] pc[a] = "retry" -> "reput"
                 [] pc[a] = "promote" -> "putPromoted")
    /\ UNCHANGED <<disk, memory, rec, held, part, num, listed, todo, queue,
                   history, up, stopping, cold>>

\* Second half: a present id is left alone.  insert ignores AlreadyExists the
\* first time and returns it after an eviction; the promotion always ignores it.
Put(a) ==
    /\ pc[a] \in {"put", "reput", "putPromoted"}
    /\ hot' = hot \cup {rec[a]}
    /\ Jump(a, CASE pc[a] = "putPromoted" -> "promote"
                 [] pc[a] = "reput" /\ rec[a] \in hot -> "idle"
                 [] OTHER -> "index")
    /\ rec' = [rec EXCEPT ![a] = IF pc'[a] = "index" THEN @ ELSE NoId]
    /\ failed' = failed \ {rec[a]}
    /\ dropped' = dropped \ {rec[a]}
    /\ abandoned' = abandoned \ {rec[a]}
    /\ replaced' = replaced \ {rec[a]}
    /\ UNCHANGED <<disk, known, index, held, part, num, listed, todo, queue, inserts,
                   cycles, crashes, faults, acked, up, stopping, orphans, contested>>

\* StoreFull: insert turns to eviction; the retry returns the error; the
\* promotion skips the record.
StoreFull(a) ==
    /\ pc[a] \in {"insert", "retry", "promote"}
    /\ rec[a] # NoId
    /\ Full
    /\ Jump(a, CASE pc[a] = "insert" -> "full"
                 [] pc[a] = "retry" -> "idle"
                 [] pc[a] = "promote" -> "promote")
    /\ rec' = [rec EXCEPT ![a] = IF pc[a] = "insert" THEN @ ELSE NoId]
    /\ UNCHANGED <<disk, memory, held, part, num, listed, todo, queue,
                   history, up, stopping, cold>>

\* The ANN index takes the vector and insert returns Ok.
IndexAndAck(c) ==
    /\ pc[c] = "index"
    /\ stopping # "saving"
    /\ rec[c] \notin Misfits
    /\ index' = index \cup {rec[c]}
    /\ acked' = acked \cup {rec[c]}
    /\ rec' = [rec EXCEPT ![c] = NoId]
    /\ Jump(c, "idle")
    /\ UNCHANGED <<disk, hot, known, held, part, num, listed, todo, queue,
                   inserts, cycles, crashes, faults, failed, dropped, up, stopping, cold>>

\* DimensionMismatch: insert returns the error, the record stays in the log and
\* in the hot store.
IndexError(c) ==
    /\ pc[c] = "index"
    /\ stopping # "saving"
    /\ rec[c] \in Misfits
    /\ rec' = [rec EXCEPT ![c] = NoId]
    /\ Jump(c, "idle")
    /\ UNCHANGED <<disk, memory, held, part, num, listed, todo, queue,
                   history, up, stopping, cold>>

-----------------------------------------------------------------------------
(* drain_least_accessed *)

\* Ids are chosen first and removed one by one afterwards.  No access_count
\* ever changes, so any n of them may come first in the sorted list.
Choose(a, n) ==
    /\ \E V \in SUBSET hot :
          /\ Cardinality(V) = IF n < Cardinality(hot) THEN n ELSE Cardinality(hot)
          /\ held' = [held EXCEPT ![a] = V]
    /\ Jump(a, "drain")

\* insert evicts: the partition is the current day.
Evict(c) ==
    /\ pc[c] = "full"
    /\ Choose(c, DrainMax)
    /\ \E d \in Days : part' = [part EXCEPT ![c] = d]
    /\ UNCHANGED <<disk, memory, rec, num, listed, todo, queue, history, up, stopping, cold>>

\* The lifecycle task is due.
Cycle ==
    /\ up
    /\ pc[Lifecycle] = "idle"
    /\ cycles' = cycles + 1
    /\ UNCHANGED <<inserts, crashes, faults, acked, failed, dropped>>

\* run_demotion above the watermark: the partition is 0.
Demote ==
    /\ Cycle
    /\ Cardinality(hot) > Watermark
    /\ Choose(Lifecycle, Cardinality(hot) - Watermark)
    /\ part' = [part EXCEPT ![Lifecycle] = 0]
    /\ UNCHANGED <<disk, memory, rec, num, listed, todo, queue, up, stopping, cold>>

\* Where an actor goes on when it has nothing (more) to write.
AfterWrite(a) == IF a = Lifecycle THEN "idle" ELSE "retry"

\* The chosen ids that are still there leave the hot store.
Drain(a) ==
    /\ pc[a] = "drain"
    /\ held' = [held EXCEPT ![a] = @ \cap hot]
    /\ hot' = hot \ held[a]
    /\ Jump(a, IF held'[a] = {} THEN AfterWrite(a) ELSE "peek")
    /\ UNCHANGED <<disk, known, index, rec, part, num, listed, todo, queue,
                   history, up, stopping, cold>>

-----------------------------------------------------------------------------
(* ColdStore::write_batch *)

\* Mutant of PeekBatchNum: the last batch number again, not the next.
PeekLastBatchNum(a) ==
    /\ pc[a] = "peek"
    /\ num' = [num EXCEPT ![a] = IF known[part[a]] = 0 THEN 1 ELSE known[part[a]]]
    /\ contested' = IF Numbered(part[a]) THEN contested \cup {part[a]} ELSE contested
    /\ Jump(a, "file")
    /\ UNCHANGED <<disk, memory, rec, held, part, listed, todo, queue, history,
                   up, stopping, orphans, abandoned, replaced>>

PeekBatchNum(a) ==
    /\ pc[a] = "peek"
    /\ num' = [num EXCEPT ![a] = known[part[a]] + 1]
    /\ contested' = IF Numbered(part[a]) THEN contested \cup {part[a]} ELSE contested
    /\ Jump(a, "file")
    /\ UNCHANGED <<disk, memory, rec, held, part, listed, todo, queue, history,
                   up, stopping, orphans, abandoned, replaced>>

\* s with element n set to x; n may be the next free place.
SetAt(s, n, x) == IF n = Len(s) + 1 THEN Append(s, x) ELSE [s EXCEPT ![n] = x]

WriteBatchFile(a) ==
    /\ pc[a] = "file"
    /\ batches' = [batches EXCEPT ![part[a]] = SetAt(@, num[a], held[a])]
    /\ Jump(a, "update")
    /\ UNCHANGED <<log, stable, metaFile, manifest, indexFile, memory, rec, held, part,
                   num, listed, todo, queue, history, up, stopping, orphans, abandoned,
                   contested>>
    /\ Overtake(part[a], Recorded(part[a]))

\* Under the lock: the batch count, and the manifest from the partitions known.
UpdateMeta(a) ==
    /\ pc[a] = "update"
    /\ known' = [known EXCEPT ![part[a]] = num[a]]
    /\ listed' = [listed EXCEPT ![a] = {p \in Part : known'[p] > 0}]
    /\ held' = [held EXCEPT ![a] = {}]
    /\ Jump(a, "meta")
    /\ UNCHANGED <<disk, hot, index, rec, part, num, todo, queue, history, up, stopping,
                   orphans, abandoned, contested>>
    /\ Overtake(part[a], Recorded(part[a]) \cup held[a])

WriteMetaFile(a) ==
    /\ pc[a] = "meta"
    /\ metaFile' = [metaFile EXCEPT ![part[a]] = num[a]]
    /\ Jump(a, "manifest")
    /\ UNCHANGED <<log, stable, batches, manifest, indexFile, memory, rec, held, part, num,
                   listed, todo, queue, history, up, stopping, cold>>

WriteManifest(a) ==
    /\ pc[a] = "manifest"
    /\ manifest' = listed[a]
    /\ listed' = [listed EXCEPT ![a] = {}]
    /\ num' = [num EXCEPT ![a] = 0]
    /\ part' = [part EXCEPT ![a] = 0]
    /\ Jump(a, AfterWrite(a))
    /\ UNCHANGED <<log, stable, batches, metaFile, indexFile, memory, rec, held, todo,
                   queue, history, up, stopping, cold>>

\* The writes of W are cut off: files are written in place, never to a
\* temporary file.
CutOff(W) ==
    LET Cut(p, n) == \E w \in W : w.stage = "file" /\ w.part = p /\ w.num = n
        Size(p) == Len(batches[p]) + IF Cut(p, Len(batches[p]) + 1) THEN 1 ELSE 0
    IN  /\ batches' = [p \in Part |->
                          [n \in 1..Size(p) |-> IF Cut(p, n) THEN Torn ELSE batches[p][n]]]
        /\ metaFile' = [p \in Part |->
                          IF \E w \in W : w.stage = "meta" /\ w.part = p
                          THEN 0 ELSE metaFile[p]]
        /\ manifest' = IF \E w \in W : w.stage = "manifest" THEN Torn ELSE manifest

\* insert or run_demotion ends inside write_batch.
LeaveWriteBatch(a) ==
    /\ held' = [held EXCEPT ![a] = {}]
    /\ rec' = [rec EXCEPT ![a] = NoId]
    /\ num' = [num EXCEPT ![a] = 0]
    /\ part' = [part EXCEPT ![a] = 0]
    /\ listed' = [listed EXCEPT ![a] = {}]
    /\ Jump(a, "idle")

\* The directory or a file cannot be written: insert returns the error, the
\* lifecycle logs it.  The drained records are in neither tier before "meta".
WriteBatchError(a) ==
    /\ pc[a] \in {"peek", "file", "meta", "manifest"}
    /\ Fault
    /\ CutOff({}) \/ CutOff({WriteOf(a)})
    /\ failed' = failed \cup held[a]
    /\ LeaveWriteBatch(a)
    /\ UNCHANGED <<log, stable, indexFile, memory, todo, queue, inserts, cycles, crashes,
                   acked, dropped, up, stopping, orphans, abandoned, contested>>
    /\ Overtake(part[a], Recorded(part[a]))

\* The client goes and its handler is dropped where it awaits write_batch or the
\* index: what it had drained is in neither tier, and a file write goes on.
DropHandler(c) ==
    /\ pc[c] \in {"peek", "file", "meta", "manifest", "index"}
    /\ Fault
    /\ abandoned' = abandoned \cup held[c]
    /\ orphans' = IF pc[c] \in {"file", "meta", "manifest"}
                  THEN orphans \cup {WriteOf(c)} ELSE orphans
    /\ LeaveWriteBatch(c)
    /\ UNCHANGED <<disk, memory, todo, queue, inserts, cycles, crashes, acked, failed, dropped,
                   up, stopping, overlap>>

\* The write that a dropped handler has left behind happens, or fails half-way.
OrphanWrite(w) ==
    /\ w \in orphans
    /\ \/ /\ batches' = IF w.stage # "file" THEN batches
                        ELSE [batches EXCEPT ![w.part] = SetAt(@, w.num, w.held)]
          /\ metaFile' = IF w.stage # "meta" THEN metaFile
                         ELSE [metaFile EXCEPT ![w.part] = w.num]
          /\ manifest' = IF w.stage # "manifest" THEN manifest ELSE w.listed
       \/ CutOff({w})
    /\ orphans' = orphans \ {w}
    /\ UNCHANGED <<log, stable, indexFile, memory, locals, history, up, stopping,
                   abandoned, contested>>
    /\ Overtake(w.part, Recorded(w.part))

-----------------------------------------------------------------------------
(* TierLifecycle::run_promotion *)

Promote ==
    /\ Cycle
    /\ todo' = {p \in Part : known[p] > 0}
    /\ Jump(Lifecycle, "promote")
    /\ UNCHANGED <<disk, memory, rec, held, part, num, listed, queue, up, stopping, cold>>

\* Every known partition is loaded, whatever its access count.
PromoteRead(p) ==
    /\ pc[Lifecycle] = "promote"
    /\ rec[Lifecycle] = NoId
    /\ queue = <<>>
    /\ p \in todo
    /\ Readable(p)
    /\ todo' = todo \ {p}
    /\ queue' = batches[p]
    /\ UNCHANGED <<disk, memory, pc, rec, held, part, num, listed, history, up, stopping, cold>>

\* The next record of the batches read; a batch is inserted record by record.
PromoteNext(id) ==
    /\ pc[Lifecycle] = "promote"
    /\ rec[Lifecycle] = NoId
    /\ queue # <<>>
    /\ id \in Head(queue)
    /\ rec' = [rec EXCEPT ![Lifecycle] = id]
    /\ queue' = IF Head(queue) = {id} THEN Tail(queue)
                ELSE [queue EXCEPT ![1] = @ \ {id}]
    /\ UNCHANGED <<disk, memory, pc, held, part, num, listed, todo, history, up, stopping, cold>>

PromoteDone ==
    /\ pc[Lifecycle] = "promote"
    /\ rec[Lifecycle] = NoId
    /\ queue = <<>>
    /\ todo = {}
    /\ Jump(Lifecycle, "idle")
    /\ UNCHANGED <<disk, memory, rec, held, part, num, listed, todo, queue,
                   history, up, stopping, cold>>

\* A partition cannot be read, or is being written at this moment.
PromoteError ==
    /\ pc[Lifecycle] = "promote"
    /\ rec[Lifecycle] = NoId
    /\ queue = <<>>
    /\ todo # {}
    /\ todo' = {}
    /\ Jump(Lifecycle, "idle")
    /\ UNCHANGED <<disk, memory, rec, held, part, num, listed, queue, history, up, stopping, cold>>

-----------------------------------------------------------------------------
(* Shutdown, crash, open *)

\* shutdown saves the index before it flushes the log.  File::create empties
\* the file, and the index stays locked until it is saved.
ShutdownCreateIndex ==
    /\ up
    /\ stopping = "no"
    /\ indexFile' = Torn
    /\ stopping' = "saving"
    /\ UNCHANGED <<log, stable, batches, metaFile, manifest, memory, locals, history, up, cold>>

ShutdownSaveIndex ==
    /\ stopping = "saving"
    /\ indexFile' = index
    /\ stopping' = "saved"
    /\ UNCHANGED <<log, stable, batches, metaFile, manifest, memory, locals, history, up, cold>>

\* The process ends: memory is gone, and the writes of W are cut off.
Halt(W) ==
    /\ CutOff(W)
    /\ up' = FALSE
    /\ hot' = {}
    /\ known' = [p \in Part |-> 0]
    /\ index' = {}
    /\ stopping' = "no"
    /\ pc' = [a \in Actors |-> "idle"]
    /\ rec' = [a \in Actors |-> NoId]
    /\ held' = [a \in Actors |-> {}]
    /\ part' = [a \in Actors |-> 0]
    /\ num' = [a \in Actors |-> 0]
    /\ listed' = [a \in Actors |-> {}]
    /\ todo' = {} /\ queue' = <<>>
    /\ crashes' = crashes + 1
    /\ failed' = {} /\ dropped' = {}
    /\ orphans' = {} /\ abandoned' = {} /\ contested' = {} /\ replaced' = {}
    /\ UNCHANGED <<inserts, cycles, faults>>

Writing ==
    orphans \cup {WriteOf(a) : a \in {b \in Actors : pc[b] \in {"file", "meta", "manifest"}}}

\* A crash, at any moment: the log keeps at least its fsynced prefix.
Crash ==
    /\ up
    /\ \E W \in SUBSET Writing : Halt(W)
    /\ \E n \in stable..Len(log) :
          /\ log' = SubSeq(log, 1, n)
          /\ stable' = n
    /\ acked' = acked \cap Elems(log')
    /\ UNCHANGED indexFile

\* shutdown flushes the log and returns; the process ends.
ShutdownFlush ==
    /\ stopping = "saved"
    /\ \E W \in SUBSET Writing : Halt(W)
    /\ stable' = Len(log)
    /\ UNCHANGED <<log, indexFile, acked>>

\* Replay: the first HotMax distinct ids of the log; apply_wal_entry ignores
\* both AlreadyExists and StoreFull.
Replayed ==
    LET First == {k \in DOMAIN log : \A j \in 1..(k - 1) : log[j] # log[k]}
    IN  {log[k] : k \in {n \in First :
            HotMax = 0 \/ Cardinality({j \in First : j < n}) < HotMax}}

Loaded == [p \in Part |-> IF p \in manifest THEN metaFile[p] ELSE 0]

\* open reads the manifest, the index and every partition it knows of.
CanOpen ==
    /\ manifest # Torn
    /\ indexFile # Torn
    /\ \A p \in Part : Loaded[p] > 0 => Readable(p)

\* Mutant of Open: a saved index makes the replay into the index unnecessary.
OpenSavedIndex ==
    /\ ~up
    /\ CanOpen
    /\ up' = TRUE
    /\ UNCHANGED <<disk, locals, inserts, cycles, crashes, faults, acked, failed, stopping, cold>>
    /\ known' = Loaded
    /\ hot' = Replayed
    /\ index' = IF indexFile = {} THEN Elems(log) \ Misfits ELSE indexFile
    /\ dropped' = Elems(log) \ Safe'

\* open replays the log; the index ignores the entries that do not fit it.
Open ==
    /\ ~up
    /\ CanOpen
    /\ up' = TRUE
    /\ UNCHANGED <<disk, locals, inserts, cycles, crashes, faults, acked, failed, stopping, cold>>
    /\ known' = Loaded
    /\ hot' = Replayed
    /\ index' = indexFile \cup (Elems(log) \ Misfits)
    /\ dropped' = Elems(log) \ Safe'

\* open returns an error, now and on every retry.
OpenError ==
    /\ ~up
    /\ ~CanOpen
    /\ UNCHANGED vars

-----------------------------------------------------------------------------
Step ==
    \/ \E c \in Clients :
          \/ \E id \in Ids : Insert(c, id) \/ InsertError(c, id)
          \/ Evict(c)
          \/ IndexAndAck(c)
          \/ IndexError(c)
          \/ DropHandler(c)
    \/ \E a \in Actors :
          \/ CheckCapacity(a)
          \/ Put(a)
          \/ StoreFull(a)
          \/ Drain(a)
          \/ PeekBatchNum(a)
          \/ WriteBatchFile(a)
          \/ UpdateMeta(a)
          \/ WriteMetaFile(a)
          \/ WriteManifest(a)
          \/ WriteBatchError(a)
    \/ \E w \in orphans : OrphanWrite(w)
    \/ Demote
    \/ Promote
    \/ \E p \in Part : PromoteRead(p)
    \/ \E id \in Ids : PromoteNext(id)
    \/ PromoteDone
    \/ PromoteError
    \/ ShutdownCreateIndex
    \/ ShutdownSaveIndex
    \/ ShutdownFlush
    \/ Crash
    \/ Open
    \/ OpenError

Next == Step /\ Bounded'

Spec == Init /\ [][Next]_vars

-----------------------------------------------------------------------------
(* Properties *)

\* Types, and what each counter and set may hold.
TypeOK ==
    /\ log \in Seq(Ids)
    /\ stable \in 0..Len(log)
    /\ batches \in [Part -> Seq((SUBSET Ids) \cup {Torn})]
    /\ metaFile \in [Part -> Nat]
    /\ manifest \in (SUBSET Part) \cup {Torn}
    /\ indexFile \in (SUBSET Ids) \cup {Torn}
    /\ up \in BOOLEAN
    /\ hot \subseteq Ids
    /\ known \in [Part -> Nat]
    /\ index \subseteq Ids
    /\ stopping \in {"no", "saving", "saved"}
    /\ pc \in [Actors -> {"idle", "insert", "put", "full", "drain", "peek", "file",
                          "update", "meta", "manifest", "retry", "reput", "index",
                          "promote", "putPromoted"}]
    /\ rec \in [Actors -> Ids \cup {NoId}]
    /\ held \in [Actors -> SUBSET Ids]
    /\ part \in [Actors -> Part]
    /\ num \in [Actors -> Nat]
    /\ listed \in [Actors -> SUBSET Part]
    /\ todo \subseteq Part
    /\ queue \in Seq(SUBSET Ids)
    /\ inserts \in Nat /\ cycles \in Nat /\ crashes \in Nat /\ faults \in Nat
    /\ acked \subseteq Ids
    /\ failed \subseteq Ids
    /\ dropped \subseteq Ids
    /\ orphans \subseteq [stage : {"file", "meta", "manifest"}, part : Part, num : Nat,
                          held : SUBSET Ids, listed : SUBSET Part]
    /\ abandoned \subseteq Ids
    /\ contested \subseteq Part
    /\ replaced \subseteq Ids

\* The capacity check and the insertion of HotStore::insert are two steps: the
\* store can outgrow max_records, by less than the number of tasks.
HotBounded == HotMax > 0 => Cardinality(hot) < HotMax + Cardinality(Actors)

\* An acknowledged record is in the hot store, in a batch that write_batch has
\* recorded, or on its way from one to the other, unless write_batch failed or
\* was dropped with it, another call on the same partition overlapped with the
\* one that wrote it, or the replay of the log did not fit into the hot store.
NoSilentLoss ==
    up => acked \subseteq Safe \cup (UNION {held[a] : a \in Actors})
                          \cup failed \cup abandoned \cup replaced \cup dropped

\* search can find every acknowledged record: neither the saved index nor the
\* order of shutdown's steps hides one.
IndexCovers == up => acked \subseteq index

\* A batch file that write_batch has recorded is written again only in a
\* partition where two calls of write_batch overlapped: one was given its batch
\* number while another, or the write of a dropped one, still had to use its own.
BatchesImmutable ==
    [][\A p \in Part \ contested : \A n \in 1..known[p] :
          up => n <= Len(batches'[p]) /\ batches'[p][n] = batches[p][n]]_vars

\* What write_batch's comment says: each call creates a new batch file, so it
\* replaces none that get reads records from.
NewBatchFile ==
    [][\A p \in Part : \A n \in DOMAIN batches[p] :
          up /\ known[p] > 0 /\ batches[p][n] # Torn
              => n \in DOMAIN batches'[p] /\ batches'[p][n] = batches[p][n]]_vars
=============================================================================
