--------------------------------- MODULE WAL ---------------------------------
(***************************************************************************)
(* The write-ahead log of tesseract-storage (wal.rs): segment files, the   *)
(* single-writer lock, transaction ids, fsync in durable and fast mode,    *)
(* rotation, checkpoints, compaction, crashes and reopening.               *)
(*                                                                         *)
(* A segment file is a sequence of cells: whole entries, and Torn for the  *)
(* bytes of an entry only partly written.  Every entry has size one;       *)
(* SegmentSize counts entries (0 stands for entries larger than a          *)
(* segment).  Bytes that follow a Torn cell can no longer be parsed: the   *)
(* reader takes them for the torn entry's payload and its CRC fails.       *)
(*                                                                         *)
(* tokio's File writes behind: write_all hands the bytes to a background   *)
(* write and returns, and when that write fails the error is returned by   *)
(* the next write_all or flush on the file, whoever makes that call.       *)
(***************************************************************************)
EXTENDS Integers, Sequences, FiniteSets

CONSTANTS
    Writers,           \* tasks that call append concurrently
    SegmentSize,       \* WalConfig.segment_size, in entries
    FsyncIntervalOps,  \* WalConfig.fsync_interval_ops
    MaxSegment,        \* bound: highest segment id
    MaxOps,            \* bound: calls of append
    MaxCrashes,        \* bound: crashes of the process or the machine
    Torn               \* a partly written entry

ASSUME SegmentSizeAssumption == SegmentSize \in Nat
ASSUME FsyncAssumption == FsyncIntervalOps \in Nat
ASSUME MaxSegmentAssumption == MaxSegment \in Nat
ASSUME MaxOpsAssumption == MaxOps \in Nat
ASSUME MaxCrashesAssumption == MaxCrashes \in Nat

SegId == 0..MaxSegment
Op == 1..MaxOps
Mode == {"Durable", "Fast"}

\* WalEntry: op stands for op_code and payload, unique to each call of append.
Entry == [txn : Nat, op : Op]

ASSUME TornAssumption == Torn \notin Entry

VARIABLES
    \* on disk
    files,          \* ids of the wal-{id}.log files that exist
    segs,           \* content of each segment, as a reader sees it
    stable,         \* length of each segment's fsynced prefix
    merged,         \* entries of the wal-merged-*.log files
    checkpoint,     \* last_flushed_txn_id of checkpoint.bin; 0: none or corrupt
    \* in memory
    up,             \* the process runs with the WAL open
    nextTxn,        \* next_txn_id
    cur,            \* current_segment.segment_id
    bytesWritten,   \* current_segment.bytes_written
    opsSinceFsync,  \* current_segment.ops_since_fsync
    lateError,      \* operation whose write in the background failed and whose
                    \* error current_segment.file still has to report; 0: none
    pc,             \* where each writer is in append
    req,            \* each writer's entry and mode
    ckpt,           \* value a call of write_checkpoint is writing; 0: none
    sealed,         \* segments the running compaction still has to remove
    kept,           \* entries the running compaction has written to its .tmp
    cpc,            \* where the compaction is
    \* history
    ops,            \* calls of append so far
    crashes,        \* crashes so far
    ackedDurable,   \* operations acknowledged in durable mode
    ackedFast,      \* operations acknowledged in fast mode since the last open
    flushed,        \* operations a checkpoint's caller had moved out of the WAL
    removed,        \* operations whose segment file compaction removed
    failedLate      \* operations whose failed write a later call has reported
                    \* since the last open

disk == <<files, segs, stable, merged, checkpoint>>
writer == <<cur, bytesWritten, opsSinceFsync>>
appends == <<pc, req, nextTxn, ops>>
compaction == <<sealed, kept, cpc>>
history == <<crashes, ackedDurable, ackedFast, flushed, removed>>
late == <<lateError, failedLate>>
vars == <<disk, writer, appends, compaction, history, up, ckpt, late>>

NoReq == [txn |-> 0, op |-> 0, mode |-> "Fast"]

-----------------------------------------------------------------------------
(* Reading segments back *)

\* read_segment_entries: positions before the segment's first torn entry.
Valid(i) == {k \in DOMAIN segs[i] : \A j \in 1..k : segs[i][j] # Torn}

\* recover: the operations it returns.  list_segments skips merged segments,
\* and every listed segment is read up to its own first torn entry.
RecoveredOps ==
    UNION {{segs[i][k].op : k \in {n \in Valid(i) : segs[i][n].txn > checkpoint}}
              : i \in files}

\* compact: the entries of the segments in S, the latest one for each txn_id.
Dedup(S) ==
    UNION {{segs[i][k] : k \in {n \in Valid(i) :
                \A j \in S : \A m \in Valid(j) :
                    segs[j][m].txn = segs[i][n].txn => j < i \/ (j = i /\ m <= n)}}
              : i \in S}

-----------------------------------------------------------------------------
Init ==
    /\ files = {0}
    /\ segs = [i \in SegId |-> <<>>]
    /\ stable = [i \in SegId |-> 0]
    /\ merged = {}
    /\ checkpoint = 0
    /\ up = TRUE
    /\ nextTxn = 1
    /\ cur = 0
    /\ bytesWritten = 0
    /\ opsSinceFsync = 0
    /\ pc = [w \in Writers |-> "idle"]
    /\ req = [w \in Writers |-> NoReq]
    /\ ckpt = 0
    /\ sealed = {}
    /\ kept = {}
    /\ cpc = "idle"
    /\ ops = 0
    /\ crashes = 0
    /\ ackedDurable = {}
    /\ ackedFast = {}
    /\ flushed = {}
    /\ removed = {}
    /\ lateError = 0
    /\ failedLate = {}

-----------------------------------------------------------------------------
(* append *)

\* current_segment's mutex: held from the rotation test to the return.
LockFree == \A w \in Writers : pc[w] \notin {"rotated", "written"}

Full == bytesWritten + 1 > SegmentSize

\* fsync: flush, which reports the error of an earlier write, and sync_all.
Fsync ==
    /\ lateError = 0
    /\ stable' = [stable EXCEPT ![cur] = Len(segs[cur])]
    /\ opsSinceFsync' = 0

\* A call on the file returns an error: the one of an earlier write if there is
\* one, which its own caller was not told of, or else an error of this call.
ReportError ==
    /\ lateError' = 0
    /\ failedLate' = failedLate \cup ({lateError} \ {0})

\* append returns, with a transaction id or an error: the lock is released.
Return(w) ==
    /\ pc' = [pc EXCEPT ![w] = "idle"]
    /\ req' = [req EXCEPT ![w] = NoReq]

\* The transaction id is drawn before the lock is requested.
Assign(w, mode) ==
    /\ up
    /\ pc[w] = "idle"
    /\ ops < MaxOps
    /\ ops' = ops + 1
    /\ req' = [req EXCEPT ![w] = [txn |-> nextTxn, op |-> ops + 1, mode |-> mode]]
    /\ nextTxn' = nextTxn + 1
    /\ pc' = [pc EXCEPT ![w] = "assigned"]
    /\ UNCHANGED <<disk, writer, compaction, history, up, ckpt, late>>

\* Mutant of Rotate: the full segment is not fsynced before the next one.
RotateNoFsync(w) ==
    /\ pc[w] = "assigned"
    /\ LockFree
    /\ Full
    /\ cur < MaxSegment
    /\ cur' = cur + 1
    /\ files' = files \cup {cur + 1}
    /\ segs' = [segs EXCEPT ![cur + 1] = <<>>]
    /\ stable' = [stable EXCEPT ![cur + 1] = 0]
    /\ bytesWritten' = 0
    /\ opsSinceFsync' = 0
    /\ pc' = [pc EXCEPT ![w] = "rotated"]
    /\ UNCHANGED <<merged, checkpoint, req, nextTxn, ops,
                   compaction, history, up, ckpt, late>>

\* The lock is taken and the segment is full: fsync it, create the next one.
Rotate(w) ==
    /\ pc[w] = "assigned"
    /\ LockFree
    /\ Full
    /\ lateError = 0
    /\ cur < MaxSegment
    /\ cur' = cur + 1
    /\ files' = files \cup {cur + 1}
    /\ segs' = [segs EXCEPT ![cur + 1] = <<>>]
    /\ stable' = [stable EXCEPT ![cur] = Len(segs[cur]), ![cur + 1] = 0]
    /\ bytesWritten' = 0
    /\ opsSinceFsync' = 0
    /\ pc' = [pc EXCEPT ![w] = "rotated"]
    /\ UNCHANGED <<merged, checkpoint, req, nextTxn, ops,
                   compaction, history, up, ckpt, late>>

\* fsync or File::create fails: the caller gets an error.
RotateError(w) ==
    /\ pc[w] = "assigned"
    /\ LockFree
    /\ Full
    /\ \/ UNCHANGED <<stable, opsSinceFsync>>
       \/ Fsync
    /\ ReportError
    /\ Return(w)
    /\ UNCHANGED <<files, segs, merged, checkpoint, cur, bytesWritten, nextTxn, ops,
                   compaction, history, up, ckpt>>

\* The writer may write: it has rotated, or takes the lock of a segment with room.
MayWrite(w) ==
    \/ pc[w] = "rotated"
    \/ pc[w] = "assigned" /\ LockFree /\ ~Full

\* The bytes of an entry do not reach the file, or only some of them.
WriteFails ==
    \/ UNCHANGED segs
    \/ segs' = [segs EXCEPT ![cur] = Append(@, Torn)]

\* write_entry succeeds: write_all has taken the bytes.  Whether they reach the
\* file is decided in the background; a failure waits for the next call.
Write(w) ==
    /\ MayWrite(w)
    /\ lateError = 0
    /\ \/ /\ segs' = [segs EXCEPT ![cur] =
                          Append(@, [txn |-> req[w].txn, op |-> req[w].op])]
          /\ UNCHANGED lateError
       \/ /\ WriteFails
          /\ lateError' = req[w].op
    /\ bytesWritten' = bytesWritten + 1
    /\ opsSinceFsync' = opsSinceFsync + 1
    /\ pc' = [pc EXCEPT ![w] = "written"]
    /\ UNCHANGED <<files, stable, merged, checkpoint, cur, req, nextTxn, ops,
                   compaction, history, up, ckpt, failedLate>>

\* Mutant of WriteError: the failed write is subtracted from bytes_written.
WriteErrorRollback(w) ==
    /\ MayWrite(w)
    /\ UNCHANGED segs
    /\ bytesWritten' = bytesWritten - 1
    /\ Return(w)
    /\ UNCHANGED <<files, stable, merged, checkpoint, cur, opsSinceFsync, nextTxn,
                   ops, compaction, history, up, ckpt, late>>

\* write_all returns an error with "?": that of the operation before, in which
\* case it writes nothing, or that of the first part of an entry longer than the
\* file's buffer.
WriteError(w) ==
    /\ MayWrite(w)
    /\ IF lateError = 0 THEN WriteFails ELSE UNCHANGED segs
    /\ ReportError
    /\ Return(w)
    /\ UNCHANGED <<files, stable, merged, checkpoint, writer, nextTxn, ops,
                   compaction, history, up, ckpt>>

\* Mutants of ShouldFsync: the mode is ignored; one operation too late.
ShouldFsyncNoMode(w) == opsSinceFsync >= FsyncIntervalOps
ShouldFsyncLate(w) == req[w].mode = "Durable" \/ opsSinceFsync > FsyncIntervalOps

ShouldFsync(w) ==
    req[w].mode = "Durable" \/ opsSinceFsync >= FsyncIntervalOps

\* Mutant of Finish: wait, with the lock, until a group of operations is due.
FinishGroup(w) ==
    /\ pc[w] = "written"
    /\ ShouldFsync(w)
    /\ Fsync
    /\ ackedFast' = ackedFast \cup {req[w].op}
    /\ Return(w)
    /\ UNCHANGED <<files, segs, merged, checkpoint, cur, bytesWritten, nextTxn,
                   ops, compaction, crashes, ackedDurable, flushed, removed, up, ckpt, late>>

\* fsync if due, release the lock, return the transaction id to the caller.
Finish(w) ==
    /\ pc[w] = "written"
    /\ IF ShouldFsync(w) THEN Fsync ELSE UNCHANGED <<stable, opsSinceFsync>>
    /\ IF req[w].mode = "Durable"
       THEN ackedDurable' = ackedDurable \cup {req[w].op} /\ UNCHANGED ackedFast
       ELSE ackedFast' = ackedFast \cup {req[w].op} /\ UNCHANGED ackedDurable
    /\ Return(w)
    /\ UNCHANGED <<files, segs, merged, checkpoint, cur, bytesWritten, nextTxn,
                   ops, compaction, crashes, flushed, removed, up, ckpt, late>>

\* fsync fails, because the entry's own write failed or else with the entry in
\* the file: the caller gets an error.
FsyncError(w) ==
    /\ pc[w] = "written"
    /\ ShouldFsync(w)
    /\ ReportError
    /\ Return(w)
    /\ UNCHANGED <<disk, writer, nextTxn, ops, compaction, history, up, ckpt>>

\* flush
Flush ==
    /\ up
    /\ LockFree
    /\ Fsync
    /\ UNCHANGED <<files, segs, merged, checkpoint, cur, bytesWritten, appends,
                   compaction, history, up, ckpt, late>>

\* flush returns the error of an earlier write, or its own.
FlushError ==
    /\ up
    /\ LockFree
    /\ ReportError
    /\ UNCHANGED <<disk, writer, appends, compaction, history, up, ckpt>>

-----------------------------------------------------------------------------
(* write_checkpoint *)

\* The caller vouches that all operations up to transaction t have left the
\* WAL; it cannot vouch for an append that has not returned.  File::create
\* empties checkpoint.bin first.
BeginCheckpoint(t) ==
    /\ up
    /\ ckpt = 0
    /\ \A w \in Writers : pc[w] # "idle" => t < req[w].txn
    /\ flushed' = flushed \cup
          UNION {{segs[i][k].op : k \in {n \in Valid(i) : segs[i][n].txn <= t}}
                    : i \in files}
    /\ checkpoint' = 0
    /\ ckpt' = t
    /\ UNCHANGED <<files, segs, stable, merged, writer, appends, compaction,
                   crashes, ackedDurable, ackedFast, removed, up, late>>

EndCheckpoint ==
    /\ ckpt # 0
    /\ checkpoint' = ckpt
    /\ ckpt' = 0
    /\ UNCHANGED <<files, segs, stable, merged, writer, appends, compaction,
                   history, up, late>>

\* The write fails: checkpoint.bin stays empty or cut off, and unreadable.
CheckpointError ==
    /\ ckpt # 0
    /\ ckpt' = 0
    /\ UNCHANGED <<disk, writer, appends, compaction, history, up, late>>

-----------------------------------------------------------------------------
(* compact *)

\* Read the sealed segments and write the surviving entries to a .tmp file.
\* Sealed segments are never written again, so the read is one step.
CompactRead ==
    /\ up
    /\ cpc = "idle"
    /\ LockFree
    /\ \E S \in {{i \in files : i < cur}} :
          /\ S # {}
          /\ sealed' = S
          /\ kept' = Dedup(S)
    /\ cpc' = "read"
    /\ UNCHANGED <<disk, writer, appends, history, up, ckpt, late>>

\* Rename the .tmp file; its name has the time in seconds, so it replaces
\* the merged file of a compaction in the same second.
CompactRename ==
    /\ cpc = "read"
    /\ merged' \in {merged \cup kept, kept}
    /\ cpc' = "renamed"
    /\ UNCHANGED <<files, segs, stable, checkpoint, writer, appends, sealed, kept,
                   history, up, ckpt, late>>

\* Remove the sealed segment files one by one, in the order of their ids.
CompactRemove(i) ==
    /\ cpc = "renamed"
    /\ i \in sealed
    /\ \A j \in sealed : i <= j
    /\ files' = files \ {i}
    /\ removed' = removed \cup {segs[i][k].op : k \in {n \in DOMAIN segs[i] : segs[i][n] # Torn}}
    /\ segs' = [segs EXCEPT ![i] = <<>>]
    /\ stable' = [stable EXCEPT ![i] = 0]
    /\ sealed' = sealed \ {i}
    /\ cpc' = IF sealed' = {} THEN "idle" ELSE "renamed"
    /\ kept' = IF sealed' = {} THEN {} ELSE kept
    /\ UNCHANGED <<merged, checkpoint, writer, appends, crashes, ackedDurable,
                   ackedFast, flushed, up, ckpt, late>>

\* A file cannot be read, written, renamed or removed: what is done is done.
CompactError ==
    /\ cpc # "idle"
    /\ sealed' = {} /\ kept' = {} /\ cpc' = "idle"
    /\ UNCHANGED <<disk, writer, appends, history, up, ckpt, late>>

-----------------------------------------------------------------------------
(* Crash and reopen *)

\* What can be left of segment i: at least the fsynced prefix, then whole
\* entries in order, then perhaps a part of the next one.
Survivors(i) ==
    {SubSeq(segs[i], 1, n) : n \in stable[i]..Len(segs[i])}
    \cup {Append(SubSeq(segs[i], 1, n), Torn) : n \in stable[i]..(Len(segs[i]) - 1)}

\* The process is killed, or the machine goes down and with it what the
\* operating system had not written: then what is left is on disk.
Crash ==
    /\ up
    /\ crashes < MaxCrashes
    /\ \E left \in [SegId -> UNION {Survivors(i) : i \in SegId}] :
          /\ \A i \in SegId : left[i] \in Survivors(i)
          /\ segs' = left
          /\ stable' \in {stable, [i \in SegId |-> Len(left[i])]}
    /\ up' = FALSE
    /\ pc' = [w \in Writers |-> "idle"]
    /\ req' = [w \in Writers |-> NoReq]
    /\ ckpt' = 0
    /\ sealed' = {} /\ kept' = {} /\ cpc' = "idle"
    /\ ackedFast' = {}
    /\ lateError' = 0
    /\ failedLate' = {}
    /\ crashes' = crashes + 1
    /\ UNCHANGED <<files, merged, checkpoint, writer, nextTxn, ops,
                   ackedDurable, flushed, removed>>

\* Mutant of Open: transaction ids restart at 1 whatever the checkpoint says.
OpenNoCheckpoint ==
    /\ ~up
    /\ up' = TRUE
    /\ cur' \in files
    /\ \A i \in files : i <= cur'
    /\ bytesWritten' = Len(segs[cur'])
    /\ opsSinceFsync' = 0
    /\ nextTxn' = 1
    /\ UNCHANGED <<disk, pc, req, ops, compaction, history, ckpt, late>>

\* open: append to the segment with the highest id as it is (a torn tail is
\* not cut off); transaction ids restart after the checkpoint.
Open ==
    /\ ~up
    /\ up' = TRUE
    /\ cur' \in files
    /\ \A i \in files : i <= cur'
    /\ bytesWritten' = Len(segs[cur'])
    /\ opsSinceFsync' = 0
    /\ nextTxn' = checkpoint + 1
    /\ UNCHANGED <<disk, pc, req, ops, compaction, history, ckpt, late>>

-----------------------------------------------------------------------------
Next ==
    \/ \E w \in Writers :
          \/ \E mode \in Mode : Assign(w, mode)
          \/ Rotate(w)
          \/ RotateError(w)
          \/ Write(w)
          \/ WriteError(w)
          \/ Finish(w)
          \/ FsyncError(w)
    \/ Flush
    \/ FlushError
    \/ \E t \in 1..(nextTxn - 1) : BeginCheckpoint(t)
    \/ EndCheckpoint
    \/ CheckpointError
    \/ CompactRead
    \/ CompactRename
    \/ \E i \in SegId : CompactRemove(i)
    \/ CompactError
    \/ Crash
    \/ Open

Spec == Init /\ [][Next]_vars

\* A task that is polled and holds or can take the lock runs on; tokio's mutex
\* is first come, first served.  A closed log is reopened.
Progress(w) ==
    Rotate(w) \/ RotateError(w) \/ Write(w) \/ WriteError(w) \/ Finish(w) \/ FsyncError(w)

FairSpec == Spec /\ (\A w \in Writers : SF_vars(Progress(w))) /\ WF_vars(Open)

-----------------------------------------------------------------------------
(* Properties *)

\* Types, and what each counter and set may hold.
TypeOK ==
    /\ files \subseteq SegId
    /\ segs \in [SegId -> Seq(Entry \cup {Torn})]
    /\ stable \in [SegId -> Nat]
    /\ merged \subseteq Entry
    /\ checkpoint \in Nat
    /\ up \in BOOLEAN
    /\ nextTxn \in Nat
    /\ cur \in SegId
    /\ bytesWritten \in Nat
    /\ opsSinceFsync \in Nat
    /\ pc \in [Writers -> {"idle", "assigned", "rotated", "written"}]
    /\ req \in [Writers -> [txn : Nat, op : 0..MaxOps, mode : Mode]]
    /\ ckpt \in Nat
    /\ sealed \subseteq SegId
    /\ kept \subseteq Entry
    /\ cpc \in {"idle", "read", "renamed"}
    /\ ops \in 0..MaxOps
    /\ crashes \in 0..MaxCrashes
    /\ ackedDurable \subseteq Op
    /\ ackedFast \subseteq Op
    /\ flushed \subseteq Op
    /\ removed \subseteq Op
    /\ lateError \in 0..MaxOps
    /\ failedLate \subseteq Op

\* Operation o is an entry of a segment's fsynced prefix.
OnDisk(o) ==
    \E i \in files : \E k \in 1..stable[i] : segs[i][k] # Torn /\ segs[i][k].op = o

\* Operation o is an entry behind a torn one.
BehindTorn(o) ==
    \E i \in files : \E k \in DOMAIN segs[i] \ Valid(i) :
        segs[i][k] # Torn /\ segs[i][k].op = o

\* Rotation seals a segment for good: every segment but the newest is fsynced
\* to its last byte (append, wal.rs: fsync before the next segment is created).
SealedStable ==
    \A i, j \in files : i < j => stable[i] = Len(segs[i])

\* An operation acknowledged in durable mode is returned by recover, unless a
\* checkpoint's caller had flushed it, a torn entry precedes it in its segment,
\* or compaction removed its segment: nothing else the WAL, its concurrent
\* writers, failed writes and crashes do can lose it.
DurableNotLost ==
    \A o \in ackedDurable :
        \/ o \in RecoveredOps
        \/ o \in flushed
        \/ o \in removed
        \/ BehindTorn(o)

\* recover never skips an entry as flushed that no caller of write_checkpoint
\* had flushed, although ids are drawn before the lock and restart on open.
CheckpointSound ==
    \A i \in files : \A k \in Valid(i) :
        segs[i][k].txn <= checkpoint => segs[i][k].op \in flushed

\* At most fsync_interval_ops - 1 operations acknowledged in fast mode since
\* the log was opened are not yet on disk, failed writes that nobody has been
\* told of included; one whose failure a later caller was told of is lost, and
\* the counter no longer bounds how many of those there are.
FastLossBounded ==
    LET exposed == {o \in ackedFast : ~OnDisk(o) /\ o \notin removed \cup failedLate}
    IN  exposed = {} \/ Cardinality(exposed) < FsyncIntervalOps

\* Every call of append returns, or the process goes down: no path through it,
\* failed writes and fsyncs included, keeps the lock.
AppendReturns == \A w \in Writers : pc[w] # "idle" ~> pc[w] = "idle"

\* What doc comments promise of WriteMode::Durable, with no exception for a
\* torn entry left by an earlier crash or failed write.
DurableSurvives ==
    \A o \in ackedDurable : o \in RecoveredOps \/ o \in flushed \/ o \in removed

=============================================================================
