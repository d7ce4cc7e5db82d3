------------------------------ MODULE WALProofs ------------------------------
(***************************************************************************)
(* Proofs about WAL for every number of writers, segment size, fsync       *)
(* interval and bound.  IInv is the inductive invariant: it says of each   *)
(* stage of append, write_checkpoint, compact and open what the next stage *)
(* relies on.                                                              *)
(***************************************************************************)
EXTENDS WAL, FiniteSetTheorems, TLAPS

Holds(w) == pc[w] \in {"rotated", "written"}

\* The mutex of current_segment admits one writer.
Mutex == \A w, v \in Writers : Holds(w) /\ Holds(v) => w = v

\* A crash leaves no call of the API in progress.
DownQuiet ==
    ~up => /\ \A w \in Writers : pc[w] = "idle"
           /\ ckpt = 0
           /\ sealed = {}

\* Writers append to the newest file; compaction works on older ones.
CurNewest ==
    up => /\ cur \in files
          /\ \A i \in files : i <= cur
          /\ \A i \in sealed : i < cur

StableLen == \A i \in SegId : stable[i] <= Len(segs[i])

\* Every id drawn is above the checkpoint and the one being written.
IdsAboveCheckpoint ==
    /\ up => checkpoint < nextTxn /\ ckpt < nextTxn
    /\ \A w \in Writers : pc[w] # "idle" =>
          /\ checkpoint < req[w].txn
          /\ ckpt < req[w].txn
          /\ req[w].txn < nextTxn
          /\ req[w].op \in Op

\* A writer about to fsync finds its entry in the current segment, or the fsync
\* will report that its write failed.
InFile ==
    \A w \in Writers : pc[w] = "written" =>
        \/ lateError = req[w].op
        \/ \E k \in DOMAIN segs[cur] :
               segs[cur][k] # Torn /\ segs[cur][k].op = req[w].op

\* CheckpointSound, for the checkpoint on disk and the one being written.
FlushedBelow ==
    \A i \in files : \A k \in Valid(i) :
        segs[i][k].txn <= checkpoint \/ segs[i][k].txn <= ckpt
            => segs[i][k].op \in flushed

DurableOnDisk == \A o \in ackedDurable : o \in removed \/ OnDisk(o)

IInv ==
    /\ TypeOK
    /\ Mutex
    /\ DownQuiet
    /\ CurNewest
    /\ StableLen
    /\ SealedStable
    /\ IdsAboveCheckpoint
    /\ InFile
    /\ FlushedBelow
    /\ DurableOnDisk

-----------------------------------------------------------------------------
(* Helpers *)

USE SegmentSizeAssumption, FsyncAssumption, MaxSegmentAssumption,
    MaxOpsAssumption, MaxCrashesAssumption, TornAssumption

\* A valid position holds an entry.
LEMMA ValidEntry ==
    ASSUME TypeOK, NEW i \in SegId, NEW k \in Valid(i)
    PROVE  /\ k \in DOMAIN segs[i]
           /\ segs[i][k] \in Entry
<1>1. k \in DOMAIN segs[i] /\ k \in 1..k /\ segs[i][k] # Torn
  BY DEF Valid, TypeOK
<1> QED
  BY <1>1 DEF TypeOK

\* What a crash leaves of a segment is a prefix of it, perhaps and a torn entry.
LEMMA SurvivorsShape ==
    ASSUME TypeOK, StableLen, NEW i \in SegId, NEW s \in Survivors(i)
    PROVE  \E n \in Nat :
             /\ stable[i] <= n /\ n <= Len(segs[i])
             /\ s \in Seq(Entry \cup {Torn})
             /\ Len(s) \in {n, n + 1}
             /\ \A k \in 1..n : s[k] = segs[i][k]
             /\ Len(s) = n + 1 => s[n + 1] = Torn /\ n < Len(segs[i])
<1> DEFINE C == Entry \cup {Torn}
<1>0. segs[i] \in Seq(C) /\ stable[i] \in Nat /\ Torn \in C /\ Len(segs[i]) \in Nat
  BY DEF TypeOK
<1> HIDE DEF C
<1>1. ASSUME NEW n \in Nat, n <= Len(segs[i])
      PROVE  /\ SubSeq(segs[i], 1, n) \in Seq(C)
             /\ Len(SubSeq(segs[i], 1, n)) = n
             /\ \A k \in 1..n : SubSeq(segs[i], 1, n)[k] = segs[i][k]
  BY <1>0, <1>1
<1>2. CASE \E n \in stable[i]..Len(segs[i]) : s = SubSeq(segs[i], 1, n)
  <2>1. PICK n \in stable[i]..Len(segs[i]) : s = SubSeq(segs[i], 1, n)
    BY <1>2
  <2>2. n \in Nat /\ stable[i] <= n /\ n <= Len(segs[i])
    BY <1>0, <2>1
  <2>3. s \in Seq(C) /\ Len(s) = n /\ \A k \in 1..n : s[k] = segs[i][k]
    BY <1>1, <2>1, <2>2
  <2> QED
    BY <2>2, <2>3 DEF C
<1>3. CASE \E n \in stable[i]..(Len(segs[i]) - 1) :
             s = Append(SubSeq(segs[i], 1, n), Torn)
  <2>1. PICK n \in stable[i]..(Len(segs[i]) - 1) :
               s = Append(SubSeq(segs[i], 1, n), Torn)
    BY <1>3
  <2>2. n \in Nat /\ stable[i] <= n /\ n < Len(segs[i]) /\ n <= Len(segs[i])
    BY <1>0, <2>1
  <2> DEFINE p == SubSeq(segs[i], 1, n)
  <2>3. p \in Seq(C) /\ Len(p) = n /\ \A k \in 1..n : p[k] = segs[i][k]
    BY <1>1, <2>2
  <2>4. s = Append(p, Torn)
    BY <2>1
  <2> HIDE DEF p
  <2>5. /\ s \in Seq(C) /\ Len(s) = n + 1 /\ s[n + 1] = Torn
        /\ \A k \in 1..n : s[k] = p[k]
    BY <1>0, <2>2, <2>3, <2>4
  <2> QED
    BY <2>2, <2>3, <2>5 DEF C
<1> QED
  BY <1>2, <1>3 DEF Survivors

\* No operation of the WAL leaves the types.
LEMMA TypeStep == TypeOK /\ StableLen /\ IdsAboveCheckpoint /\ [Next]_vars => TypeOK'
<1> SUFFICES ASSUME TypeOK, StableLen, IdsAboveCheckpoint, [Next]_vars
             PROVE  TypeOK'
  OBVIOUS
<1> DEFINE C == Entry \cup {Torn}
           R == [txn : Nat, op : 0..MaxOps, mode : Mode]
           P == {"idle", "assigned", "rotated", "written"}
<1>a. segs \in [SegId -> Seq(C)] /\ req \in [Writers -> R] /\ pc \in [Writers -> P]
  BY DEF TypeOK
<1>b. NoReq \in R /\ Torn \in C /\ "idle" \in P
  BY DEF NoReq, Mode
<1>c. ASSUME NEW w \in Writers, Return(w)
      PROVE  req' \in [Writers -> R] /\ pc' \in [Writers -> P]
  BY <1>a, <1>b, <1>c DEF Return
<1>d. cur \in SegId /\ Len(segs[cur]) \in Nat /\ stable \in [SegId -> Nat]
  BY <1>a DEF TypeOK
<1>e. Fsync => stable' \in [SegId -> Nat] /\ opsSinceFsync' \in Nat
  BY <1>d DEF Fsync
<1>f. TypeOK' <=> /\ (files \subseteq SegId)'
                  /\ (segs \in [SegId -> Seq(C)])'
                  /\ (stable \in [SegId -> Nat])'
                  /\ (merged \subseteq Entry)'
                  /\ (checkpoint \in Nat)'
                  /\ (up \in BOOLEAN)'
                  /\ (nextTxn \in Nat)'
                  /\ (cur \in SegId)'
                  /\ (bytesWritten \in Nat)'
                  /\ (opsSinceFsync \in Nat)'
                  /\ (pc \in [Writers -> P])'
                  /\ (req \in [Writers -> R])'
                  /\ (ckpt \in Nat)'
                  /\ (sealed \subseteq SegId)'
                  /\ (kept \subseteq Entry)'
                  /\ (cpc \in {"idle", "read", "renamed"})'
                  /\ (ops \in 0..MaxOps)'
                  /\ (crashes \in 0..MaxCrashes)'
                  /\ (ackedDurable \subseteq Op)'
                  /\ (ackedFast \subseteq Op)'
                  /\ (flushed \subseteq Op)'
                  /\ (removed \subseteq Op)'
                  /\ (lateError \in 0..MaxOps)'
                  /\ (failedLate \subseteq Op)'
  BY DEF TypeOK
<1>g. ReportError => lateError' \in 0..MaxOps /\ failedLate' \subseteq Op
  BY DEF ReportError, TypeOK, Op
<1>h. WriteFails => segs' \in [SegId -> Seq(C)]
  <2>1. Append(segs[cur], Torn) \in Seq(C)
    BY <1>a, <1>b, <1>d
  <2> QED
    BY <1>a, <1>d, <2>1 DEF WriteFails
<1> HIDE DEF C, R, P
<1> USE DEF disk, writer, appends, compaction, history, late
<1>1. ASSUME NEW w \in Writers, NEW mode \in Mode, Assign(w, mode)
      PROVE  TypeOK'
  <2>1. [txn |-> nextTxn, op |-> ops + 1, mode |-> mode] \in R /\ "assigned" \in P
    BY <1>1 DEF Assign, TypeOK, R, P
  <2> QED
    BY <1>1, <1>a, <1>f, <2>1, SMTT(30) DEF Assign, TypeOK
<1>2. ASSUME NEW w \in Writers, Rotate(w)
      PROVE  TypeOK'
  <2>1. "rotated" \in P /\ cur + 1 \in SegId /\ <<>> \in Seq(C)
    BY <1>2 DEF Rotate, TypeOK, P, SegId
  <2> QED
    BY <1>2, <1>a, <1>d, <1>f, <2>1 DEF Rotate, TypeOK
<1>3. ASSUME NEW w \in Writers, RotateError(w)
      PROVE  TypeOK'
  BY <1>3, <1>a, <1>c, <1>d, <1>e, <1>f, <1>g DEF RotateError, TypeOK
<1>4. ASSUME NEW w \in Writers, Write(w)
      PROVE  TypeOK'
  <2>1. [txn |-> req[w].txn, op |-> req[w].op] \in C /\ "written" \in P
    BY <1>4, <1>a DEF Write, MayWrite, IdsAboveCheckpoint, C, P, R, Entry
  <2>2. segs' \in [SegId -> Seq(C)]
    <3>1. \/ WriteFails
          \/ segs' = [segs EXCEPT ![cur] = Append(segs[cur], [txn |-> req[w].txn, op |-> req[w].op])]
      BY <1>4 DEF Write
    <3> DEFINE e == [txn |-> req[w].txn, op |-> req[w].op]
    <3>2. e \in C
      BY <2>1
    <3>3. segs' = [segs EXCEPT ![cur] = Append(segs[cur], e)] \/ WriteFails
      BY <3>1
    <3> HIDE DEF e
    <3>4. Append(segs[cur], e) \in Seq(C)
      BY <1>a, <1>d, <3>2
    <3> QED
      BY <1>a, <1>d, <1>h, <3>3, <3>4
  <2>3. lateError' \in 0..MaxOps
    BY <1>4, <1>a DEF Write, TypeOK, R
  <2> QED
    BY <1>4, <1>a, <1>f, <2>1, <2>2, <2>3 DEF Write, TypeOK
<1>5. ASSUME NEW w \in Writers, WriteError(w)
      PROVE  TypeOK'
  <2>1. segs' \in [SegId -> Seq(C)]
    BY <1>5, <1>a, <1>h DEF WriteError
  <2> QED
    BY <1>5, <1>c, <1>f, <1>g, <2>1 DEF WriteError, TypeOK
<1>6. ASSUME NEW w \in Writers, Finish(w)
      PROVE  TypeOK'
  <2>1. stable' \in [SegId -> Nat] /\ opsSinceFsync' \in Nat
    BY <1>6, <1>d, <1>e DEF Finish, TypeOK
  <2>2. req[w].op \in Op
    BY <1>6 DEF Finish, IdsAboveCheckpoint
  <2>3. ackedDurable' \subseteq Op /\ ackedFast' \subseteq Op
    BY <1>6, <2>2 DEF Finish, TypeOK
  <2> QED
    <3>1. /\ Return(w)
          /\ UNCHANGED <<files, segs, merged, checkpoint, cur, bytesWritten, nextTxn,
                         ops, compaction, crashes, flushed, removed, up, ckpt, late>>
      BY <1>6 DEF Finish
    <3> QED
      BY <1>a, <1>c, <1>f, <2>1, <2>3, <3>1 DEF TypeOK
<1>7. ASSUME NEW w \in Writers, FsyncError(w)
      PROVE  TypeOK'
  BY <1>7, <1>a, <1>c, <1>f, <1>g DEF FsyncError, TypeOK
<1>19. CASE FlushError
  BY <1>19, <1>a, <1>f, <1>g DEF FlushError, TypeOK
<1>8. CASE Flush
  BY <1>8, <1>a, <1>e, <1>f DEF Flush, TypeOK
<1>9. ASSUME NEW t \in 1..(nextTxn - 1), BeginCheckpoint(t)
      PROVE  TypeOK'
  BY <1>9, <1>a, <1>f, ValidEntry DEF BeginCheckpoint, TypeOK, Entry
<1>10. CASE EndCheckpoint
  BY <1>10, <1>a, <1>f DEF EndCheckpoint, TypeOK
<1>17. CASE CheckpointError
  BY <1>17, <1>a, <1>f DEF CheckpointError, TypeOK
<1>18. CASE CompactError
  BY <1>18, <1>a, <1>f DEF CompactError, TypeOK
<1>11. CASE CompactRead
  <2>1. Dedup({i \in files : i < cur}) \subseteq Entry
    BY ValidEntry DEF Dedup, TypeOK
  <2> QED
  BY <1>11, <1>a, <1>f, <2>1 DEF CompactRead, TypeOK
<1>12. CASE CompactRename
  BY <1>12, <1>a, <1>f DEF CompactRename, TypeOK
<1>13. ASSUME NEW i \in SegId, CompactRemove(i)
       PROVE  TypeOK'
  <2>1. {segs[i][k].op : k \in {n \in DOMAIN segs[i] : segs[i][n] # Torn}} \subseteq Op
    BY <1>a DEF C, Entry
  <2>2. <<>> \in Seq(C)
    OBVIOUS
  <2> QED
    BY <1>13, <1>a, <1>f, <2>1, <2>2 DEF CompactRemove, TypeOK
<1>14. CASE Crash
  <2>1. segs' \in [SegId -> Seq(C)]
    BY <1>14, SurvivorsShape DEF Crash, C
  <2>2. stable' \in [SegId -> Nat]
    <3>1. stable' = stable \/ stable' = [i \in SegId |-> Len(segs'[i])]
      BY <1>14 DEF Crash
    <3>2. \A i \in SegId : Len(segs'[i]) \in Nat
      BY <2>1
    <3> QED
      BY <1>d, <3>1, <3>2
  <2>3. crashes' \in 0..MaxCrashes
    <3>1. crashes' = crashes + 1 /\ crashes < MaxCrashes /\ crashes \in 0..MaxCrashes
      BY <1>14 DEF Crash, TypeOK
    <3> QED
      BY <3>1
  <2>4. req' \in [Writers -> R] /\ pc' \in [Writers -> P]
    BY <1>14, <1>b DEF Crash
  <2> QED
    <3>1. lateError' \in 0..MaxOps /\ failedLate' \subseteq Op
      BY <1>14 DEF Crash
    <3> QED
      BY <1>14, <1>f, <2>1, <2>2, <2>3, <2>4, <3>1 DEF Crash, TypeOK
<1>15. CASE Open
  BY <1>15, <1>a, <1>f DEF Open, TypeOK
<1>16. CASE UNCHANGED vars
  BY <1>16, <1>a, <1>f DEF vars, TypeOK
<1> QED
  BY <1>1, <1>2, <1>3, <1>4, <1>5, <1>6, <1>7, <1>8, <1>9, <1>10, <1>11,
     <1>12, <1>13, <1>14, <1>15, <1>16, <1>17, <1>18, <1>19 DEF Next

\* The lock: a writer gets it only when no other writer has it.
LEMMA MutexStep == IInv /\ [Next]_vars => Mutex'
<1> SUFFICES ASSUME IInv, [Next]_vars
             PROVE  Mutex'
  OBVIOUS
<1>a. Mutex /\ pc \in [Writers -> {"idle", "assigned", "rotated", "written"}]
  BY DEF IInv, TypeOK
<1>b. ASSUME pc' = pc
      PROVE  Mutex'
  BY <1>a, <1>b DEF Mutex, Holds
<1>c. ASSUME NEW w \in Writers, Return(w)
      PROVE  Mutex'
  BY <1>a, <1>c DEF Mutex, Holds, Return
<1> USE DEF disk, writer, appends, compaction, history, late
<1>1. ASSUME NEW w \in Writers, NEW mode \in Mode, Assign(w, mode)
      PROVE  Mutex'
  BY <1>1, <1>a DEF Assign, Mutex, Holds
<1>2. ASSUME NEW w \in Writers, Rotate(w)
      PROVE  Mutex'
  BY <1>2, <1>a DEF Rotate, LockFree, Mutex, Holds
<1>3. ASSUME NEW w \in Writers, Write(w)
      PROVE  Mutex'
  BY <1>3, <1>a DEF Write, MayWrite, LockFree, Mutex, Holds
<1>4. ASSUME NEW w \in Writers,
             RotateError(w) \/ WriteError(w) \/ Finish(w) \/ FsyncError(w)
      PROVE  Mutex'
  BY <1>4, <1>c DEF RotateError, WriteError, Finish, FsyncError
<1>5. CASE Crash
  BY <1>5 DEF Crash, Mutex, Holds
<1>6. CASE \/ Flush \/ FlushError \/ EndCheckpoint \/ CheckpointError \/ CompactRead
           \/ CompactRename \/ CompactError \/ Open
           \/ UNCHANGED vars
           \/ \E t \in 1..(nextTxn - 1) : BeginCheckpoint(t)
           \/ \E i \in SegId : CompactRemove(i)
  BY <1>6, <1>b DEF Flush, FlushError, EndCheckpoint, CheckpointError, CompactRead,
     CompactRename, CompactError, Open, vars,
                    BeginCheckpoint, CompactRemove
<1> QED
  BY <1>1, <1>2, <1>3, <1>4, <1>5, <1>6 DEF Next

\* A crash resets every call in progress, and none starts while the log is closed.
LEMMA DownQuietStep == IInv /\ [Next]_vars => DownQuiet'
<1> SUFFICES ASSUME IInv, [Next]_vars
             PROVE  DownQuiet'
  OBVIOUS
<1>a. DownQuiet /\ TypeOK
  BY DEF IInv
<1> USE DEF disk, writer, appends, compaction, history, late, DownQuiet
<1>1. ASSUME NEW w \in Writers, NEW mode \in Mode, Assign(w, mode)
      PROVE  DownQuiet'
  BY <1>1 DEF Assign
<1>2. ASSUME NEW w \in Writers,
             \/ Rotate(w) \/ RotateError(w) \/ Write(w) \/ WriteError(w)
             \/ Finish(w) \/ FsyncError(w)
      PROVE  DownQuiet'
  <2>1. pc[w] # "idle" /\ up' = up
    BY <1>2 DEF Rotate, RotateError, Write, MayWrite, WriteError, Finish, FsyncError
  <2> QED
    BY <1>a, <2>1
<1>3. CASE \/ Flush \/ FlushError \/ CompactRead
           \/ CompactRename \/ CompactError \/ EndCheckpoint \/ CheckpointError
           \/ \E t \in 1..(nextTxn - 1) : BeginCheckpoint(t)
           \/ \E i \in SegId : CompactRemove(i)
  BY <1>3, <1>a DEF Flush, FlushError, CompactRead,
     CompactRename, CompactError, EndCheckpoint, CheckpointError, BeginCheckpoint,
                    CompactRemove
<1>4. CASE Crash \/ Open \/ UNCHANGED vars
  BY <1>4, <1>a DEF Crash, Open, vars
<1> QED
  BY <1>1, <1>2, <1>3, <1>4 DEF Next

\* Only rotation and compaction add or remove files.
LEMMA CurNewestStep == IInv /\ [Next]_vars => CurNewest'
<1> SUFFICES ASSUME IInv, [Next]_vars
             PROVE  CurNewest'
  OBVIOUS
<1>a. CurNewest /\ DownQuiet /\ cur \in Nat /\ files \subseteq Nat /\ sealed \subseteq Nat
  BY DEF IInv, TypeOK, SegId
<1>b. ASSUME UNCHANGED <<up, files, cur, sealed>>
      PROVE  CurNewest'
  BY <1>a, <1>b DEF CurNewest
<1> USE DEF disk, writer, appends, compaction, history, late
<1>1. ASSUME NEW w \in Writers, Rotate(w)
      PROVE  CurNewest'
  <2>1. up /\ up' /\ cur' = cur + 1 /\ files' = files \cup {cur + 1} /\ sealed' = sealed
    BY <1>1, <1>a DEF Rotate, DownQuiet
  <2> QED
    BY <2>1, <1>a DEF CurNewest
<1>2. ASSUME NEW w \in Writers,
             \/ RotateError(w) \/ Write(w) \/ WriteError(w) \/ Finish(w) \/ FsyncError(w)
             \/ \E mode \in Mode : Assign(w, mode)
      PROVE  CurNewest'
  BY <1>2, <1>b DEF RotateError, Write, WriteError, Finish, FsyncError, Assign
<1>3. CASE \/ Flush \/ FlushError \/ EndCheckpoint \/ CheckpointError
           \/ CompactRename \/ UNCHANGED vars
           \/ \E t \in 1..(nextTxn - 1) : BeginCheckpoint(t)
  BY <1>3, <1>b DEF Flush, FlushError, EndCheckpoint, CheckpointError,
     CompactRename, BeginCheckpoint, vars
<1>4. CASE CompactRead
  BY <1>4, <1>a DEF CompactRead, CurNewest
<1>5. ASSUME NEW i \in SegId, CompactRemove(i)
      PROVE  CurNewest'
  BY <1>5, <1>a DEF CompactRemove, CurNewest
<1>6. CASE Crash
  BY <1>6 DEF Crash, CurNewest
<1>8. CASE CompactError
  BY <1>8, <1>a DEF CompactError, CurNewest
<1>7. CASE Open
  BY <1>7, <1>a DEF Open, CurNewest, DownQuiet
<1> QED
  BY <1>1, <1>2, <1>3, <1>4, <1>5, <1>6, <1>7, <1>8 DEF Next

\* The fsynced prefix never exceeds the file, and is the whole file once a newer
\* segment exists.
LEMMA StableStep == IInv /\ [Next]_vars => StableLen' /\ SealedStable'
<1> SUFFICES ASSUME IInv, [Next]_vars
             PROVE  StableLen' /\ SealedStable'
  OBVIOUS
<1>a. /\ StableLen /\ SealedStable /\ CurNewest /\ DownQuiet
      /\ cur \in SegId /\ cur \in Int /\ files \subseteq SegId /\ files \subseteq Int
      /\ segs \in [SegId -> Seq(Entry \cup {Torn})]
      /\ stable \in [SegId -> Nat]
      /\ \A i \in SegId : Len(segs[i]) \in Nat
  BY DEF IInv, TypeOK, SegId
<1>b. ASSUME UNCHANGED <<segs, stable, files>>
      PROVE  StableLen' /\ SealedStable'
  BY <1>a, <1>b DEF StableLen, SealedStable
<1>c. ASSUME Fsync, UNCHANGED <<segs, files>>
      PROVE  StableLen' /\ SealedStable'
  BY <1>a, <1>c DEF Fsync, StableLen, SealedStable
\* Appending a cell to the newest segment.
<1>d. ASSUME up, UNCHANGED <<stable, files>>,
             NEW c \in Entry \cup {Torn}, segs' = [segs EXCEPT ![cur] = Append(segs[cur], c)]
      PROVE  StableLen' /\ SealedStable'
  <2>1. \A i \in SegId : Len(segs'[i]) = IF i = cur THEN Len(segs[i]) + 1 ELSE Len(segs[i])
    BY <1>a, <1>d
  <2>2. \A i, j \in files : i < j => i # cur
    BY <1>a, <1>d DEF CurNewest
  <2> QED
    BY <1>a, <1>d, <2>1, <2>2 DEF StableLen, SealedStable
<1> USE DEF disk, writer, appends, compaction, history, late
<1>e. ASSUME NEW w \in Writers, pc[w] # "idle"
      PROVE  up
  BY <1>a, <1>e DEF DownQuiet
<1>1. ASSUME NEW w \in Writers, Rotate(w)
      PROVE  StableLen' /\ SealedStable'
  <2>1. /\ up /\ cur + 1 \in SegId /\ cur + 1 \notin files
        /\ files' = files \cup {cur + 1}
        /\ \A i \in SegId : segs'[i] = IF i = cur + 1 THEN <<>> ELSE segs[i]
        /\ \A i \in SegId : stable'[i] = IF i = cur + 1 THEN 0
                                         ELSE IF i = cur THEN Len(segs[cur]) ELSE stable[i]
        /\ Len(<<>>) = 0
    BY <1>1, <1>a, <1>e, SMTT(30) DEF Rotate, CurNewest, SegId
  <2>2. \A i, j \in files' : i < j => i # cur + 1
    BY <2>1, <1>a DEF CurNewest
  <2>3. StableLen'
    BY <2>1, <1>a DEF StableLen
  <2>4. \A i \in files : i # cur => i < cur
    BY <2>1, <1>a DEF CurNewest
  <2>5. ASSUME NEW i \in files', NEW j \in files', i < j
        PROVE  stable'[i] = Len(segs'[i])
    <3>1. i \in files /\ i # cur + 1
      BY <2>1, <2>2, <2>5
    <3>2. CASE i = cur
      BY <3>1, <3>2, <2>1, <1>a
    <3>3. CASE i # cur
      <4>1. stable[i] = Len(segs[i])
        BY <3>1, <3>3, <2>1, <2>4, <1>a DEF SealedStable, CurNewest
      <4> QED
        BY <3>1, <3>3, <2>1, <1>a, <4>1
    <3> QED
      BY <3>2, <3>3
  <2> QED
    BY <2>3, <2>5 DEF SealedStable
<1>2. ASSUME NEW w \in Writers, RotateError(w) \/ Finish(w) \/ FsyncError(w)
      PROVE  StableLen' /\ SealedStable'
  BY <1>2, <1>b, <1>c DEF RotateError, Finish, FsyncError
<1>3. ASSUME NEW w \in Writers, Write(w)
      PROVE  StableLen' /\ SealedStable'
  <2>1. [txn |-> req[w].txn, op |-> req[w].op] \in Entry /\ pc[w] # "idle"
    BY <1>3 DEF Write, MayWrite, IInv, IdsAboveCheckpoint, TypeOK, Entry
  <2> QED
    BY <1>3, <1>b, <1>d, <1>e, <2>1 DEF Write, WriteFails
<1>4. ASSUME NEW w \in Writers, WriteError(w)
      PROVE  StableLen' /\ SealedStable'
  BY <1>4, <1>b, <1>d, <1>e DEF WriteError, WriteFails, MayWrite
<1>5. CASE \/ FlushError \/ EndCheckpoint \/ CheckpointError \/ CompactRead
           \/ CompactRename \/ CompactError \/ Open \/ UNCHANGED vars
           \/ \E t \in 1..(nextTxn - 1) : BeginCheckpoint(t)
           \/ \E w \in Writers : \E mode \in Mode : Assign(w, mode)
  BY <1>5, <1>b DEF FlushError, EndCheckpoint, CheckpointError, CompactRead,
     CompactRename, CompactError, Open, vars,
                    BeginCheckpoint, Assign
<1>6. CASE Flush
  BY <1>6, <1>c DEF Flush
<1>7. ASSUME NEW i \in SegId, CompactRemove(i)
      PROVE  StableLen' /\ SealedStable'
  <2>1. /\ files' \subseteq files
        /\ \A j \in SegId : segs'[j] = IF j = i THEN <<>> ELSE segs[j]
        /\ \A j \in SegId : stable'[j] = IF j = i THEN 0 ELSE stable[j]
        /\ Len(<<>>) = 0
    BY <1>7, <1>a DEF CompactRemove
  <2>2. ASSUME NEW j \in SegId
        PROVE  \/ stable'[j] = stable[j] /\ Len(segs'[j]) = Len(segs[j])
               \/ stable'[j] = 0 /\ Len(segs'[j]) = 0
    BY <2>1
  <2>3. StableLen'
    BY <1>a, <2>2 DEF StableLen
  <2>4. ASSUME NEW j \in files', NEW k \in files', j < k
        PROVE  stable'[j] = Len(segs'[j])
    <3>1. j \in files /\ k \in files /\ j \in SegId
      BY <1>a, <2>1, <2>4
    <3>2. stable[j] = Len(segs[j])
      BY <1>a, <2>4, <3>1 DEF SealedStable
    <3> QED
      BY <2>2, <3>1, <3>2
  <2> QED
    BY <2>3, <2>4 DEF SealedStable
<1>8. CASE Crash
  <2>1. \A i \in SegId : segs'[i] \in Survivors(i)
    BY <1>8 DEF Crash
  <2>2. stable' = stable \/ stable' = [i \in SegId |-> Len(segs'[i])]
    BY <1>8 DEF Crash
  <2>3. ASSUME NEW i \in SegId
        PROVE  /\ Len(segs'[i]) \in Nat /\ stable[i] <= Len(segs'[i])
               /\ stable[i] = Len(segs[i]) => Len(segs'[i]) = Len(segs[i])
    <3>1. TypeOK /\ StableLen
      BY DEF IInv
    <3> QED
      BY <2>1, <3>1, <1>a, SurvivorsShape
  <2>4. files' = files
    BY <1>8 DEF Crash
  <2> QED
    BY <2>2, <2>3, <2>4, <1>a, SMTT(30) DEF StableLen, SealedStable
<1> QED
  BY <1>1, <1>2, <1>3, <1>4, <1>5, <1>6, <1>7, <1>8 DEF Next

\* Ids are drawn above the checkpoint, and a checkpoint stays below the ids of
\* appends that have not returned.
LEMMA IdsStep == IInv /\ [Next]_vars => IdsAboveCheckpoint'
<1> SUFFICES ASSUME IInv, [Next]_vars
             PROVE  IdsAboveCheckpoint'
  OBVIOUS
<1>a. /\ IdsAboveCheckpoint /\ DownQuiet
      /\ checkpoint \in Nat /\ ckpt \in Nat /\ nextTxn \in Nat /\ ops \in 0..MaxOps
      /\ pc \in [Writers -> {"idle", "assigned", "rotated", "written"}]
      /\ req \in [Writers -> [txn : Nat, op : 0..MaxOps, mode : Mode]]
  BY DEF IInv, TypeOK
<1>b. ASSUME UNCHANGED <<up, checkpoint, nextTxn, ckpt, req>>,
             \A w \in Writers : pc'[w] # "idle" => pc[w] # "idle"
      PROVE  IdsAboveCheckpoint'
  BY <1>a, <1>b DEF IdsAboveCheckpoint
<1>c. ASSUME NEW w \in Writers, Return(w), UNCHANGED <<up, checkpoint, nextTxn, ckpt>>
      PROVE  IdsAboveCheckpoint'
  <2>1. \A v \in Writers : pc'[v] # "idle" => pc[v] # "idle" /\ req'[v] = req[v]
    BY <1>a, <1>c DEF Return
  <2> QED
    BY <1>a, <1>c, <2>1 DEF IdsAboveCheckpoint
<1> USE DEF disk, writer, appends, compaction, history, late
<1>1. ASSUME NEW w \in Writers, NEW mode \in Mode, Assign(w, mode)
      PROVE  IdsAboveCheckpoint'
  <2>1. /\ up /\ nextTxn' = nextTxn + 1 /\ UNCHANGED <<up, checkpoint, ckpt>>
        /\ req'[w].txn = nextTxn /\ req'[w].op = ops + 1 /\ ops + 1 \in Op
        /\ \A v \in Writers \ {w} : req'[v] = req[v] /\ pc'[v] = pc[v]
    BY <1>1, <1>a DEF Assign, Op
  <2> QED
    BY <2>1, <1>a DEF IdsAboveCheckpoint
<1>2. ASSUME NEW w \in Writers, Rotate(w) \/ Write(w)
      PROVE  IdsAboveCheckpoint'
  BY <1>2, <1>a, <1>b DEF Rotate, Write, MayWrite
<1>3. ASSUME NEW w \in Writers, RotateError(w) \/ WriteError(w) \/ Finish(w) \/ FsyncError(w)
      PROVE  IdsAboveCheckpoint'
  BY <1>3, <1>c DEF RotateError, WriteError, Finish, FsyncError
<1>4. CASE \/ Flush \/ FlushError \/ CompactRead
           \/ CompactRename \/ CompactError \/ UNCHANGED vars
           \/ \E i \in SegId : CompactRemove(i)
  BY <1>4, <1>b DEF Flush, FlushError, CompactRead,
     CompactRename, CompactError, CompactRemove, vars
<1>5. ASSUME NEW t \in 1..(nextTxn - 1), BeginCheckpoint(t)
      PROVE  IdsAboveCheckpoint'
  BY <1>5, <1>a DEF BeginCheckpoint, IdsAboveCheckpoint
<1>6. CASE EndCheckpoint
  BY <1>6, <1>a DEF EndCheckpoint, IdsAboveCheckpoint, DownQuiet
<1>9. CASE CheckpointError
  BY <1>9, <1>a DEF CheckpointError, IdsAboveCheckpoint, DownQuiet, TypeOK
<1>7. CASE Crash
  BY <1>7 DEF Crash, IdsAboveCheckpoint
<1>8. CASE Open
  BY <1>8, <1>a DEF Open, IdsAboveCheckpoint, DownQuiet
<1> QED
  BY <1>1, <1>2, <1>3, <1>4, <1>5, <1>6, <1>7, <1>8, <1>9 DEF Next

\* While a writer holds the lock nobody else writes to the current segment.
LEMMA InFileStep == IInv /\ [Next]_vars => InFile'
<1> SUFFICES ASSUME IInv, [Next]_vars
             PROVE  InFile'
  OBVIOUS
<1>a. /\ InFile /\ Mutex /\ CurNewest /\ DownQuiet
      /\ cur \in SegId
      /\ segs \in [SegId -> Seq(Entry \cup {Torn})]
      /\ pc \in [Writers -> {"idle", "assigned", "rotated", "written"}]
      /\ req \in [Writers -> [txn : Nat, op : 0..MaxOps, mode : Mode]]
  BY DEF IInv, TypeOK
<1>b. ASSUME UNCHANGED <<cur, req, lateError>>, segs'[cur] = segs[cur],
             \A w \in Writers : pc'[w] = "written" => pc[w] = "written"
      PROVE  InFile'
  BY <1>a, <1>b DEF InFile
\* The writer that holds the lock releases it.
<1>c. ASSUME \A v \in Writers : pc'[v] # "written"
      PROVE  InFile'
  BY <1>c DEF InFile
<1> USE DEF disk, writer, appends, compaction, history, late
<1>1. ASSUME NEW w \in Writers, NEW mode \in Mode, Assign(w, mode)
      PROVE  InFile'
  <2>1. \A v \in Writers : pc'[v] = "written" => pc[v] = "written" /\ req'[v] = req[v]
    BY <1>1, <1>a DEF Assign
  <2> QED
    BY <1>1, <1>a, <2>1 DEF Assign, InFile
<1>2. ASSUME NEW w \in Writers, Rotate(w)
      PROVE  InFile'
  BY <1>2, <1>a DEF Rotate, LockFree, InFile
<1>3. ASSUME NEW w \in Writers, Write(w)
      PROVE  InFile'
  <2> DEFINE e == [txn |-> req[w].txn, op |-> req[w].op]
  <2>1. e \in Entry /\ e.op = req[w].op
    BY <1>3 DEF Write, MayWrite, IInv, IdsAboveCheckpoint, TypeOK, Entry
  <2>2. cur' = cur /\ req' = req /\ (lateError' = req[w].op \/ segs'[cur] = Append(segs[cur], e))
    BY <1>3, <1>a DEF Write
  <2> HIDE DEF e
  <2>3. ASSUME segs'[cur] = Append(segs[cur], e)
        PROVE  /\ Len(segs[cur]) + 1 \in DOMAIN segs'[cur]
               /\ segs'[cur][Len(segs[cur]) + 1] = e
    BY <2>1, <2>3, <1>a
  <2>4. \A v \in Writers : pc'[v] = "written" => v = w
    BY <1>3, <1>a DEF Write, MayWrite, LockFree, Mutex, Holds
  <2> QED
    BY <2>1, <2>2, <2>3, <2>4 DEF InFile
<1>4. ASSUME NEW w \in Writers, RotateError(w)
      PROVE  InFile'
  BY <1>4, <1>a, <1>c DEF RotateError, LockFree, Return
<1>9. ASSUME NEW w \in Writers, Finish(w) \/ FsyncError(w)
      PROVE  InFile'
  BY <1>9, <1>a, <1>c DEF Finish, FsyncError, Mutex, Holds, Return
<1>5. ASSUME NEW w \in Writers, WriteError(w)
      PROVE  InFile'
  BY <1>5, <1>a, <1>c DEF WriteError, MayWrite, LockFree, Mutex, Holds, Return
<1>10. CASE FlushError
  BY <1>10, <1>c DEF FlushError, LockFree
<1>6. CASE \/ Flush \/ EndCheckpoint \/ CheckpointError \/ CompactRead
           \/ CompactRename \/ CompactError \/ UNCHANGED vars
           \/ \E t \in 1..(nextTxn - 1) : BeginCheckpoint(t)
  BY <1>6, <1>b DEF Flush, EndCheckpoint, CheckpointError, CompactRead,
     CompactRename, CompactError, BeginCheckpoint, vars
<1>7. ASSUME NEW i \in SegId, CompactRemove(i)
      PROVE  InFile'
  <2>1. i # cur
    BY <1>7, <1>a DEF CompactRemove, CurNewest, DownQuiet, SegId
  <2> QED
    BY <1>7, <1>a, <1>b, <2>1 DEF CompactRemove
<1>8. CASE Crash \/ Open
  BY <1>8, <1>a DEF Crash, Open, InFile, DownQuiet
<1> QED
  BY <1>1, <1>2, <1>3, <1>4, <1>5, <1>6, <1>7, <1>8, <1>9, <1>10 DEF Next

\* No step turns a position that held a flushed entry, or one above the
\* checkpoint, into one that recover skips.
LEMMA FlushedStep == IInv /\ [Next]_vars => FlushedBelow'
<1> SUFFICES ASSUME IInv, [Next]_vars
             PROVE  FlushedBelow'
  OBVIOUS
<1>a. /\ FlushedBelow /\ CurNewest /\ DownQuiet /\ IdsAboveCheckpoint
      /\ TypeOK /\ StableLen
      /\ cur \in SegId /\ files \subseteq SegId
      /\ segs \in [SegId -> Seq(Entry \cup {Torn})]
      /\ checkpoint \in Nat /\ ckpt \in Nat
  BY DEF IInv, TypeOK
\* Files keep or lose positions, and the checkpoint is left alone.
<1>b. ASSUME UNCHANGED <<checkpoint, ckpt, flushed>>, files' \subseteq files,
             \A i \in files' : segs'[i] = segs[i]
      PROVE  FlushedBelow'
  <2>1. \A i \in files' : Valid(i)' = Valid(i)
    BY <1>b DEF Valid
  <2> QED
    BY <1>a, <1>b, <2>1 DEF FlushedBelow
\* A cell appended to the current segment: a torn one is never valid, and an
\* entry has a fresh id.
<1>c. ASSUME UNCHANGED <<checkpoint, ckpt, flushed, files>>, NEW c \in Entry \cup {Torn},
             segs' = [segs EXCEPT ![cur] = Append(segs[cur], c)],
             c # Torn => checkpoint < c.txn /\ ckpt < c.txn
      PROVE  FlushedBelow'
  <2>1. \A i \in SegId : i # cur => segs'[i] = segs[i]
    BY <1>a, <1>c
  <2>2. /\ Len(segs[cur]) \in Nat
        /\ DOMAIN segs[cur] = 1..Len(segs[cur])
        /\ DOMAIN segs'[cur] = 1..(Len(segs[cur]) + 1)
        /\ \A k \in 1..Len(segs[cur]) : segs'[cur][k] = segs[cur][k]
        /\ segs'[cur][Len(segs[cur]) + 1] = c
    BY <1>a, <1>c
  <2>3. ASSUME NEW i \in files', NEW k \in Valid(i)',
               segs'[i][k].txn <= checkpoint' \/ segs'[i][k].txn <= ckpt'
        PROVE  segs'[i][k].op \in flushed'
    <3>1. CASE i # cur
      BY <1>a, <1>c, <2>1, <2>3, <3>1 DEF FlushedBelow, Valid
    <3>2. CASE i = cur /\ k <= Len(segs[cur])
      <4>1. k \in Valid(cur) /\ segs'[cur][k] = segs[cur][k]
        BY <2>2, <2>3, <3>2, SMTT(30) DEF Valid
      <4> QED
        BY <1>a, <1>c, <2>3, <3>2, <4>1 DEF FlushedBelow
    <3>3. CASE i = cur /\ ~(k <= Len(segs[cur]))
      <4>1. k = Len(segs[cur]) + 1 /\ k \in 1..k /\ segs'[cur][k] # Torn
        BY <2>2, <2>3, <3>3 DEF Valid
      <4>2. c \in Entry /\ c.txn \in Nat /\ checkpoint < c.txn /\ ckpt < c.txn
        BY <1>c, <2>2, <4>1 DEF Entry
      <4> QED
        BY <1>a, <1>c, <2>2, <2>3, <3>3, <4>1, <4>2
    <3> QED
      BY <3>1, <3>2, <3>3
  <2> QED
    BY <2>3 DEF FlushedBelow
<1> USE DEF disk, writer, appends, compaction, history, late
<1>1. ASSUME NEW w \in Writers, Rotate(w)
      PROVE  FlushedBelow'
  <2>1. /\ cur + 1 \in SegId /\ files' = files \cup {cur + 1}
        /\ segs'[cur + 1] = <<>>
        /\ \A i \in SegId : i # cur + 1 => segs'[i] = segs[i]
        /\ UNCHANGED <<checkpoint, ckpt, flushed>>
    BY <1>1, <1>a DEF Rotate, SegId
  <2>2. ASSUME NEW i \in files', NEW k \in Valid(i)'
        PROVE  i \in files /\ k \in Valid(i) /\ segs'[i] = segs[i]
    <3>1. k \in DOMAIN segs'[i]
      BY <2>2 DEF Valid
    <3>2. i # cur + 1
      BY <2>1, <3>1
    <3> QED
      BY <1>a, <2>1, <2>2, <3>2 DEF Valid
  <2> QED
    BY <1>a, <2>1, <2>2 DEF FlushedBelow
<1>2. ASSUME NEW w \in Writers, Write(w)
      PROVE  FlushedBelow'
  <2> DEFINE e == [txn |-> req[w].txn, op |-> req[w].op]
  <2>1. e \in Entry /\ checkpoint < e.txn /\ ckpt < e.txn
    BY <1>2, <1>a DEF Write, MayWrite, IdsAboveCheckpoint, TypeOK, Entry
  <2>2. UNCHANGED <<checkpoint, ckpt, flushed, files>>
    BY <1>2 DEF Write
  <2>3. \/ segs' = [segs EXCEPT ![cur] = Append(segs[cur], e)]
        \/ WriteFails
    BY <1>2 DEF Write
  <2> HIDE DEF e
  <2>4. CASE WriteFails
    BY <1>b, <1>c, <2>2, <2>4 DEF WriteFails
  <2> QED
    BY <1>c, <2>1, <2>2, <2>3, <2>4
<1>3. ASSUME NEW w \in Writers, WriteError(w)
      PROVE  FlushedBelow'
  BY <1>3, <1>b, <1>c DEF WriteError, WriteFails
<1>4. ASSUME NEW w \in Writers,
             \/ RotateError(w) \/ Finish(w) \/ FsyncError(w)
             \/ \E mode \in Mode : Assign(w, mode)
      PROVE  FlushedBelow'
  BY <1>4, <1>b DEF RotateError, Finish, FsyncError, Assign
<1>5. CASE Flush \/ FlushError \/ CompactRead
                 \/ CompactRename \/ CompactError \/ Open \/ UNCHANGED vars
  BY <1>5, <1>b DEF Flush, FlushError, CompactRead, CompactRename, CompactError, Open, vars
<1>6. ASSUME NEW t \in 1..(nextTxn - 1), BeginCheckpoint(t)
      PROVE  FlushedBelow'
  <2>1. /\ UNCHANGED <<segs, files>> /\ checkpoint' = 0 /\ ckpt' = t
        /\ \A i \in files : \A k \in Valid(i) :
              segs[i][k].txn <= t => segs[i][k].op \in flushed'
        /\ flushed \subseteq flushed'
    BY <1>6 DEF BeginCheckpoint
  <2>2. \A i \in files : Valid(i)' = Valid(i)
    BY <2>1 DEF Valid
  <2>3. \A i \in files : \A k \in Valid(i) : segs[i][k].txn \in Nat
    BY <1>a, ValidEntry DEF Entry
  <2> QED
    BY <1>a, <2>1, <2>2, <2>3 DEF FlushedBelow
<1>7. CASE EndCheckpoint
  <2>1. \A i \in files : Valid(i)' = Valid(i)
    BY <1>7 DEF EndCheckpoint, Valid
  <2>2. \A i \in files : \A k \in Valid(i) : segs[i][k].txn \in Nat
    BY <1>a, ValidEntry DEF Entry
  <2>3. ckpt \in Nat /\ ckpt # 0
    BY <1>7, <1>a DEF EndCheckpoint
  <2> QED
    BY <1>7, <1>a, <2>1, <2>2, <2>3 DEF EndCheckpoint, FlushedBelow
<1>10. CASE CheckpointError
  <2>1. UNCHANGED <<segs, files, checkpoint, flushed>> /\ ckpt' = 0
    BY <1>10 DEF CheckpointError, disk, history
  <2>2. \A i \in files : Valid(i)' = Valid(i)
    BY <2>1 DEF Valid
  <2>3. \A i \in files : \A k \in Valid(i) : segs[i][k].txn \in Nat
    BY <1>a, ValidEntry DEF Entry
  <2> QED
    BY <1>a, <2>1, <2>2, <2>3 DEF FlushedBelow
<1>8. ASSUME NEW i \in SegId, CompactRemove(i)
      PROVE  FlushedBelow'
  BY <1>8, <1>a, <1>b DEF CompactRemove
<1>9. CASE Crash
  <2>1. ASSUME NEW i \in files, NEW k \in Valid(i)'
        PROVE  k \in Valid(i) /\ segs'[i][k] = segs[i][k]
    <3>1. segs'[i] \in Survivors(i) /\ i \in SegId
      BY <1>9, <1>a DEF Crash
    <3>2. PICK n \in Nat :
             /\ stable[i] <= n /\ n <= Len(segs[i])
             /\ segs'[i] \in Seq(Entry \cup {Torn})
             /\ Len(segs'[i]) \in {n, n + 1}
             /\ \A m \in 1..n : segs'[i][m] = segs[i][m]
             /\ Len(segs'[i]) = n + 1 => segs'[i][n + 1] = Torn /\ n < Len(segs[i])
      BY <3>1, <1>a, SurvivorsShape
    <3>3. k \in 1..Len(segs'[i]) /\ k \in 1..k /\ \A j \in 1..k : segs'[i][j] # Torn
      BY <2>1, <3>2 DEF Valid
    <3>4. k \in 1..n
      BY <3>2, <3>3
    <3>5. segs[i] \in Seq(Entry \cup {Torn}) /\ Len(segs[i]) \in Nat
      BY <3>1, <1>a
    <3>6. k \in DOMAIN segs[i] /\ \A j \in 1..k : segs[i][j] # Torn
      <4>1. k \in DOMAIN segs[i]
        BY <3>2, <3>4, <3>5
      <4>2. ASSUME NEW j \in 1..k PROVE segs[i][j] # Torn
        <5>1. j \in 1..n
          BY <3>2, <3>4
        <5>2. segs'[i][j] = segs[i][j]
          BY <3>2, <5>1
        <5> QED
          BY <3>3, <5>2
      <4> QED
        BY <4>1, <4>2
    <3> QED
      BY <3>2, <3>4, <3>6 DEF Valid
  <2>2. files' = files /\ checkpoint' = checkpoint /\ ckpt' = 0 /\ flushed' = flushed
    BY <1>9 DEF Crash
  <2>3. \A i \in files : \A k \in Valid(i) : segs[i][k].txn \in Nat
    BY <1>a, ValidEntry DEF Entry
  <2> QED
    BY <1>a, <2>1, <2>2, <2>3 DEF FlushedBelow
<1> QED
  BY <1>1, <1>2, <1>3, <1>4, <1>5, <1>6, <1>7, <1>8, <1>9, <1>10 DEF Next

\* A fsynced entry is only ever taken away by compaction.
LEMMA DurableStep == IInv /\ [Next]_vars => DurableOnDisk'
<1> SUFFICES ASSUME IInv, [Next]_vars
             PROVE  DurableOnDisk'
  OBVIOUS
<1>a. /\ DurableOnDisk /\ CurNewest /\ DownQuiet /\ InFile
      /\ TypeOK /\ StableLen
      /\ cur \in SegId /\ cur \in Int /\ files \subseteq SegId
      /\ segs \in [SegId -> Seq(Entry \cup {Torn})]
      /\ stable \in [SegId -> Nat]
      /\ \A i \in SegId : Len(segs[i]) \in Nat
  <2>1. IInv => cur \in Int
    BY DEF IInv, TypeOK, SegId
  <2>2. TypeOK /\ DurableOnDisk /\ CurNewest /\ DownQuiet /\ InFile /\ StableLen
    BY DEF IInv
  <2> QED
    BY <2>1, <2>2 DEF TypeOK
\* Fsynced prefixes are kept and may grow.
<1>b. ASSUME NEW i \in SegId, i \in files', stable[i] <= stable'[i], stable'[i] \in Nat,
             \A k \in 1..stable[i] : segs'[i][k] = segs[i][k],
             NEW k \in 1..stable[i], NEW o, segs[i][k] # Torn, segs[i][k].op = o
      PROVE  OnDisk(o)'
  <2>1. k \in 1..stable'[i]
    BY <1>a, <1>b
  <2> QED
    BY <1>b, <2>1 DEF OnDisk
<1>c. ASSUME ackedDurable' = ackedDurable, removed' = removed, files \subseteq files',
             \A i \in files : /\ stable'[i] \in Nat /\ stable[i] <= stable'[i]
                              /\ \A k \in 1..stable[i] : segs'[i][k] = segs[i][k]
      PROVE  DurableOnDisk'
  <2>1. ASSUME NEW o, OnDisk(o)
        PROVE  OnDisk(o)'
    <3>1. PICK i \in files, k \in Nat : k \in 1..stable[i] /\ segs[i][k] # Torn /\ segs[i][k].op = o
      BY <2>1 DEF OnDisk
    <3>2. i \in SegId
      BY <1>a
    <3> QED
      BY <1>b, <1>c, <3>1, <3>2
  <2> QED
    BY <1>a, <1>c, <2>1 DEF DurableOnDisk
<1>d. \A i \in SegId : stable[i] \in Nat /\ stable[i] <= stable[i] /\ stable[i] <= Len(segs[i])
  BY <1>a DEF StableLen
<1>e. ASSUME Fsync
      PROVE  \A i \in files : stable'[i] \in Nat /\ stable[i] <= stable'[i]
  BY <1>a, <1>d, <1>e DEF Fsync
<1> USE DEF disk, writer, appends, compaction, history, late
<1>1. ASSUME NEW w \in Writers, Rotate(w)
      PROVE  DurableOnDisk'
  <2>1. cur + 1 \in SegId /\ cur + 1 \notin files
    BY <1>1, <1>a DEF Rotate, CurNewest, DownQuiet, SegId
  <2>2. \A i \in files : stable'[i] \in {stable[i], Len(segs[i])} /\ segs'[i] = segs[i]
    BY <1>1, <1>a, <2>1 DEF Rotate
  <2>3. files \subseteq files' /\ ackedDurable' = ackedDurable /\ removed' = removed
    BY <1>1 DEF Rotate
  <2> QED
    BY <1>a, <1>c, <1>d, <2>2, <2>3
<1>2. ASSUME NEW w \in Writers, RotateError(w) \/ FsyncError(w) \/ \E mode \in Mode : Assign(w, mode)
      PROVE  DurableOnDisk'
  <2>1. UNCHANGED <<files, segs, ackedDurable, removed>> /\ (Fsync \/ UNCHANGED stable)
    BY <1>2 DEF RotateError, FsyncError, Assign
  <2> QED
    BY <1>a, <1>c, <1>d, <1>e, <2>1
<1>3. ASSUME NEW w \in Writers, Write(w) \/ WriteError(w)
      PROVE  DurableOnDisk'
  <2>1. /\ UNCHANGED <<files, stable, ackedDurable, removed>>
        /\ \/ segs' = segs
           \/ \E c : segs' = [segs EXCEPT ![cur] = Append(segs[cur], c)]
    BY <1>3 DEF Write, WriteError, WriteFails
  <2>2. ASSUME NEW i \in files, NEW k \in 1..stable[i]
        PROVE  segs'[i][k] = segs[i][k]
    <3>1. k \in 1..Len(segs[i]) /\ segs[i] \in Seq(Entry \cup {Torn}) /\ i \in SegId
      BY <1>a, <1>d, <2>2
    <3> QED
      BY <1>a, <2>1, <3>1, SMTT(30)
  <2> QED
    BY <1>a, <1>c, <1>d, <2>1, <2>2
<1>4. ASSUME NEW w \in Writers, Finish(w)
      PROVE  DurableOnDisk'
  <2>1. UNCHANGED <<files, segs, removed, cur>> /\ (Fsync \/ UNCHANGED stable)
    BY <1>4 DEF Finish
  <2>2. \A i \in files : /\ stable'[i] \in Nat /\ stable[i] <= stable'[i]
                         /\ \A k \in 1..stable[i] : segs'[i][k] = segs[i][k]
    BY <1>a, <1>d, <1>e, <2>1
  <2>3. CASE ackedDurable' = ackedDurable
    BY <1>c, <2>1, <2>2, <2>3
  <2>4. CASE req[w].mode = "Durable"
    <3>1. Fsync /\ ackedDurable' = ackedDurable \cup {req[w].op}
      BY <1>4, <2>4 DEF Finish, ShouldFsync
    <3>2. PICK k \in DOMAIN segs[cur] : segs[cur][k] # Torn /\ segs[cur][k].op = req[w].op
      <4>1. lateError # req[w].op
        BY <1>4, <3>1 DEF Finish, Fsync, IInv, IdsAboveCheckpoint, Op
      <4> QED
        BY <1>4, <1>a, <4>1 DEF Finish, InFile
    <3>3. k \in 1..stable'[cur]
      BY <1>a, <3>1, <3>2 DEF Fsync
    <3>4. cur \in files
      BY <1>4, <1>a DEF Finish, CurNewest, DownQuiet
    <3>0. PICK d : d = req[w].op
      OBVIOUS
    <3>5. OnDisk(d)'
      BY <2>1, <3>0, <3>2, <3>3, <3>4 DEF OnDisk
    <3>6. ASSUME NEW o \in ackedDurable, o \notin removed
          PROVE  OnDisk(o)'
      <4>1. PICK i \in files, m \in Nat : m \in 1..stable[i] /\ segs[i][m] # Torn /\ segs[i][m].op = o
        BY <1>a, <3>6 DEF DurableOnDisk, OnDisk
      <4>2. i \in SegId
        BY <1>a
      <4> QED
        BY <1>b, <2>1, <2>2, <4>1, <4>2
    <3> QED
      <4>1. DurableOnDisk' <=> \A o \in ackedDurable' : o \in removed' \/ OnDisk(o)'
        BY DEF DurableOnDisk
      <4>2. removed' = removed
        BY <2>1
      <4> QED
        BY <3>0, <3>1, <3>5, <3>6, <4>1, <4>2
  <2> QED
    BY <1>4, <2>3, <2>4 DEF Finish
<1>5. CASE \/ Flush \/ FlushError \/ EndCheckpoint \/ CheckpointError \/ CompactRead
           \/ CompactRename \/ CompactError \/ Open \/ UNCHANGED vars
           \/ \E t \in 1..(nextTxn - 1) : BeginCheckpoint(t)
  <2>1. UNCHANGED <<files, segs, ackedDurable, removed>> /\ (Fsync \/ UNCHANGED stable)
    BY <1>5 DEF Flush, FlushError, EndCheckpoint, CheckpointError, CompactRead,
       CompactRename, CompactError, Open, BeginCheckpoint, vars
  <2> QED
    BY <1>a, <1>c, <1>d, <1>e, <2>1
<1>6. ASSUME NEW i \in SegId, CompactRemove(i)
      PROVE  DurableOnDisk'
  <2>1. ASSUME NEW o \in ackedDurable, o \notin removed'
        PROVE  OnDisk(o)'
    <3>1. PICK j \in files, k \in Nat : k \in 1..stable[j] /\ segs[j][k] # Torn /\ segs[j][k].op = o
      <4>1. o \notin removed
        BY <1>6, <2>1 DEF CompactRemove
      <4> QED
        BY <1>a, <2>1, <4>1 DEF DurableOnDisk, OnDisk
    <3>2. j \in SegId /\ k \in DOMAIN segs[j]
      BY <1>a, <1>d, <3>1
    <3>3. j # i
      BY <1>6, <2>1, <3>1, <3>2 DEF CompactRemove
    <3>4. j \in files' /\ stable'[j] = stable[j] /\ segs'[j] = segs[j]
      BY <1>6, <1>a, <3>1, <3>2, <3>3 DEF CompactRemove
    <3> QED
      BY <3>1, <3>4 DEF OnDisk
  <2>2. ackedDurable' = ackedDurable
    BY <1>6 DEF CompactRemove
  <2> QED
    BY <2>1, <2>2 DEF DurableOnDisk
<1>7. CASE Crash
  <2>1. \A i \in SegId : segs'[i] \in Survivors(i)
    BY <1>7 DEF Crash
  <2>2. stable' = stable \/ stable' = [i \in SegId |-> Len(segs'[i])]
    BY <1>7 DEF Crash
  <2>3. ASSUME NEW i \in SegId
        PROVE  /\ Len(segs'[i]) \in Nat /\ stable[i] <= Len(segs'[i])
               /\ \A k \in 1..stable[i] : segs'[i][k] = segs[i][k]
    <3>1. stable[i] \in Nat
      BY <1>a
    <3>2. segs'[i] \in Survivors(i)
      BY <2>1
    <3>3. PICK n \in Nat :
             /\ stable[i] <= n
             /\ Len(segs'[i]) \in {n, n + 1}
             /\ \A k \in 1..n : segs'[i][k] = segs[i][k]
      BY <1>a, <3>2, SurvivorsShape
    <3>4. ASSUME NEW k \in 1..stable[i] PROVE segs'[i][k] = segs[i][k]
      <4>1. k \in 1..n
        BY <3>1, <3>3
      <4> QED
        BY <3>3, <4>1
    <3>5. Len(segs'[i]) \in Nat /\ stable[i] <= Len(segs'[i])
      BY <3>1, <3>3
    <3> QED
      BY <3>4, <3>5
  <2>4. files' = files /\ ackedDurable' = ackedDurable /\ removed' = removed
    BY <1>7 DEF Crash
  <2> QED
    BY <1>a, <1>c, <1>d, <2>2, <2>3, <2>4
<1> QED
  BY <1>1, <1>2, <1>3, <1>4, <1>5, <1>6, <1>7 DEF Next

-----------------------------------------------------------------------------
(* Theorems *)

\* The initial states satisfy the invariant.
LEMMA InitIInv == Init => IInv
<1> SUFFICES ASSUME Init
             PROVE  IInv
  OBVIOUS
<1> USE DEF Init
<1>1. TypeOK
  <2>1. <<>> \in Seq(Entry \cup {Torn})
    OBVIOUS
  <2> QED
    BY <2>1 DEF TypeOK, SegId, NoReq, Mode
<1>2. StableLen /\ SealedStable
  BY DEF StableLen, SealedStable, SegId
<1>3. Mutex /\ DownQuiet /\ CurNewest /\ IdsAboveCheckpoint /\ InFile
  BY DEF Mutex, Holds, DownQuiet, CurNewest, IdsAboveCheckpoint, InFile
<1>4. FlushedBelow /\ DurableOnDisk
  BY DEF FlushedBelow, Valid, DurableOnDisk, SegId
<1> QED
  BY <1>1, <1>2, <1>3, <1>4 DEF IInv

\* IInv is an invariant of the WAL, whatever the writers, failed writes,
\* checkpoints, compactions and crashes do.
THEOREM WALInvariant == Spec => []IInv
<1>1. IInv /\ [Next]_vars => IInv'
  <2> SUFFICES ASSUME IInv, [Next]_vars
               PROVE  IInv'
    OBVIOUS
  <2>1. TypeOK'
    BY TypeStep DEF IInv
  <2> QED
    BY <2>1, MutexStep, DownQuietStep, CurNewestStep, StableStep, IdsStep, InFileStep,
       FlushedStep, DurableStep DEF IInv
<1> QED
  BY <1>1, InitIInv, PTL DEF Spec

\* Type correctness.
THEOREM WALTypes == Spec => []TypeOK
<1>1. IInv => TypeOK
  BY DEF IInv
<1> QED
  BY <1>1, WALInvariant, PTL

\* Every segment but the newest is fsynced to its last byte (rotation in append).
THEOREM WALSealedStable == Spec => []SealedStable
<1>1. IInv => SealedStable
  BY DEF IInv
<1> QED
  BY <1>1, WALInvariant, PTL

\* recover skips only what a caller of write_checkpoint had flushed.
THEOREM WALCheckpointSound == Spec => []CheckpointSound
<1>1. IInv => CheckpointSound
  BY DEF IInv, FlushedBelow, CheckpointSound
<1> QED
  BY <1>1, WALInvariant, PTL

\* The guarantee of WriteMode::Durable, with its three exceptions spelled out.
THEOREM WALDurableNotLost == Spec => []DurableNotLost
<1>1. IInv => DurableNotLost
  <2> SUFFICES ASSUME IInv, NEW o \in ackedDurable, o \notin removed, o \notin flushed,
                      ~BehindTorn(o)
               PROVE  o \in RecoveredOps
    BY DEF DurableNotLost
  <2>1. PICK i \in files, k \in Nat : k \in 1..stable[i] /\ segs[i][k] # Torn /\ segs[i][k].op = o
    BY DEF IInv, DurableOnDisk, OnDisk
  <2>2. i \in SegId /\ k \in DOMAIN segs[i]
    BY <2>1 DEF IInv, TypeOK, StableLen
  <2>3. k \in Valid(i)
    BY <2>1, <2>2 DEF BehindTorn
  <2>4. segs[i][k] \in Entry
    BY <2>2, <2>3, ValidEntry DEF IInv
  <2>5. checkpoint \in Nat /\ segs[i][k].txn \in Nat
    BY <2>4 DEF IInv, TypeOK, Entry
  <2>6. segs[i][k].txn > checkpoint
    BY <2>1, <2>3, <2>5 DEF IInv, FlushedBelow
  <2> QED
    BY <2>1, <2>3, <2>6 DEF RecoveredOps
<1> QED
  BY <1>1, WALInvariant, PTL

-----------------------------------------------------------------------------
(* The loss of fast mode *)

Busy == \E w \in Writers : pc[w] = "written"
InAFile(o) ==
    \E i \in files : \E k \in DOMAIN segs[i] : segs[i][k] # Torn /\ segs[i][k].op = o
Exposed == {o \in ackedFast : ~OnDisk(o) /\ o \notin removed \cup failedLate}

\* Operation o is written, or somebody was or will be told that it is not.
Settled(o) == o \in removed \cup failedLate \/ InAFile(o)

\* What was acknowledged in fast mode is in a file, or its write failed in the
\* background and was reported, or still has to be; and what of it is not on
\* disk was counted by ops_since_fsync, which also counts the entry of a writer
\* that has not decided on fsync yet.  An fsync that fails leaves the counter
\* above the interval, so the counter itself has no bound.
FastInv ==
    /\ ~up => ackedFast = {}
    /\ \A o \in ackedFast : Settled(o) \/ o = lateError
    /\ Cardinality(Exposed) <= opsSinceFsync
    /\ Busy => Cardinality(Exposed) < opsSinceFsync
    /\ Exposed = {} \/ Cardinality(Exposed) < FsyncIntervalOps

\* There are finitely many operations.
LEMMA ExposedFinite ==
    ASSUME ackedFast \subseteq Op
    PROVE  IsFiniteSet(Exposed) /\ Cardinality(Exposed) \in Nat
<1>1. IsFiniteSet(Op)
  BY FS_Interval DEF Op
<1>2. Exposed \subseteq Op
  BY DEF Exposed
<1> QED
  BY <1>1, <1>2, FS_Subset, FS_CardinalityType

\* What a step does that neither removes a file nor crashes: entries stay where
\* they are, and so do the fsynced ones.
LEMMA EntriesKept ==
    ASSUME IInv, files \subseteq files', removed' = removed,
           \A i \in files : /\ \A k \in DOMAIN segs[i] : k \in DOMAIN segs'[i] /\ segs'[i][k] = segs[i][k]
                            /\ stable'[i] \in Nat /\ stable[i] <= stable'[i],
           NEW o
    PROVE  /\ InAFile(o) => InAFile(o)'
           /\ OnDisk(o) => OnDisk(o)'
<1>1. ASSUME InAFile(o) PROVE InAFile(o)'
  BY <1>1 DEF InAFile
<1>2. ASSUME OnDisk(o) PROVE OnDisk(o)'
  <2>1. PICK i \in files, k \in Nat : k \in 1..stable[i] /\ segs[i][k] # Torn /\ segs[i][k].op = o
    BY <1>2 DEF OnDisk
  <2>2. i \in SegId /\ stable[i] \in Nat /\ stable[i] <= Len(segs[i]) /\ segs[i] \in Seq(Entry \cup {Torn})
    BY DEF IInv, TypeOK, StableLen
  <2>3. k \in DOMAIN segs[i]
    BY <2>1, <2>2
  <2>4. k \in 1..stable'[i]
    BY <2>1, <2>2
  <2> QED
    BY <2>1, <2>3, <2>4 DEF OnDisk
<1> QED
  BY <1>1, <1>2

\* Every step but the removal of a segment and a crash keeps the entries.
LEMMA StepKeeps ==
    ASSUME IInv, [Next]_vars, \A i \in SegId : ~CompactRemove(i), ~Crash
    PROVE  /\ files \subseteq files' /\ removed' = removed
           /\ \A i \in files :
                /\ \A k \in DOMAIN segs[i] : k \in DOMAIN segs'[i] /\ segs'[i][k] = segs[i][k]
                /\ stable'[i] \in Nat /\ stable[i] <= stable'[i]
<1> DEFINE Goal == /\ files \subseteq files' /\ removed' = removed
                   /\ \A i \in files :
                        /\ \A k \in DOMAIN segs[i] : k \in DOMAIN segs'[i] /\ segs'[i][k] = segs[i][k]
                        /\ stable'[i] \in Nat /\ stable[i] <= stable'[i]
<1>a. /\ CurNewest /\ DownQuiet
      /\ cur \in SegId /\ cur \in Int /\ files \subseteq SegId
      /\ segs \in [SegId -> Seq(Entry \cup {Torn})]
      /\ stable \in [SegId -> Nat]
      /\ \A i \in SegId : /\ Len(segs[i]) \in Nat /\ DOMAIN segs[i] = 1..Len(segs[i])
                          /\ stable[i] \in Nat /\ stable[i] <= stable[i] /\ stable[i] <= Len(segs[i])
  <2>1. TypeOK /\ CurNewest /\ DownQuiet /\ StableLen
    BY DEF IInv
  <2>2. cur \in Int
    BY <2>1 DEF TypeOK, SegId
  <2> QED
    BY <2>1, <2>2 DEF TypeOK, StableLen
<1>b. ASSUME UNCHANGED <<files, segs, removed>>, Fsync \/ UNCHANGED stable PROVE Goal
  <2>1. \A i \in files : stable'[i] \in Nat /\ stable[i] <= stable'[i]
    BY <1>a, <1>b DEF Fsync
  <2> QED
    BY <1>b, <2>1
<1> USE DEF disk, writer, appends, compaction, history, late
<1>1. ASSUME NEW w \in Writers, Rotate(w) PROVE Goal
  <2>1. cur + 1 \in SegId /\ cur + 1 \notin files
    BY <1>1, <1>a DEF Rotate, CurNewest, DownQuiet, SegId
  <2>2. \A i \in files : stable'[i] \in {stable[i], Len(segs[i])} /\ segs'[i] = segs[i]
    BY <1>1, <1>a, <2>1 DEF Rotate
  <2>3. files \subseteq files' /\ removed' = removed
    BY <1>1 DEF Rotate
  <2> QED
    BY <1>a, <2>2, <2>3
<1>2. ASSUME NEW w \in Writers, Write(w) \/ WriteError(w) PROVE Goal
  <2>1. /\ UNCHANGED <<files, stable, removed>>
        /\ \/ segs' = segs
           \/ \E c : segs' = [segs EXCEPT ![cur] = Append(segs[cur], c)]
    BY <1>2 DEF Write, WriteError, WriteFails
  <2>2. ASSUME NEW i \in files, NEW k \in DOMAIN segs[i]
        PROVE  k \in DOMAIN segs'[i] /\ segs'[i][k] = segs[i][k]
    <3>1. i \in SegId /\ segs[i] \in Seq(Entry \cup {Torn}) /\ k \in 1..Len(segs[i])
      BY <1>a, <2>2
    <3> QED
      BY <1>a, <2>1, <3>1
  <2> QED
    BY <1>a, <2>1, <2>2
<1>3. ASSUME NEW w \in Writers, \/ RotateError(w) \/ FsyncError(w) \/ Finish(w)
                                \/ \E mode \in Mode : Assign(w, mode)
      PROVE  Goal
  BY <1>3, <1>b DEF RotateError, FsyncError, Finish, Assign
<1>4. ASSUME \/ Flush \/ FlushError \/ EndCheckpoint \/ CheckpointError \/ CompactRead
             \/ CompactRename \/ CompactError \/ Open \/ UNCHANGED vars
             \/ \E t \in 1..(nextTxn - 1) : BeginCheckpoint(t)
      PROVE  Goal
  BY <1>4, <1>b DEF Flush, FlushError, EndCheckpoint, CheckpointError, CompactRead,
     CompactRename, CompactError, Open, BeginCheckpoint, vars
<1> HIDE DEF Goal
<1>5. Goal
  BY <1>1, <1>2, <1>3, <1>4 DEF Next
<1> QED
  BY <1>5 DEF Goal

\* Only a crash forgets a failed write before some call has reported it.
LEMMA LateKept ==
    ASSUME IInv, [Next]_vars, ~Crash
    PROVE  failedLate \subseteq failedLate' /\ lateError \in {0, lateError'} \cup failedLate'
<1> DEFINE Goal == failedLate \subseteq failedLate' /\ lateError \in {0, lateError'} \cup failedLate'
<1>a. ASSUME UNCHANGED late PROVE Goal
  BY <1>a DEF late
<1>b. ASSUME ReportError PROVE Goal
  BY <1>b DEF ReportError
<1>1. ASSUME NEW w \in Writers, Write(w) PROVE Goal
  BY <1>1 DEF Write
<1>2. ASSUME NEW w \in Writers, RotateError(w) \/ WriteError(w) \/ FsyncError(w) PROVE Goal
  BY <1>2, <1>b DEF RotateError, WriteError, FsyncError
<1>3. ASSUME FlushError PROVE Goal
  BY <1>3, <1>b DEF FlushError
<1> HIDE DEF Goal
<1>4. ASSUME NEW w \in Writers, Rotate(w) \/ Finish(w) \/ \E mode \in Mode : Assign(w, mode)
      PROVE  Goal
  BY <1>4, <1>a DEF Rotate, Finish, Assign
<1>5. ASSUME \/ Flush \/ EndCheckpoint \/ CheckpointError \/ CompactRead
             \/ CompactRename \/ CompactError \/ Open \/ UNCHANGED vars
             \/ \E t \in 1..(nextTxn - 1) : BeginCheckpoint(t)
             \/ \E i \in SegId : CompactRemove(i)
      PROVE  Goal
  BY <1>5, <1>a DEF Flush, EndCheckpoint, CheckpointError, CompactRead,
     CompactRename, CompactError, Open, BeginCheckpoint, CompactRemove, vars
<1>6. Goal
  BY <1>1, <1>2, <1>3, <1>4, <1>5 DEF Next
<1> QED
  BY <1>6 DEF Goal

\* After an fsync of the current segment, with all others sealed, nothing that
\* is in a file is exposed.
LEMMA FsyncCovers ==
    ASSUME IInv, up, NEW o, InAFile(o), files \subseteq files',
           \A i \in files : segs'[i] = segs[i] /\ stable'[i] \in {stable[i], Len(segs[i])},
           stable'[cur] = Len(segs[cur])
    PROVE  OnDisk(o)'
<1>0. PICK i \in files : \E k \in DOMAIN segs[i] : segs[i][k] # Torn /\ segs[i][k].op = o
  BY DEF InAFile
<1>1. PICK k \in DOMAIN segs[i] : segs[i][k] # Torn /\ segs[i][k].op = o
  BY <1>0
<1>2. i \in SegId /\ cur \in files /\ i \in Int /\ cur \in Int /\ (i # cur => i < cur)
  BY DEF IInv, TypeOK, CurNewest, SegId
<1>3. segs[i] \in Seq(Entry \cup {Torn}) /\ Len(segs[i]) \in Nat /\ DOMAIN segs[i] = 1..Len(segs[i])
  BY <1>2 DEF IInv, TypeOK
<1>4. stable'[i] = Len(segs[i])
  BY <1>2 DEF IInv, SealedStable
<1>5. k \in 1..stable'[i] /\ segs'[i][k] = segs[i][k] /\ i \in files'
  BY <1>1, <1>3, <1>4
<1> QED
  BY <1>1, <1>5 DEF OnDisk

\* What was acknowledged stays in a file until compaction removes it, or its
\* failure stays known until it is reported.
LEMMA FastFiles ==
    ASSUME IInv, FastInv, [Next]_vars
    PROVE  /\ ~up' => ackedFast' = {}
           /\ \A o \in ackedFast' : Settled(o)' \/ o = lateError'
<1> USE DEF disk, writer, appends, compaction, history
<1> DEFINE Goal == /\ ~up' => ackedFast' = {}
                   /\ \A o \in ackedFast' : Settled(o)' \/ o = lateError'
<1>0. \A o : Settled(o)' <=> o \in removed' \cup failedLate' \/ InAFile(o)'
  BY DEF Settled
<1>a. \A o \in ackedFast : o # 0 /\ (Settled(o) \/ o = lateError)
  BY DEF FastInv, IInv, TypeOK, Op
<1>1. ASSUME Crash PROVE Goal
  BY <1>1 DEF Crash
<1>2. ASSUME NEW i \in SegId, CompactRemove(i) PROVE Goal
  <2>1. /\ ackedFast' = ackedFast /\ up' = up /\ removed \subseteq removed' /\ late' = late
        /\ files' = files \ {i}
        /\ \A k \in DOMAIN segs[i] : segs[i][k] # Torn => segs[i][k].op \in removed'
    BY <1>2 DEF CompactRemove
  <2>2. \A j \in files' : segs'[j] = segs[j]
    BY <1>2 DEF CompactRemove, IInv, TypeOK
  <2>3. ASSUME NEW o \in ackedFast, o \notin removed', InAFile(o) PROVE InAFile(o)'
    <3>0. PICK j \in files : \E k \in DOMAIN segs[j] : segs[j][k] # Torn /\ segs[j][k].op = o
      BY <2>3 DEF InAFile
    <3>1. PICK k \in DOMAIN segs[j] : segs[j][k] # Torn /\ segs[j][k].op = o
      BY <3>0
    <3>2. j \in files'
      BY <2>1, <2>3, <3>1
    <3> QED
      BY <2>2, <3>1, <3>2 DEF InAFile
  <2>4. failedLate' = failedLate /\ lateError' = lateError
    BY <2>1 DEF late
  <2>5. \A o \in ackedFast : Settled(o)' \/ o = lateError'
    BY <1>0, <1>a, <2>1, <2>3, <2>4 DEF Settled
  <2> QED
    BY <2>1, <2>5 DEF FastInv
<1>3. ASSUME ~Crash, \A i \in SegId : ~CompactRemove(i) PROVE Goal
  <2>1. /\ files \subseteq files' /\ removed' = removed
        /\ \A i \in files :
             /\ \A k \in DOMAIN segs[i] : k \in DOMAIN segs'[i] /\ segs'[i][k] = segs[i][k]
             /\ stable'[i] \in Nat /\ stable[i] <= stable'[i]
    BY <1>3, StepKeeps
  <2>2. \A o : InAFile(o) => InAFile(o)'
    BY <2>1, EntriesKept
  <2>3. failedLate \subseteq failedLate' /\ lateError \in {0, lateError'} \cup failedLate'
    BY <1>3, LateKept
  <2>4. \A o : Settled(o) => Settled(o)'
    BY <1>0, <2>1, <2>2, <2>3 DEF Settled
  <2>5. \A o \in ackedFast : Settled(o)' \/ o = lateError'
    BY <1>0, <1>a, <2>3, <2>4
  <2>6. ASSUME ackedFast' = ackedFast, up' = up \/ up' PROVE Goal
    BY <2>5, <2>6 DEF FastInv
  <2>7. ASSUME NEW w \in Writers, Finish(w) PROVE Goal
    <3>1. up /\ up' /\ cur \in files /\ late' = late
      BY <2>7 DEF Finish, IInv, DownQuiet, CurNewest
    <3>2. PICK q : q = req[w].op
      OBVIOUS
    <3>3. ackedFast' \subseteq ackedFast \cup {q}
      BY <2>7, <3>2 DEF Finish
    <3>4. InAFile(q) \/ q = lateError
      BY <2>7, <3>1, <3>2 DEF Finish, IInv, InFile, InAFile
    <3>5. InAFile(q)' \/ q = lateError'
      BY <2>2, <3>1, <3>4 DEF late
    <3>6. Settled(q)' \/ q = lateError'
      BY <1>0, <3>5
    <3> QED
      BY <2>5, <3>1, <3>3, <3>6
  <2>8. ASSUME NEW w \in Writers, \/ Rotate(w) \/ RotateError(w) \/ Write(w) \/ WriteError(w)
                                  \/ FsyncError(w) \/ \E mode \in Mode : Assign(w, mode)
        PROVE  Goal
    BY <2>8, <2>6 DEF Rotate, RotateError, Write, WriteError, FsyncError, Assign
  <2>9. ASSUME \/ Flush \/ FlushError \/ EndCheckpoint \/ CheckpointError \/ CompactRead
               \/ CompactRename \/ CompactError \/ Open \/ UNCHANGED vars
               \/ \E t \in 1..(nextTxn - 1) : BeginCheckpoint(t)
        PROVE  Goal
    BY <2>9, <2>6 DEF Flush, FlushError, EndCheckpoint, CheckpointError, CompactRead,
       CompactRename, CompactError, Open, BeginCheckpoint, vars
  <2> HIDE DEF Goal
  <2> QED
    BY <1>3, <2>7, <2>8, <2>9 DEF Next
<1> HIDE DEF Goal
<1>4. Goal
  BY <1>1, <1>2, <1>3
<1> QED
  BY <1>4 DEF Goal

\* What a step does to the exposed operations and to ops_since_fsync.
LEMMA ExposedStep ==
    ASSUME IInv, FastInv, [Next]_vars
    PROVE  \/ Exposed' \subseteq Exposed /\ opsSinceFsync' = opsSinceFsync /\ (Busy' => Busy)
           \/ Exposed' \subseteq Exposed /\ opsSinceFsync' = opsSinceFsync + 1
           \/ Exposed' = {} /\ opsSinceFsync' \in Nat /\ ~Busy'
           \/ /\ \E o : Exposed' \subseteq Exposed \cup {o}
              /\ Busy /\ ~Busy' /\ opsSinceFsync' = opsSinceFsync
              /\ opsSinceFsync < FsyncIntervalOps
<1> USE DEF disk, writer, appends, compaction, history, late
<1> DEFINE Goal == \/ Exposed' \subseteq Exposed /\ opsSinceFsync' = opsSinceFsync /\ (Busy' => Busy)
                   \/ Exposed' \subseteq Exposed /\ opsSinceFsync' = opsSinceFsync + 1
                   \/ Exposed' = {} /\ opsSinceFsync' \in Nat /\ ~Busy'
                   \/ /\ \E o : Exposed' \subseteq Exposed \cup {o}
                      /\ Busy /\ ~Busy' /\ opsSinceFsync' = opsSinceFsync
                      /\ opsSinceFsync < FsyncIntervalOps
<1>a. /\ opsSinceFsync \in Nat /\ cur \in SegId /\ stable \in [SegId -> Nat] /\ files \subseteq SegId
      /\ pc \in [Writers -> {"idle", "assigned", "rotated", "written"}]
      /\ segs \in [SegId -> Seq(Entry \cup {Torn})]
      /\ Mutex /\ DownQuiet /\ CurNewest
  BY DEF IInv, TypeOK
<1>b. \A o \in Exposed' : o \in ackedFast' /\ ~OnDisk(o)' /\ o \notin removed' \cup failedLate'
  BY DEF Exposed
<1>c. \A o \in ackedFast : ~OnDisk(o) /\ o \notin removed \cup failedLate => o \in Exposed
  BY DEF Exposed
<1>1. ASSUME Crash PROVE Goal
  <2>1. ackedFast' = {} /\ opsSinceFsync' = opsSinceFsync /\ \A w \in Writers : pc'[w] = "idle"
    BY <1>1 DEF Crash
  <2> QED
    BY <1>a, <1>b, <2>1 DEF Busy
<1>2. ASSUME Open PROVE Goal
  <2>1. ackedFast' = {} /\ opsSinceFsync' = 0 /\ \A w \in Writers : pc'[w] = "idle"
    BY <1>2, <1>a DEF Open, FastInv, DownQuiet
  <2> QED
    BY <1>b, <2>1 DEF Busy
<1>3. ASSUME NEW i \in SegId, CompactRemove(i) PROVE Goal
  <2>1. /\ UNCHANGED <<ackedFast, opsSinceFsync, pc, failedLate>> /\ removed \subseteq removed'
        /\ files' = files \ {i}
        /\ \A k \in DOMAIN segs[i] : segs[i][k] # Torn => segs[i][k].op \in removed'
        /\ \A j \in SegId : j # i => segs'[j] = segs[j] /\ stable'[j] = stable[j]
    BY <1>3, <1>a DEF CompactRemove
  <2>2. ASSUME NEW o, OnDisk(o), o \notin removed' PROVE OnDisk(o)'
    <3>1. PICK j \in files, k \in Nat : k \in 1..stable[j] /\ segs[j][k] # Torn /\ segs[j][k].op = o
      BY <2>2 DEF OnDisk
    <3>2. j \in SegId /\ k \in DOMAIN segs[j]
      BY <1>a, <3>1 DEF IInv, StableLen
    <3>3. j # i
      BY <2>1, <2>2, <3>1, <3>2
    <3>4. j \in files' /\ stable'[j] = stable[j] /\ segs'[j] = segs[j]
      BY <2>1, <3>1, <3>2, <3>3
    <3> QED
      BY <3>1, <3>4 DEF OnDisk
  <2>3. Exposed' \subseteq Exposed
    BY <1>b, <1>c, <2>1, <2>2
  <2> QED
    BY <2>1, <2>3 DEF Busy
<1>4. ASSUME ~Crash, \A i \in SegId : ~CompactRemove(i) PROVE Goal
  <2>1. /\ files \subseteq files' /\ removed' = removed
        /\ \A i \in files :
             /\ \A k \in DOMAIN segs[i] : k \in DOMAIN segs'[i] /\ segs'[i][k] = segs[i][k]
             /\ stable'[i] \in Nat /\ stable[i] <= stable'[i]
    BY <1>4, StepKeeps
  <2>2. \A o : OnDisk(o) => OnDisk(o)'
    BY <2>1, EntriesKept
  <2>0. failedLate \subseteq failedLate'
    BY <1>4, LateKept
  <2>3. ackedFast' = ackedFast => Exposed' \subseteq Exposed
    BY <1>b, <1>c, <2>0, <2>1, <2>2
  \* Steps that leave acknowledgements and the counter alone.
  <2>4. ASSUME UNCHANGED <<ackedFast, opsSinceFsync>>,
               \A v \in Writers : pc'[v] = "written" => pc[v] = "written"
        PROVE  Goal
    BY <2>3, <2>4 DEF Busy
  \* Steps after which the current segment is fsynced.
  <2>5. ASSUME up, opsSinceFsync' = 0, stable'[cur] = Len(segs[cur]),
               \A i \in files : segs'[i] = segs[i] /\ stable'[i] \in {stable[i], Len(segs[i])},
               \A o \in ackedFast' : Settled(o),
               \A v \in Writers : pc'[v] # "written"
        PROVE  Goal
    <3>1. \A o \in ackedFast' : o \in removed' \cup failedLate' \/ OnDisk(o)'
      BY <2>0, <2>1, <2>5, FsyncCovers DEF Settled
    <3>2. Exposed' = {}
      BY <1>b, <3>1
    <3> QED
      BY <2>5, <3>2 DEF Busy
  <2>6. lateError = 0 => \A o \in ackedFast : Settled(o)
    BY DEF FastInv, IInv, TypeOK, Op
  <2>7. ASSUME Fsync, segs' = segs
        PROVE  /\ lateError = 0 /\ opsSinceFsync' = 0 /\ stable'[cur] = Len(segs[cur])
               /\ \A i \in files : segs'[i] = segs[i] /\ stable'[i] \in {stable[i], Len(segs[i])}
    BY <1>a, <2>7 DEF Fsync
  <2>8. ASSUME NEW w \in Writers, Rotate(w) PROVE Goal
    <3>1. cur + 1 \in SegId /\ cur + 1 \notin files /\ up /\ cur \in files /\ cur # cur + 1
      BY <2>8, <1>a DEF Rotate, CurNewest, DownQuiet, SegId
    <3>2. \A i \in files : stable'[i] \in {stable[i], Len(segs[i])} /\ segs'[i] = segs[i]
      BY <2>8, <1>a, <3>1 DEF Rotate
    <3>3. stable'[cur] = Len(segs[cur])
      BY <2>8, <1>a, <3>1 DEF Rotate
    <3>4. /\ opsSinceFsync' = 0 /\ ackedFast' = ackedFast /\ lateError = 0
          /\ \A v \in Writers : pc'[v] # "written"
      BY <2>8, <1>a DEF Rotate, LockFree
    <3> QED
      BY <2>5, <2>6, <3>1, <3>2, <3>3, <3>4
  <2>9. ASSUME NEW w \in Writers, RotateError(w) PROVE Goal
    <3>1. /\ up /\ segs' = segs /\ ackedFast' = ackedFast /\ \A v \in Writers : pc'[v] # "written"
          /\ Fsync \/ opsSinceFsync' = opsSinceFsync
      BY <2>9, <1>a DEF RotateError, DownQuiet, LockFree, Return
    <3> QED
      BY <2>4, <2>5, <2>6, <2>7, <3>1
  <2>10. ASSUME NEW w \in Writers, Write(w) PROVE Goal
    BY <2>10, <2>3 DEF Write
  <2>11. ASSUME NEW w \in Writers, \/ WriteError(w) \/ FsyncError(w) \/ \E mode \in Mode : Assign(w, mode)
         PROVE  Goal
    BY <2>11, <2>4, <1>a DEF WriteError, FsyncError, Assign, Return
  <2>12. ASSUME NEW w \in Writers, Finish(w) PROVE Goal
    <3>1. /\ up /\ cur \in files /\ segs' = segs /\ Busy /\ pc[w] = "written"
          /\ ackedFast' \subseteq ackedFast \cup {req[w].op}
      BY <2>12, <1>a DEF Finish, DownQuiet, CurNewest, Busy
    <3>2. \A v \in Writers : pc'[v] # "written"
      BY <2>12, <3>1, <1>a DEF Finish, Return, Mutex, Holds
    <3>3. CASE Fsync
      <4>0. lateError = 0 /\ req[w].op # 0
        BY <3>1, <3>3 DEF Fsync, IInv, IdsAboveCheckpoint, Op
      <4>1. Settled(req[w].op)
        BY <3>1, <4>0 DEF IInv, InFile, InAFile, Settled
      <4>2. \A o \in ackedFast' : Settled(o)
        BY <2>6, <3>1, <4>0, <4>1
      <4> QED
        BY <2>5, <2>7, <3>1, <3>2, <3>3, <4>2
    <3>4. CASE ~Fsync
      <4>1. ~ShouldFsync(w) /\ opsSinceFsync' = opsSinceFsync
        BY <2>12, <3>4 DEF Finish
      <4>2. opsSinceFsync < FsyncIntervalOps
        BY <4>1, <1>a DEF ShouldFsync
      <4>3. Exposed' \subseteq Exposed \cup {req[w].op}
        BY <1>b, <1>c, <2>0, <2>1, <2>2, <3>1
      <4>4. ~Busy'
        BY <3>2 DEF Busy
      <4> QED
        BY <3>1, <4>1, <4>2, <4>3, <4>4
    <3> QED
      BY <3>3, <3>4
  <2>13. ASSUME Flush PROVE Goal
    <3>1. up /\ segs' = segs /\ ackedFast' = ackedFast /\ Fsync /\ \A v \in Writers : pc'[v] # "written"
      BY <2>13 DEF Flush, LockFree
    <3> QED
      BY <2>5, <2>6, <2>7, <3>1
  <2>14. ASSUME \/ FlushError \/ EndCheckpoint \/ CheckpointError \/ CompactRead
                \/ CompactRename \/ CompactError \/ UNCHANGED vars
                \/ \E t \in 1..(nextTxn - 1) : BeginCheckpoint(t)
         PROVE  Goal
    BY <2>14, <2>4 DEF FlushError, EndCheckpoint, CheckpointError, CompactRead,
       CompactRename, CompactError, BeginCheckpoint, vars
  <2> HIDE DEF Goal
  <2> QED
    BY <1>2, <1>4, <2>8, <2>9, <2>10, <2>11, <2>12, <2>13, <2>14 DEF Next
<1> HIDE DEF Goal
<1>5. Goal
  BY <1>1, <1>3, <1>4
<1> QED
  BY <1>5 DEF Goal

\* Every step keeps the loss of fast mode bounded.
LEMMA FastStep ==
    ASSUME IInv, IInv', FastInv, [Next]_vars
    PROVE  FastInv'
<1>1. /\ IsFiniteSet(Exposed) /\ Cardinality(Exposed) \in Nat
      /\ opsSinceFsync \in Nat /\ FsyncIntervalOps \in Nat
  BY ExposedFinite DEF IInv, TypeOK
<1>2. IsFiniteSet(Exposed') /\ Cardinality(Exposed') \in Nat
  <2>1. (ackedFast \subseteq Op)'
    BY DEF IInv, TypeOK
  <2>2. IsFiniteSet(Op)
    BY FS_Interval DEF Op
  <2>3. Exposed' \subseteq Op
    BY <2>1 DEF Exposed
  <2> QED
    BY <2>2, <2>3, FS_Subset, FS_CardinalityType
<1> DEFINE c == Cardinality(Exposed)
           d == Cardinality(Exposed')
<1>3. c <= opsSinceFsync /\ (Busy => c < opsSinceFsync) /\ (Exposed = {} \/ c < FsyncIntervalOps)
  BY DEF FastInv
<1>4. /\ d <= opsSinceFsync' /\ (Busy' => d < opsSinceFsync')
      /\ Exposed' = {} \/ d < FsyncIntervalOps
  <2> DEFINE Goal == /\ d <= opsSinceFsync' /\ (Busy' => d < opsSinceFsync')
                     /\ Exposed' = {} \/ d < FsyncIntervalOps
  <2>1. ASSUME Exposed' \subseteq Exposed PROVE d <= c /\ (Exposed' = {} \/ d < FsyncIntervalOps)
    <3>1. d <= c
      BY <1>1, <2>1, FS_Subset
    <3>2. Exposed = {} => Exposed' = {}
      BY <2>1
    <3> HIDE DEF c, d
    <3>3. c \in Nat /\ d \in Nat
      BY <1>1, <1>2 DEF c, d
    <3> QED
      BY <1>1, <1>3, <3>1, <3>2, <3>3
  <2>2. ASSUME Exposed' = {}, opsSinceFsync' \in Nat, ~Busy' PROVE Goal
    <3>1. d = 0
      BY <2>2, FS_EmptySet
    <3> QED
      BY <2>2, <3>1
  <2>3. ASSUME NEW o, Exposed' \subseteq Exposed \cup {o}, Busy, ~Busy',
               opsSinceFsync' = opsSinceFsync, opsSinceFsync < FsyncIntervalOps
        PROVE  Goal
    <3>1. IsFiniteSet(Exposed \cup {o}) /\ Cardinality(Exposed \cup {o}) \in {c, c + 1}
      BY <1>1, FS_AddElement
    <3>2. d <= Cardinality(Exposed \cup {o})
      BY <2>3, <3>1, FS_Subset
    <3> HIDE DEF c, d
    <3>3. c \in Nat /\ d \in Nat
      BY <1>1, <1>2 DEF c, d
    <3>4. d <= c + 1
      BY <3>1, <3>2, <3>3
    <3> QED
      BY <1>1, <1>3, <2>3, <3>3, <3>4
  <2>4. c \in Nat /\ d \in Nat
    BY <1>1, <1>2
  <2> HIDE DEF c, d
  <2>5. ASSUME Exposed' \subseteq Exposed, opsSinceFsync' = opsSinceFsync, Busy' => Busy PROVE Goal
    BY <1>1, <1>3, <2>1, <2>4, <2>5
  <2>6. ASSUME Exposed' \subseteq Exposed, opsSinceFsync' = opsSinceFsync + 1 PROVE Goal
    BY <1>1, <1>3, <2>1, <2>4, <2>6
  <2> HIDE DEF Goal
  <2>7. Goal
    BY <2>2, <2>3, <2>5, <2>6, ExposedStep
  <2> QED
    BY <2>7 DEF Goal
<1> QED
  BY <1>4, FastFiles DEF FastInv

\* Fast mode loses at most fsync_interval_ops - 1 acknowledged operations without
\* a word, for any number of writers and any interval, although a failed fsync
\* returns an error and leaves its entries in the file and a write that fails in
\* the background is reported to a later caller (append, rotation, flush).
THEOREM WALFastLossBounded == Spec => []FastLossBounded
<1>1. Init => FastInv
  <2> SUFFICES ASSUME Init PROVE FastInv
    OBVIOUS
  <2>1. Exposed = {} /\ ackedFast = {} /\ up
    BY DEF Init, Exposed
  <2>2. Cardinality(Exposed) = 0 /\ opsSinceFsync = 0
    BY <2>1, FS_EmptySet DEF Init
  <2>3. ~Busy
    BY DEF Init, Busy
  <2> QED
    BY <2>1, <2>2, <2>3 DEF FastInv
<1>2. IInv /\ IInv' /\ FastInv /\ [Next]_vars => FastInv'
  BY FastStep
<1>3. FastInv => FastLossBounded
  BY DEF FastInv, FastLossBounded, Exposed
<1> QED
  BY <1>1, <1>2, <1>3, WALInvariant, PTL DEF Spec
=============================================================================
