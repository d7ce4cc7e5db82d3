------------------------- MODULE StorageEngineProofs -------------------------
(***************************************************************************)
(* Proofs about StorageEngine, for every number of clients, ids and days,  *)
(* every capacity and every bound.                                         *)
(***************************************************************************)
EXTENDS StorageEngine, InductionFacts, FunctionTheorems, FiniteSetTheorems

\* Where an actor is in HotStore::insert after the capacity check.
Putting == {a \in Actors : pc[a] \in {"put", "reput", "putPromoted"}}

\* The clients' part of pc, and the lifecycle's.
ClientPc == {"idle", "insert", "put", "full", "drain", "peek", "file", "update", "meta",
             "manifest", "retry", "reput", "index"}
LifecyclePc == {"idle", "drain", "peek", "file", "update", "meta", "manifest", "promote",
                "putPromoted"}

Roles ==
    /\ \A c \in Clients : pc[c] \in ClientPc
    /\ pc[Lifecycle] \in LifecyclePc

\* A client in insert has an id, and so has the promotion about to put one.
RecSet ==
    /\ \A c \in Clients : pc[c] # "idle" => rec[c] \in Ids
    /\ pc[Lifecycle] = "putPromoted" => rec[Lifecycle] \in Ids

\* A batch number is at most the next free place of its partition's directory.
FilesCounted ==
    /\ \A p \in Part : known[p] <= Len(batches[p]) /\ metaFile[p] <= Len(batches[p])
    /\ \A a \in Actors :
          /\ pc[a] = "file" => num[a] >= 1 /\ num[a] <= Len(batches[part[a]]) + 1
          /\ pc[a] \in {"update", "meta"} => num[a] >= 1 /\ num[a] <= Len(batches[part[a]])
    /\ \A w \in orphans :
          /\ w.stage = "file" => w.num >= 1 /\ w.num <= Len(batches[w.part]) + 1
          /\ w.stage = "meta" => w.num >= 1 /\ w.num <= Len(batches[w.part])

\* Nobody runs while the engine is down.
DownQuiet ==
    /\ ~up => orphans = {} /\ \A a \in Actors : pc[a] = "idle"
    /\ stopping # "no" => up

TInv ==
    /\ TypeOK
    /\ Roles
    /\ RecSet
    /\ FilesCounted
    /\ DownQuiet

-----------------------------------------------------------------------------
(* Sequences *)

\* The elements of a sequence after a push.
LEMMA ElemsAppend ==
    ASSUME NEW X, NEW s \in Seq(X), NEW x \in X
    PROVE  Elems(Append(s, x)) = Elems(s) \cup {x}
<1>1. DOMAIN Append(s, x) = DOMAIN s \cup {Len(s) + 1}
  OBVIOUS
<1>2. Append(s, x)[Len(s) + 1] = x /\ \A k \in DOMAIN s : Append(s, x)[k] = s[k]
  OBVIOUS
<1> QED
  BY <1>1, <1>2 DEF Elems

\* What SetAt returns when n is a place of s or the next free one.
LEMMA SetAtFacts ==
    ASSUME NEW X, NEW s \in Seq(X), NEW x \in X, NEW n \in 1..(Len(s) + 1)
    PROVE  /\ SetAt(s, n, x) \in Seq(X)
           /\ Len(SetAt(s, n, x)) >= Len(s)
           /\ Len(SetAt(s, n, x)) >= n
           /\ SetAt(s, n, x)[n] = x
           /\ \A k \in 1..Len(s) : k # n => SetAt(s, n, x)[k] = s[k]
<1>1. CASE n = Len(s) + 1
  BY <1>1 DEF SetAt
<1>2. CASE n # Len(s) + 1
  <2>1. SetAt(s, n, x) = [s EXCEPT ![n] = x] /\ n \in 1..Len(s)
    BY <1>2 DEF SetAt
  <2> QED
    BY <2>1
<1> QED
  BY <1>1, <1>2

\* One of the writes of W is to the batch file n of partition p.
Cut(W, p, n) == \E w \in W : w.stage = "file" /\ w.part = p /\ w.num = n

\* Files never disappear, and only those that W writes are changed.
Touches(W) ==
    /\ batches' \in [Part -> Seq((SUBSET Ids) \cup {Torn})]
    /\ \A p \in Part : /\ Len(batches'[p]) >= Len(batches[p])
                       /\ \A n \in 1..Len(batches[p]) :
                             ~Cut(W, p, n) => batches'[p][n] = batches[p][n]

\* What CutOff does to the disk: only files being written are torn.
LEMMA CutOffFacts ==
    ASSUME TInv, NEW W, CutOff(W)
    PROVE  /\ Touches(W)
           /\ metaFile' \in [Part -> Nat]
           /\ manifest' \in (SUBSET Part) \cup {Torn}
           /\ \A p \in Part : metaFile'[p] <= Len(batches'[p])
<1> DEFINE Size(p) == Len(batches[p]) + IF Cut(W, p, Len(batches[p]) + 1) THEN 1 ELSE 0
           File(p) == [n \in 1..Size(p) |-> IF Cut(W, p, n) THEN Torn ELSE batches[p][n]]
<1>1. batches' = [p \in Part |-> File(p)]
  BY DEF CutOff, Cut
<1>2. ASSUME NEW p \in Part
      PROVE  /\ File(p) \in Seq((SUBSET Ids) \cup {Torn})
             /\ Len(File(p)) >= Len(batches[p])
             /\ \A n \in 1..Len(batches[p]) : ~Cut(W, p, n) => File(p)[n] = batches[p][n]
  <2>1. batches[p] \in Seq((SUBSET Ids) \cup {Torn})
    BY DEF TInv, TypeOK
  <2>2. /\ Size(p) \in Nat /\ Len(batches[p]) \in Nat /\ Size(p) >= Len(batches[p])
        /\ \A n \in 1..Size(p) : n \in 1..Len(batches[p]) \/ Cut(W, p, n)
    <3>1. Len(batches[p]) \in Nat
      BY <2>1
    <3>2. CASE Cut(W, p, Len(batches[p]) + 1)
      <4>1. Size(p) = Len(batches[p]) + 1
        BY <3>2
      <4> HIDE DEF Size
      <4>2. \A n \in 1..Size(p) : n \in 1..Len(batches[p]) \/ n = Len(batches[p]) + 1
        BY <3>1, <4>1
      <4> QED
        BY <3>1, <3>2, <4>1, <4>2
    <3>3. CASE ~Cut(W, p, Len(batches[p]) + 1)
      <4>1. Size(p) = Len(batches[p])
        BY <3>1, <3>3
      <4> HIDE DEF Size
      <4> QED
        BY <3>1, <4>1
    <3> QED
      BY <3>2, <3>3
  <2>3. ASSUME NEW n \in 1..Size(p)
        PROVE  (IF Cut(W, p, n) THEN Torn ELSE batches[p][n]) \in (SUBSET Ids) \cup {Torn}
    <3>1. CASE Cut(W, p, n)
      <4>1. (IF Cut(W, p, n) THEN Torn ELSE batches[p][n]) = Torn
        BY <3>1, Zenon
      <4>2. Torn \in (SUBSET Ids) \cup {Torn}
        OBVIOUS
      <4> QED
        BY <4>1, <4>2, Zenon
    <3>2. CASE ~Cut(W, p, n)
      <4>1. n \in 1..Len(batches[p])
        BY <2>2, <3>2
      <4>2. batches[p][n] \in (SUBSET Ids) \cup {Torn}
        BY <2>1, <4>1
      <4> QED
        BY <3>2, <4>2, Zenon
    <3> QED
      BY <3>1, <3>2
  <2>4. File(p) \in Seq((SUBSET Ids) \cup {Torn}) /\ Len(File(p)) = Size(p)
    <3> HIDE DEF Size
    <3> QED
      BY <2>2, <2>3
  <2>5. \A n \in 1..Len(batches[p]) : n \in 1..Size(p)
    <3> HIDE DEF Size
    <3> QED
      BY <2>2
  <2> HIDE DEF Size
  <2> QED
    BY <2>2, <2>4, <2>5
<1>3. /\ batches' \in [Part -> Seq((SUBSET Ids) \cup {Torn})]
      /\ \A p \in Part : /\ Len(batches'[p]) >= Len(batches[p])
                         /\ \A n \in 1..Len(batches[p]) :
                               ~Cut(W, p, n) => batches'[p][n] = batches[p][n]
  <2> HIDE DEF File
  <2> QED
    BY <1>1, <1>2
<1>4. \A p \in Part : metaFile'[p] = 0 \/ metaFile'[p] = metaFile[p]
  BY DEF CutOff
<1>5. metaFile' \in [Part -> Nat]
  BY DEF CutOff, TInv, TypeOK
<1>6. \A p \in Part : metaFile'[p] <= Len(batches'[p])
  <2> SUFFICES ASSUME NEW p \in Part PROVE metaFile'[p] <= Len(batches'[p])
    OBVIOUS
  <2>1. Len(batches[p]) \in Nat /\ Len(batches'[p]) \in Nat /\ metaFile[p] \in Nat
    BY <1>3 DEF TInv, TypeOK
  <2>2. metaFile[p] <= Len(batches[p])
    BY DEF TInv, FilesCounted
  <2> QED
    BY <1>3, <1>4, <2>1, <2>2
<1>7. manifest' \in (SUBSET Part) \cup {Torn}
  <2>1. manifest' = Torn \/ manifest' = manifest
    BY DEF CutOff
  <2>2. manifest \in (SUBSET Part) \cup {Torn}
    BY DEF TInv, TypeOK
  <2>3. Torn \in (SUBSET Part) \cup {Torn}
    OBVIOUS
  <2> QED
    BY <2>1, <2>2, <2>3, Zenon
<1> QED
  BY <1>3, <1>5, <1>6, <1>7 DEF Touches

\* What writing a batch file does to the disk.
LEMMA WriteFacts ==
    ASSUME TInv, NEW w, w.stage = "file", w.part \in Part, w.held \in SUBSET Ids,
           w.num \in 1..(Len(batches[w.part]) + 1),
           batches' = [batches EXCEPT ![w.part] = SetAt(@, w.num, w.held)]
    PROVE  /\ Touches({w})
           /\ Len(batches'[w.part]) >= w.num
           /\ batches'[w.part][w.num] = w.held
<1> DEFINE File == (SUBSET Ids) \cup {Torn}
           q == w.part
           k == w.num
           x == w.held
           s == batches[q]
           new == SetAt(s, k, x)
<1>1. batches \in [Part -> Seq(File)] /\ q \in Part /\ x \in File /\ k \in 1..(Len(s) + 1)
  BY DEF TInv, TypeOK
<1>2. s \in Seq(File) /\ Len(s) \in Nat
  BY <1>1
<1>3. batches' = [batches EXCEPT ![q] = new]
  OBVIOUS
<1>c. \A p, n : p = q /\ n = k => Cut({w}, p, n)
  BY DEF Cut
<1> HIDE DEF File, q, k, x, s
<1>4. /\ new \in Seq(File) /\ Len(new) >= Len(s) /\ Len(new) >= k /\ new[k] = x
      /\ \A n \in 1..Len(s) : n # k => new[n] = s[n]
  BY <1>1, <1>2, SetAtFacts
<1> HIDE DEF new
<1>5. batches'[q] = new /\ batches' \in [Part -> Seq(File)]
      /\ \A p \in Part : p # q => batches'[p] = batches[p]
  BY <1>1, <1>3, <1>4
<1>6. ASSUME NEW p \in Part
      PROVE  /\ Len(batches'[p]) >= Len(batches[p])
             /\ \A n \in 1..Len(batches[p]) : ~Cut({w}, p, n) => batches'[p][n] = batches[p][n]
  <2>1. CASE p = q
    BY <1>4, <1>5, <1>c, <2>1 DEF s
  <2>2. CASE p # q
    <3>1. batches'[p] = batches[p] /\ Len(batches[p]) \in Nat
      BY <1>1, <1>5, <2>2
    <3> QED
      BY <3>1
  <2> QED
    BY <2>1, <2>2
<1>7. Touches({w})
  BY <1>5, <1>6 DEF Touches, File
<1> QED
  BY <1>4, <1>5, <1>7 DEF q, k, x

-----------------------------------------------------------------------------
(* Types *)

\* An engine on an empty directory has the types.
LEMMA TInvInit == Init => TInv
<1> SUFFICES ASSUME Init PROVE TInv
  OBVIOUS
<1>1. TypeOK
  BY NoIdAssumption DEF Init, TypeOK, Actors, Part
<1>2. Roles /\ RecSet /\ DownQuiet
  BY DEF Init, Roles, ClientPc, LifecyclePc, RecSet, DownQuiet, Actors
<1>3. FilesCounted
  BY DEF Init, FilesCounted, Actors, Part
<1> QED
  BY <1>1, <1>2, <1>3 DEF TInv

\* What is in a counted batch is an id.
LEMMA RecordedIds ==
    ASSUME TInv, NEW p \in Part
    PROVE  Recorded(p) \subseteq Ids
<1>1. /\ known[p] \in Nat /\ Len(batches[p]) \in Nat /\ known[p] <= Len(batches[p])
      /\ batches[p] \in Seq((SUBSET Ids) \cup {Torn})
  BY DEF TInv, TypeOK, FilesCounted
<1>2. \A n \in 1..known[p] : batches[p][n] \in (SUBSET Ids) \cup {Torn}
  <2> SUFFICES ASSUME NEW n \in 1..known[p]
               PROVE  batches[p][n] \in (SUBSET Ids) \cup {Torn}
    OBVIOUS
  <2>1. n \in 1..Len(batches[p])
    BY <1>1
  <2> QED
    BY <1>1, <2>1
<1> QED
  BY <1>2 DEF Recorded

\* The files of a step that only adds to the disk stay counted.
LEMMA CountedGrows ==
    ASSUME TInv, NEW W, Touches(W), known' = known,
           \A p \in Part : metaFile'[p] \in Nat /\ metaFile'[p] <= Len(batches'[p]),
           \A a \in Actors : pc'[a] \in {"file", "update", "meta"} =>
              /\ num'[a] = num[a] /\ part'[a] = part[a]
              /\ \/ pc'[a] = pc[a]
                 \/ pc[a] = "file" /\ pc'[a] = "update" /\ num[a] <= Len(batches'[part[a]]),
           orphans' \subseteq orphans
    PROVE  FilesCounted'
<1>1. \A p \in Part : /\ Len(batches[p]) \in Nat /\ Len(batches'[p]) \in Nat
                      /\ Len(batches'[p]) >= Len(batches[p]) /\ known[p] \in Nat
                      /\ known[p] <= Len(batches[p])
  BY DEF TInv, TypeOK, Touches, FilesCounted
<1>2. \A p \in Part : known'[p] <= Len(batches'[p]) /\ metaFile'[p] <= Len(batches'[p])
  BY <1>1
<1>3. ASSUME NEW b \in Actors
      PROVE  /\ pc'[b] = "file" => num'[b] >= 1 /\ num'[b] <= Len(batches'[part'[b]]) + 1
             /\ pc'[b] \in {"update", "meta"} => num'[b] >= 1 /\ num'[b] <= Len(batches'[part'[b]])
  <2>1. part[b] \in Part /\ num[b] \in Nat
    BY DEF TInv, TypeOK
  <2> QED
    BY <1>1, <2>1 DEF TInv, FilesCounted
<1>4. ASSUME NEW w \in orphans'
      PROVE  /\ w.stage = "file" => w.num >= 1 /\ w.num <= Len(batches'[w.part]) + 1
             /\ w.stage = "meta" => w.num >= 1 /\ w.num <= Len(batches'[w.part])
  <2>1. w \in orphans /\ w.part \in Part /\ w.num \in Nat
    BY DEF TInv, TypeOK
  <2> QED
    BY <1>1, <2>1 DEF TInv, FilesCounted
<1> QED
  BY <1>2, <1>3, <1>4 DEF FilesCounted

\* What WriteBatchFile leaves on disk.
Written(a) ==
    /\ Touches({WriteOf(a)})
    /\ Len(batches'[part[a]]) >= num[a]
    /\ batches'[part[a]][num[a]] = held[a]

\* write_batch writes its file and touches no other.
LEMMA FileWritten ==
    ASSUME TInv, NEW a \in Actors, WriteBatchFile(a)
    PROVE  Written(a)
<1> DEFINE w == WriteOf(a)
<1>1. /\ w.stage = "file" /\ w.part = part[a] /\ w.num = num[a] /\ w.held = held[a]
  BY DEF WriteOf, WriteBatchFile
<1>2. part[a] \in Part /\ held[a] \in SUBSET Ids /\ num[a] \in 1..(Len(batches[part[a]]) + 1)
  <2>1. part[a] \in Part /\ held[a] \in SUBSET Ids /\ num[a] \in Nat
        /\ Len(batches[part[a]]) \in Nat
    BY DEF TInv, TypeOK
  <2>2. num[a] >= 1 /\ num[a] <= Len(batches[part[a]]) + 1
    BY DEF TInv, FilesCounted, WriteBatchFile
  <2> QED
    BY <2>1, <2>2
<1>3. batches' = [batches EXCEPT ![w.part] = SetAt(@, w.num, w.held)]
  BY <1>1 DEF WriteBatchFile
<1>4. /\ w.part \in Part /\ w.held \in SUBSET Ids /\ w.num \in 1..(Len(batches[w.part]) + 1)
  BY <1>1, <1>2
<1>5. Touches({w}) /\ Len(batches'[w.part]) >= w.num /\ batches'[w.part][w.num] = w.held
  <2>1. w.stage = "file"
    BY <1>1
  <2> HIDE DEF w
  <2> QED
    BY ONLY TInv, <1>3, <1>4, <2>1, WriteFacts
<1> QED
  BY <1>1, <1>5 DEF Written

\* What the write of a dropped handler leaves on disk.
OrphanDisk(w) ==
    /\ Touches({w})
    /\ metaFile' \in [Part -> Nat]
    /\ manifest' \in (SUBSET Part) \cup {Torn}
    /\ \A p \in Part : metaFile'[p] \in Nat /\ metaFile'[p] <= Len(batches'[p])

\* A write left by a dropped handler touches its own file and no other.
LEMMA OrphanWritten ==
    ASSUME TInv, NEW w \in orphans, OrphanWrite(w)
    PROVE  OrphanDisk(w)
<1>0. /\ w.stage \in {"file", "meta", "manifest"} /\ w.part \in Part /\ w.num \in Nat
      /\ w.held \in SUBSET Ids /\ w.listed \in SUBSET Part
  BY DEF TInv, TypeOK
<1>t. /\ batches \in [Part -> Seq((SUBSET Ids) \cup {Torn})] /\ metaFile \in [Part -> Nat]
      /\ manifest \in (SUBSET Part) \cup {Torn}
      /\ \A p \in Part : Len(batches[p]) \in Nat /\ metaFile[p] <= Len(batches[p])
  BY DEF TInv, TypeOK, FilesCounted
<1>1. CASE CutOff({w})
  BY <1>1, CutOffFacts DEF OrphanDisk
<1>2. ASSUME w.stage = "file", metaFile' = metaFile, manifest' = manifest,
             batches' = [batches EXCEPT ![w.part] = SetAt(@, w.num, w.held)]
      PROVE  OrphanDisk(w)
  <2>1. w.num \in 1..(Len(batches[w.part]) + 1)
    <3>1. w.num >= 1 /\ w.num <= Len(batches[w.part]) + 1
      BY <1>2 DEF TInv, FilesCounted
    <3> QED
      BY <1>0, <1>t, <3>1
  <2>2. Touches({w})
    BY ONLY TInv, <1>0, <1>2, <2>1, WriteFacts
  <2>3. \A p \in Part : Len(batches'[p]) \in Nat /\ Len(batches'[p]) >= Len(batches[p])
    BY <2>2 DEF Touches
  <2> QED
    BY <1>t, <1>2, <2>2, <2>3 DEF OrphanDisk
<1>3. ASSUME w.stage = "meta", batches' = batches, manifest' = manifest,
             metaFile' = [metaFile EXCEPT ![w.part] = w.num]
      PROVE  OrphanDisk(w)
  <2>1. Touches({w})
    BY <1>3, <1>t DEF Touches
  <2>2. w.num <= Len(batches[w.part])
    BY <1>3 DEF TInv, FilesCounted
  <2> QED
    BY <1>0, <1>t, <1>3, <2>1, <2>2 DEF OrphanDisk
<1>4. ASSUME w.stage = "manifest", batches' = batches, manifest' = w.listed, metaFile' = metaFile
      PROVE  OrphanDisk(w)
  BY <1>0, <1>t, <1>4 DEF OrphanDisk, Touches
<1> QED
  BY <1>0, <1>1, <1>2, <1>3, <1>4 DEF OrphanWrite

\* Every step keeps the types, the roles and the batch numbers.
LEMMA TInvStep == TInv /\ [Next]_vars => TInv'
<1> SUFFICES ASSUME TInv, [Next]_vars PROVE TInv'
  OBVIOUS
<1>0. /\ Lifecycle \notin Clients /\ NoId \notin Ids /\ Lifecycle \in Actors
      /\ Clients \subseteq Actors
      /\ \A a \in Actors : a \in Clients \/ a = Lifecycle
      /\ \A p \in Part : p \in Nat
      /\ 0 \in Part /\ Days \subseteq Part
  BY LifecycleAssumption, NoIdAssumption, DaysAssumption DEF Actors, Part
<1> USE DEF TInv, Jump, disk, memory, locals, history, cold, overlap
<1>1. ASSUME NEW c \in Clients, NEW id \in Ids, Insert(c, id) PROVE TInv'
  <2>1. log \in Seq(Ids) /\ log' = Append(log, id) /\ stable' \in {stable, Len(log) + 1}
    BY <1>1 DEF TypeOK, Insert
  <2>2. log' \in Seq(Ids) /\ stable' \in 0..Len(log')
    BY <2>1 DEF TypeOK
  <2>3. inserts' \in Nat
    <3>1. inserts \in Nat /\ inserts' = inserts + 1
      BY <1>1 DEF TypeOK, Insert
    <3> QED
      BY <1>0, <3>1
  <2>4. TypeOK'
    BY <1>0, <1>1, <2>2, <2>3 DEF TypeOK, Insert
  <2>5. Roles' /\ RecSet' /\ DownQuiet'
    BY <1>0, <1>1 DEF TypeOK, Roles, ClientPc, LifecyclePc, RecSet, DownQuiet, Insert
  <2>6. FilesCounted'
    BY <1>0, <1>1 DEF TypeOK, FilesCounted, Insert
  <2> QED
    BY <2>4, <2>5, <2>6
<1>2. ASSUME NEW c \in Clients, NEW id \in Ids, InsertError(c, id) PROVE TInv'
  <2>1. log' \in Seq(Ids) /\ stable' \in 0..Len(log')
    <3>1. log \in Seq(Ids) /\ stable \in 0..Len(log) /\ stable' \in {stable, Len(log')}
      BY <1>2 DEF TypeOK, InsertError
    <3>2. log' = log \/ log' = Append(log, id)
      BY <1>2 DEF InsertError
    <3> QED
      BY <3>1, <3>2
  <2>2. inserts' \in Nat /\ faults' \in Nat
    BY <1>0, <1>2, SMTT(30) DEF TypeOK, InsertError, Fault
  <2>3. TypeOK'
    BY <1>2, <2>1, <2>2 DEF TypeOK, InsertError
  <2> QED
    BY <1>2, <2>3 DEF Roles, RecSet, FilesCounted, DownQuiet, InsertError
<1>3. ASSUME NEW c \in Clients, Evict(c) PROVE TInv'
  <2>1. PICK V \in SUBSET hot, d \in Days :
          held' = [held EXCEPT ![c] = V] /\ part' = [part EXCEPT ![c] = d]
    BY <1>3 DEF Evict, Choose
  <2>2. TypeOK'
    BY <1>0, <1>3, <2>1 DEF TypeOK, Evict, Choose
  <2> QED
    <3>1. pc[c] = "full" /\ pc' = [pc EXCEPT ![c] = "drain"]
      BY <1>3 DEF Evict, Choose, Jump
    <3>2. Roles'
      BY <1>0, <1>3, <2>1, <3>1 DEF TypeOK, Roles, ClientPc, LifecyclePc, Evict, Choose
    <3>3. RecSet'
      BY <1>0, <1>3, <2>1, <3>1 DEF TypeOK, RecSet, Evict, Choose
    <3>4. FilesCounted'
      BY <1>0, <1>3, <2>1, <3>1 DEF TypeOK, FilesCounted, Evict, Choose
    <3>5. DownQuiet'
      BY <1>0, <1>3, <3>1 DEF TypeOK, DownQuiet, Evict
    <3> QED
      BY <2>2, <3>2, <3>3, <3>4, <3>5
<1>4. ASSUME NEW c \in Clients, IndexAndAck(c) PROVE TInv'
  BY <1>0, <1>4 DEF TypeOK, Roles, ClientPc, LifecyclePc, RecSet, FilesCounted, DownQuiet, IndexAndAck
<1>5. ASSUME NEW c \in Clients, IndexError(c) PROVE TInv'
  BY <1>0, <1>5 DEF TypeOK, Roles, ClientPc, LifecyclePc, RecSet, FilesCounted, DownQuiet, IndexError
<1>6. ASSUME NEW a \in Actors, CheckCapacity(a) PROVE TInv'
  BY <1>0, <1>6 DEF TypeOK, Roles, ClientPc, LifecyclePc, RecSet, FilesCounted, DownQuiet, CheckCapacity
<1>7. ASSUME NEW a \in Actors, Put(a) PROVE TInv'
  <2>1. TypeOK'
    BY <1>0, <1>7 DEF TypeOK, RecSet, ClientPc, LifecyclePc, Roles, Put
  <2>2. Roles'
    BY <1>0, <1>7 DEF TypeOK, Roles, ClientPc, LifecyclePc, Put
  <2>3. RecSet'
    BY <1>0, <1>7 DEF TypeOK, Roles, ClientPc, LifecyclePc, RecSet, Put
  <2>4. FilesCounted'
    BY <1>0, <1>7 DEF TypeOK, FilesCounted, Put
  <2>5. DownQuiet'
    BY <1>0, <1>7 DEF TypeOK, DownQuiet, Put
  <2> QED
    BY <2>1, <2>2, <2>3, <2>4, <2>5
<1>8. ASSUME NEW a \in Actors, StoreFull(a) PROVE TInv'
  BY <1>0, <1>8 DEF TypeOK, Roles, ClientPc, LifecyclePc, RecSet, FilesCounted, DownQuiet, StoreFull
<1>9. ASSUME NEW a \in Actors, Drain(a) PROVE TInv'
  <2>1. TypeOK'
    BY <1>0, <1>9 DEF TypeOK, Drain, AfterWrite
  <2>2. \/ pc' = [pc EXCEPT ![a] = "peek"]
        \/ a = Lifecycle /\ pc' = [pc EXCEPT ![a] = "idle"]
        \/ a \in Clients /\ pc' = [pc EXCEPT ![a] = "retry"]
    BY <1>0, <1>9 DEF Drain, AfterWrite
  <2> QED
    <3>1. Roles' /\ RecSet'
      BY <1>0, <1>9, <2>2 DEF TypeOK, Roles, ClientPc, LifecyclePc, RecSet, Drain
    <3>2. \A b \in Actors : pc'[b] \in {"file", "update", "meta"} => b # a /\ pc'[b] = pc[b]
      BY <2>2 DEF TypeOK
    <3>3. FilesCounted'
      BY <1>9, <3>2 DEF TypeOK, FilesCounted, Drain
    <3>4. DownQuiet'
      BY <1>9 DEF DownQuiet, Drain
    <3> QED
      BY <2>1, <3>1, <3>3, <3>4
<1>10. ASSUME NEW a \in Actors, PeekBatchNum(a) PROVE TInv'
  <2>1. part[a] \in Part /\ known[part[a]] \in Nat /\ Len(batches[part[a]]) \in Nat
    BY DEF TypeOK
  <2>2. known[part[a]] <= Len(batches[part[a]])
    BY <2>1 DEF FilesCounted
  <2>3. num' = [num EXCEPT ![a] = known[part[a]] + 1] /\ pc' = [pc EXCEPT ![a] = "file"]
    BY <1>10 DEF PeekBatchNum
  <2>4. TypeOK'
    <3>1. contested' \subseteq Part
      BY <1>10, <2>1 DEF TypeOK, PeekBatchNum
    <3>2. num' \in [Actors -> Nat] /\ pc' \in [Actors -> {"idle", "insert", "put", "full",
             "drain", "peek", "file", "update", "meta", "manifest", "retry", "reput", "index",
             "promote", "putPromoted"}]
      BY <2>1, <2>3 DEF TypeOK
    <3> QED
      BY <1>10, <3>1, <3>2 DEF TypeOK, PeekBatchNum
  <2>5. Roles' /\ RecSet' /\ DownQuiet'
    BY <1>0, <1>10 DEF TypeOK, Roles, ClientPc, LifecyclePc, RecSet, DownQuiet, PeekBatchNum
  <2>6. FilesCounted'
    <3>1. UNCHANGED <<known, metaFile, batches, part, orphans>>
      BY <1>10 DEF PeekBatchNum
    <3>2. ASSUME NEW b \in Actors
          PROVE  /\ pc'[b] = "file" => num'[b] >= 1 /\ num'[b] <= Len(batches[part[b]]) + 1
                 /\ pc'[b] \in {"update", "meta"} => num'[b] >= 1 /\ num'[b] <= Len(batches[part[b]])
      <4>1. CASE b = a
        BY <2>1, <2>2, <2>3, <4>1 DEF TypeOK
      <4>2. CASE b # a
        BY <2>3, <4>2 DEF TypeOK, FilesCounted
      <4> QED
        BY <4>1, <4>2
    <3> QED
      BY <3>1, <3>2 DEF FilesCounted
  <2> QED
    BY <2>4, <2>5, <2>6
<1>11. ASSUME NEW a \in Actors, WriteBatchFile(a) PROVE TInv'
  <2>1. Written(a)
    BY <1>11, FileWritten
  <2>2. /\ UNCHANGED <<known, metaFile, part, num, orphans>>
        /\ pc[a] = "file" /\ pc' = [pc EXCEPT ![a] = "update"]
    BY <1>11 DEF WriteBatchFile
  <2>3. batches' \in [Part -> Seq((SUBSET Ids) \cup {Torn})]
    BY <2>1 DEF Written, Touches
  <2>4. replaced' \subseteq Ids
    <3>1. Recorded(part[a]) \subseteq Ids /\ replaced \subseteq Ids
      BY RecordedIds DEF TypeOK
    <3>2. replaced' \subseteq replaced \cup Recorded(part[a])
      BY <1>11 DEF WriteBatchFile, Overtake
    <3> QED
      BY <3>1, <3>2
  <2>5. TypeOK'
    BY <1>11, <2>3, <2>4 DEF TypeOK, WriteBatchFile
  <2>6. Roles' /\ RecSet' /\ DownQuiet'
    BY <1>0, <1>11 DEF TypeOK, Roles, ClientPc, LifecyclePc, RecSet, DownQuiet, WriteBatchFile
  <2>7. FilesCounted'
    <3>1. \A b \in Actors : pc'[b] \in {"file", "update", "meta"} =>
             /\ num'[b] = num[b] /\ part'[b] = part[b]
             /\ \/ pc'[b] = pc[b]
                \/ pc[b] = "file" /\ pc'[b] = "update" /\ num[b] <= Len(batches'[part[b]])
      <4> SUFFICES ASSUME NEW b \in Actors
                   PROVE  \/ pc'[b] = pc[b]
                          \/ pc[b] = "file" /\ pc'[b] = "update" /\ num[b] <= Len(batches'[part[b]])
        BY <2>2
      <4>1. CASE b = a
        <5>1. num[a] \in Nat /\ Len(batches'[part[a]]) \in Nat /\ Len(batches'[part[a]]) >= num[a]
          BY <2>1, <2>3 DEF TypeOK, Written
        <5> QED
          BY <2>2, <4>1, <5>1 DEF TypeOK
      <4>2. CASE b # a
        BY <2>2, <4>2 DEF TypeOK
      <4> QED
        BY <4>1, <4>2
    <3>2. \A p \in Part : metaFile'[p] \in Nat /\ metaFile'[p] <= Len(batches'[p])
      <4> SUFFICES ASSUME NEW p \in Part PROVE metaFile'[p] \in Nat /\ metaFile'[p] <= Len(batches'[p])
        OBVIOUS
      <4>1. /\ metaFile[p] \in Nat /\ metaFile[p] <= Len(batches[p]) /\ Len(batches[p]) \in Nat
            /\ Len(batches'[p]) \in Nat /\ Len(batches'[p]) >= Len(batches[p])
        <5>1. metaFile[p] \in Nat /\ metaFile[p] <= Len(batches[p]) /\ Len(batches[p]) \in Nat
          BY DEF TypeOK, FilesCounted
        <5>2. Len(batches'[p]) \in Nat
          BY <2>3
        <5>3. Len(batches'[p]) >= Len(batches[p])
          BY <2>1 DEF Written, Touches
        <5> QED
          BY <5>1, <5>2, <5>3
      <4> QED
        BY <2>2, <4>1
    <3>3. Touches({WriteOf(a)})
      BY <2>1 DEF Written
    <3> QED
      BY ONLY TInv, <2>2, <3>1, <3>2, <3>3, CountedGrows
  <2> QED
    BY <2>5, <2>6, <2>7
<1>12. ASSUME NEW a \in Actors, UpdateMeta(a) PROVE TInv'
  <2>1. replaced' \subseteq Ids
    <3>1. Recorded(part[a]) \subseteq Ids /\ replaced \subseteq Ids /\ held[a] \subseteq Ids
      BY RecordedIds DEF TypeOK
    <3>2. replaced' \subseteq replaced \cup Recorded(part[a]) \cup held[a]
      BY <1>12 DEF UpdateMeta, Overtake
    <3> QED
      BY <3>1, <3>2
  <2>2. TypeOK'
    BY <1>12, <2>1 DEF TypeOK, UpdateMeta
  <2> QED
    BY <1>0, <1>12, <2>2 DEF TypeOK, Roles, ClientPc, LifecyclePc, RecSet, FilesCounted, DownQuiet, UpdateMeta
<1>13. ASSUME NEW a \in Actors, WriteMetaFile(a) PROVE TInv'
  BY <1>0, <1>13 DEF TypeOK, Roles, ClientPc, LifecyclePc, RecSet, FilesCounted, DownQuiet, WriteMetaFile
<1>14. ASSUME NEW a \in Actors, WriteManifest(a) PROVE TInv'
  <2>1. TypeOK'
    BY <1>0, <1>14 DEF TypeOK, WriteManifest, AfterWrite
  <2>2. \/ a = Lifecycle /\ pc' = [pc EXCEPT ![a] = "idle"]
        \/ a \in Clients /\ pc' = [pc EXCEPT ![a] = "retry"]
    BY <1>0, <1>14 DEF WriteManifest, AfterWrite
  <2> QED
    <3>1. Roles' /\ RecSet'
      BY <1>0, <1>14, <2>2 DEF TypeOK, Roles, ClientPc, LifecyclePc, RecSet, WriteManifest
    <3>2. \A b \in Actors : pc'[b] \in {"file", "update", "meta"} => b # a /\ pc'[b] = pc[b]
      BY <2>2 DEF TypeOK
    <3>3. FilesCounted'
      BY <1>14, <3>2 DEF TypeOK, FilesCounted, WriteManifest
    <3>4. DownQuiet'
      BY <1>14 DEF DownQuiet, WriteManifest
    <3> QED
      BY <2>1, <3>1, <3>3, <3>4
<1>15. ASSUME NEW a \in Actors, WriteBatchError(a) PROVE TInv'
  <2>1. PICK W : CutOff(W)
    BY <1>15 DEF WriteBatchError
  <2>2. /\ Touches(W)
        /\ metaFile' \in [Part -> Nat]
        /\ manifest' \in (SUBSET Part) \cup {Torn}
        /\ \A p \in Part : metaFile'[p] <= Len(batches'[p])
    BY <2>1, CutOffFacts
  <2>r. replaced' \subseteq Ids
    <3>1. Recorded(part[a]) \subseteq Ids /\ replaced \subseteq Ids
      BY RecordedIds DEF TypeOK
    <3>2. replaced' \subseteq replaced \cup Recorded(part[a])
      BY <1>15 DEF WriteBatchError, Overtake
    <3> QED
      BY <3>1, <3>2
  <2>f. faults' \in Nat
    BY <1>0, <1>15 DEF TypeOK, WriteBatchError, Fault
  <2>b. batches' \in [Part -> Seq((SUBSET Ids) \cup {Torn})]
    BY <2>2 DEF Touches
  <2>3. TypeOK'
    BY <1>0, <1>15, <2>2, <2>r, <2>f, <2>b DEF TypeOK, WriteBatchError, LeaveWriteBatch
  <2>4. Roles' /\ RecSet' /\ DownQuiet'
    BY <1>0, <1>15 DEF TypeOK, Roles, ClientPc, LifecyclePc, RecSet, DownQuiet, WriteBatchError, LeaveWriteBatch
  <2>5. FilesCounted'
    <3>1. known' = known /\ orphans' \subseteq orphans
      BY <1>15 DEF WriteBatchError
    <3>2. \A b \in Actors : pc'[b] \in {"file", "update", "meta"} =>
             num'[b] = num[b] /\ part'[b] = part[b] /\ pc'[b] = pc[b]
      BY <1>15 DEF TypeOK, WriteBatchError, LeaveWriteBatch
    <3>3. \A p \in Part : metaFile'[p] \in Nat /\ metaFile'[p] <= Len(batches'[p])
      BY <2>2
    <3> QED
      BY <2>2, <3>1, <3>2, <3>3, CountedGrows
  <2> QED
    BY <2>3, <2>4, <2>5
<1>16. ASSUME Demote PROVE TInv'
  <2>1. PICK V \in SUBSET hot :
          held' = [held EXCEPT ![Lifecycle] = V] /\ part' = [part EXCEPT ![Lifecycle] = 0]
    BY <1>16 DEF Demote, Choose
  <2>c. cycles' \in Nat
    BY <1>0, <1>16 DEF TypeOK, Demote, Cycle
  <2>p. pc' = [pc EXCEPT ![Lifecycle] = "drain"]
    BY <1>16 DEF Demote, Choose
  <2>2. TypeOK'
    <3>1. held' \in [Actors -> SUBSET Ids] /\ part' \in [Actors -> Part]
      BY <1>0, <2>1 DEF TypeOK
    <3>2. pc' \in [Actors -> {"idle", "insert", "put", "full",
             "drain", "peek", "file", "update", "meta", "manifest", "retry", "reput", "index",
             "promote", "putPromoted"}]
      BY <1>0, <2>p DEF TypeOK
    <3> QED
      BY <1>16, <2>c, <3>1, <3>2 DEF TypeOK, Demote, Cycle
  <2>3. Roles' /\ RecSet' /\ DownQuiet'
    BY <1>0, <1>16, <2>p DEF TypeOK, Roles, ClientPc, LifecyclePc, RecSet, DownQuiet, Demote, Cycle
  <2>4. FilesCounted'
    <3>1. \A a \in Actors : pc'[a] \in {"file", "update", "meta"} => pc'[a] = pc[a] /\ part'[a] = part[a]
      BY <1>0, <2>1, <2>p DEF TypeOK
    <3> QED
      BY <1>16, <3>1 DEF FilesCounted, Demote, Cycle
  <2> QED
    BY <2>2, <2>3, <2>4
<1>17. ASSUME Promote PROVE TInv'
  <2>c. cycles' \in Nat
    BY <1>0, <1>17 DEF TypeOK, Promote, Cycle
  <2>1. TypeOK'
    BY <1>0, <1>17, <2>c DEF TypeOK, Promote, Cycle
  <2>2. Roles' /\ RecSet' /\ DownQuiet'
    BY <1>0, <1>17 DEF TypeOK, Roles, ClientPc, LifecyclePc, RecSet, DownQuiet, Promote, Cycle
  <2>3. FilesCounted'
    BY <1>0, <1>17 DEF TypeOK, FilesCounted, Promote, Cycle
  <2> QED
    BY <2>1, <2>2, <2>3
<1>18. ASSUME NEW p \in Part, PromoteRead(p) PROVE TInv'
  <2>1. batches[p] \in Seq((SUBSET Ids) \cup {Torn}) /\ queue' = batches[p]
    BY <1>18 DEF TypeOK, PromoteRead
  <2>2. \A k \in 1..Len(batches[p]) : batches[p][k] \in SUBSET Ids
    <3> SUFFICES ASSUME NEW k \in 1..Len(batches[p]) PROVE batches[p][k] \in SUBSET Ids
      OBVIOUS
    <3>1. batches[p][k] \in Elems(batches[p])
      BY <2>1 DEF Elems
    <3>2. batches[p][k] # Torn
      BY <1>18, <3>1 DEF PromoteRead, Readable
    <3>3. batches[p][k] \in (SUBSET Ids) \cup {Torn}
      BY <2>1
    <3> QED
      BY <3>2, <3>3
  <2>3. queue' \in Seq(SUBSET Ids)
    BY <2>1, <2>2
  <2>4. TypeOK'
    BY <1>18, <2>3 DEF TypeOK, PromoteRead
  <2> QED
    BY <1>18, <2>4 DEF Roles, RecSet, FilesCounted, DownQuiet, PromoteRead
<1>19. ASSUME NEW id \in Ids, PromoteNext(id) PROVE TInv'
  <2>1. queue \in Seq(SUBSET Ids) /\ queue # <<>>
    BY <1>19 DEF TypeOK, PromoteNext
  <2>2. Tail(queue) \in Seq(SUBSET Ids) /\ [queue EXCEPT ![1] = @ \ {id}] \in Seq(SUBSET Ids)
    BY <2>1
  <2>3. TypeOK'
    BY <1>0, <1>19, <2>2 DEF TypeOK, PromoteNext
  <2> QED
    BY <1>0, <1>19, <2>3 DEF TypeOK, Roles, RecSet, FilesCounted, DownQuiet, PromoteNext
<1>20. ASSUME PromoteDone PROVE TInv'
  BY <1>0, <1>20 DEF TypeOK, Roles, ClientPc, LifecyclePc, RecSet, FilesCounted, DownQuiet, PromoteDone
<1>21. ASSUME PromoteError PROVE TInv'
  BY <1>0, <1>21 DEF TypeOK, Roles, ClientPc, LifecyclePc, RecSet, FilesCounted, DownQuiet, PromoteError
<1>22. ASSUME ShutdownCreateIndex PROVE TInv'
  BY <1>0, <1>22 DEF TypeOK, Roles, ClientPc, LifecyclePc, RecSet, FilesCounted, DownQuiet, ShutdownCreateIndex
<1>23. ASSUME ShutdownSaveIndex PROVE TInv'
  BY <1>0, <1>23 DEF TypeOK, Roles, ClientPc, LifecyclePc, RecSet, FilesCounted, DownQuiet, ShutdownSaveIndex
<1>24. ASSUME ShutdownFlush PROVE TInv'
  <2>1. PICK W \in SUBSET Writing : Halt(W)
    BY <1>24 DEF ShutdownFlush
  <2>2. CutOff(W)
    BY <2>1 DEF Halt
  <2>3. /\ batches' \in [Part -> Seq((SUBSET Ids) \cup {Torn})]
        /\ metaFile' \in [Part -> Nat]
        /\ manifest' \in (SUBSET Part) \cup {Torn}
        /\ \A p \in Part : metaFile'[p] <= Len(batches'[p])
    BY <2>2, CutOffFacts DEF Touches
  <2>4. log' \in Seq(Ids) /\ stable' \in 0..Len(log') /\ indexFile' = indexFile
    BY <1>24 DEF TypeOK, ShutdownFlush
  <2>5. crashes' \in Nat
    BY <1>0, <1>24, <2>1 DEF TypeOK, DownQuiet, Halt, ShutdownFlush
  <2>6. acked' \subseteq Ids
    BY <1>24 DEF TypeOK, ShutdownFlush
  <2>7. TypeOK'
    <3>1. /\ known' \in [Part -> Nat] /\ part' \in [Actors -> Part]
          /\ num' \in [Actors -> Nat] /\ rec' \in [Actors -> Ids \cup {NoId}]
          /\ held' \in [Actors -> SUBSET Ids] /\ listed' \in [Actors -> SUBSET Part]
          /\ queue' \in Seq(SUBSET Ids)
      BY <1>0, <2>1 DEF Halt
    <3>2. /\ up' \in BOOLEAN /\ hot' = {} /\ index' = {} /\ stopping' = "no"
          /\ pc' = [a \in Actors |-> "idle"] /\ todo' = {} /\ failed' = {} /\ dropped' = {}
          /\ inserts' = inserts /\ cycles' = cycles /\ faults' = faults
          /\ orphans' = {} /\ abandoned' = {} /\ contested' = {} /\ replaced' = {}
      BY <2>1 DEF Halt
    <3> QED
      BY <2>3, <2>4, <2>5, <2>6, <3>1, <3>2 DEF TypeOK
  <2>8. Roles' /\ RecSet' /\ DownQuiet'
    BY <1>0, <2>1 DEF Roles, ClientPc, LifecyclePc, RecSet, DownQuiet, Halt
  <2>9. FilesCounted'
    <3>1. \A p \in Part : known'[p] = 0 /\ Len(batches'[p]) \in Nat
      BY <2>1, <2>3 DEF Halt
    <3>2. orphans' = {} /\ \A b \in Actors : pc'[b] = "idle"
      BY <2>1 DEF Halt
    <3> QED
      BY <2>3, <3>1, <3>2 DEF FilesCounted
  <2> QED
    BY <2>7, <2>8, <2>9
<1>25. ASSUME Crash PROVE TInv'
  <2>1. PICK W \in SUBSET Writing : Halt(W)
    BY <1>25 DEF Crash
  <2>2. CutOff(W)
    BY <2>1 DEF Halt
  <2>3. /\ batches' \in [Part -> Seq((SUBSET Ids) \cup {Torn})]
        /\ metaFile' \in [Part -> Nat]
        /\ manifest' \in (SUBSET Part) \cup {Torn}
        /\ \A p \in Part : metaFile'[p] <= Len(batches'[p])
    BY <2>2, CutOffFacts DEF Touches
  <2>4. log' \in Seq(Ids) /\ stable' \in 0..Len(log') /\ indexFile' = indexFile
    <3>1. PICK n \in stable..Len(log) : log' = SubSeq(log, 1, n) /\ stable' = n
      BY <1>25 DEF Crash
    <3>2. log \in Seq(Ids) /\ stable \in Nat /\ n \in 0..Len(log)
      BY <3>1 DEF TypeOK
    <3>3. log' \in Seq(Ids) /\ Len(log') = n
      BY <3>1, <3>2
    <3>4. indexFile' = indexFile
      BY <1>25 DEF Crash
    <3> QED
      BY <3>1, <3>2, <3>3, <3>4
  <2>5. crashes' \in Nat
    BY <1>0, <1>25, <2>1 DEF TypeOK, DownQuiet, Halt, Crash
  <2>6. acked' \subseteq Ids
    BY <1>25 DEF TypeOK, Crash
  <2>7. TypeOK'
    <3>1. /\ known' \in [Part -> Nat] /\ part' \in [Actors -> Part]
          /\ num' \in [Actors -> Nat] /\ rec' \in [Actors -> Ids \cup {NoId}]
          /\ held' \in [Actors -> SUBSET Ids] /\ listed' \in [Actors -> SUBSET Part]
          /\ queue' \in Seq(SUBSET Ids)
      BY <1>0, <2>1 DEF Halt
    <3>2. /\ up' \in BOOLEAN /\ hot' = {} /\ index' = {} /\ stopping' = "no"
          /\ pc' = [a \in Actors |-> "idle"] /\ todo' = {} /\ failed' = {} /\ dropped' = {}
          /\ inserts' = inserts /\ cycles' = cycles /\ faults' = faults
          /\ orphans' = {} /\ abandoned' = {} /\ contested' = {} /\ replaced' = {}
      BY <2>1 DEF Halt
    <3> QED
      BY <2>3, <2>4, <2>5, <2>6, <3>1, <3>2 DEF TypeOK
  <2>8. Roles' /\ RecSet' /\ DownQuiet'
    BY <1>0, <2>1 DEF Roles, ClientPc, LifecyclePc, RecSet, DownQuiet, Halt
  <2>9. FilesCounted'
    <3>1. \A p \in Part : known'[p] = 0 /\ Len(batches'[p]) \in Nat
      BY <2>1, <2>3 DEF Halt
    <3>2. orphans' = {} /\ \A b \in Actors : pc'[b] = "idle"
      BY <2>1 DEF Halt
    <3> QED
      BY <2>3, <3>1, <3>2 DEF FilesCounted
  <2> QED
    BY <2>7, <2>8, <2>9
<1>26. ASSUME Open PROVE TInv'
  <2>1. Elems(log) \subseteq Ids /\ Replayed \subseteq Elems(log)
    <3>1. Elems(log) \subseteq Ids
      BY DEF TypeOK, Elems
    <3>2. Replayed \subseteq Elems(log)
      BY DEF Elems, Replayed
    <3> QED
      BY <3>1, <3>2
  <2>2. index' \subseteq Ids /\ hot' \subseteq Ids /\ dropped' \subseteq Ids
    <3>1. indexFile \in SUBSET Ids
      BY <1>26 DEF TypeOK, Open, CanOpen
    <3> QED
      BY <1>26, <2>1, <3>1 DEF Open
  <2>3. known' \in [Part -> Nat] /\ \A p \in Part : known'[p] = 0 \/ known'[p] = metaFile[p]
    BY <1>26 DEF TypeOK, Open, Loaded
  <2>4. TypeOK'
    BY <1>26, <2>2, <2>3 DEF TypeOK, Open
  <2>5. FilesCounted'
    <3>1. \A p \in Part : Len(batches[p]) \in Nat
      BY DEF TypeOK
    <3> QED
      BY <1>26, <2>3, <3>1 DEF FilesCounted, Open
  <2> QED
    BY <1>26, <2>4, <2>5 DEF Roles, RecSet, DownQuiet, Open
<1>27. ASSUME OpenError PROVE TInv'
  BY <1>27 DEF TypeOK, Roles, ClientPc, LifecyclePc, RecSet, FilesCounted, DownQuiet, OpenError, vars
<1>29. ASSUME NEW c \in Clients, DropHandler(c) PROVE TInv'
  <2>1. c \in Actors /\ part[c] \in Part /\ num[c] \in Nat /\ held[c] \in SUBSET Ids
        /\ listed[c] \in SUBSET Part
    BY <1>0 DEF TypeOK
  <2>2. /\ pc[c] \in {"file", "meta", "manifest"} =>
           WriteOf(c) \in [stage : {"file", "meta", "manifest"}, part : Part, num : Nat,
                            held : SUBSET Ids, listed : SUBSET Part]
        /\ WriteOf(c).stage = pc[c] /\ WriteOf(c).part = part[c] /\ WriteOf(c).num = num[c]
    BY <2>1 DEF WriteOf
  <2>3. \A w \in orphans' :
           w \in orphans \/ (w = WriteOf(c) /\ pc[c] \in {"file", "meta", "manifest"})
    BY <1>29 DEF DropHandler
  <2>4. /\ abandoned' \subseteq Ids /\ faults' \in Nat
    <3>1. /\ faults \in Nat /\ faults' = faults + 1
          /\ abandoned' = abandoned \cup held[c] /\ abandoned \subseteq Ids
      BY <1>29 DEF TypeOK, DropHandler, Fault
    <3> QED
      BY <1>0, <2>1, <3>1
  <2>5. orphans' \subseteq [stage : {"file", "meta", "manifest"}, part : Part, num : Nat,
                            held : SUBSET Ids, listed : SUBSET Part]
    BY <2>2, <2>3 DEF TypeOK
  <2>6. TypeOK'
    BY <1>0, <1>29, <2>4, <2>5 DEF TypeOK, DropHandler, LeaveWriteBatch
  <2>7. Roles' /\ RecSet'
    BY <1>0, <1>29 DEF TypeOK, Roles, ClientPc, LifecyclePc, RecSet, DropHandler, LeaveWriteBatch
  <2>8. DownQuiet'
    BY <1>0, <1>29 DEF TypeOK, DownQuiet, DropHandler, LeaveWriteBatch
  <2>9. FilesCounted'
    <3>1. UNCHANGED <<batches, known, metaFile>>
      BY <1>29 DEF DropHandler
    <3>2. \A b \in Actors : pc'[b] \in {"file", "update", "meta"} =>
             num'[b] = num[b] /\ part'[b] = part[b] /\ pc'[b] = pc[b]
      BY <1>29 DEF TypeOK, DropHandler, LeaveWriteBatch
    <3>3. ASSUME NEW w \in orphans'
          PROVE  /\ w.stage = "file" => w.num >= 1 /\ w.num <= Len(batches[w.part]) + 1
                 /\ w.stage = "meta" => w.num >= 1 /\ w.num <= Len(batches[w.part])
      <4>1. CASE w \in orphans
        BY <4>1 DEF FilesCounted
      <4>2. CASE w = WriteOf(c)
        BY <2>1, <2>2, <4>2 DEF FilesCounted
      <4> QED
        BY <2>3, <4>1, <4>2
    <3> QED
      BY <3>1, <3>2, <3>3 DEF FilesCounted
  <2> QED
    BY <2>6, <2>7, <2>8, <2>9
<1>30. ASSUME NEW w \in orphans, OrphanWrite(w) PROVE TInv'
  <2>0. /\ w.stage \in {"file", "meta", "manifest"} /\ w.part \in Part /\ w.num \in Nat
        /\ w.held \in SUBSET Ids /\ w.listed \in SUBSET Part
    BY DEF TypeOK
  <2>1. OrphanDisk(w)
    BY <1>30, OrphanWritten
  <2>2. /\ UNCHANGED <<log, stable, indexFile, memory, locals, history, up, stopping,
                       abandoned, contested>>
        /\ orphans' = orphans \ {w}
    BY <1>30 DEF OrphanWrite
  <2>3. replaced' \subseteq Ids
    <3>1. Recorded(w.part) \subseteq Ids /\ replaced \subseteq Ids
      BY <2>0, RecordedIds DEF TypeOK
    <3>2. replaced' \subseteq replaced \cup Recorded(w.part)
      BY <1>30 DEF OrphanWrite, Overtake
    <3> QED
      BY <3>1, <3>2
  <2>4. /\ batches' \in [Part -> Seq((SUBSET Ids) \cup {Torn})] /\ metaFile' \in [Part -> Nat]
        /\ manifest' \in (SUBSET Part) \cup {Torn}
    BY <2>1 DEF OrphanDisk, Touches
  <2>5. TypeOK'
    BY <2>2, <2>3, <2>4 DEF TypeOK
  <2>6. Roles' /\ RecSet' /\ DownQuiet'
    BY <2>2 DEF Roles, RecSet, DownQuiet
  <2>7. FilesCounted'
    <3>1. known' = known /\ orphans' \subseteq orphans
      BY <2>2
    <3>2. \A b \in Actors : num'[b] = num[b] /\ part'[b] = part[b] /\ pc'[b] = pc[b]
      BY <2>2
    <3>3. Touches({w}) /\ \A p \in Part : metaFile'[p] \in Nat /\ metaFile'[p] <= Len(batches'[p])
      BY <2>1 DEF OrphanDisk
    <3> QED
      BY ONLY TInv, <3>1, <3>2, <3>3, CountedGrows
  <2> QED
    BY <2>5, <2>6, <2>7
<1>28. CASE UNCHANGED vars
  BY <1>28 DEF TypeOK, Roles, ClientPc, LifecyclePc, RecSet, FilesCounted, DownQuiet, vars
<1> QED
  BY <1>1, <1>2, <1>3, <1>4, <1>5, <1>6, <1>7, <1>8, <1>9, <1>10, <1>11, <1>12, <1>13, <1>14, <1>15, <1>16, <1>17, <1>18, <1>19, <1>20, <1>21, <1>22, <1>23, <1>24, <1>25, <1>26, <1>27, <1>28, <1>29, <1>30 DEF Next, Step

-----------------------------------------------------------------------------
(* The replay of the log *)

\* The positions of the log that hold an id for the first time.
FirstAt == {k \in DOMAIN log : \A j \in 1..(k - 1) : log[j] # log[k]}
Rank(F, n) == Cardinality({j \in F : j < n})

\* At most m members of a finite set of numbers have fewer than m before them.
LEMMA RankBound ==
    ASSUME NEW F \in SUBSET Nat, IsFiniteSet(F), NEW m \in Nat
    PROVE  /\ IsFiniteSet({n \in F : Rank(F, n) < m})
           /\ Cardinality({n \in F : Rank(F, n) < m}) <= m
<1> DEFINE S == {n \in F : Rank(F, n) < m}
           f == [n \in S |-> Rank(F, n)]
<1>1. \A n \in F : /\ IsFiniteSet({j \in F : j < n})
                   /\ Rank(F, n) \in Nat
  <2> SUFFICES ASSUME NEW n \in F
               PROVE  IsFiniteSet({j \in F : j < n}) /\ Rank(F, n) \in Nat
    OBVIOUS
  <2>1. {j \in F : j < n} \in SUBSET F
    OBVIOUS
  <2>2. IsFiniteSet({j \in F : j < n})
    BY <2>1, FS_Subset
  <2> QED
    BY <2>2, FS_CardinalityType DEF Rank
<1>2. ASSUME NEW x \in F, NEW y \in F, x < y
      PROVE  Rank(F, x) < Rank(F, y)
  <2> DEFINE A == {j \in F : j < x}
             B == {j \in F : j < y}
  <2>1. IsFiniteSet(A) /\ IsFiniteSet(B) /\ x \notin A /\ A \cup {x} \in SUBSET B
    <3>1. x \in Nat /\ y \in Nat /\ \A j \in F : j \in Nat
      OBVIOUS
    <3>2. \A j \in F : j < x => j < y
      BY <1>2, <3>1
    <3>3. ~(x < x)
      BY <3>1
    <3> QED
      BY <1>1, <1>2, <3>2, <3>3
  <2> HIDE DEF A, B
  <2>2. Cardinality(A \cup {x}) = Cardinality(A) + 1
    BY <2>1, FS_AddElement
  <2>3. Cardinality(A \cup {x}) <= Cardinality(B)
    BY <2>1, FS_Subset
  <2>4. Cardinality(A) \in Nat /\ Cardinality(B) \in Nat
    BY <2>1, FS_CardinalityType
  <2>5. Cardinality(A) < Cardinality(B)
    BY <2>2, <2>3, <2>4
  <2> QED
    BY <2>5 DEF Rank, A, B
<1>3. f \in Injection(S, 0..(m - 1))
  <2>1. f \in [S -> 0..(m - 1)]
    <3>1. \A n \in S : Rank(F, n) \in Nat /\ Rank(F, n) < m
      BY <1>1
    <3>2. \A r \in Nat : r < m => r \in 0..(m - 1)
      OBVIOUS
    <3>3. \A n \in S : Rank(F, n) \in 0..(m - 1)
      BY <3>1, <3>2
    <3> HIDE DEF S
    <3> QED
      BY <3>3
  <2>2. ASSUME NEW x \in S, NEW y \in S, f[x] = f[y] PROVE x = y
    <3>1. Rank(F, x) = Rank(F, y) /\ x \in F /\ y \in F /\ x \in Nat /\ y \in Nat
      BY <2>2
    <3>2. Rank(F, x) \in Nat /\ ~(Rank(F, x) < Rank(F, x))
      <4>1. Rank(F, x) \in Nat
        BY <1>1, <3>1
      <4> QED
        BY <4>1
    <3>3. ~(x < y) /\ ~(y < x)
      BY <1>2, <3>1, <3>2, Zenon
    <3> QED
      BY <3>1, <3>3
  <2> HIDE DEF f, S
  <2> QED
    BY <2>1, <2>2, Fun_IsInj
<1>4. IsFiniteSet(0..(m - 1)) /\ Cardinality(0..(m - 1)) = m
  <2>1. 0 \in Int /\ m - 1 \in Int
    OBVIOUS
  <2>2. /\ IsFiniteSet(0..(m - 1))
        /\ Cardinality(0..(m - 1)) = IF 0 > m - 1 THEN 0 ELSE (m - 1) - 0 + 1
    BY <2>1, FS_Interval
  <2> QED
    BY <2>2
<1>5. IsFiniteSet(S) /\ Cardinality(S) <= Cardinality(0..(m - 1))
  <2> HIDE DEF f, S
  <2> QED
    BY <1>3, <1>4, FS_Injection
<1> QED
  BY <1>4, <1>5

\* The number of values of a function is at most that of its arguments.
LEMMA ValuesBound ==
    ASSUME NEW S, IsFiniteSet(S), NEW g
    PROVE  /\ IsFiniteSet({g[k] : k \in S})
           /\ Cardinality({g[k] : k \in S}) <= Cardinality(S)
<1> DEFINE T == {g[k] : k \in S}
           f == [k \in S |-> g[k]]
<1>1. f \in Surjection(S, T)
  BY DEF Surjection
<1> HIDE DEF f, T
<1>2. IsFiniteSet(T) /\ Cardinality(T) <= Cardinality(S)
  BY <1>1, FS_Surjection
<1> QED
  BY <1>2 DEF T

\* The positions where ids first occur in a finite log are finitely many.
LEMMA FirstAtFinite ==
    ASSUME TypeOK
    PROVE  FirstAt \in SUBSET Nat /\ IsFiniteSet(FirstAt)
<1>1. log \in Seq(Ids) /\ Len(log) \in Nat /\ DOMAIN log = 1..Len(log)
  BY DEF TypeOK
<1>2. FirstAt \in SUBSET (1..Len(log))
  BY <1>1 DEF FirstAt
<1>3. IsFiniteSet(1..Len(log))
  BY <1>1, FS_Interval
<1>4. IsFiniteSet(FirstAt)
  BY <1>2, <1>3, FS_Subset
<1>5. \A k \in 1..Len(log) : k \in Nat
  BY <1>1
<1> QED
  BY <1>2, <1>4, <1>5

\* The replay fills the hot store at most to its limit.
LEMMA ReplayedBound ==
    ASSUME TypeOK, HotMax > 0
    PROVE  IsFiniteSet(Replayed) /\ Cardinality(Replayed) <= HotMax
<1> DEFINE S == {n \in FirstAt : Rank(FirstAt, n) < HotMax}
<1>0. HotMax \in Nat
  BY LimitsAssumption
<1>1. Replayed = {log[k] : k \in S}
  <2>1. Replayed = {log[k] : k \in {n \in FirstAt : HotMax = 0 \/ Rank(FirstAt, n) < HotMax}}
    BY Zenon DEF Replayed, FirstAt, Rank
  <2>2. HotMax # 0
    BY <1>0
  <2>3. {n \in FirstAt : HotMax = 0 \/ Rank(FirstAt, n) < HotMax} = S
    BY <2>2
  <2> QED
    BY <2>1, <2>3, Zenon
<1>2. IsFiniteSet(S) /\ Cardinality(S) <= HotMax
  BY <1>0, FirstAtFinite, RankBound
<1>3. /\ IsFiniteSet({log[k] : k \in S})
      /\ Cardinality({log[k] : k \in S}) <= Cardinality(S)
  <2> HIDE DEF S
  <2> QED
    BY <1>2, ValuesBound
<1>4. Cardinality(S) \in Nat /\ Cardinality(Replayed) \in Nat
  BY <1>1, <1>2, <1>3, FS_CardinalityType
<1> QED
  BY <1>0, <1>1, <1>2, <1>3, <1>4

-----------------------------------------------------------------------------
(* The log, the index and the capacity *)

\* A step that leaves the log and what is said of it alone.
QuietLog ==
    /\ UNCHANGED <<log, acked, index, up>>
    /\ dropped' \subseteq dropped
    /\ \A c \in Clients : pc'[c] # "idle" => pc[c] # "idle" /\ rec'[c] = rec[c]

\* A step after which no more records are in the hot store or about to be.
QuietHot == hot' \subseteq hot /\ Putting' \subseteq Putting

\* Which steps change the log, the acknowledged ids and the index.
LEMMA LogFrame ==
    ASSUME TInv, [Next]_vars
    PROVE  \/ QuietLog
           \/ \E c \in Clients, id \in Ids : Insert(c, id) \/ InsertError(c, id)
           \/ \E c \in Clients : IndexAndAck(c)
           \/ Crash \/ ShutdownFlush \/ Open
<1>0. Lifecycle \notin Clients /\ Clients \subseteq Actors /\ Lifecycle \in Actors
  BY LifecycleAssumption DEF Actors
<1> USE DEF TInv, Jump, disk, memory, locals, history, cold, overlap
<1>1. ASSUME NEW c \in Clients, Evict(c) PROVE QuietLog
  BY <1>0, <1>1 DEF QuietLog, TypeOK, Evict, Choose
<1>2. ASSUME NEW c \in Clients, IndexError(c) PROVE QuietLog
  BY <1>0, <1>2 DEF QuietLog, TypeOK, IndexError
<1>3. ASSUME NEW a \in Actors, CheckCapacity(a) PROVE QuietLog
  BY <1>0, <1>3 DEF QuietLog, TypeOK, CheckCapacity
<1>4. ASSUME NEW a \in Actors, Put(a) PROVE QuietLog
  BY <1>0, <1>4 DEF QuietLog, TypeOK, Roles, ClientPc, Put
<1>5. ASSUME NEW a \in Actors, StoreFull(a) PROVE QuietLog
  BY <1>0, <1>5 DEF QuietLog, TypeOK, Roles, ClientPc, StoreFull
<1>6. ASSUME NEW a \in Actors, Drain(a) PROVE QuietLog
  BY <1>0, <1>6 DEF QuietLog, TypeOK, Drain, AfterWrite
<1>7. ASSUME NEW a \in Actors, PeekBatchNum(a) PROVE QuietLog
  BY <1>0, <1>7 DEF QuietLog, TypeOK, PeekBatchNum
<1>8. ASSUME NEW a \in Actors, WriteBatchFile(a) PROVE QuietLog
  BY <1>0, <1>8 DEF QuietLog, TypeOK, WriteBatchFile
<1>9. ASSUME NEW a \in Actors, UpdateMeta(a) PROVE QuietLog
  BY <1>0, <1>9 DEF QuietLog, TypeOK, UpdateMeta
<1>10. ASSUME NEW a \in Actors, WriteMetaFile(a) PROVE QuietLog
  BY <1>0, <1>10 DEF QuietLog, TypeOK, WriteMetaFile
<1>11. ASSUME NEW a \in Actors, WriteManifest(a) PROVE QuietLog
  BY <1>0, <1>11 DEF QuietLog, TypeOK, WriteManifest
<1>12. ASSUME NEW a \in Actors, WriteBatchError(a) PROVE QuietLog
  BY <1>0, <1>12 DEF QuietLog, TypeOK, WriteBatchError, LeaveWriteBatch
<1>13. ASSUME Demote PROVE QuietLog
  BY <1>0, <1>13 DEF QuietLog, TypeOK, Demote, Choose, Cycle
<1>14. ASSUME Promote PROVE QuietLog
  BY <1>0, <1>14 DEF QuietLog, TypeOK, Promote, Cycle
<1>15. ASSUME NEW p \in Part, PromoteRead(p) PROVE QuietLog
  BY <1>0, <1>15 DEF QuietLog, TypeOK, PromoteRead
<1>16. ASSUME NEW id \in Ids, PromoteNext(id) PROVE QuietLog
  BY <1>0, <1>16 DEF QuietLog, TypeOK, PromoteNext
<1>17. ASSUME PromoteDone PROVE QuietLog
  BY <1>0, <1>17 DEF QuietLog, TypeOK, PromoteDone
<1>18. ASSUME PromoteError PROVE QuietLog
  BY <1>0, <1>18 DEF QuietLog, TypeOK, PromoteError
<1>19. ASSUME ShutdownCreateIndex PROVE QuietLog
  BY <1>0, <1>19 DEF QuietLog, TypeOK, ShutdownCreateIndex
<1>20. ASSUME ShutdownSaveIndex PROVE QuietLog
  BY <1>0, <1>20 DEF QuietLog, TypeOK, ShutdownSaveIndex
<1>21. ASSUME OpenError PROVE QuietLog
  BY <1>0, <1>21 DEF QuietLog, TypeOK, OpenError, vars
<1>22. CASE UNCHANGED vars
  BY <1>22 DEF QuietLog, vars
<1>23. ASSUME NEW c \in Clients, DropHandler(c) PROVE QuietLog
  BY <1>0, <1>23 DEF QuietLog, TypeOK, DropHandler, LeaveWriteBatch
<1>24. ASSUME NEW w \in orphans, OrphanWrite(w) PROVE QuietLog
  BY <1>24 DEF QuietLog, OrphanWrite
<1> QED
  BY <1>1, <1>2, <1>3, <1>4, <1>5, <1>6, <1>7, <1>8, <1>9, <1>10, <1>11, <1>12, <1>13, <1>14, <1>15, <1>16, <1>17, <1>18, <1>19, <1>20, <1>21, <1>22, <1>23, <1>24 DEF Next, Step

\* Which steps add to the hot store or promise to.
LEMMA HotFrame ==
    ASSUME TInv, [Next]_vars
    PROVE  QuietHot \/ Open \/ \E a \in Actors : CheckCapacity(a) \/ Put(a)
<1>0. Lifecycle \notin Clients /\ Clients \subseteq Actors /\ Lifecycle \in Actors
  BY LifecycleAssumption DEF Actors
<1> USE DEF TInv, Jump, disk, memory, locals, history, cold, overlap
<1>1. ASSUME NEW c \in Clients, NEW id \in Ids, Insert(c, id) PROVE QuietHot
  BY <1>0, <1>1 DEF QuietHot, TypeOK, Putting, Insert
<1>2. ASSUME NEW c \in Clients, NEW id \in Ids, InsertError(c, id) PROVE QuietHot
  BY <1>0, <1>2 DEF QuietHot, TypeOK, Putting, InsertError
<1>3. ASSUME NEW c \in Clients, Evict(c) PROVE QuietHot
  BY <1>0, <1>3 DEF QuietHot, TypeOK, Putting, Evict, Choose
<1>4. ASSUME NEW c \in Clients, IndexAndAck(c) PROVE QuietHot
  BY <1>0, <1>4 DEF QuietHot, TypeOK, Putting, IndexAndAck
<1>5. ASSUME NEW c \in Clients, IndexError(c) PROVE QuietHot
  BY <1>0, <1>5 DEF QuietHot, TypeOK, Putting, IndexError
<1>6. ASSUME NEW a \in Actors, StoreFull(a) PROVE QuietHot
  BY <1>0, <1>6 DEF QuietHot, TypeOK, Putting, StoreFull
<1>7. ASSUME NEW a \in Actors, Drain(a) PROVE QuietHot
  BY <1>0, <1>7 DEF QuietHot, TypeOK, Putting, Drain, AfterWrite
<1>8. ASSUME NEW a \in Actors, PeekBatchNum(a) PROVE QuietHot
  BY <1>0, <1>8 DEF QuietHot, TypeOK, Putting, PeekBatchNum
<1>9. ASSUME NEW a \in Actors, WriteBatchFile(a) PROVE QuietHot
  BY <1>0, <1>9 DEF QuietHot, TypeOK, Putting, WriteBatchFile
<1>10. ASSUME NEW a \in Actors, UpdateMeta(a) PROVE QuietHot
  BY <1>0, <1>10 DEF QuietHot, TypeOK, Putting, UpdateMeta
<1>11. ASSUME NEW a \in Actors, WriteMetaFile(a) PROVE QuietHot
  BY <1>0, <1>11 DEF QuietHot, TypeOK, Putting, WriteMetaFile
<1>12. ASSUME NEW a \in Actors, WriteManifest(a) PROVE QuietHot
  BY <1>0, <1>12 DEF QuietHot, TypeOK, Putting, WriteManifest, AfterWrite
<1>13. ASSUME NEW a \in Actors, WriteBatchError(a) PROVE QuietHot
  BY <1>0, <1>13 DEF QuietHot, TypeOK, Putting, WriteBatchError, LeaveWriteBatch
<1>14. ASSUME Demote PROVE QuietHot
  BY <1>0, <1>14 DEF QuietHot, TypeOK, Putting, Demote, Choose
<1>15. ASSUME Promote PROVE QuietHot
  BY <1>0, <1>15 DEF QuietHot, TypeOK, Putting, Promote
<1>16. ASSUME NEW p \in Part, PromoteRead(p) PROVE QuietHot
  BY <1>0, <1>16 DEF QuietHot, TypeOK, Putting, PromoteRead
<1>17. ASSUME NEW id \in Ids, PromoteNext(id) PROVE QuietHot
  BY <1>0, <1>17 DEF QuietHot, TypeOK, Putting, PromoteNext
<1>18. ASSUME PromoteDone PROVE QuietHot
  BY <1>0, <1>18 DEF QuietHot, TypeOK, Putting, PromoteDone
<1>19. ASSUME PromoteError PROVE QuietHot
  BY <1>0, <1>19 DEF QuietHot, TypeOK, Putting, PromoteError
<1>20. ASSUME ShutdownCreateIndex PROVE QuietHot
  BY <1>0, <1>20 DEF QuietHot, TypeOK, Putting, ShutdownCreateIndex
<1>21. ASSUME ShutdownSaveIndex PROVE QuietHot
  BY <1>0, <1>21 DEF QuietHot, TypeOK, Putting, ShutdownSaveIndex
<1>22. ASSUME OpenError PROVE QuietHot
  BY <1>0, <1>22 DEF QuietHot, TypeOK, Putting, OpenError, vars
<1>23. CASE UNCHANGED vars
  BY <1>23 DEF QuietHot, Putting, vars
<1>24. ASSUME ShutdownFlush PROVE QuietHot
  BY <1>0, <1>24 DEF QuietHot, TypeOK, Putting, ShutdownFlush, Halt
<1>25. ASSUME Crash PROVE QuietHot
  BY <1>0, <1>25 DEF QuietHot, TypeOK, Putting, Crash, Halt
<1>26. ASSUME NEW c \in Clients, DropHandler(c) PROVE QuietHot
  BY <1>0, <1>26 DEF QuietHot, TypeOK, Putting, DropHandler, LeaveWriteBatch
<1>27. ASSUME NEW w \in orphans, OrphanWrite(w) PROVE QuietHot
  BY <1>27 DEF QuietHot, Putting, OrphanWrite
<1> QED
  BY <1>1, <1>2, <1>3, <1>4, <1>5, <1>6, <1>7, <1>8, <1>9, <1>10, <1>11, <1>12, <1>13, <1>14, <1>15, <1>16, <1>17, <1>18, <1>19, <1>20, <1>21, <1>22, <1>23, <1>24, <1>25, <1>26, <1>27 DEF Next, Step

\* What is acknowledged, and what a client is inserting, is in the log.
Logged ==
    /\ acked \subseteq Elems(log) \ Misfits
    /\ \A c \in Clients : pc[c] # "idle" => rec[c] \in Elems(log)

\* The capacity check promises a place to at most one record per actor.
Promised ==
    HotMax > 0 => Cardinality(hot) + Cardinality(Putting) < HotMax + Cardinality(Actors)

LInv ==
    /\ TInv
    /\ Logged
    /\ IndexCovers
   
    /\ Promised

\* Every step keeps acknowledged records logged and indexed.
LEMMA LogStep ==
    ASSUME TInv, Logged, IndexCovers, [Next]_vars
    PROVE  Logged' /\ IndexCovers'
<1>0. log \in Seq(Ids) /\ IsFiniteSet(Elems(log)) /\ Elems(log) \subseteq Ids
  <2>1. log \in Seq(Ids) /\ Elems(log) \in SUBSET Ids
    BY DEF TInv, TypeOK, Elems
  <2> QED
    BY <2>1, IdsAssumption, FS_Subset
<1>1. CASE QuietLog
  BY <1>1 DEF QuietLog, Logged, IndexCovers
<1>2. ASSUME NEW c \in Clients, NEW id \in Ids, Insert(c, id) \/ InsertError(c, id)
      PROVE  Logged' /\ IndexCovers'
  <2>1. log' = log \/ log' = Append(log, id)
    BY <1>2 DEF Insert, InsertError
  <2>2. Elems(log') = Elems(log) \/ Elems(log') = Elems(log) \cup {id}
    <3>1. Elems(Append(log, id)) = Elems(log) \cup {id}
      BY <1>0, ElemsAppend
    <3> QED
      BY <2>1, <3>1
  <2>3. UNCHANGED <<acked, index, up, dropped>>
    BY <1>2 DEF Insert, InsertError, memory
  <2>4. ASSUME NEW d \in Clients, pc'[d] # "idle"
        PROVE  rec'[d] \in Elems(log')
    <3>1. CASE InsertError(c, id)
      <4>1. pc'[d] = pc[d] /\ rec'[d] = rec[d]
        BY <3>1 DEF InsertError, locals
      <4> QED
        BY <2>2, <2>4, <4>1 DEF Logged
    <3>2. CASE Insert(c, id)
      <4>1. log' = Append(log, id) /\ Elems(log') = Elems(log) \cup {id}
        BY <1>0, <3>2, ElemsAppend DEF Insert
      <4>2. CASE d = c
        <5>1. rec'[d] = id
          BY <3>2, <4>2 DEF Insert, TInv, TypeOK, Actors
        <5> QED
          BY <4>1, <5>1
      <4>3. CASE d # c
        <5>1. pc'[d] = pc[d] /\ rec'[d] = rec[d]
          BY <3>2, <4>3 DEF Insert, Jump, TInv, TypeOK, Actors
        <5> QED
          BY <2>2, <2>4, <5>1 DEF Logged
      <4> QED
        BY <4>2, <4>3
    <3> QED
      BY <1>2, <3>1, <3>2
  <2>5. Logged'
    BY <2>2, <2>3, <2>4 DEF Logged
  <2> QED
    BY <2>3, <2>5 DEF IndexCovers
<1>3. ASSUME NEW c \in Clients, IndexAndAck(c)
      PROVE  Logged' /\ IndexCovers'
  <2>1. /\ log' = log /\ up' = up /\ dropped' = dropped
        /\ rec[c] \notin Misfits /\ pc[c] = "index"
        /\ acked' = acked \cup {rec[c]} /\ index' = index \cup {rec[c]}
    BY <1>3 DEF IndexAndAck, disk
  <2>2. rec[c] \in Elems(log)
    BY <2>1 DEF Logged
  <2>3. \A d \in Clients : pc'[d] # "idle" => pc[d] # "idle" /\ rec'[d] = rec[d]
    BY <1>3 DEF IndexAndAck, Jump, TInv, TypeOK, Actors
  <2> QED
    BY <2>1, <2>2, <2>3 DEF Logged, IndexCovers
<1>4. CASE Crash \/ ShutdownFlush
  <2>1. PICK A : Halt(A)
    BY <1>4 DEF Crash, ShutdownFlush
  <2>2. up' = FALSE /\ dropped' = {} /\ \A c \in Clients : pc'[c] = "idle"
    BY <2>1 DEF Halt, Actors
  <2>3. acked' \subseteq Elems(log') \ Misfits
    BY <1>4 DEF Crash, ShutdownFlush, Logged
  <2> QED
    BY <2>2, <2>3 DEF Logged, IndexCovers
<1>5. CASE Open
  <2>1. /\ UNCHANGED <<log, pc, rec, acked>>
        /\ index' = indexFile \cup (Elems(log) \ Misfits)
        /\ hot' = Replayed /\ dropped' = Elems(log) \ Safe'
    BY <1>5 DEF Open, disk, locals
  <2> QED
    BY <2>1 DEF Logged, IndexCovers
<1> QED
  BY <1>1, <1>2, <1>3, <1>4, <1>5, LogFrame

\* Every step keeps the promises within the capacity.
LEMMA PromisedStep ==
    ASSUME TInv, Promised, [Next]_vars
    PROVE  Promised'
<1> SUFFICES ASSUME HotMax > 0
             PROVE  Cardinality(hot') + Cardinality(Putting') < HotMax + Cardinality(Actors)
  BY DEF Promised
<1>0. HotMax \in Nat /\ IsFiniteSet(Actors) /\ Cardinality(Actors) \in Nat
      /\ Lifecycle \in Actors /\ Cardinality(Actors) >= 1
  <2>1. IsFiniteSet(Actors)
    BY ClientsAssumption, FS_AddElement DEF Actors
  <2>2. Cardinality(Actors) \in Nat /\ (Cardinality(Actors) = 0 <=> Actors = {})
    BY <2>1, FS_CardinalityType, FS_EmptySet
  <2>3. Lifecycle \in Actors
    BY DEF Actors
  <2> QED
    BY <2>1, <2>2, <2>3, LimitsAssumption
<1>t. hot \in SUBSET Ids /\ hot' \in SUBSET Ids
  <2>1. TInv'
    BY TInvStep
  <2> QED
    BY <2>1 DEF TInv, TypeOK
<1>1. /\ IsFiniteSet(hot) /\ IsFiniteSet(hot') /\ IsFiniteSet(Putting) /\ IsFiniteSet(Putting')
      /\ Cardinality(hot) \in Nat /\ Cardinality(hot') \in Nat
      /\ Cardinality(Putting) \in Nat /\ Cardinality(Putting') \in Nat
  <2>1. IsFiniteSet(hot) /\ IsFiniteSet(hot')
    BY <1>t, IdsAssumption, FS_Subset
  <2>2. Putting \in SUBSET Actors /\ Putting' \in SUBSET Actors
    BY DEF Putting
  <2>3. IsFiniteSet(Putting) /\ IsFiniteSet(Putting')
    BY <1>0, <2>2, FS_Subset
  <2> QED
    BY <2>1, <2>3, FS_CardinalityType
<1>2. Cardinality(hot) + Cardinality(Putting) < HotMax + Cardinality(Actors)
  BY DEF Promised
<1>3. CASE QuietHot
  <2>1. Cardinality(hot') <= Cardinality(hot)
    BY <1>1, <1>3, FS_Subset DEF QuietHot
  <2>2. Cardinality(Putting') <= Cardinality(Putting)
    BY <1>1, <1>3, FS_Subset DEF QuietHot
  <2> QED
    BY <1>0, <1>1, <1>2, <2>1, <2>2
<1>4. ASSUME NEW a \in Actors, CheckCapacity(a)
      PROVE  Cardinality(hot') + Cardinality(Putting') < HotMax + Cardinality(Actors)
  <2>1. hot' = hot /\ Cardinality(hot) < HotMax
    BY <1>0, <1>1, <1>4 DEF CheckCapacity, Full, memory
  <2>2. Putting' \in SUBSET Actors
    BY DEF Putting
  <2>3. Cardinality(Putting') <= Cardinality(Actors)
    BY <1>0, <2>2, FS_Subset
  <2> QED
    BY <1>0, <1>1, <2>1, <2>3
<1>5. ASSUME NEW a \in Actors, Put(a)
      PROVE  Cardinality(hot') + Cardinality(Putting') < HotMax + Cardinality(Actors)
  <2>1. hot' = hot \cup {rec[a]}
    BY <1>5 DEF Put
  <2>2. Cardinality(hot') <= Cardinality(hot) + 1
    <3>1. Cardinality(hot \cup {rec[a]})
             = IF rec[a] \in hot THEN Cardinality(hot) ELSE Cardinality(hot) + 1
      BY <1>1, FS_AddElement
    <3> QED
      BY <1>1, <2>1, <3>1
  <2>3. a \in Putting /\ Putting' = Putting \ {a}
    <3>1. \A b \in Actors : b # a => pc'[b] = pc[b]
      BY <1>5 DEF Put, Jump, TInv, TypeOK
    <3>2. pc'[a] \in {"promote", "idle", "index"}
      BY <1>5 DEF Put, Jump, TInv, TypeOK
    <3>3. pc[a] \in {"put", "reput", "putPromoted"}
      BY <1>5 DEF Put
    <3> QED
      BY <3>1, <3>2, <3>3 DEF Putting
  <2>4. Cardinality(Putting') = Cardinality(Putting) - 1
    BY <1>1, <2>3, FS_RemoveElement
  <2> QED
    BY <1>0, <1>1, <1>2, <2>2, <2>4
<1>6. CASE Open
  <2>1. hot' = Replayed /\ \A a \in Actors : pc'[a] = "idle"
    BY <1>6 DEF Open, TInv, DownQuiet, locals
  <2>2. Putting' = {}
    BY <2>1 DEF Putting
  <2>3. Cardinality(hot') <= HotMax
    BY <2>1, ReplayedBound DEF TInv
  <2>4. Cardinality(Putting') = 0
    BY <2>2, FS_EmptySet
  <2> QED
    BY <1>0, <1>1, <2>3, <2>4
<1> QED
  BY <1>3, <1>4, <1>5, <1>6, HotFrame

\* A new engine satisfies the invariant.
LEMMA LInvInit == Init => LInv
<1> SUFFICES ASSUME Init PROVE LInv
  OBVIOUS
<1>1. TInv
  BY TInvInit
<1>2. Logged /\ IndexCovers
  BY DEF Init, Logged, IndexCovers, Actors
<1>3. Promised
  <2>1. hot = {} /\ Putting = {}
    BY DEF Init, Putting
  <2>2. Cardinality(hot) = 0 /\ Cardinality(Putting) = 0
    BY <2>1, FS_EmptySet
  <2>3. Cardinality(Actors) \in Nat
    <3>1. IsFiniteSet(Actors)
      BY ClientsAssumption, FS_AddElement DEF Actors
    <3> QED
      BY <3>1, FS_CardinalityType
  <2> QED
    BY <2>2, <2>3, LimitsAssumption DEF Promised
<1> QED
  BY <1>1, <1>2, <1>3 DEF LInv

\* Every step keeps the invariant.
LEMMA LInvStep == LInv /\ [Next]_vars => LInv'
  BY TInvStep, LogStep, PromisedStep DEF LInv

\* The inductive invariant that holds for any number of clients.
THEOREM EngineInvariant == Spec => []LInv
  BY LInvInit, LInvStep, PTL DEF Spec

\* The tiers, the files and the calls in progress keep their types.
THEOREM EngineTypes == Spec => []TypeOK
<1>1. LInv => TypeOK
  BY DEF LInv, TInv
<1> QED
  BY <1>1, EngineInvariant, PTL

\* HotStore::insert checks the capacity and inserts in two steps: the hot store
\* outgrows max_records by less than the number of tasks, for any number of them.
THEOREM EngineHotBounded == Spec => []HotBounded
<1>1. LInv => HotBounded
  <2> SUFFICES ASSUME LInv, HotMax > 0
               PROVE  Cardinality(hot) < HotMax + Cardinality(Actors)
    BY DEF HotBounded
  <2>1. IsFiniteSet(Actors)
    BY ClientsAssumption, FS_AddElement DEF Actors
  <2>2. hot \in SUBSET Ids /\ Putting \in SUBSET Actors
    BY DEF LInv, TInv, TypeOK, Putting
  <2>3. IsFiniteSet(hot) /\ IsFiniteSet(Putting)
    BY <2>1, <2>2, IdsAssumption, FS_Subset
  <2>4. Cardinality(hot) \in Nat /\ Cardinality(Putting) \in Nat /\ Cardinality(Actors) \in Nat
    BY <2>1, <2>3, FS_CardinalityType
  <2>5. Cardinality(hot) + Cardinality(Putting) < HotMax + Cardinality(Actors)
    BY DEF LInv, Promised
  <2> QED
    BY <2>4, <2>5, LimitsAssumption
<1> QED
  BY <1>1, EngineInvariant, PTL

\* search can find every acknowledged record, across crashes, shutdowns and
\* whatever index file they leave.
THEOREM EngineIndexCovers == Spec => []IndexCovers
<1>1. LInv => IndexCovers
  BY DEF LInv
<1> QED
  BY <1>1, EngineInvariant, PTL

-----------------------------------------------------------------------------
(* Recorded batches stay where calls do not overlap, and nothing is lost silently *)

\* Where calls of write_batch did not overlap, a call that has peeked its batch
\* number is the only one: the number is still the next one, and the file it has
\* written is there.
NextBatch(p) ==
    /\ \A a \in Actors : pc[a] \in {"file", "update"} /\ part[a] = p =>
          /\ num[a] = known[p] + 1
          /\ pc[a] = "update" => batches[p][num[a]] = held[a]
          /\ \A b \in Actors : pc[b] \in {"file", "update"} /\ part[b] = p => b = a
          /\ \A w \in orphans : ~(w.stage = "file" /\ w.part = p)
    /\ \A w \in orphans : w.stage = "file" /\ w.part = p => w.num = known[p] + 1

Alone == \A p \in Part \ contested : NextBatch(p)

\* x is in a tier, held by an actor that has drained it, or counted as lost.
Drained(x) == \E a \in Actors : pc[a] \in {"peek", "file", "update"} /\ x \in held[a]
Lost(x) == x \in failed \/ x \in dropped \/ x \in abandoned \/ x \in replaced
Accounted(x) == x \in hot \/ x \in Counted \/ Drained(x) \/ Lost(x)

\* What is acknowledged or about to be is accounted for.
Promises(x) == x \in acked \/ \E c \in Clients : pc[c] = "index" /\ rec[c] = x
Kept == up => \A x \in Ids : Promises(x) => Accounted(x)

CInv ==
    /\ LInv
    /\ Alone
    /\ Kept

\* A step that leaves the batch files, the batch counts and the calls of
\* write_batch that have peeked a number alone.
QuietDisk ==
    /\ UNCHANGED <<batches, known, orphans, contested>>
    /\ \A a \in Actors : pc'[a] \in {"file", "update"} =>
          pc'[a] = pc[a] /\ num'[a] = num[a] /\ part'[a] = part[a] /\ held'[a] = held[a]

\* A step that leaves alone what is accounted for and what has to be.
QuietTiers ==
    /\ UNCHANGED <<hot, batches, known, failed, dropped, abandoned, replaced, up, acked>>
    /\ \A a \in Actors : pc[a] \in {"peek", "file", "update"} =>
          pc'[a] \in {"peek", "file", "update"} /\ held'[a] = held[a]
    /\ \A c \in Clients : pc'[c] = "index" => pc[c] = "index" /\ rec'[c] = rec[c]

\* Which steps touch batches and batch numbers.
LEMMA DiskFrame ==
    ASSUME TInv, [Next]_vars
    PROVE  \/ QuietDisk
           \/ Crash \/ ShutdownFlush \/ Open
           \/ \E a \in Actors : \/ PeekBatchNum(a) \/ WriteBatchFile(a) \/ UpdateMeta(a)
                                \/ WriteBatchError(a)
           \/ \E c \in Clients : DropHandler(c)
           \/ \E w \in orphans : OrphanWrite(w)
<1>0. Lifecycle \notin Clients /\ Clients \subseteq Actors /\ Lifecycle \in Actors
  BY LifecycleAssumption DEF Actors
<1> USE DEF TInv, Jump, disk, memory, locals, history, cold, overlap
<1>1. ASSUME NEW c \in Clients, NEW id \in Ids, Insert(c, id) PROVE QuietDisk
  BY <1>0, <1>1 DEF QuietDisk, TypeOK, Insert
<1>2. ASSUME NEW c \in Clients, NEW id \in Ids, InsertError(c, id) PROVE QuietDisk
  BY <1>0, <1>2 DEF QuietDisk, TypeOK, InsertError
<1>3. ASSUME NEW c \in Clients, Evict(c) PROVE QuietDisk
  BY <1>0, <1>3 DEF QuietDisk, TypeOK, Evict, Choose
<1>4. ASSUME NEW c \in Clients, IndexAndAck(c) PROVE QuietDisk
  BY <1>0, <1>4 DEF QuietDisk, TypeOK, IndexAndAck
<1>5. ASSUME NEW c \in Clients, IndexError(c) PROVE QuietDisk
  BY <1>0, <1>5 DEF QuietDisk, TypeOK, IndexError
<1>6. ASSUME NEW a \in Actors, CheckCapacity(a) PROVE QuietDisk
  BY <1>0, <1>6 DEF QuietDisk, TypeOK, CheckCapacity
<1>7. ASSUME NEW a \in Actors, Put(a) PROVE QuietDisk
  BY <1>0, <1>7 DEF QuietDisk, TypeOK, Put
<1>8. ASSUME NEW a \in Actors, StoreFull(a) PROVE QuietDisk
  BY <1>0, <1>8 DEF QuietDisk, TypeOK, StoreFull
<1>9. ASSUME NEW a \in Actors, Drain(a) PROVE QuietDisk
  BY <1>0, <1>9 DEF QuietDisk, TypeOK, Drain, AfterWrite
<1>10. ASSUME NEW a \in Actors, WriteMetaFile(a) PROVE QuietDisk
  BY <1>0, <1>10 DEF QuietDisk, TypeOK, WriteMetaFile
<1>11. ASSUME NEW a \in Actors, WriteManifest(a) PROVE QuietDisk
  BY <1>0, <1>11 DEF QuietDisk, TypeOK, WriteManifest, AfterWrite
<1>12. ASSUME Demote PROVE QuietDisk
  BY <1>0, <1>12 DEF QuietDisk, TypeOK, Demote, Choose, Cycle
<1>13. ASSUME Promote PROVE QuietDisk
  BY <1>0, <1>13 DEF QuietDisk, TypeOK, Promote, Cycle
<1>14. ASSUME NEW p \in Part, PromoteRead(p) PROVE QuietDisk
  BY <1>0, <1>14 DEF QuietDisk, TypeOK, PromoteRead
<1>15. ASSUME NEW id \in Ids, PromoteNext(id) PROVE QuietDisk
  BY <1>0, <1>15 DEF QuietDisk, TypeOK, PromoteNext
<1>16. ASSUME PromoteDone PROVE QuietDisk
  BY <1>0, <1>16 DEF QuietDisk, TypeOK, PromoteDone
<1>17. ASSUME PromoteError PROVE QuietDisk
  BY <1>0, <1>17 DEF QuietDisk, TypeOK, PromoteError
<1>18. ASSUME ShutdownCreateIndex PROVE QuietDisk
  BY <1>0, <1>18 DEF QuietDisk, TypeOK, ShutdownCreateIndex
<1>19. ASSUME ShutdownSaveIndex PROVE QuietDisk
  BY <1>0, <1>19 DEF QuietDisk, TypeOK, ShutdownSaveIndex
<1>20. ASSUME OpenError PROVE QuietDisk
  BY <1>0, <1>20 DEF QuietDisk, TypeOK, OpenError, vars
<1>21. CASE UNCHANGED vars
  BY <1>21 DEF QuietDisk, vars
<1> QED
  BY <1>1, <1>2, <1>3, <1>4, <1>5, <1>6, <1>7, <1>8, <1>9, <1>10, <1>11, <1>12, <1>13, <1>14, <1>15, <1>16, <1>17, <1>18, <1>19, <1>20, <1>21 DEF Next, Step

\* Which steps move records.
LEMMA TiersFrame ==
    ASSUME TInv, [Next]_vars
    PROVE  \/ QuietTiers
           \/ Crash \/ ShutdownFlush \/ Open
           \/ \E c \in Clients : IndexAndAck(c)
           \/ \E a \in Actors : \/ Put(a) \/ Drain(a) \/ WriteBatchFile(a) \/ UpdateMeta(a)
                                \/ WriteBatchError(a)
           \/ \E c \in Clients : DropHandler(c)
           \/ \E w \in orphans : OrphanWrite(w)
<1>0. Lifecycle \notin Clients /\ Clients \subseteq Actors /\ Lifecycle \in Actors
  BY LifecycleAssumption DEF Actors
<1> USE DEF TInv, Jump, disk, memory, locals, history, cold, overlap
<1>1. ASSUME NEW c \in Clients, NEW id \in Ids, Insert(c, id) PROVE QuietTiers
  BY <1>0, <1>1 DEF QuietTiers, TypeOK, Insert
<1>2. ASSUME NEW c \in Clients, NEW id \in Ids, InsertError(c, id) PROVE QuietTiers
  BY <1>0, <1>2 DEF QuietTiers, TypeOK, InsertError
<1>3. ASSUME NEW c \in Clients, Evict(c) PROVE QuietTiers
  BY <1>0, <1>3 DEF QuietTiers, TypeOK, Evict, Choose
<1>4. ASSUME NEW c \in Clients, IndexError(c) PROVE QuietTiers
  BY <1>0, <1>4 DEF QuietTiers, TypeOK, IndexError
<1>5. ASSUME NEW a \in Actors, CheckCapacity(a) PROVE QuietTiers
  BY <1>0, <1>5 DEF QuietTiers, TypeOK, CheckCapacity
<1>6. ASSUME NEW a \in Actors, StoreFull(a) PROVE QuietTiers
  BY <1>0, <1>6 DEF QuietTiers, TypeOK, StoreFull
<1>7. ASSUME NEW a \in Actors, PeekBatchNum(a) PROVE QuietTiers
  BY <1>0, <1>7 DEF QuietTiers, TypeOK, PeekBatchNum
<1>8. ASSUME NEW a \in Actors, WriteMetaFile(a) PROVE QuietTiers
  BY <1>0, <1>8 DEF QuietTiers, TypeOK, WriteMetaFile
<1>9. ASSUME NEW a \in Actors, WriteManifest(a) PROVE QuietTiers
  BY <1>0, <1>9 DEF QuietTiers, TypeOK, WriteManifest, AfterWrite
<1>10. ASSUME Demote PROVE QuietTiers
  BY <1>0, <1>10 DEF QuietTiers, TypeOK, Demote, Choose, Cycle
<1>11. ASSUME Promote PROVE QuietTiers
  BY <1>0, <1>11 DEF QuietTiers, TypeOK, Promote, Cycle
<1>12. ASSUME NEW p \in Part, PromoteRead(p) PROVE QuietTiers
  BY <1>0, <1>12 DEF QuietTiers, TypeOK, PromoteRead
<1>13. ASSUME NEW id \in Ids, PromoteNext(id) PROVE QuietTiers
  BY <1>0, <1>13 DEF QuietTiers, TypeOK, PromoteNext
<1>14. ASSUME PromoteDone PROVE QuietTiers
  BY <1>0, <1>14 DEF QuietTiers, TypeOK, PromoteDone
<1>15. ASSUME PromoteError PROVE QuietTiers
  BY <1>0, <1>15 DEF QuietTiers, TypeOK, PromoteError
<1>16. ASSUME ShutdownCreateIndex PROVE QuietTiers
  BY <1>0, <1>16 DEF QuietTiers, TypeOK, ShutdownCreateIndex
<1>17. ASSUME ShutdownSaveIndex PROVE QuietTiers
  BY <1>0, <1>17 DEF QuietTiers, TypeOK, ShutdownSaveIndex
<1>18. ASSUME OpenError PROVE QuietTiers
  BY <1>0, <1>18 DEF QuietTiers, TypeOK, OpenError, vars
<1>19. CASE UNCHANGED vars
  BY <1>19 DEF QuietTiers, vars
<1> QED
  BY <1>1, <1>2, <1>3, <1>4, <1>5, <1>6, <1>7, <1>8, <1>9, <1>10, <1>11, <1>12, <1>13, <1>14, <1>15, <1>16, <1>17, <1>18, <1>19 DEF Next, Step

\* The files a step writes in a partition without overlapping calls are not
\* counted yet.
LEMMA CutIsNext ==
    ASSUME TInv, Alone, NEW W \in SUBSET Writing, NEW p \in Part \ contested,
           NEW n \in 1..known[p]
    PROVE  ~Cut(W, p, n)
<1> SUFFICES ASSUME NEW w \in W, w.stage = "file", w.part = p, w.num = n PROVE FALSE
  BY DEF Cut
<1>0. known[p] \in Nat /\ NextBatch(p) /\ w \in Writing
  BY DEF Alone, TInv, TypeOK
<1>1. n = known[p] + 1
  <2>1. CASE w \in orphans
    BY <1>0, <2>1 DEF NextBatch
  <2>2. CASE w \notin orphans
    <3>1. PICK a \in Actors : w = WriteOf(a)
      BY <1>0, <2>2 DEF Writing
    <3>2. pc[a] = "file" /\ part[a] = p /\ num[a] = n
      BY <3>1 DEF WriteOf
    <3> QED
      BY <1>0, <3>2 DEF NextBatch
  <2> QED
    BY <2>1, <2>2
<1> QED
  BY <1>0, <1>1

\* Which files a step may write.
LEMMA DiskSteps ==
    ASSUME TInv, [Next]_vars
    PROVE  batches' = batches \/ \E W \in SUBSET Writing : Touches(W)
<1>1. CASE \/ QuietDisk \/ Open \/ \E a \in Actors : PeekBatchNum(a) \/ UpdateMeta(a)
           \/ \E c \in Clients : DropHandler(c)
  BY <1>1 DEF QuietDisk, Open, PeekBatchNum, UpdateMeta, DropHandler, disk
<1>2. ASSUME NEW a \in Actors, WriteBatchFile(a) PROVE \E W \in SUBSET Writing : Touches(W)
  <2>1. {WriteOf(a)} \in SUBSET Writing
    BY <1>2 DEF Writing, WriteBatchFile
  <2>2. Touches({WriteOf(a)})
    BY <1>2, FileWritten DEF Written
  <2> QED
    BY <2>1, <2>2
<1>3. ASSUME NEW a \in Actors, WriteBatchError(a)
      PROVE  \E W \in SUBSET Writing : Touches(W)
  <2>1. CASE CutOff({})
    <3>1. Touches({})
      BY <2>1, CutOffFacts
    <3> QED
      BY <3>1
  <2>2. CASE CutOff({WriteOf(a)}) /\ pc[a] # "peek"
    <3>1. Touches({WriteOf(a)})
      BY <2>2, CutOffFacts
    <3>2. {WriteOf(a)} \in SUBSET Writing
      BY <1>3, <2>2 DEF Writing, WriteBatchError
    <3> QED
      BY <3>1, <3>2
  <2>3. CASE CutOff({WriteOf(a)}) /\ pc[a] = "peek"
    <3>1. Touches({WriteOf(a)})
      BY <2>3, CutOffFacts
    <3>2. \A p, n : ~Cut({WriteOf(a)}, p, n) /\ ~Cut({}, p, n)
      BY <2>3 DEF Cut, WriteOf
    <3>3. Touches({})
      BY <3>1, <3>2 DEF Touches
    <3> QED
      BY <3>3
  <2> QED
    BY <1>3, <2>1, <2>2, <2>3 DEF WriteBatchError
<1>4. ASSUME NEW w \in orphans, OrphanWrite(w) PROVE \E W \in SUBSET Writing : Touches(W)
  <2>1. {w} \in SUBSET Writing
    BY DEF Writing
  <2>2. Touches({w})
    BY <1>4, OrphanWritten DEF OrphanDisk
  <2> QED
    BY <2>1, <2>2
<1>5. CASE Crash \/ ShutdownFlush
  <2>1. PICK W \in SUBSET Writing : Halt(W)
    BY <1>5 DEF Crash, ShutdownFlush
  <2>2. Touches(W)
    BY <2>1, CutOffFacts DEF Halt
  <2> QED
    BY <2>2
<1> QED
  BY <1>1, <1>2, <1>3, <1>4, <1>5, DiskFrame

\* No step changes a counted batch of a partition without overlapping calls.
LEMMA RecordedStays ==
    ASSUME TInv, Alone, [Next]_vars, NEW p \in Part \ contested, NEW n \in 1..known[p]
    PROVE  n <= Len(batches'[p]) /\ batches'[p][n] = batches[p][n]
<1>0. /\ known[p] \in Nat /\ Len(batches[p]) \in Nat /\ known[p] <= Len(batches[p])
      /\ n \in 1..Len(batches[p])
  <2>1. known[p] \in Nat /\ Len(batches[p]) \in Nat /\ known[p] <= Len(batches[p])
    BY DEF TInv, TypeOK, FilesCounted
  <2> QED
    BY <2>1
<1>1. CASE batches' = batches
  BY <1>0, <1>1
<1>2. ASSUME NEW W \in SUBSET Writing, Touches(W)
      PROVE  n <= Len(batches'[p]) /\ batches'[p][n] = batches[p][n]
  <2>1. ~Cut(W, p, n)
    BY CutIsNext
  <2>2. /\ Len(batches'[p]) \in Nat /\ Len(batches'[p]) >= Len(batches[p])
        /\ batches'[p][n] = batches[p][n]
    BY <1>0, <1>2, <2>1 DEF Touches
  <2> QED
    BY <1>0, <2>2
<1> QED
  BY <1>1, <1>2, DiskSteps

\* A step on other files, after which no other call is about to write to p.
StaysNext(p, W) ==
    /\ Touches(W)
    /\ known'[p] = known[p]
    /\ \A w \in orphans' : w.stage = "file" /\ w.part = p => w \in orphans
    /\ \A b \in Actors : pc'[b] \in {"file", "update"} /\ part'[b] = p =>
          /\ pc'[b] = pc[b] /\ num'[b] = num[b] /\ part[b] = p /\ held'[b] = held[b]
          /\ pc[b] = "update" => ~Cut(W, p, num[b])

\* Such a step leaves the batch number next in line.
LEMMA NextStays ==
    ASSUME TInv, NEW p \in Part, NextBatch(p), NEW W, StaysNext(p, W)
    PROVE  NextBatch(p)'
<1>1. ASSUME NEW a \in Actors, pc'[a] \in {"file", "update"}, part'[a] = p
      PROVE  /\ num'[a] = known'[p] + 1
             /\ pc'[a] = "update" => batches'[p][num'[a]] = held'[a]
             /\ \A b \in Actors : pc'[b] \in {"file", "update"} /\ part'[b] = p => b = a
             /\ \A w \in orphans' : ~(w.stage = "file" /\ w.part = p)
  <2>1. /\ pc'[a] = pc[a] /\ num'[a] = num[a] /\ part[a] = p /\ held'[a] = held[a]
        /\ pc[a] = "update" => ~Cut(W, p, num[a])
    BY <1>1 DEF StaysNext
  <2>2. num'[a] = known'[p] + 1
    BY <1>1, <2>1 DEF NextBatch, StaysNext
  <2>3. ASSUME pc[a] = "update" PROVE batches'[p][num[a]] = held[a]
    <3>1. num[a] >= 1 /\ num[a] <= Len(batches[p])
      BY <2>1, <2>3 DEF TInv, FilesCounted
    <3>2. num[a] \in Nat /\ Len(batches[p]) \in Nat
      BY DEF TInv, TypeOK
    <3>3. num[a] \in 1..Len(batches[p])
      BY <3>1, <3>2
    <3>4. batches'[p][num[a]] = batches[p][num[a]]
      BY <2>1, <2>3, <3>3 DEF StaysNext, Touches
    <3> QED
      BY <2>1, <2>3, <3>4 DEF NextBatch
  <2>4. \A b \in Actors : pc'[b] \in {"file", "update"} /\ part'[b] = p => b = a
    BY <1>1, <2>1 DEF NextBatch, StaysNext
  <2>5. \A w \in orphans' : ~(w.stage = "file" /\ w.part = p)
    BY <1>1, <2>1 DEF NextBatch, StaysNext
  <2> QED
    BY <2>1, <2>2, <2>3, <2>4, <2>5
<1>2. \A w \in orphans' : w.stage = "file" /\ w.part = p => w.num = known'[p] + 1
  BY DEF NextBatch, StaysNext
<1> QED
  BY <1>1, <1>2 DEF NextBatch

\* Every step keeps the batch numbers peeked next in line where calls of
\* write_batch do not overlap.
LEMMA AloneStep ==
    ASSUME TInv, Alone, [Next]_vars
    PROVE  Alone'
<1> SUFFICES ASSUME NEW p \in Part, p \notin contested' PROVE NextBatch(p)'
  BY DEF Alone
<1>0. /\ known[p] \in Nat /\ Clients \subseteq Actors
      /\ pc \in [Actors -> ClientPc \cup LifecyclePc] /\ num \in [Actors -> Nat] /\ part \in [Actors -> Part]
      /\ held \in [Actors -> SUBSET Ids] /\ known \in [Part -> Nat]
  BY DEF TInv, TypeOK, Actors, ClientPc, LifecyclePc
<1>q. batches' = batches => Touches({})
  BY DEF TInv, TypeOK, Touches
<1>c. \A n : ~Cut({}, p, n)
  BY DEF Cut
<1>1. CASE QuietDisk
  <2>1. NextBatch(p)
    BY <1>1 DEF QuietDisk, Alone
  <2>2. StaysNext(p, {})
    BY <1>1, <1>q, <1>c DEF QuietDisk, StaysNext
  <2> QED
    BY <2>1, <2>2, NextStays
<1>2. ASSUME NEW a \in Actors, PeekBatchNum(a) PROVE NextBatch(p)'
  <2>1. /\ UNCHANGED <<batches, known, part, held, orphans>>
        /\ pc' = [pc EXCEPT ![a] = "file"]
        /\ num' = [num EXCEPT ![a] = known[part[a]] + 1]
        /\ contested' = IF Numbered(part[a]) THEN contested \cup {part[a]} ELSE contested
    BY <1>2 DEF PeekBatchNum, Jump, disk, memory
  <2>2. p \notin contested /\ (part[a] = p => ~Numbered(p))
    BY <2>1
  <2>3. NextBatch(p)
    BY <2>2 DEF Alone
  <2>4. CASE part[a] = p
    <3>1. ~Numbered(p)
      BY <2>2, <2>4
    <3>2. /\ pc'[a] = "file" /\ num'[a] = known[p] + 1
          /\ \A b \in Actors : b # a => pc'[b] = pc[b] /\ num'[b] = num[b]
      BY <1>0, <2>1, <2>4
    <3>3. \A b \in Actors : pc'[b] \in {"file", "update"} /\ part'[b] = p => b = a
      BY <2>1, <3>1, <3>2 DEF Numbered
    <3>4. \A w \in orphans' : ~(w.stage = "file" /\ w.part = p)
      BY <2>1, <3>1 DEF Numbered
    <3> QED
      BY <2>1, <3>2, <3>3, <3>4 DEF NextBatch
  <2>5. CASE part[a] # p
    <3>1. StaysNext(p, {})
      BY <1>0, <1>q, <1>c, <2>1, <2>5 DEF StaysNext
    <3> QED
      BY <2>3, <3>1, NextStays
  <2> QED
    BY <2>4, <2>5
<1>3. ASSUME NEW a \in Actors, WriteBatchFile(a) PROVE NextBatch(p)'
  <2>1. /\ UNCHANGED <<known, part, held, num, orphans, contested>>
        /\ pc[a] = "file" /\ pc' = [pc EXCEPT ![a] = "update"]
    BY <1>3 DEF WriteBatchFile, Jump, memory
  <2>2. Written(a)
    BY <1>3, FileWritten
  <2>3. NextBatch(p)
    BY <2>1 DEF Alone
  <2>4. CASE part[a] = p
    <3>1. /\ pc'[a] = "update" /\ batches'[p][num[a]] = held[a]
          /\ \A b \in Actors : b # a => pc'[b] = pc[b]
      BY <1>0, <2>1, <2>2, <2>4 DEF Written
    <3>2. /\ num[a] = known[p] + 1
          /\ \A b \in Actors : pc[b] \in {"file", "update"} /\ part[b] = p => b = a
          /\ \A w \in orphans : ~(w.stage = "file" /\ w.part = p)
      BY <2>1, <2>3, <2>4 DEF NextBatch
    <3>3. \A b \in Actors : pc'[b] \in {"file", "update"} /\ part'[b] = p => b = a
      BY <2>1, <3>1, <3>2
    <3> QED
      BY <2>1, <3>1, <3>2, <3>3 DEF NextBatch
  <2>5. CASE part[a] # p
    <3>1. \A n : ~Cut({WriteOf(a)}, p, n)
      BY <2>5 DEF Cut, WriteOf
    <3>2. StaysNext(p, {WriteOf(a)})
      BY <1>0, <2>1, <2>2, <2>5, <3>1 DEF StaysNext, Written
    <3> QED
      BY <2>3, <3>2, NextStays
  <2> QED
    BY <2>4, <2>5
<1>4. ASSUME NEW a \in Actors, UpdateMeta(a) PROVE NextBatch(p)'
  <2>1. /\ UNCHANGED <<batches, part, num, orphans, contested>>
        /\ pc[a] = "update" /\ pc' = [pc EXCEPT ![a] = "meta"]
        /\ known' = [known EXCEPT ![part[a]] = num[a]]
        /\ held' = [held EXCEPT ![a] = {}]
    BY <1>4 DEF UpdateMeta, Jump, disk
  <2>2. NextBatch(p)
    BY <2>1 DEF Alone
  <2>3. CASE part[a] = p
    <3>1. /\ pc'[a] = "meta" /\ \A b \in Actors : b # a => pc'[b] = pc[b]
      BY <1>0, <2>1
    <3>2. /\ \A b \in Actors : pc[b] \in {"file", "update"} /\ part[b] = p => b = a
          /\ \A w \in orphans : ~(w.stage = "file" /\ w.part = p)
      BY <2>1, <2>2, <2>3 DEF NextBatch
    <3> QED
      BY <2>1, <3>1, <3>2 DEF NextBatch
  <2>4. CASE part[a] # p
    <3>1. StaysNext(p, {})
      BY <1>0, <1>q, <1>c, <2>1, <2>4 DEF StaysNext
    <3> QED
      BY <2>2, <3>1, NextStays
  <2> QED
    BY <2>3, <2>4
<1>5. ASSUME NEW a \in Actors, WriteBatchError(a) PROVE NextBatch(p)'
  <2>1. /\ UNCHANGED <<known, orphans, contested>>
        /\ pc[a] \in {"peek", "file", "meta", "manifest"}
        /\ pc' = [pc EXCEPT ![a] = "idle"]
        /\ num' = [num EXCEPT ![a] = 0]
        /\ part' = [part EXCEPT ![a] = 0]
        /\ held' = [held EXCEPT ![a] = {}]
    BY <1>5 DEF WriteBatchError, LeaveWriteBatch, Jump, memory
  <2>2. NextBatch(p)
    BY <2>1 DEF Alone
  <2>3. PICK W \in {{}, {WriteOf(a)}} : CutOff(W)
    BY <1>5 DEF WriteBatchError
  <2>4. Touches(W)
    BY <2>3, CutOffFacts
  <2>5. ASSUME NEW b \in Actors, b # a, pc[b] = "update", part[b] = p
        PROVE  ~Cut(W, p, num[b])
    <3> SUFFICES ASSUME Cut(W, p, num[b]) PROVE FALSE
      OBVIOUS
    <3>1. pc[a] = "file" /\ part[a] = p
      BY <2>3 DEF Cut, WriteOf
    <3> QED
      BY <2>2, <2>5, <3>1 DEF NextBatch
  <2>6. \A b \in Actors : /\ b = a => pc'[b] = "idle"
                          /\ b # a => /\ pc'[b] = pc[b] /\ num'[b] = num[b]
                                      /\ part'[b] = part[b] /\ held'[b] = held[b]
    BY <1>0, <2>1
  <2>7. StaysNext(p, W)
    BY <2>1, <2>4, <2>5, <2>6 DEF StaysNext
  <2> QED
    BY <2>2, <2>7, NextStays
<1>6. ASSUME NEW c \in Clients, DropHandler(c) PROVE NextBatch(p)'
  <2>1. /\ UNCHANGED <<batches, known, contested>>
        /\ pc' = [pc EXCEPT ![c] = "idle"]
        /\ num' = [num EXCEPT ![c] = 0]
        /\ part' = [part EXCEPT ![c] = 0]
        /\ held' = [held EXCEPT ![c] = {}]
        /\ \A w \in orphans' : w \in orphans \/ w = WriteOf(c)
    BY <1>6 DEF DropHandler, LeaveWriteBatch, Jump, memory, disk, overlap
  <2>2. NextBatch(p)
    BY <2>1 DEF Alone
  <2>3. \A b \in Actors : /\ b = c => pc'[b] = "idle"
                          /\ b # c => /\ pc'[b] = pc[b] /\ num'[b] = num[b]
                                      /\ part'[b] = part[b] /\ held'[b] = held[b]
    BY <1>0, <2>1
  <2>4. CASE pc[c] = "file" /\ part[c] = p
    <3>1. /\ num[c] = known[p] + 1
          /\ \A b \in Actors : pc[b] \in {"file", "update"} /\ part[b] = p => b = c
      BY <1>0, <2>2, <2>4 DEF NextBatch
    <3>2. \A b \in Actors : ~(pc'[b] \in {"file", "update"} /\ part'[b] = p)
      BY <2>3, <3>1
    <3>3. WriteOf(c).num = num[c]
      BY DEF WriteOf
    <3>4. \A w \in orphans' : w.stage = "file" /\ w.part = p => w.num = known'[p] + 1
      BY <2>1, <2>2, <3>1, <3>3 DEF NextBatch
    <3> QED
      BY <3>2, <3>4 DEF NextBatch
  <2>5. CASE ~(pc[c] = "file" /\ part[c] = p)
    <3>1. ~(WriteOf(c).stage = "file" /\ WriteOf(c).part = p)
      BY <2>5 DEF WriteOf
    <3>2. StaysNext(p, {})
      BY <1>q, <1>c, <2>1, <2>3, <3>1 DEF StaysNext
    <3> QED
      BY <2>2, <3>2, NextStays
  <2> QED
    BY <2>4, <2>5
<1>7. ASSUME NEW w \in orphans, OrphanWrite(w) PROVE NextBatch(p)'
  <2>1. UNCHANGED <<known, pc, num, part, held, contested>> /\ orphans' \subseteq orphans
    BY <1>7 DEF OrphanWrite, memory, locals
  <2>2. NextBatch(p) /\ Touches({w})
    BY <1>7, <2>1, OrphanWritten DEF Alone, OrphanDisk
  <2>3. \A b \in Actors : pc[b] = "update" /\ part[b] = p => ~Cut({w}, p, num[b])
    BY <2>2 DEF NextBatch, Cut
  <2>4. StaysNext(p, {w})
    BY <2>1, <2>2, <2>3 DEF StaysNext
  <2> QED
    BY <2>2, <2>4, NextStays
<1>8. CASE Crash \/ ShutdownFlush
  <2>1. pc' = [a \in Actors |-> "idle"] /\ orphans' = {}
    BY <1>8 DEF Crash, ShutdownFlush, Halt
  <2> QED
    BY <2>1 DEF NextBatch
<1>9. CASE Open
  <2>1. orphans' = {} /\ \A b \in Actors : pc'[b] = "idle"
    BY <1>9 DEF Open, locals, cold, TInv, DownQuiet
  <2> QED
    BY <2>1 DEF NextBatch
<1> QED
  BY <1>1, <1>2, <1>3, <1>4, <1>5, <1>6, <1>7, <1>8, <1>9, DiskFrame

\* What is counted stays counted while the batch counts do not shrink, except
\* where calls overlapped.
LEMMA CountedStays ==
    ASSUME TInv, Alone, [Next]_vars, NEW x, NEW p \in Part, x \in Recorded(p),
           p \notin contested, known'[p] \in Nat, known[p] <= known'[p]
    PROVE  x \in Counted'
<1>1. PICK n \in 1..known[p] : batches[p][n] # Torn /\ x \in batches[p][n]
  BY DEF Recorded
<1>2. batches'[p][n] = batches[p][n]
  BY RecordedStays
<1>3. n \in 1..known'[p]
  <2>1. known[p] \in Nat
    BY DEF TInv, TypeOK
  <2> QED
    BY <2>1
<1>4. x \in Recorded(p)'
  BY <1>1, <1>2, <1>3 DEF Recorded
<1> QED
  BY <1>4 DEF Counted

\* The counted batches of the other partitions are what they were.
SameElsewhere(q) ==
    \A p \in Part : p # q =>
        known'[p] = known[p] /\ \A n \in 1..known[p] : batches'[p][n] = batches[p][n]

\* A step that writes to partition q of the cold tier and counts what it
\* overtakes there.
OnlyIn(q) ==
    /\ q \in Part
    /\ SameElsewhere(q)
    /\ q \notin contested => known'[q] \in Nat /\ known[q] <= known'[q]
    /\ replaced \subseteq replaced'
    /\ q \in contested => Recorded(q) \ Counted' \subseteq replaced'

\* Such a step leaves what is counted counted, or names it as replaced.
LEMMA CountedOrReplaced ==
    ASSUME TInv, Alone, [Next]_vars, NEW q, OnlyIn(q), NEW x, x \in Counted
    PROVE  x \in Counted' \/ x \in replaced'
<1>1. PICK p \in Part : x \in Recorded(p)
  BY DEF Counted
<1>2. CASE p # q
  <2>1. Recorded(p)' = Recorded(p)
    BY <1>2 DEF OnlyIn, SameElsewhere, Recorded
  <2> QED
    BY <1>1, <2>1 DEF Counted
<1>3. CASE p = q /\ q \in contested
  BY <1>1, <1>3 DEF OnlyIn
<1>4. CASE p = q /\ q \notin contested
  BY <1>1, <1>4, CountedStays DEF OnlyIn
<1> QED
  BY <1>2, <1>3, <1>4

\* A step whose file writes are in partition q.
LEMMA TouchesOnly ==
    ASSUME TInv, NEW W, NEW q, Touches(W), known' = known,
           \A w \in W : w.stage = "file" => w.part = q
    PROVE  SameElsewhere(q)
<1> SUFFICES ASSUME NEW p \in Part, p # q, NEW n \in 1..known[p]
             PROVE  batches'[p][n] = batches[p][n]
  BY DEF SameElsewhere
<1>1. known[p] \in Nat /\ Len(batches[p]) \in Nat /\ known[p] <= Len(batches[p])
  BY DEF TInv, TypeOK, FilesCounted
<1>2. n \in 1..Len(batches[p])
  BY <1>1
<1>3. ~Cut(W, p, n)
  BY DEF Cut
<1> QED
  BY <1>2, <1>3 DEF Touches

\* Every step keeps what is acknowledged, or about to be, accounted for.
LEMMA KeptStep ==
    ASSUME TInv, Logged, Alone, Kept, [Next]_vars
    PROVE  Kept'
<1> SUFFICES ASSUME up', NEW x \in Ids, Promises(x)'
             PROVE  Accounted(x)'
  BY DEF Kept
<1>0. /\ Lifecycle \notin Clients /\ Clients \subseteq Actors
      /\ \A p \in Part : known[p] \in Nat
      /\ NoId \notin Ids
  BY LifecycleAssumption, NoIdAssumption DEF Actors, TInv, TypeOK
<1>1. UNCHANGED <<batches, known>> /\ x \in Counted => x \in Counted'
  BY DEF Counted, Recorded
<1>2. up /\ Promises(x) => x \in hot \/ x \in Counted \/ Drained(x) \/ Lost(x)
  BY DEF Kept, Accounted
<1>3. CASE QuietTiers
  <2>1. up /\ Promises(x)
    BY <1>3 DEF QuietTiers, Promises
  <2>2. Drained(x) => Drained(x)'
    BY <1>3 DEF QuietTiers, Drained
  <2>3. UNCHANGED <<hot, failed, dropped, abandoned, replaced, known, batches>>
    BY <1>3 DEF QuietTiers
  <2>4. Lost(x) => Lost(x)'
    BY <2>3 DEF Lost
  <2> QED
    BY <1>1, <1>2, <2>1, <2>2, <2>3, <2>4 DEF Accounted
<1>4. ASSUME NEW c \in Clients, IndexAndAck(c) PROVE Accounted(x)'
  <2>1. /\ UNCHANGED <<hot, failed, dropped, abandoned, replaced, known, batches, up, held>>
        /\ pc[c] = "index" /\ pc' = [pc EXCEPT ![c] = "idle"]
        /\ acked' = acked \cup {rec[c]} /\ rec' = [rec EXCEPT ![c] = NoId]
    BY <1>4 DEF IndexAndAck, Jump, disk, cold, overlap
  <2>2. up /\ Promises(x)
    BY <1>0, <2>1 DEF Promises, TInv, TypeOK
  <2>3. Drained(x) => Drained(x)'
    BY <1>0, <2>1 DEF Drained, TInv, TypeOK
  <2>4. Lost(x) => Lost(x)'
    BY <2>1 DEF Lost
  <2> QED
    BY <1>1, <1>2, <2>1, <2>2, <2>3, <2>4 DEF Accounted
<1>5. ASSUME NEW a \in Actors, Put(a) PROVE Accounted(x)'
  <2>1. /\ UNCHANGED <<known, batches, up, held, acked>>
        /\ hot' = hot \cup {rec[a]} /\ failed' = failed \ {rec[a]}
        /\ dropped' = dropped \ {rec[a]} /\ abandoned' = abandoned \ {rec[a]}
        /\ replaced' = replaced \ {rec[a]}
        /\ pc[a] \in {"put", "reput", "putPromoted"}
        /\ \A b \in Actors : b # a => pc'[b] = pc[b] /\ rec'[b] = rec[b]
        /\ rec'[a] = IF pc'[a] = "index" THEN rec[a] ELSE NoId
    BY <1>5 DEF Put, Jump, TInv, TypeOK, disk
  <2>2. CASE x = rec[a]
    BY <2>1, <2>2 DEF Accounted
  <2>3. CASE x # rec[a]
    <3>1. up /\ Promises(x)
      BY <1>0, <2>1, <2>3 DEF Promises
    <3>2. Drained(x) => Drained(x)'
      BY <2>1 DEF Drained
    <3>3. Lost(x) => Lost(x)'
      BY <2>1, <2>3 DEF Lost
    <3> QED
      BY <1>1, <1>2, <2>1, <3>1, <3>2, <3>3 DEF Accounted
  <2> QED
    BY <2>2, <2>3
<1>6. ASSUME NEW a \in Actors, Drain(a) PROVE Accounted(x)'
  <2>1. /\ UNCHANGED <<known, batches, up, acked, failed, dropped, abandoned, replaced, rec>>
        /\ pc[a] = "drain"
        /\ hot' = hot \ held[a]
        /\ held' = [held EXCEPT ![a] = held[a] \cap hot]
        /\ pc' = [pc EXCEPT ![a] = IF held'[a] = {} THEN AfterWrite(a) ELSE "peek"]
    BY <1>6 DEF Drain, Jump, history, disk, cold, overlap
  <2>2. /\ held'[a] = held[a] \cap hot
        /\ \A b \in Actors : b # a => pc'[b] = pc[b] /\ held'[b] = held[b]
        /\ pc'[a] = IF held'[a] = {} THEN AfterWrite(a) ELSE "peek"
    BY <2>1 DEF TInv, TypeOK
  <2>3. pc'[a] # "index"
    BY <2>2 DEF AfterWrite
  <2>4. up /\ Promises(x)
    BY <1>0, <2>1, <2>2, <2>3 DEF Promises
  <2>5. Drained(x) => Drained(x)'
    BY <2>1, <2>2 DEF Drained
  <2>6. x \in hot => x \in hot' \/ Drained(x)'
    <3> SUFFICES ASSUME x \in hot, x \in held[a] PROVE Drained(x)'
      BY <2>1
    <3>1. x \in held'[a] /\ pc'[a] = "peek"
      BY <2>2
    <3> QED
      BY <3>1 DEF Drained
  <2>7. Lost(x) => Lost(x)'
    BY <2>1 DEF Lost
  <2> QED
    BY <1>1, <1>2, <2>1, <2>4, <2>5, <2>6, <2>7 DEF Accounted
<1>7. ASSUME NEW a \in Actors, WriteBatchFile(a) PROVE Accounted(x)'
  <2>1. /\ UNCHANGED <<hot, known, up, acked, failed, dropped, abandoned, rec, held>>
        /\ pc' = [pc EXCEPT ![a] = "update"]
        /\ Overtake(part[a], Recorded(part[a]))
    BY <1>7 DEF WriteBatchFile, Jump, history, memory
  <2>2. up /\ Promises(x)
    BY <1>0, <2>1 DEF Promises, TInv, TypeOK
  <2>3. Drained(x) => Drained(x)'
    BY <2>1 DEF Drained, TInv, TypeOK
  <2>4. OnlyIn(part[a])
    <3>1. SameElsewhere(part[a])
      <4>1. Touches({WriteOf(a)})
        BY <1>7, FileWritten DEF Written
      <4>2. \A w \in {WriteOf(a)} : w.stage = "file" => w.part = part[a]
        BY DEF WriteOf
      <4> QED
        BY <2>1, <4>1, <4>2, TouchesOnly
    <3>2. part[a] \in Part /\ known[part[a]] \in Nat
      BY DEF TInv, TypeOK
    <3> QED
      BY <2>1, <3>1, <3>2 DEF OnlyIn, Overtake
  <2>5. x \in Counted => x \in Counted' \/ x \in replaced'
    BY <2>4, CountedOrReplaced
  <2>6. Lost(x) => Lost(x)'
    BY <2>1, <2>4 DEF Lost, OnlyIn
  <2> QED
    BY <1>2, <2>1, <2>2, <2>3, <2>5, <2>6 DEF Accounted, Lost
<1>8. ASSUME NEW a \in Actors, UpdateMeta(a) PROVE Accounted(x)'
  <2>1. /\ UNCHANGED <<hot, up, acked, failed, dropped, abandoned, rec, batches, part, num, contested>>
        /\ pc[a] = "update" /\ pc' = [pc EXCEPT ![a] = "meta"]
        /\ known' = [known EXCEPT ![part[a]] = num[a]]
        /\ held' = [held EXCEPT ![a] = {}]
        /\ Overtake(part[a], Recorded(part[a]) \cup held[a])
    BY <1>8 DEF UpdateMeta, Jump, history, disk
  <2>2. /\ part[a] \in Part /\ held[a] \in SUBSET Ids /\ num[a] \in Nat /\ num[a] >= 1
        /\ known[part[a]] \in Nat
    BY <2>1 DEF FilesCounted, TInv, TypeOK
  <2>3. part[a] \notin contested =>
           num[a] = known[part[a]] + 1 /\ batches[part[a]][num[a]] = held[a]
    BY <2>1, <2>2 DEF Alone, NextBatch
  <2>k. known'[part[a]] = num[a] /\ \A p \in Part : p # part[a] => known'[p] = known[p]
    BY <2>1, <2>2 DEF TInv, TypeOK
  <2>4. OnlyIn(part[a])
    <3>1. part[a] \notin contested => known'[part[a]] \in Nat /\ known[part[a]] <= known'[part[a]]
      BY <2>2, <2>3, <2>k
    <3>2. /\ replaced \subseteq replaced'
          /\ part[a] \in contested => Recorded(part[a]) \ Counted' \subseteq replaced'
      BY <2>1 DEF Overtake
    <3> QED
      BY <2>1, <2>2, <2>k, <3>1, <3>2 DEF OnlyIn, SameElsewhere
  <2>5. x \in Counted => x \in Counted' \/ x \in replaced'
    BY <2>4, CountedOrReplaced
  <2>6. x \in held[a] => x \in Counted' \/ x \in replaced'
    <3>1. CASE part[a] \in contested
      BY <2>1, <3>1 DEF Overtake
    <3>2. CASE part[a] \notin contested /\ x \in held[a]
      <4>1. num[a] \in 1..known'[part[a]]
        BY <2>2, <2>k
      <4>2. batches'[part[a]][num[a]] = held[a] /\ held[a] # Torn
        BY <2>1, <2>2, <2>3, <3>2, TornAssumption
      <4>3. x \in Recorded(part[a])'
        <5> DEFINE q == part[a]
        <5>1. part'[a] = q /\ num[a] \in 1..known'[q] /\ batches'[q][num[a]] = held[a]
          BY <2>1, <4>1, <4>2
        <5> HIDE DEF q
        <5> QED
          BY <3>2, <4>2, <5>1 DEF Recorded
      <4>4. part'[a] \in Part
        BY <2>1, <2>2
      <4> QED
        BY <4>3, <4>4 DEF Counted
    <3> QED
      BY <3>1, <3>2
  <2>7. up /\ Promises(x)
    BY <1>0, <2>1 DEF Promises, TInv, TypeOK
  <2>8. Drained(x) => Drained(x)' \/ x \in held[a]
    BY <2>1 DEF Drained, TInv, TypeOK
  <2>9. Lost(x) => Lost(x)'
    BY <2>1, <2>4 DEF Lost, OnlyIn
  <2> QED
    BY <1>2, <2>1, <2>5, <2>6, <2>7, <2>8, <2>9 DEF Accounted, Lost
<1>9. ASSUME NEW a \in Actors, WriteBatchError(a) PROVE Accounted(x)'
  <2>1. /\ UNCHANGED <<hot, known, up, acked, dropped, abandoned>>
        /\ pc' = [pc EXCEPT ![a] = "idle"]
        /\ failed' = failed \cup held[a]
        /\ held' = [held EXCEPT ![a] = {}]
        /\ rec' = [rec EXCEPT ![a] = NoId]
        /\ Overtake(part[a], Recorded(part[a]))
    BY <1>9 DEF WriteBatchError, LeaveWriteBatch, Jump, memory
  <2>2. up /\ Promises(x)
    BY <1>0, <2>1 DEF Promises, TInv, TypeOK
  <2>3. Drained(x) => Drained(x)' \/ x \in held[a]
    BY <2>1 DEF Drained, TInv, TypeOK
  <2>4. OnlyIn(part[a])
    <3>1. SameElsewhere(part[a])
      <4>1. PICK W \in {{}, {WriteOf(a)}} : CutOff(W)
        BY <1>9 DEF WriteBatchError
      <4>2. Touches(W)
        BY <4>1, CutOffFacts
      <4>3. \A w \in W : w.stage = "file" => w.part = part[a]
        BY <4>1 DEF WriteOf
      <4> QED
        BY <2>1, <4>2, <4>3, TouchesOnly
    <3>2. part[a] \in Part /\ known[part[a]] \in Nat
      BY DEF TInv, TypeOK
    <3> QED
      BY <2>1, <3>1, <3>2 DEF OnlyIn, Overtake
  <2>5. x \in Counted => x \in Counted' \/ x \in replaced'
    BY <2>4, CountedOrReplaced
  <2>6. Lost(x) => Lost(x)'
    BY <2>1, <2>4 DEF Lost, OnlyIn
  <2> QED
    BY <1>2, <2>1, <2>2, <2>3, <2>5, <2>6 DEF Accounted, Lost
<1>10. ASSUME NEW c \in Clients, DropHandler(c) PROVE Accounted(x)'
  <2>1. /\ UNCHANGED <<hot, known, batches, up, acked, failed, dropped, replaced>>
        /\ pc' = [pc EXCEPT ![c] = "idle"]
        /\ abandoned' = abandoned \cup held[c]
        /\ held' = [held EXCEPT ![c] = {}]
        /\ rec' = [rec EXCEPT ![c] = NoId]
    BY <1>10 DEF DropHandler, LeaveWriteBatch, Jump, memory, disk, overlap
  <2>2. up /\ Promises(x)
    BY <1>0, <2>1 DEF Promises, TInv, TypeOK
  <2>3. Drained(x) => Drained(x)' \/ x \in held[c]
    BY <1>0, <2>1 DEF Drained, TInv, TypeOK
  <2>4. Lost(x) => Lost(x)'
    BY <2>1 DEF Lost
  <2> QED
    BY <1>1, <1>2, <2>1, <2>2, <2>3, <2>4 DEF Accounted, Lost
<1>11. ASSUME NEW w \in orphans, OrphanWrite(w) PROVE Accounted(x)'
  <2>1. /\ UNCHANGED <<hot, known, up, acked, failed, dropped, abandoned, pc, rec, held>>
        /\ Overtake(w.part, Recorded(w.part))
    BY <1>11 DEF OrphanWrite, memory, locals, history
  <2>2. up /\ Promises(x)
    BY <2>1 DEF Promises
  <2>3. Drained(x) => Drained(x)'
    BY <2>1 DEF Drained
  <2>4. OnlyIn(w.part)
    <3>1. SameElsewhere(w.part)
      <4>1. Touches({w})
        BY <1>11, OrphanWritten DEF OrphanDisk
      <4> QED
        BY <2>1, <4>1, TouchesOnly
    <3>2. w.part \in Part /\ known[w.part] \in Nat
      BY DEF TInv, TypeOK
    <3> QED
      BY <2>1, <3>1, <3>2 DEF OnlyIn, Overtake
  <2>5. x \in Counted => x \in Counted' \/ x \in replaced'
    BY <2>4, CountedOrReplaced
  <2>6. Lost(x) => Lost(x)'
    BY <2>1, <2>4 DEF Lost, OnlyIn
  <2> QED
    BY <1>2, <2>1, <2>2, <2>3, <2>5, <2>6 DEF Accounted, Lost
<1>12. CASE Crash \/ ShutdownFlush
  BY <1>12 DEF Crash, ShutdownFlush, Halt
<1>13. CASE Open
  <2>1. /\ UNCHANGED <<log, pc, acked>> /\ ~up
        /\ dropped' = Elems(log) \ Safe'
    BY <1>13 DEF Open, disk, locals
  <2>2. \A c \in Clients : pc'[c] = "idle"
    BY <1>0, <2>1 DEF TInv, DownQuiet
  <2>3. x \in Elems(log)
    BY <2>1, <2>2 DEF Promises, Logged
  <2>4. x \in Safe' => x \in hot' \/ x \in Counted'
    BY DEF Safe
  <2> QED
    BY <2>1, <2>3, <2>4 DEF Accounted, Lost
<1> QED
  BY <1>3, <1>4, <1>5, <1>6, <1>7, <1>8, <1>9, <1>10, <1>11, <1>12, <1>13, TiersFrame

\* A new engine satisfies the invariant.
LEMMA CInvInit == Init => CInv
<1> SUFFICES ASSUME Init PROVE CInv
  OBVIOUS
<1>1. LInv
  BY LInvInit
<1>2. orphans = {} /\ \A a \in Actors : pc[a] = "idle"
  BY DEF Init
<1>3. Alone
  BY <1>2 DEF Alone, NextBatch
<1>4. Kept
  BY <1>2 DEF Init, Kept, Promises, Actors
<1> QED
  BY <1>1, <1>3, <1>4 DEF CInv

\* Every step keeps the invariant.
LEMMA CInvStep ==
    ASSUME CInv, [Next]_vars
    PROVE  CInv'
<1>1. LInv'
  BY LInvStep DEF CInv
<1>2. TInv /\ Logged
  BY DEF CInv, LInv
<1> QED
  BY <1>1, <1>2, AloneStep, KeptStep DEF CInv

\* The inductive invariant of the two tiers, for any number of clients.
THEOREM EngineTiersInvariant == Spec => []CInv
<1>1. CInv /\ [Next]_vars => CInv'
  BY CInvStep
<1> QED
  BY <1>1, CInvInit, PTL DEF Spec

\* For any number of clients, an acknowledged record is in the hot store, in a
\* counted batch or on its way between them, unless write_batch failed or was
\* dropped with it, overlapping calls replaced its batch, or open had no place
\* for it.
THEOREM EngineNoSilentLoss == Spec => []NoSilentLoss
<1>1. CInv => NoSilentLoss
  <2> SUFFICES ASSUME CInv, up, NEW x \in acked
               PROVE  x \in Safe \cup (UNION {held[a] : a \in Actors})
                               \cup failed \cup abandoned \cup replaced \cup dropped
    BY DEF NoSilentLoss
  <2>1. x \in Ids
    BY DEF CInv, LInv, TInv, TypeOK
  <2>2. x \in hot \/ x \in Counted \/ Drained(x) \/ Lost(x)
    BY <2>1 DEF CInv, Kept, Promises, Accounted
  <2>3. x \in hot \/ x \in Counted => x \in Safe
    BY DEF Safe
  <2>4. Drained(x) => x \in UNION {held[a] : a \in Actors}
    BY DEF Drained
  <2>5. Lost(x) => x \in failed \cup abandoned \cup replaced \cup dropped
    BY DEF Lost
  <2> QED
    BY <2>2, <2>3, <2>4, <2>5
<1> QED
  BY <1>1, EngineTiersInvariant, PTL

\* For any number of clients, no step writes a counted batch file again in a
\* partition where calls of write_batch have not overlapped: the number peeked
\* outside the lock is then still the next one when the file is written.
THEOREM EngineBatchesImmutable == Spec => BatchesImmutable
<1>1. CInv /\ [Next]_vars =>
        [\A p \in Part \ contested : \A n \in 1..known[p] :
            up => n <= Len(batches'[p]) /\ batches'[p][n] = batches[p][n]]_vars
  <2> SUFFICES ASSUME CInv, [Next]_vars, NEW p \in Part \ contested, NEW n \in 1..known[p]
               PROVE  n <= Len(batches'[p]) /\ batches'[p][n] = batches[p][n]
    OBVIOUS
  <2> QED
    BY RecordedStays DEF CInv, LInv
<1> QED
  BY <1>1, EngineTiersInvariant, PTL DEF Spec, BatchesImmutable

=============================================================================
