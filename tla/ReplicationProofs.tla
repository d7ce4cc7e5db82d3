-------------------------- MODULE ReplicationProofs --------------------------
(***************************************************************************)
(* Proofs about Replication, for every number of writers and followers,    *)
(* queue length and bound.                                                 *)
(***************************************************************************)
EXTENDS Replication, InductionFacts, FiniteSetTheorems

-----------------------------------------------------------------------------
(* What After computes *)

\* F is the function After defines on 0..n.
AfterFcn(F, s, t, n) ==
    F = [i \in 0..n |-> IF i = 0 THEN <<>>
                        ELSE IF s[i] > t THEN Append(F[i - 1], s[i])
                        ELSE F[i - 1]]

\* The recursive definition of After has a solution, on every prefix of s.
LEMMA AfterDefined ==
    ASSUME NEW s, Len(s) \in Nat, NEW t \in Int
    PROVE  /\ \E F : AfterFcn(F, s, t, Len(s))
           /\ \E F : AfterFcn(F, s, t, Len(s)) /\ After(s, t) = F[Len(s)]
<1> DEFINE S == {n \in Nat : \E F : AfterFcn(F, s, t, n)}
<1>1. 0 \in S
  <2> DEFINE G == [i \in 0..0 |-> <<>>]
  <2>1. AfterFcn(G, s, t, 0)
    BY DEF AfterFcn
  <2> QED
    BY <2>1
<1>2. \A n \in 0..(Len(s) - 1) : n \in S => n + 1 \in S
  <2> SUFFICES ASSUME NEW n \in 0..(Len(s) - 1), NEW F, AfterFcn(F, s, t, n)
               PROVE  \E G : AfterFcn(G, s, t, n + 1)
    OBVIOUS
  <2> DEFINE last == IF s[n + 1] > t THEN Append(F[n], s[n + 1]) ELSE F[n]
             G == [i \in 0..(n + 1) |-> IF i = n + 1 THEN last ELSE F[i]]
  <2>1. \A i \in 0..n : G[i] = F[i]
    OBVIOUS
  <2>2. G[n + 1] = IF s[n + 1] > t THEN Append(G[n], s[n + 1]) ELSE G[n]
    BY <2>1
  <2>3. \A i \in 0..n : F[i] = IF i = 0 THEN <<>>
                               ELSE IF s[i] > t THEN Append(F[i - 1], s[i])
                               ELSE F[i - 1]
    BY DEF AfterFcn
  <2>4. \A i \in 1..n : i - 1 \in 0..n
    OBVIOUS
  <2>5. \A i \in 0..(n + 1) : G[i] = IF i = 0 THEN <<>>
                               ELSE IF s[i] > t THEN Append(G[i - 1], s[i])
                               ELSE G[i - 1]
    <3> SUFFICES ASSUME NEW i \in 0..(n + 1)
                 PROVE  G[i] = IF i = 0 THEN <<>>
                               ELSE IF s[i] > t THEN Append(G[i - 1], s[i])
                               ELSE G[i - 1]
      OBVIOUS
    <3> HIDE DEF G
    <3>1. CASE i = n + 1
      BY <3>1, <2>2
    <3>2. CASE i = 0
      BY <3>2, <2>1, <2>3
    <3>3. CASE i \in 1..n
      <4>1. i - 1 \in 0..n /\ i \in 0..n /\ i # 0
        BY <3>3, <2>4
      <4>2. G[i] = F[i] /\ G[i - 1] = F[i - 1]
        BY <2>1, <4>1
      <4>3. F[i] = IF s[i] > t THEN Append(F[i - 1], s[i]) ELSE F[i - 1]
        BY <2>3, <4>1
      <4> QED
        BY <4>1, <4>2, <4>3
    <3> QED
      BY <3>1, <3>2, <3>3
  <2>6. AfterFcn(G, s, t, n + 1)
    BY <2>5 DEF AfterFcn
  <2> QED
    BY <2>6
<1>3. \A k \in 0..Len(s) : k \in S
  <2> HIDE DEF S
  <2> QED
    BY <1>1, <1>2, InductionUpTo, Len(s) \in Nat
<1>4. \E F : AfterFcn(F, s, t, Len(s))
  BY <1>3
<1> DEFINE H == CHOOSE F : AfterFcn(F, s, t, Len(s))
<1>5. AfterFcn(H, s, t, Len(s))
  BY <1>4
<1>6. After(s, t) = H[Len(s)]
  BY DEF After, AfterFcn
<1> QED
  BY <1>4, <1>5, <1>6

\* The elements of a queue after a push.
LEMMA ElemsAppend ==
    ASSUME NEW X, NEW s \in Seq(X), NEW x \in X
    PROVE  Elems(Append(s, x)) = Elems(s) \cup {x}
<1>1. DOMAIN Append(s, x) = DOMAIN s \cup {Len(s) + 1}
  OBVIOUS
<1>2. Append(s, x)[Len(s) + 1] = x /\ \A k \in DOMAIN s : Append(s, x)[k] = s[k]
  OBVIOUS
<1> QED
  BY <1>1, <1>2 DEF Elems

\* An entry outside O is not below one before it.
Ordered(s, O) == \A i, j \in DOMAIN s : i < j /\ s[j] \notin O => s[i] <= s[j]

\* Appending x to an ordered sequence whose elements it is not below.
LEMMA AppendOrdered ==
    ASSUME NEW X \in SUBSET Int, NEW s \in Seq(X), NEW x \in X, NEW O, Ordered(s, O),
           x \notin O => \A u \in Elems(s) : u <= x
    PROVE  Ordered(Append(s, x), O)
<1> DEFINE q == Append(s, x)
<1>1. DOMAIN q = 1..(Len(s) + 1) /\ Len(s) \in Nat /\ DOMAIN s = 1..Len(s)
  OBVIOUS
<1>2. q[Len(s) + 1] = x /\ \A k \in 1..Len(s) : q[k] = s[k] /\ s[k] \in Elems(s)
  BY DEF Elems
<1> HIDE DEF q
<1> SUFFICES ASSUME NEW i \in DOMAIN q, NEW j \in DOMAIN q, i < j, q[j] \notin O
             PROVE  q[i] <= q[j]
  BY DEF Ordered, q
<1>3. i \in 1..Len(s)
  BY <1>1
<1>4. CASE j = Len(s) + 1
  BY <1>2, <1>3, <1>4
<1>5. CASE j \in 1..Len(s)
  BY <1>1, <1>2, <1>3, <1>5 DEF Ordered
<1> QED
  BY <1>1, <1>4, <1>5

\* After keeps the entries above t and no others, in their order.
LEMMA AfterFacts ==
    ASSUME NEW X \in SUBSET Int, NEW s \in Seq(X), NEW t \in Int
    PROVE  /\ After(s, t) \in Seq(X)
           /\ Elems(After(s, t)) = {u \in Elems(s) : u > t}
           /\ \A O : Ordered(s, O) => Ordered(After(s, t), O)
<1>0. Len(s) \in Nat /\ \A i \in 1..Len(s) : s[i] \in X
  OBVIOUS
<1>1. PICK F : AfterFcn(F, s, t, Len(s)) /\ After(s, t) = F[Len(s)]
  BY <1>0, AfterDefined
<1>2. \A i \in 0..Len(s) : F[i] = IF i = 0 THEN <<>>
                               ELSE IF s[i] > t THEN Append(F[i - 1], s[i])
                               ELSE F[i - 1]
  BY <1>1 DEF AfterFcn
<1> DEFINE S == {n \in 0..Len(s) : /\ F[n] \in Seq(X)
                              /\ Elems(F[n]) = {s[k] : k \in {j \in 1..n : s[j] > t}}}
<1>3. 0 \in S
  <2>1. F[0] = <<>>
    BY <1>0, <1>2
  <2>2. Elems(<<>>) = {}
    BY DEF Elems
  <2>3. {s[k] : k \in {j \in 1..0 : s[j] > t}} = {}
    OBVIOUS
  <2>4. F[0] \in Seq(X) /\ 0 \in 0..Len(s)
    BY <2>1, <1>0
  <2>5. Elems(F[0]) = {s[k] : k \in {j \in 1..0 : s[j] > t}}
    BY <2>1, <2>2, <2>3, Zenon
  <2> QED
    BY <2>4, <2>5
<1>4. \A n \in 0..(Len(s) - 1) : n \in S => n + 1 \in S
  <2> SUFFICES ASSUME NEW n \in 0..(Len(s) - 1), n \in S
               PROVE  n + 1 \in S
    OBVIOUS
  <2>1. F[n + 1] = IF s[n + 1] > t THEN Append(F[n], s[n + 1]) ELSE F[n]
    BY <1>2
  <2>2. s[n + 1] \in X /\ n + 1 \in 1..Len(s)
    BY <1>0
  <2>3. CASE s[n + 1] > t
    <3>1. F[n + 1] = Append(F[n], s[n + 1]) /\ F[n] \in Seq(X)
      BY <2>1, <2>3
    <3>2. F[n + 1] \in Seq(X)
      BY <3>1, <2>2
    <3>3. Elems(F[n + 1]) = Elems(F[n]) \cup {s[n + 1]}
      BY <3>1, <2>2, ElemsAppend
    <3>4. {j \in 1..(n + 1) : s[j] > t} = {j \in 1..n : s[j] > t} \cup {n + 1}
      BY <2>3
    <3> QED
      BY <3>2, <3>3, <3>4
  <2>4. CASE ~(s[n + 1] > t)
    <3>1. {j \in 1..(n + 1) : s[j] > t} = {j \in 1..n : s[j] > t}
      BY <2>4
    <3> QED
      BY <3>1, <2>1, <2>4
  <2> QED
    BY <2>3, <2>4
<1>5. \A n \in 0..Len(s) : n \in S
  <2> HIDE DEF S
  <2> QED
    BY <1>0, <1>3, <1>4, InductionUpTo
<1>6. Elems(After(s, t)) = {u \in Elems(s) : u > t}
  <2>1. Elems(After(s, t)) = {s[k] : k \in {j \in 1..Len(s) : s[j] > t}}
    <3>1. Len(s) \in 0..Len(s)
      BY <1>0
    <3>2. Elems(F[Len(s)]) = {s[k] : k \in {j \in 1..Len(s) : s[j] > t}}
      BY <3>1, <1>5
    <3> QED
      BY <1>1, <3>2, Zenon
  <2>2. Elems(s) = {s[k] : k \in 1..Len(s)}
    BY DEF Elems
  <2> QED
    BY <2>1, <2>2
<1>7. ASSUME NEW O, Ordered(s, O)
      PROVE  Ordered(After(s, t), O)
  <2> DEFINE T == {n \in 0..Len(s) : Ordered(F[n], O)}
  <2>1. 0 \in T
    BY <1>0, <1>2 DEF Ordered
  <2>2. \A n \in 0..(Len(s) - 1) : n \in T => n + 1 \in T
    <3> SUFFICES ASSUME NEW n \in 0..(Len(s) - 1), n \in T
                 PROVE  Ordered(F[n + 1], O) /\ n + 1 \in 0..Len(s)
      OBVIOUS
    <3>1. F[n + 1] = IF s[n + 1] > t THEN Append(F[n], s[n + 1]) ELSE F[n]
      BY <1>2
    <3>2. /\ s[n + 1] \in X /\ n + 1 \in 1..Len(s) /\ n \in 0..Len(s)
          /\ n + 1 \in 0..Len(s) /\ Ordered(F[n], O)
      BY <1>0
    <3>3. F[n] \in Seq(X) /\ Elems(F[n]) = {s[k] : k \in {j \in 1..n : s[j] > t}}
      BY <1>5, <3>2
    <3>4. ASSUME s[n + 1] \notin O, NEW u \in Elems(F[n]) PROVE u <= s[n + 1]
      <4>1. PICK k \in 1..n : u = s[k]
        BY <3>3, <3>4
      <4>2. k \in DOMAIN s /\ n + 1 \in DOMAIN s /\ k < n + 1
        BY <1>0
      <4> QED
        BY <1>7, <3>4, <4>1, <4>2 DEF Ordered
    <3>5. Ordered(Append(F[n], s[n + 1]), O)
      BY <3>2, <3>3, <3>4, AppendOrdered
    <3> QED
      BY <3>1, <3>2, <3>5
  <2>3. \A n \in 0..Len(s) : n \in T
    <3> HIDE DEF T
    <3> QED
      BY <1>0, <2>1, <2>2, InductionUpTo
  <2>4. Len(s) \in 0..Len(s)
    BY <1>0
  <2> QED
    BY <1>1, <2>3, <2>4
<1> QED
  BY <1>0, <1>1, <1>5, <1>6, <1>7

-----------------------------------------------------------------------------
(* Types *)

\* A writer that is to push has drawn an id; no request is empty.
LoggedTxn == \A w \in Writers : wpc[w] = "logged" => wtxn[w] >= 1 /\ wtxn[w] < nextTxn
BatchesNonEmpty == \A r \in requests : r.batch # <<>>

TInv == TypeOK /\ LoggedTxn /\ BatchesNonEmpty

\* After yields a queue of transaction ids.
LEMMA AfterTxn ==
    ASSUME TypeOK, NEW t \in 0..MaxTxn
    PROVE  After(pending, t) \in Seq(Txn)
<1>1. Txn \in SUBSET Int /\ pending \in Seq(Txn) /\ t \in Int
  BY BoundsAssumption DEF TypeOK, Txn
<1> QED
  BY <1>1, AfterFacts

\* The last queued id is a transaction id, or 0.
LEMMA LastPendingTxn ==
    ASSUME TypeOK
    PROVE  LastPending \in 0..MaxTxn
<1>1. pending \in Seq(Txn) /\ MaxTxn \in Nat
  BY BoundsAssumption DEF TypeOK
<1>2. CASE pending = <<>>
  BY <1>1, <1>2 DEF LastPending
<1>3. CASE pending # <<>>
  <2>1. pending[Len(pending)] \in Txn
    BY <1>1, <1>3
  <2> QED
    BY <1>1, <1>3, <2>1 DEF LastPending, Txn
<1> QED
  BY <1>2, <1>3

\* ack raises the acknowledged id of a registered replica, or leaves it.
LEMMA AckUpdateAcked ==
    ASSUME TypeOK, NEW f \in Followers, AckUpdate(f)
    PROVE  \/ lastAcked' = lastAcked
           \/ atxn[f] > lastAcked[f] /\ lastAcked' = [lastAcked EXCEPT ![f] = atxn[f]]
<1>1. CASE f \in replicas /\ atxn[f] > lastAcked[f]
  BY <1>1 DEF AckUpdate
<1>2. CASE f \in replicas /\ ~(atxn[f] > lastAcked[f])
  <2>1. lastAcked' = [lastAcked EXCEPT ![f] = lastAcked[f]]
    BY <1>2 DEF AckUpdate
  <2> QED
    BY <2>1 DEF TypeOK
<1>3. CASE f \notin replicas
  BY <1>3 DEF AckUpdate
<1> QED
  BY <1>1, <1>2, <1>3

\* A new engine has the types.
LEMMA TInvInit == Init => TInv
  BY BoundsAssumption DEF Init, TInv, TypeOK, LoggedTxn, BatchesNonEmpty, Txn

\* Every step keeps the types, that a writer to push has drawn an id and that no
\* request is empty.
LEMMA TInvStep == TInv /\ [Next]_vars => TInv'
<1> SUFFICES ASSUME TInv, [Next]_vars PROVE TInv'
  OBVIOUS
<1>0. /\ MaxTxn \in Nat /\ MaxLag \in Nat /\ 0 \in 0..MaxTxn
      /\ LastPending \in 0..MaxTxn /\ bound.changes \in Nat /\ bound.restarts \in Nat
  <2>1. LastPending \in 0..MaxTxn
    BY LastPendingTxn DEF TInv
  <2> QED
    BY <2>1, BoundsAssumption DEF TInv, TypeOK
<1> USE DEF TInv, engine, records, sends, acks, trims, nodes
<1>1. ASSUME NEW w \in Writers, LogMutation(w) PROVE TInv'
  <2>1. nextTxn \in 0..MaxTxn /\ nextTxn + 1 \in 1..(MaxTxn + 1) /\ nextTxn >= 1
    BY <1>0, <1>1 DEF TypeOK, LogMutation
  <2>2. TypeOK'
    BY <1>1, <2>1 DEF TypeOK, LogMutation
  <2>3. LoggedTxn'
    BY <1>1, <2>1 DEF TypeOK, LoggedTxn, LogMutation
  <2> QED
    BY <1>1, <2>2, <2>3 DEF BatchesNonEmpty, LogMutation
<1>2. ASSUME NEW w \in Writers, RecordPush(w) PROVE TInv'
  <2>1. wtxn[w] \in Txn /\ pending \in Seq(Txn)
    BY <1>0, <1>2 DEF TypeOK, LoggedTxn, RecordPush, Txn
  <2>2. pending' \in Seq(Txn)
    BY <1>2, <2>1 DEF RecordPush
  <2> QED
    BY <1>2, <2>1, <2>2 DEF TypeOK, LoggedTxn, BatchesNonEmpty, RecordPush
<1>3. ASSUME NEW w \in Writers, RecordReadMax(w) PROVE TInv'
  BY <1>0, <1>3 DEF TypeOK, LoggedTxn, BatchesNonEmpty, RecordReadMax
<1>4. ASSUME NEW w \in Writers, RecordUpdate(w) PROVE TInv'
  <2>1. state' \in [Followers -> {"Synced", "Lagging", "Disconnected"}]
    <3> SUFFICES ASSUME NEW f \in Followers
                 PROVE  RecordedState(Minus(wmax[w], lastAcked[f]), state[f])
                           \in {"Synced", "Lagging", "Disconnected"}
      BY <1>4 DEF RecordUpdate, TypeOK
    <3> QED
      BY DEF RecordedState, TypeOK
  <2> QED
    BY <1>0, <1>4, <2>1 DEF TypeOK, LoggedTxn, BatchesNonEmpty, RecordUpdate
<1>5. ASSUME NEW f \in Followers, AddReplica(f) PROVE TInv'
  <2>1. changes' \in 0..bound'.changes
    BY <1>0, <1>5 DEF TypeOK, AddReplica, Change
  <2>2. lost' \in [Followers -> SUBSET Txn]
    BY <1>5 DEF TypeOK, AddReplica
  <2> QED
    BY <1>0, <1>5, <2>1, <2>2 DEF TypeOK, LoggedTxn, BatchesNonEmpty, AddReplica
<1>6. ASSUME NEW f \in Followers, RemoveReplica(f) PROVE TInv'
  <2>1. changes' \in 0..bound'.changes
    BY <1>0, <1>6 DEF TypeOK, RemoveReplica, Change
  <2> QED
    BY <1>0, <1>6, <2>1 DEF TypeOK, LoggedTxn, BatchesNonEmpty, RemoveReplica
<1>7. ASSUME NEW f \in Followers, SendRead(f) PROVE TInv'
  BY <1>7 DEF TypeOK, LoggedTxn, BatchesNonEmpty, SendRead
<1>8. ASSUME NEW f \in Followers, Send(f) PROVE TInv'
  <2>1. After(pending, sfrom[f]) \in Seq(Txn)
    BY AfterTxn DEF TypeOK
  <2>2. /\ requests' \subseteq [to : Followers, batch : Seq(Txn)]
        /\ BatchesNonEmpty'
    BY <1>8, <2>1 DEF TypeOK, BatchesNonEmpty, Send
  <2> QED
    BY <1>0, <1>8, <2>2 DEF TypeOK, LoggedTxn, Send
<1>9. ASSUME NEW f \in Followers, Restart(f) PROVE TInv'
  <2>0. /\ restarts < bound.restarts /\ restarts' = restarts + 1
        /\ restarts \in Nat /\ bound.restarts \in Nat /\ bound' = bound
    BY <1>0, <1>9 DEF TypeOK, Restart
  <2>1. restarts' \in 0..bound'.restarts
    BY <2>0
  <2>2. lost' \in [Followers -> SUBSET Txn] /\ applied' \in [Followers -> SUBSET Txn]
    BY <1>9 DEF TypeOK, Restart
  <2> QED
    BY <1>9, <2>1, <2>2 DEF TypeOK, LoggedTxn, BatchesNonEmpty, Restart
<1>10. ASSUME NEW f \in Followers, AckUpdate(f) PROVE TInv'
  <2>1. lastAcked' \in [Followers -> 0..MaxTxn]
    <3>1. \/ lastAcked' = lastAcked
          \/ lastAcked' = [lastAcked EXCEPT ![f] = atxn[f]]
      BY <1>10, AckUpdateAcked
    <3> QED
      BY <3>1 DEF TypeOK
  <2>2. state' \in [Followers -> {"Synced", "Lagging", "Disconnected"}]
    <3>1. CASE f \in replicas
      <4> DEFINE n == Minus(amax[f], lastAcked'[f])
                 new == CASE n = 0 -> "Synced"
                          [] n > MaxLag -> "Disconnected"
                          [] OTHER -> "Lagging"
      <4>1. state' = [state EXCEPT ![f] = new]
        BY <1>10, <3>1 DEF AckUpdate
      <4>2. new \in {"Synced", "Lagging", "Disconnected"}
        OBVIOUS
      <4> HIDE DEF new
      <4> QED
        BY <4>1, <4>2 DEF TypeOK
    <3>2. CASE f \notin replicas
      BY <1>10, <3>2 DEF TypeOK, AckUpdate
    <3> QED
      BY <3>1, <3>2
  <2> QED
    BY <1>0, <1>10, <2>1, <2>2 DEF TypeOK, LoggedTxn, BatchesNonEmpty, AckUpdate
<1>11. ASSUME NEW r \in requests, Replicate(r) PROVE TInv'
  <2>1. r.to \in Followers /\ r.batch \in Seq(Txn) /\ r.batch # <<>>
    BY DEF TypeOK, BatchesNonEmpty
  <2>2. r.batch[Len(r.batch)] \in Txn /\ Elems(r.batch) \subseteq Txn
    BY <2>1 DEF Elems
  <2>3. r.batch[Len(r.batch)] \in 0..MaxTxn
    BY <1>0, <2>2 DEF Txn
  <2> QED
    BY <1>11, <2>1, <2>2, <2>3, SMTT(30) DEF TypeOK, LoggedTxn, BatchesNonEmpty, Replicate
<1>12. ASSUME NEW r \in requests, NEW k \in 0..(Len(r.batch) - 1), ReplicateError(r, k)
       PROVE  TInv'
  <2>1. r.to \in Followers /\ r.batch \in Seq(Txn)
    BY DEF TypeOK
  <2>2. Elems(SubSeq(r.batch, 1, k)) \subseteq Txn
    BY <2>1 DEF Elems
  <2> QED
    BY <1>12, <2>1, <2>2 DEF TypeOK, LoggedTxn, BatchesNonEmpty, ReplicateError
<1>13. ASSUME NEW r \in responses, AckRead(r) PROVE TInv'
  BY <1>0, <1>13 DEF TypeOK, LoggedTxn, BatchesNonEmpty, AckRead
<1>14. ASSUME TrimRead PROVE TInv'
  <2>1. tmin' \in 0..MaxTxn
    BY <1>0, <1>14 DEF TrimRead, TypeOK
  <2> QED
    BY <1>0, <1>14, <2>1 DEF TypeOK, LoggedTxn, BatchesNonEmpty, TrimRead
<1>15. ASSUME TrimRetain PROVE TInv'
  <2>1. After(pending, tmin) \in Seq(Txn)
    BY AfterTxn DEF TypeOK
  <2>2. Elems(pending) \subseteq Txn
    BY DEF TypeOK, Elems
  <2>3. lost' \in [Followers -> SUBSET Txn]
    BY <1>15, <2>2 DEF TypeOK, TrimRetain
  <2> QED
    BY <1>0, <1>15, <2>1, <2>3 DEF TypeOK, LoggedTxn, BatchesNonEmpty, TrimRetain
<1>16. CASE UNCHANGED vars
  BY <1>16 DEF TypeOK, LoggedTxn, BatchesNonEmpty, vars
<1> QED
  BY <1>1, <1>2, <1>3, <1>4, <1>5, <1>6, <1>7, <1>8, <1>9, <1>10, <1>11, <1>12, <1>13,
     <1>14, <1>15, <1>16 DEF Next

\* The engine, the calls in progress, the network and the followers keep their
\* types, for any number of writers.
THEOREM ReplicationTypes == Spec => []TypeOK
<1>1. Init => TInv
  BY TInvInit
<1>2. TInv /\ [Next]_vars => TInv'
  BY TInvStep
<1>3. TInv => TypeOK
  BY DEF TInv
<1> QED
  BY <1>1, <1>2, <1>3, PTL DEF Spec

-----------------------------------------------------------------------------
(* Acknowledgements cover a prefix *)

\* The entries that were queued in the order of their ids.
InOrder == recorded \ overtaken

\* What follower f holds or is known to have lost.
Have(f) == applied[f] \cup lost[f]

\* t is an entry that was recorded, or none, and f has all that are in order up to t.
Covered(f, t) ==
    /\ t \in recorded \cup {0}
    /\ \A u \in InOrder : u <= t => u \in Have(f)

QueueRecorded == Elems(pending) \subseteq recorded

\* In the queue, an entry in order is above all before it.
QueueOrdered == Ordered(pending, overtaken)

\* An entry leaves the queue only when every follower has it or has lost it.
Trimmed == \A f \in Followers : \A u \in InOrder : u \in Elems(pending) \cup Have(f)

\* Every id that is or may become an acknowledged one covers a prefix: in the
\* table, read by pending_for_replica, read by ack, in a response.
AckedCovered ==
    \A f \in Followers : Covered(f, lastAcked[f]) /\ Covered(f, sfrom[f]) /\ Covered(f, atxn[f])
ResponsesCovered == \A r \in responses : Covered(r.from, r.txn)

\* With a batch applied, its last entry covers a prefix.
RequestsCovered ==
    \A r \in requests :
        /\ Elems(r.batch) \subseteq recorded
        /\ \A u \in InOrder :
              u <= r.batch[Len(r.batch)] => u \in Elems(r.batch) \cup Have(r.to)

\* trim_acked's limit is still below what each watched replica acknowledged.
TrimBelow == tpc = "read" => \A f \in watched : tmin <= lastAcked[f]

IInv ==
    /\ TInv
    /\ QueueRecorded
    /\ QueueOrdered
    /\ Trimmed
    /\ AckedCovered
    /\ ResponsesCovered
    /\ RequestsCovered
    /\ TrimBelow

\* A new engine satisfies the invariant.
LEMMA IInvInit == Init => IInv
<1> SUFFICES ASSUME Init PROVE IInv
  OBVIOUS
<1>1. TInv
  BY TInvInit
<1>2. Elems(pending) = {}
  BY DEF Init, Elems
<1> QED
  BY <1>1, <1>2 DEF Init, IInv, QueueRecorded, QueueOrdered, Ordered, InOrder, Trimmed,
     AckedCovered, ResponsesCovered, RequestsCovered, TrimBelow, Covered

\* What a follower has, counting what it lost, never shrinks.
LEMMA HaveGrows ==
    ASSUME TInv, [Next]_vars
    PROVE  \A f \in Followers : Have(f) \subseteq Have(f)'
<1> USE DEF TInv, engine, records, sends, acks, trims, nodes, Have
<1>1. ASSUME NEW w \in Writers,
             LogMutation(w) \/ RecordPush(w) \/ RecordReadMax(w) \/ RecordUpdate(w)
      PROVE  UNCHANGED <<applied, lost>>
  BY <1>1 DEF LogMutation, RecordPush, RecordReadMax, RecordUpdate
<1>2. ASSUME NEW f \in Followers,
             RemoveReplica(f) \/ SendRead(f) \/ Send(f) \/ AckUpdate(f)
      PROVE  UNCHANGED <<applied, lost>>
  BY <1>2 DEF RemoveReplica, SendRead, Send, AckUpdate
<1>3. ASSUME NEW f \in Followers, AddReplica(f)
      PROVE  \A g \in Followers : Have(g) \subseteq Have(g)'
  BY <1>3 DEF AddReplica, TypeOK
<1>4. ASSUME NEW f \in Followers, Restart(f)
      PROVE  \A g \in Followers : Have(g) \subseteq Have(g)'
  BY <1>4 DEF Restart, TypeOK
<1>5. ASSUME NEW r \in requests, Replicate(r)
      PROVE  \A g \in Followers : Have(g) \subseteq Have(g)'
  BY <1>5 DEF Replicate, TypeOK
<1>6. ASSUME NEW r \in requests, NEW k \in 0..(Len(r.batch) - 1), ReplicateError(r, k)
      PROVE  \A g \in Followers : Have(g) \subseteq Have(g)'
  BY <1>6 DEF ReplicateError, TypeOK
<1>7. ASSUME NEW r \in responses, AckRead(r)
      PROVE  UNCHANGED <<applied, lost>>
  BY <1>7 DEF AckRead
<1>8. ASSUME TrimRead
      PROVE  UNCHANGED <<applied, lost>>
  BY <1>8 DEF TrimRead
<1>9. ASSUME TrimRetain
      PROVE  \A g \in Followers : Have(g) \subseteq Have(g)'
  BY <1>9 DEF TrimRetain, TypeOK
<1>10. CASE UNCHANGED vars
  BY <1>10 DEF vars
<1> QED
  BY <1>1, <1>2, <1>3, <1>4, <1>5, <1>6, <1>7, <1>8, <1>9, <1>10 DEF Next

\* x was queued by the step: it is above all recorded before, or overtaken.
Grown(x) ==
    /\ recorded' = recorded \cup {x}
    /\ overtaken \subseteq overtaken'
    /\ x \in overtaken' \/ \A u \in recorded : u <= x

\* Only record_entry's first step records.
LEMMA RecordedGrows ==
    ASSUME TInv, [Next]_vars
    PROVE  \/ UNCHANGED <<recorded, overtaken>>
           \/ \E x \in Txn : Grown(x)
<1> USE DEF TInv, engine, records, sends, acks, trims, nodes
<1>1. ASSUME NEW w \in Writers, LogMutation(w) \/ RecordReadMax(w) \/ RecordUpdate(w)
      PROVE  UNCHANGED <<recorded, overtaken>>
  BY <1>1 DEF LogMutation, RecordReadMax, RecordUpdate
<1>2. ASSUME NEW w \in Writers, RecordPush(w)
      PROVE  \E x \in Txn : Grown(x)
  <2>1. wtxn[w] \in Txn /\ recorded \subseteq Int /\ wtxn[w] \in Int
    BY <1>2, BoundsAssumption DEF RecordPush, TypeOK, LoggedTxn, Txn
  <2>2. Grown(wtxn[w])
    <3>1. CASE \E u \in recorded : u > wtxn[w]
      BY <1>2, <3>1 DEF RecordPush, Grown
    <3>2. CASE \A u \in recorded : ~(u > wtxn[w])
      <4>1. \A u \in recorded : u <= wtxn[w]
        BY <2>1, <3>2
      <4>2. overtaken' = overtaken
        BY <1>2, <3>2 DEF RecordPush
      <4> QED
        BY <1>2, <4>1, <4>2 DEF RecordPush, Grown
    <3> QED
      BY <3>1, <3>2
  <2> QED
    BY <2>1, <2>2
<1>3. ASSUME NEW f \in Followers,
             \/ AddReplica(f) \/ RemoveReplica(f) \/ SendRead(f) \/ Send(f)
             \/ AckUpdate(f) \/ Restart(f)
      PROVE  UNCHANGED <<recorded, overtaken>>
  BY <1>3 DEF AddReplica, RemoveReplica, SendRead, Send, AckUpdate, Restart
<1>4. ASSUME NEW r \in requests, Replicate(r)
      PROVE  UNCHANGED <<recorded, overtaken>>
  BY <1>4 DEF Replicate
<1>5. ASSUME NEW r \in requests, NEW k \in 0..(Len(r.batch) - 1), ReplicateError(r, k)
      PROVE  UNCHANGED <<recorded, overtaken>>
  BY <1>5 DEF ReplicateError
<1>6. ASSUME NEW r \in responses, AckRead(r)
      PROVE  UNCHANGED <<recorded, overtaken>>
  BY <1>6 DEF AckRead
<1>7. ASSUME TrimRead \/ TrimRetain \/ UNCHANGED vars
      PROVE  UNCHANGED <<recorded, overtaken>>
  BY <1>7 DEF TrimRead, TrimRetain, vars
<1> QED
  BY <1>1, <1>2, <1>3, <1>4, <1>5, <1>6, <1>7 DEF Next

\* A prefix that is covered stays covered: what is new and in order comes after it.
LEMMA CoveredStays ==
    ASSUME TInv, [Next]_vars
    PROVE  \A f \in Followers : \A t : Covered(f, t) =>
              /\ t \in recorded' \cup {0}
              /\ \A u \in InOrder' : u <= t => u \in Have(f)'
<1> SUFFICES ASSUME NEW f \in Followers, NEW t, Covered(f, t)
             PROVE  /\ t \in recorded' \cup {0}
                    /\ \A u \in InOrder' : u <= t => u \in Have(f)'
  OBVIOUS
<1>1. Have(f) \subseteq Have(f)'
  BY HaveGrows
<1>2. CASE UNCHANGED <<recorded, overtaken>>
  BY <1>1, <1>2 DEF Covered, InOrder
<1>3. ASSUME NEW x \in Txn, Grown(x)
      PROVE  /\ t \in recorded' \cup {0}
             /\ \A u \in InOrder' : u <= t => u \in Have(f)'
  <2>1. x \in Nat /\ x >= 1 /\ recorded \subseteq Int
    BY BoundsAssumption DEF Txn, TInv, TypeOK
  <2>2. ASSUME x \in InOrder', x <= t PROVE x \in InOrder
    <3>1. x \notin overtaken /\ \A u \in recorded : u <= x
      BY <1>3, <2>2 DEF Grown, InOrder
    <3>2. t = x \/ t = 0
      BY <2>1, <2>2, <3>1 DEF Covered
    <3>3. x \in recorded
      BY <2>1, <2>2, <3>2 DEF Covered
    <3> QED
      BY <3>1, <3>3 DEF InOrder
  <2>3. \A u \in InOrder' : u \in InOrder \/ u = x
    BY <1>3 DEF Grown, InOrder
  <2>4. t \in recorded' \cup {0}
    BY <1>3 DEF Grown, Covered
  <2> QED
    BY <1>1, <2>2, <2>3, <2>4 DEF Covered
<1> QED
  BY <1>2, <1>3, RecordedGrows

\* Only record_entry and trim_acked change the queue.
LEMMA QueueFrame ==
    ASSUME [Next]_vars
    PROVE  \/ UNCHANGED <<pending, recorded, overtaken>>
           \/ \E w \in Writers : RecordPush(w)
           \/ TrimRetain
<1> USE DEF engine, records, sends, acks, trims, nodes
<1>1. ASSUME NEW w \in Writers, LogMutation(w) \/ RecordReadMax(w) \/ RecordUpdate(w)
      PROVE  UNCHANGED <<pending, recorded, overtaken>>
  BY <1>1 DEF LogMutation, RecordReadMax, RecordUpdate
<1>2. ASSUME NEW f \in Followers,
             \/ AddReplica(f) \/ RemoveReplica(f) \/ SendRead(f) \/ Send(f)
             \/ AckUpdate(f) \/ Restart(f)
      PROVE  UNCHANGED <<pending, recorded, overtaken>>
  BY <1>2 DEF AddReplica, RemoveReplica, SendRead, Send, AckUpdate, Restart
<1>3. ASSUME NEW r \in requests, Replicate(r)
      PROVE  UNCHANGED <<pending, recorded, overtaken>>
  BY <1>3 DEF Replicate
<1>4. ASSUME NEW r \in requests, NEW k \in 0..(Len(r.batch) - 1), ReplicateError(r, k)
      PROVE  UNCHANGED <<pending, recorded, overtaken>>
  BY <1>4 DEF ReplicateError
<1>5. ASSUME NEW r \in responses, AckRead(r)
      PROVE  UNCHANGED <<pending, recorded, overtaken>>
  BY <1>5 DEF AckRead
<1>6. ASSUME TrimRead \/ UNCHANGED vars
      PROVE  UNCHANGED <<pending, recorded, overtaken>>
  BY <1>6 DEF TrimRead, vars
<1> QED
  BY <1>1, <1>2, <1>3, <1>4, <1>5, <1>6 DEF Next

\* What a push does to the queue.
LEMMA PushedQueue ==
    ASSUME TInv, NEW w \in Writers, RecordPush(w)
    PROVE  /\ wtxn[w] \in Txn /\ pending \in Seq(Txn) /\ Txn \in SUBSET Int
           /\ pending' = Append(pending, wtxn[w])
           /\ Elems(pending') = Elems(pending) \cup {wtxn[w]}
<1>1. /\ wtxn[w] \in Txn /\ pending \in Seq(Txn) /\ pending' = Append(pending, wtxn[w])
      /\ Txn \in SUBSET Int
  BY BoundsAssumption DEF TInv, TypeOK, LoggedTxn, RecordPush, Txn
<1>2. Elems(pending') = Elems(pending) \cup {wtxn[w]}
  BY <1>1, ElemsAppend
<1> QED
  BY <1>1, <1>2

\* A trim keeps what is above its limit, in its order.
LEMMA TrimmedQueue ==
    ASSUME TInv, TrimRetain
    PROVE  /\ Elems(pending') = {u \in Elems(pending) : u > tmin}
           /\ \A O : Ordered(pending, O) => Ordered(pending', O)
<1>1. /\ Txn \in SUBSET Int /\ pending \in Seq(Txn) /\ tmin \in Int
      /\ pending' = After(pending, tmin)
  BY BoundsAssumption DEF TInv, TypeOK, TrimRetain, Txn
<1> QED
  BY <1>1, AfterFacts

\* Every step keeps what is said of the queue; trim_acked drops nothing in order
\* that a watched replica has not acknowledged, although it uses a limit it read
\* before.
LEMMA QueueStep ==
    ASSUME IInv, [Next]_vars
    PROVE  QueueRecorded' /\ QueueOrdered' /\ Trimmed'
<1>0. /\ TInv /\ QueueRecorded /\ QueueOrdered /\ Trimmed /\ AckedCovered /\ TrimBelow
  BY DEF IInv
<1>1. \A f \in Followers : Have(f) \subseteq Have(f)'
  BY <1>0, HaveGrows
<1>2. CASE UNCHANGED <<pending, recorded, overtaken>>
  BY <1>0, <1>1, <1>2 DEF QueueRecorded, QueueOrdered, Trimmed, InOrder
<1>3. ASSUME NEW w \in Writers, RecordPush(w)
      PROVE  QueueRecorded' /\ QueueOrdered' /\ Trimmed'
  <2>1. /\ wtxn[w] \in Txn /\ pending \in Seq(Txn) /\ Txn \in SUBSET Int
        /\ pending' = Append(pending, wtxn[w])
        /\ Elems(pending') = Elems(pending) \cup {wtxn[w]}
    BY <1>0, <1>3, PushedQueue
  <2>2. recorded' = recorded \cup {wtxn[w]} /\ overtaken \subseteq overtaken'
    BY <1>3 DEF RecordPush
  <2>3. QueueRecorded' /\ Trimmed'
    BY <1>0, <1>1, <2>1, <2>2 DEF QueueRecorded, Trimmed, InOrder
  <2>4. Ordered(pending, overtaken')
    BY <1>0, <2>2 DEF QueueOrdered, Ordered
  <2>5. wtxn[w] \notin overtaken' => \A u \in Elems(pending) : u <= wtxn[w]
    <3> SUFFICES ASSUME wtxn[w] \notin overtaken', NEW u \in Elems(pending)
                 PROVE  u <= wtxn[w]
      OBVIOUS
    <3>1. u \in recorded /\ u \in Int /\ wtxn[w] \in Int
      BY <1>0, <2>1 DEF QueueRecorded, TInv, TypeOK
    <3>2. ~(u > wtxn[w])
      BY <1>3, <3>1 DEF RecordPush
    <3> QED
      BY <3>1, <3>2
  <2>6. Ordered(Append(pending, wtxn[w]), overtaken')
    BY <2>1, <2>4, <2>5, AppendOrdered
  <2> QED
    BY <2>1, <2>3, <2>6 DEF QueueOrdered
<1>4. CASE TrimRetain
  <2>1. /\ Elems(pending') = {u \in Elems(pending) : u > tmin}
        /\ Ordered(pending', overtaken)
        /\ recorded' = recorded /\ overtaken' = overtaken
    BY <1>0, <1>4, TrimmedQueue DEF TrimRetain, records, QueueOrdered
  <2>2. QueueRecorded' /\ QueueOrdered'
    BY <1>0, <2>1 DEF QueueRecorded, QueueOrdered
  <2>3. tmin \in Int /\ Elems(pending) \subseteq Int
    <3>1. recorded \subseteq Int /\ tmin \in Int
      BY <1>0, BoundsAssumption DEF TInv, TypeOK, Txn
    <3> QED
      BY <1>0, <3>1 DEF QueueRecorded
  <2>5. ASSUME NEW f \in Followers, NEW u \in InOrder
        PROVE  u \in Elems(pending') \cup Have(f)'
    <3>1. CASE u \notin Elems(pending)
      BY <1>0, <1>1, <3>1 DEF Trimmed
    <3>2. CASE u \in Elems(pending) /\ u > tmin
      BY <2>1, <3>2
    <3>3. CASE u \in Elems(pending) /\ ~(u > tmin) /\ f \in watched
      <4>1. u <= lastAcked[f]
        BY <1>0, <1>4, <2>3, <3>3 DEF TrimRetain, TrimBelow, TInv, TypeOK
      <4> QED
        BY <1>0, <1>1, <4>1 DEF AckedCovered, Covered
    <3>4. CASE u \in Elems(pending) /\ ~(u > tmin) /\ f \notin watched
      <4>1. u <= tmin
        BY <2>3, <3>4
      <4>2. lost'[f] = lost[f] \cup {t \in Elems(pending) : t <= tmin /\ t \notin applied[f]}
        BY <1>4, <3>4 DEF TrimRetain
      <4>3. applied' = applied
        BY <1>4 DEF TrimRetain
      <4> QED
        BY <3>4, <4>1, <4>2, <4>3 DEF Have
    <3> QED
      BY <3>1, <3>2, <3>3, <3>4
  <2>6. InOrder' = InOrder
    BY <2>1 DEF InOrder
  <2> QED
    BY <2>2, <2>5, <2>6 DEF Trimmed
<1> QED
  BY <1>2, <1>3, <1>4, QueueFrame

\* Every step keeps the ids of the table and of the calls in progress covered.
LEMMA AckedStep ==
    ASSUME IInv, [Next]_vars
    PROVE  AckedCovered'
<1>0. TInv /\ AckedCovered /\ ResponsesCovered
  BY DEF IInv
<1> DEFINE Still(f, t) == /\ t \in recorded' \cup {0}
                          /\ \A u \in InOrder' : u <= t => u \in Have(f)'
<1>1. \A f \in Followers : \A t : Covered(f, t) => Still(f, t)
  BY <1>0, CoveredStays
<1>2. \A f \in Followers : Still(f, lastAcked[f]) /\ Still(f, sfrom[f]) /\ Still(f, atxn[f])
  BY <1>0, <1>1 DEF AckedCovered
<1>3. \A r \in responses : Still(r.from, r.txn)
  BY <1>0, <1>1 DEF ResponsesCovered, TInv, TypeOK
<1>4. \A f \in Followers : Still(f, 0)
  <2>1. \A f \in Followers : Covered(f, 0)
    BY <1>0, BoundsAssumption DEF Covered, InOrder, TInv, TypeOK, Txn
  <2> QED
    BY <1>1, <2>1
<1>5. SUFFICES \A f \in Followers : /\ Still(f, lastAcked'[f])
                                    /\ Still(f, sfrom'[f])
                                    /\ Still(f, atxn'[f])
  BY DEF AckedCovered, Covered
<1> HIDE DEF Still
<1> USE DEF TInv, engine, records, sends, acks, trims, nodes
<1>6. CASE UNCHANGED <<lastAcked, sfrom, atxn>>
  BY <1>2, <1>6
<1>7. ASSUME NEW w \in Writers,
             LogMutation(w) \/ RecordPush(w) \/ RecordReadMax(w) \/ RecordUpdate(w)
      PROVE  UNCHANGED <<lastAcked, sfrom, atxn>>
  BY <1>7 DEF LogMutation, RecordPush, RecordReadMax, RecordUpdate
<1>8. ASSUME NEW g \in Followers, AddReplica(g) \/ RemoveReplica(g)
      PROVE  \A f \in Followers : /\ Still(f, lastAcked'[f])
                                   /\ Still(f, sfrom'[f])
                                   /\ Still(f, atxn'[f])
  <2>1. lastAcked' = [lastAcked EXCEPT ![g] = 0] /\ UNCHANGED <<sfrom, atxn>>
    BY <1>8 DEF AddReplica, RemoveReplica
  <2> QED
    BY <1>0, <1>2, <1>4, <2>1 DEF TypeOK
<1>9. ASSUME NEW g \in Followers, SendRead(g)
      PROVE  \A f \in Followers : /\ Still(f, lastAcked'[f])
                                   /\ Still(f, sfrom'[f])
                                   /\ Still(f, atxn'[f])
  <2>1. sfrom' = [sfrom EXCEPT ![g] = lastAcked[g]] /\ UNCHANGED <<lastAcked, atxn>>
    BY <1>9 DEF SendRead
  <2> QED
    BY <1>0, <1>2, <2>1 DEF TypeOK
<1>10. ASSUME NEW g \in Followers, Send(g)
       PROVE  \A f \in Followers : /\ Still(f, lastAcked'[f])
                                    /\ Still(f, sfrom'[f])
                                    /\ Still(f, atxn'[f])
  <2>1. sfrom' = [sfrom EXCEPT ![g] = 0] /\ UNCHANGED <<lastAcked, atxn>>
    BY <1>10 DEF Send
  <2> QED
    BY <1>0, <1>2, <1>4, <2>1 DEF TypeOK
<1>11. ASSUME NEW g \in Followers, AckUpdate(g)
       PROVE  \A f \in Followers : /\ Still(f, lastAcked'[f])
                                    /\ Still(f, sfrom'[f])
                                    /\ Still(f, atxn'[f])
  <2>1. atxn' = [atxn EXCEPT ![g] = 0] /\ UNCHANGED sfrom
    BY <1>11 DEF AckUpdate
  <2>2. lastAcked' = lastAcked \/ lastAcked' = [lastAcked EXCEPT ![g] = atxn[g]]
    BY <1>0, <1>11, AckUpdateAcked
  <2> QED
    BY <1>0, <1>2, <1>4, <2>1, <2>2 DEF TypeOK
<1>12. ASSUME NEW g \in Followers, Restart(g)
       PROVE  UNCHANGED <<lastAcked, sfrom, atxn>>
  BY <1>12 DEF Restart
<1>13. ASSUME NEW r \in requests, Replicate(r)
       PROVE  UNCHANGED <<lastAcked, sfrom, atxn>>
  BY <1>13 DEF Replicate
<1>14. ASSUME NEW r \in requests, NEW k \in 0..(Len(r.batch) - 1), ReplicateError(r, k)
       PROVE  UNCHANGED <<lastAcked, sfrom, atxn>>
  BY <1>14 DEF ReplicateError
<1>15. ASSUME NEW r \in responses, AckRead(r)
       PROVE  \A f \in Followers : /\ Still(f, lastAcked'[f])
                                    /\ Still(f, sfrom'[f])
                                    /\ Still(f, atxn'[f])
  <2>1. atxn' = [atxn EXCEPT ![r.from] = r.txn] /\ UNCHANGED <<lastAcked, sfrom>>
    BY <1>15 DEF AckRead
  <2> QED
    BY <1>0, <1>2, <1>3, <2>1 DEF TypeOK
<1>16. ASSUME TrimRead \/ TrimRetain \/ UNCHANGED vars
       PROVE  UNCHANGED <<lastAcked, sfrom, atxn>>
  BY <1>16 DEF TrimRead, TrimRetain, vars
<1> QED
  BY <1>6, <1>7, <1>8, <1>9, <1>10, <1>11, <1>12, <1>13, <1>14, <1>15, <1>16 DEF Next

\* Only the follower's handler answers, and only Send makes requests.
LEMMA NetworkFrame ==
    ASSUME [Next]_vars
    PROVE  /\ responses' = responses \/ \E r \in requests : Replicate(r)
           /\ requests' = requests \/ \E f \in Followers : Send(f)
<1> USE DEF engine, records, sends, acks, trims, nodes
<1>1. ASSUME NEW w \in Writers,
             LogMutation(w) \/ RecordPush(w) \/ RecordReadMax(w) \/ RecordUpdate(w)
      PROVE  UNCHANGED <<requests, responses>>
  BY <1>1 DEF LogMutation, RecordPush, RecordReadMax, RecordUpdate
<1>2. ASSUME NEW f \in Followers,
             \/ AddReplica(f) \/ RemoveReplica(f) \/ SendRead(f)
             \/ AckUpdate(f) \/ Restart(f)
      PROVE  UNCHANGED <<requests, responses>>
  BY <1>2 DEF AddReplica, RemoveReplica, SendRead, AckUpdate, Restart
<1>3. ASSUME NEW f \in Followers, Send(f)
      PROVE  UNCHANGED responses
  BY <1>3 DEF Send
<1>4. ASSUME NEW r \in requests, Replicate(r)
      PROVE  UNCHANGED requests
  BY <1>4 DEF Replicate
<1>5. ASSUME NEW r \in requests, NEW k \in 0..(Len(r.batch) - 1), ReplicateError(r, k)
      PROVE  UNCHANGED <<requests, responses>>
  BY <1>5 DEF ReplicateError
<1>6. ASSUME NEW r \in responses, AckRead(r)
      PROVE  UNCHANGED <<requests, responses>>
  BY <1>6 DEF AckRead
<1>7. ASSUME TrimRead \/ TrimRetain \/ UNCHANGED vars
      PROVE  UNCHANGED <<requests, responses>>
  BY <1>7 DEF TrimRead, TrimRetain, vars
<1> QED
  BY <1>1, <1>2, <1>3, <1>4, <1>5, <1>6, <1>7 DEF Next

\* A follower's answer names the end of a covered prefix.
LEMMA ResponsesStep ==
    ASSUME IInv, [Next]_vars
    PROVE  ResponsesCovered'
<1>0. TInv /\ ResponsesCovered /\ RequestsCovered
  BY DEF IInv
<1> SUFFICES ASSUME NEW q \in responses'
             PROVE  /\ q.txn \in recorded' \cup {0}
                    /\ \A u \in InOrder' : u <= q.txn => u \in Have(q.from)'
  BY DEF ResponsesCovered, Covered, Have
<1>1. CASE q \in responses
  <2>1. q.from \in Followers /\ Covered(q.from, q.txn)
    BY <1>0, <1>1 DEF TInv, TypeOK, ResponsesCovered
  <2> QED
    BY <1>0, <2>1, CoveredStays
<1>2. ASSUME NEW r \in requests, Replicate(r), q \notin responses
      PROVE  /\ q.txn \in recorded' \cup {0}
             /\ \A u \in InOrder' : u <= q.txn => u \in Have(q.from)'
  <2>1. q = [from |-> r.to, txn |-> r.batch[Len(r.batch)]]
    BY <1>2 DEF Replicate
  <2>2. r.to \in Followers /\ r.batch \in Seq(Txn) /\ r.batch # <<>>
    BY <1>0 DEF TInv, TypeOK, BatchesNonEmpty
  <2>3. r.batch[Len(r.batch)] \in Elems(r.batch)
    BY <2>2 DEF Elems
  <2>4. recorded' = recorded /\ InOrder' = InOrder
    BY <1>2 DEF Replicate, records, InOrder
  <2>5. /\ Elems(r.batch) \subseteq recorded
        /\ \A u \in InOrder :
              u <= r.batch[Len(r.batch)] => u \in Elems(r.batch) \cup Have(r.to)
    BY <1>0 DEF RequestsCovered
  <2>6. Have(r.to)' = Have(r.to) \cup Elems(r.batch)
    BY <1>0, <1>2, <2>2 DEF Have, Replicate, TInv, TypeOK
  <2> QED
    BY <2>1, <2>3, <2>4, <2>5, <2>6
<1> QED
  BY <1>1, <1>2, NetworkFrame

\* A batch, with what its follower has, makes a prefix, although the id it starts
\* from was read before the queue.
LEMMA RequestsStep ==
    ASSUME IInv, [Next]_vars
    PROVE  RequestsCovered'
<1>0. TInv /\ QueueRecorded /\ Trimmed /\ AckedCovered /\ RequestsCovered
  BY DEF IInv
<1>h. \A f \in Followers : Have(f) \subseteq Have(f)'
  BY <1>0, HaveGrows
<1> SUFFICES ASSUME NEW r \in requests'
             PROVE  /\ Elems(r.batch) \subseteq recorded'
                    /\ \A u \in InOrder' : u <= r.batch[Len(r.batch)]
                          => u \in Elems(r.batch) \cup Have(r.to)'
  BY DEF RequestsCovered, Have
<1>1. CASE r \in requests
  <2>1. /\ r.to \in Followers
        /\ Elems(r.batch) \subseteq recorded
        /\ \A u \in InOrder :
              u <= r.batch[Len(r.batch)] => u \in Elems(r.batch) \cup Have(r.to)
    BY <1>0, <1>1 DEF TInv, TypeOK, RequestsCovered
  <2>2. r.batch[Len(r.batch)] \in recorded
    BY <1>0, <1>1, <2>1 DEF TInv, TypeOK, BatchesNonEmpty, Elems
  <2>3. CASE UNCHANGED <<recorded, overtaken>>
    BY <1>h, <2>1, <2>3 DEF InOrder
  <2>4. ASSUME NEW x \in Txn, Grown(x)
        PROVE  /\ Elems(r.batch) \subseteq recorded'
               /\ \A u \in InOrder' : u <= r.batch[Len(r.batch)]
                     => u \in Elems(r.batch) \cup Have(r.to)'
    <3> DEFINE end == r.batch[Len(r.batch)]
    <3>1. x \in Int /\ end \in Int
      <4>1. recorded \subseteq Txn /\ Txn \subseteq Int
        BY <1>0, BoundsAssumption DEF Txn, TInv, TypeOK
      <4> QED
        BY <2>2, <4>1
    <3>2. ASSUME x \in InOrder', x <= end PROVE x \in InOrder
      <4>1. x \notin overtaken /\ \A u \in recorded : u <= x
        BY <2>4, <3>2 DEF Grown, InOrder
      <4>2. end <= x
        BY <2>2, <4>1
      <4>3. end = x
        BY <3>1, <3>2, <4>2
      <4> QED
        BY <2>2, <4>1, <4>3 DEF InOrder
    <3>3. \A u \in InOrder' : u \in InOrder \/ u = x
      BY <2>4 DEF Grown, InOrder
    <3>4. recorded \subseteq recorded'
      BY <2>4 DEF Grown
    <3> QED
      BY <1>h, <2>1, <3>2, <3>3, <3>4
  <2> QED
    BY <1>0, <2>3, <2>4, RecordedGrows
<1>2. ASSUME NEW f \in Followers, Send(f), r \notin requests
      PROVE  /\ Elems(r.batch) \subseteq recorded'
             /\ \A u \in InOrder' : u <= r.batch[Len(r.batch)]
                   => u \in Elems(r.batch) \cup Have(r.to)'
  <2>1. r.to = f /\ r.batch = After(pending, sfrom[f]) /\ recorded' = recorded /\ InOrder' = InOrder
    BY <1>2 DEF Send, records, InOrder
  <2>2. Txn \in SUBSET Int /\ pending \in Seq(Txn) /\ sfrom[f] \in Int /\ InOrder \subseteq Int
    BY <1>0, BoundsAssumption DEF TInv, TypeOK, Txn, InOrder
  <2>3. Elems(r.batch) = {u \in Elems(pending) : u > sfrom[f]}
    BY <2>1, <2>2, AfterFacts
  <2>4. ASSUME NEW u \in InOrder
        PROVE  u \in Elems(r.batch) \cup Have(f)
    <3>1. CASE u <= sfrom[f]
      BY <1>0, <3>1 DEF AckedCovered, Covered
    <3>2. CASE u > sfrom[f] /\ u \in Elems(pending)
      BY <2>3, <3>2
    <3>3. CASE u \notin Elems(pending)
      BY <1>0, <3>3 DEF Trimmed
    <3> QED
      BY <2>2, <3>1, <3>2, <3>3
  <2> QED
    BY <1>0, <1>h, <2>1, <2>3, <2>4 DEF QueueRecorded
<1> QED
  BY <1>1, <1>2, NetworkFrame

\* While trim_acked holds its limit, no watched replica's acknowledged id falls.
LEMMA TrimBelowStep ==
    ASSUME IInv, [Next]_vars
    PROVE  TrimBelow'
<1>0. TInv /\ TrimBelow
  BY DEF IInv
<1> USE DEF TInv, engine, records, sends, acks, trims, nodes
<1>1. ASSUME NEW w \in Writers,
             LogMutation(w) \/ RecordPush(w) \/ RecordReadMax(w) \/ RecordUpdate(w)
      PROVE  UNCHANGED <<trims, lastAcked>>
  BY <1>1 DEF LogMutation, RecordPush, RecordReadMax, RecordUpdate
<1>2. ASSUME NEW f \in Followers, SendRead(f) \/ Send(f) \/ Restart(f)
      PROVE  UNCHANGED <<trims, lastAcked>>
  BY <1>2 DEF SendRead, Send, Restart
<1>3. ASSUME NEW f \in Followers, AddReplica(f) \/ RemoveReplica(f) PROVE TrimBelow'
  <2>1. /\ watched' = watched \ {f} /\ lastAcked' = [lastAcked EXCEPT ![f] = 0]
        /\ UNCHANGED <<tpc, tmin>>
    BY <1>3 DEF AddReplica, RemoveReplica
  <2> QED
    BY <1>0, <2>1 DEF TrimBelow, TypeOK
<1>4. ASSUME NEW f \in Followers, AckUpdate(f) PROVE TrimBelow'
  <2>1. /\ \/ lastAcked' = lastAcked
           \/ atxn[f] > lastAcked[f] /\ lastAcked' = [lastAcked EXCEPT ![f] = atxn[f]]
        /\ UNCHANGED <<tpc, tmin, watched>>
    BY <1>0, <1>4, AckUpdateAcked DEF AckUpdate
  <2>2. CASE lastAcked' = lastAcked
    BY <1>0, <2>1, <2>2 DEF TrimBelow
  <2>3. CASE atxn[f] > lastAcked[f] /\ lastAcked' = [lastAcked EXCEPT ![f] = atxn[f]]
    <3>1. /\ tmin \in Int /\ atxn[f] \in Int /\ lastAcked[f] \in Int
          /\ \A g \in watched : lastAcked'[g] = IF g = f THEN atxn[f] ELSE lastAcked[g]
      BY <1>0, <2>3 DEF TypeOK
    <3> QED
      BY <1>0, <2>1, <2>3, <3>1 DEF TrimBelow
  <2> QED
    BY <2>1, <2>2, <2>3
<1>5. ASSUME NEW r \in requests, Replicate(r)
      PROVE  UNCHANGED <<trims, lastAcked>>
  BY <1>5 DEF Replicate
<1>6. ASSUME NEW r \in requests, NEW k \in 0..(Len(r.batch) - 1), ReplicateError(r, k)
      PROVE  UNCHANGED <<trims, lastAcked>>
  BY <1>6 DEF ReplicateError
<1>7. ASSUME NEW r \in responses, AckRead(r)
      PROVE  UNCHANGED <<trims, lastAcked>>
  BY <1>7 DEF AckRead
<1>8. ASSUME TrimRead \/ TrimRetain PROVE TrimBelow'
  BY <1>8 DEF TrimRead, TrimRetain, TrimBelow
<1>9. CASE UNCHANGED vars
  BY <1>0, <1>9 DEF vars, TrimBelow
<1>10. ASSUME UNCHANGED <<trims, lastAcked>> PROVE TrimBelow'
  BY <1>0, <1>10 DEF TrimBelow
<1> QED
  BY <1>1, <1>2, <1>3, <1>4, <1>5, <1>6, <1>7, <1>8, <1>9, <1>10 DEF Next

\* Every step keeps the invariant.
LEMMA IInvStep == IInv /\ [Next]_vars => IInv'
<1> SUFFICES ASSUME IInv, [Next]_vars PROVE IInv'
  OBVIOUS
<1>1. TInv'
  BY TInvStep DEF IInv
<1> QED
  BY <1>1, QueueStep, AckedStep, ResponsesStep, RequestsStep, TrimBelowStep DEF IInv

-----------------------------------------------------------------------------
(* Theorems *)

\* The inductive invariant: every id that the leader's table, a call in
\* progress or a response holds covers a prefix of what was recorded in the
\* order of the ids, and such an entry leaves the queue only when no follower can
\* still need it.
THEOREM ReplicationInvariant == Spec => []IInv
<1>1. Init => IInv
  BY IInvInit
<1>2. IInv /\ [Next]_vars => IInv'
  BY IInvStep
<1> QED
  BY <1>1, <1>2, PTL DEF Spec

\* A replica whose last_acked_txn_id is t has applied every recorded entry up to t,
\* lost and overtaken ones apart, for any number of writers, followers, requests,
\* responses, removals and restarts.
THEOREM ReplicationNoGap == Spec => []NoGap
<1>1. IInv => NoGap
  BY DEF IInv, InOrder, TInv, TypeOK, AckedCovered, Covered, Have, NoGap
<1> QED
  BY <1>1, ReplicationInvariant, PTL

\* replication_lag is never below the number of entries in order that the replica
\* lacks: they are in the queue, above what it acknowledged and not above the
\* queue's last entry, when that is in order.
LEMMA IInvLagCovers == IInv => LagCovers
<1> SUFFICES ASSUME IInv, NEW f \in replicas, lost[f] = {}, LastPending \notin overtaken
             PROVE  Cardinality(recorded \ (overtaken \cup applied[f])) <= ReplicationLag(f)
  BY DEF LagCovers
<1> DEFINE missing == recorded \ (overtaken \cup applied[f])
           a == lastAcked[f]
           b == LastPending
<1>1. f \in Followers /\ a \in Nat /\ recorded \subseteq Int
  BY BoundsAssumption DEF IInv, TInv, TypeOK, Txn
<1>2. b \in Nat
  BY LastPendingTxn, BoundsAssumption DEF IInv, TInv
<1>3. ASSUME NEW u \in missing PROVE u \in (a + 1)..b
  <2>1. u \notin Have(f) /\ u \in InOrder
    BY DEF Have, InOrder
  <2>2. ~(u <= a)
    BY <1>1, <2>1 DEF IInv, AckedCovered, Covered
  <2>3. u \in Elems(pending)
    BY <1>1, <2>1 DEF IInv, Trimmed
  <2>4. u <= b
    <3>1. pending \in Seq(Txn) /\ Len(pending) \in Nat
      BY DEF IInv, TInv, TypeOK
    <3>2. PICK i \in DOMAIN pending : u = pending[i]
      BY <2>3 DEF Elems
    <3>3. i \in 1..Len(pending) /\ pending # <<>> /\ Len(pending) \in DOMAIN pending
      BY <3>1
    <3>4. b = pending[Len(pending)]
      BY <3>3 DEF LastPending
    <3>5. CASE i = Len(pending)
      BY <1>2, <3>2, <3>4, <3>5
    <3>6. CASE i < Len(pending)
      BY <3>2, <3>3, <3>4, <3>6 DEF IInv, QueueOrdered, Ordered
    <3> QED
      BY <3>1, <3>3, <3>5, <3>6
  <2> QED
    BY <1>1, <1>2, <2>2, <2>4
<1>4. /\ IsFiniteSet((a + 1)..b)
      /\ Cardinality((a + 1)..b) = IF a + 1 > b THEN 0 ELSE b - (a + 1) + 1
  <2>1. a + 1 \in Int /\ b \in Int
    BY <1>1, <1>2
  <2> HIDE DEF a, b
  <2> QED
    BY <2>1, FS_Interval
<1>5. Cardinality(missing) <= Cardinality((a + 1)..b)
  BY <1>3, <1>4, FS_Subset
<1>6. ReplicationLag(f) = IF b > a THEN b - a ELSE 0
  BY DEF ReplicationLag, Minus
<1>7. Cardinality((a + 1)..b) = ReplicationLag(f)
  BY <1>1, <1>2, <1>4, <1>6
<1> QED
  BY <1>5, <1>7

\* The lag that decides whether a replica may be promoted is at least the number of
\* entries the replica lacks, lost and overtaken ones apart, in every reachable
\* state in which the queue does not end with an overtaken entry.
THEOREM ReplicationLagCovers == Spec => []LagCovers
  BY IInvLagCovers, ReplicationInvariant, PTL

=============================================================================
