---------------------------- MODULE RankingProofs ----------------------------
(***************************************************************************)
(* What the list operations of module Ranking give for every list: they    *)
(* all return lists, and sorting, dropping duplicates and cutting, in this *)
(* order, gives the best elements.                                         *)
(***************************************************************************)
EXTENDS Ranking, InductionFacts, FiniteSetTheorems, SequenceTheorems

\* s is a list, whatever its elements are.
IsSeq(s) == s \in Seq({s[i] : i \in DOMAIN s})

-----------------------------------------------------------------------------
(* Lists *)

\* A member of Seq(X) is a list.
LEMMA SeqIsSeq ==
    ASSUME NEW X, NEW s \in Seq(X)
    PROVE  IsSeq(s)
<1>1. DOMAIN s = 1..Len(s) /\ Len(s) \in Nat
  OBVIOUS
<1> DEFINE Y == {s[i] : i \in DOMAIN s}
<1>2. s \in [1..Len(s) -> Y]
  BY <1>1
<1>3. s \in Seq(Y)
  <2> HIDE DEF Y
  <2> QED
    BY <1>1, <1>2
<1> QED
  BY <1>3 DEF IsSeq

\* A function on 1..n is a list of length n.
LEMMA FunctionIsSeq ==
    ASSUME NEW n \in Nat, NEW f, f = [i \in 1..n |-> f[i]]
    PROVE  IsSeq(f) /\ Len(f) = n
<1> DEFINE Y == {f[i] : i \in 1..n}
<1>1. f \in [1..n -> Y]
  OBVIOUS
<1>2. f \in Seq(Y)
  <2> HIDE DEF Y
  <2> QED
    BY <1>1
<1>3. Len(f) = n
  BY <1>1
<1> QED
  BY <1>2, <1>3, SeqIsSeq

\* What is known of a list without its elements.
LEMMA IsSeqFacts ==
    ASSUME NEW s, IsSeq(s)
    PROVE  Len(s) \in Nat /\ DOMAIN s = 1..Len(s) /\ s = [i \in 1..Len(s) |-> s[i]]
BY DEF IsSeq

\* A part of a list from its first or a later element on.
LEMMA SubSeqIsSeq ==
    ASSUME NEW s, IsSeq(s), NEW m \in Nat, NEW n \in Nat, m >= 1, n <= Len(s)
    PROVE  IsSeq(SubSeq(s, m, n))
<1> DEFINE Y == {s[i] : i \in DOMAIN s}
<1>1. s \in Seq(Y)
  BY DEF IsSeq
<1>2. SubSeq(s, m, n) \in Seq(Y)
  <2> HIDE DEF Y
  <2>1. Len(s) \in Nat /\ \A i \in 1..Len(s) : s[i] \in Y
    BY <1>1
  <2> QED
    BY <1>1, <2>1
<1> QED
  BY <1>2, SeqIsSeq

\* Fixed returns the list it is given.
LEMMA FixedIsSeq ==
    ASSUME NEW n \in Nat, NEW f, f = [i \in 1..n |-> f[i]]
    PROVE  IsSeq(Fixed(f)) /\ Fixed(f) = f
<1>1. IsSeq(f) /\ Len(f) = n
  BY FunctionIsSeq
<1>2. IsSeq(Fixed(f))
  BY <1>1, SubSeqIsSeq DEF Fixed
<1> DEFINE Y == {f[i] : i \in DOMAIN f}
<1>3. f \in Seq(Y)
  BY <1>1 DEF IsSeq
<1>4. SubSeq(f, 1, Len(f)) = f
  <2> HIDE DEF Y
  <2> QED
    BY <1>3
<1> QED
  BY <1>2, <1>4 DEF Fixed

\* Two lists put together.
LEMMA ConcatIsSeq ==
    ASSUME NEW s, NEW t, IsSeq(s), IsSeq(t)
    PROVE  IsSeq(s \o t)
<1> DEFINE Y == {s[i] : i \in DOMAIN s}
           Z == {t[i] : i \in DOMAIN t}
<1>1. s \in Seq(Y) /\ t \in Seq(Z)
  BY DEF IsSeq
<1>2. s \in Seq(Y \cup Z) /\ t \in Seq(Y \cup Z)
  <2> HIDE DEF Y, Z
  <2> QED
    BY <1>1
<1>3. s \o t \in Seq(Y \cup Z)
  <2> HIDE DEF Y, Z
  <2> QED
    BY <1>2
<1> QED
  BY <1>3, SeqIsSeq

\* One element more.
LEMMA AppendIsSeq ==
    ASSUME NEW s, IsSeq(s), NEW e
    PROVE  /\ IsSeq(Append(s, e)) /\ Len(Append(s, e)) = Len(s) + 1
           /\ Append(s, e)[Len(s) + 1] = e
           /\ \A i \in 1..Len(s) : Append(s, e)[i] = s[i]
<1> DEFINE Y == {s[i] : i \in DOMAIN s} \cup {e}
<1>1. s \in Seq({s[i] : i \in DOMAIN s})
  BY DEF IsSeq
<1>2. s \in Seq(Y) /\ e \in Y
  BY <1>1
<1>3. /\ Append(s, e) \in Seq(Y) /\ Len(Append(s, e)) = Len(s) + 1
      /\ Append(s, e)[Len(s) + 1] = e
      /\ \A i \in 1..Len(s) : Append(s, e)[i] = s[i]
  <2> HIDE DEF Y
  <2> QED
    BY <1>2
<1> QED
  BY <1>3, SeqIsSeq

-----------------------------------------------------------------------------
(* The operations *)

\* truncate returns a list.
LEMMA TruncateIsSeq ==
    ASSUME NEW s, IsSeq(s), NEW k \in Nat
    PROVE  IsSeq(Truncate(s, k))
<1>1. Len(s) \in Nat
  BY IsSeqFacts
<1> QED
  BY <1>1, SubSeqIsSeq DEF Truncate

\* skip returns a list.
LEMMA SkipIsSeq ==
    ASSUME NEW s, IsSeq(s), NEW k \in Nat
    PROVE  IsSeq(Skip(s, k))
<1>1. Len(s) \in Nat
  BY IsSeqFacts
<1> QED
  BY <1>1, SubSeqIsSeq DEF Skip

\* sort_by returns a list.
LEMMA SortIsSeq ==
    ASSUME NEW s, IsSeq(s)
    PROVE  IsSeq(StableSort(s, Ascending)) /\ IsSeq(StableSort(s, Descending))
<1>1. Len(s) \in Nat /\ DOMAIN s = 1..Len(s)
  BY IsSeqFacts
<1> DEFINE up == Fixed([i \in DOMAIN s |-> SortRank(s, Ascending, i)])
           f == [k \in DOMAIN s |-> s[CHOOSE i \in DOMAIN s : up[i] = k]]
           down == Fixed([i \in DOMAIN s |-> SortRank(s, Descending, i)])
           g == [k \in DOMAIN s |-> s[CHOOSE i \in DOMAIN s : down[i] = k]]
<1>2. f = [k \in 1..Len(s) |-> f[k]] /\ g = [k \in 1..Len(s) |-> g[k]]
  <2> HIDE DEF up, down
  <2> QED
    BY <1>1
<1>3. StableSort(s, Ascending) = Fixed(f) /\ StableSort(s, Descending) = Fixed(g)
  BY DEF StableSort
<1>4. IsSeq(Fixed(f)) /\ IsSeq(Fixed(g))
  <2> HIDE DEF f, g
  <2> QED
    BY <1>1, <1>2, FixedIsSeq
<1> QED
  BY <1>3, <1>4

\* The elements at a set of positions, as KeepIndices and its users take them.
LEMMA KeptIsSeq ==
    ASSUME NEW s, IsSeq(s), NEW K \in SUBSET (DOMAIN s)
    PROVE  IsSeq(Fixed([k \in DOMAIN Sorted(K) |-> s[Sorted(K)[k]]]))
<1>1. IsFiniteSet(DOMAIN s)
  BY IsSeqFacts, FS_Interval
<1>2. Cardinality(K) \in Nat
  BY <1>1, FS_Subset, FS_CardinalityType
<1>3. DOMAIN Sorted(K) = 1..Cardinality(K)
  BY DEF Sorted
<1> DEFINE f == [k \in DOMAIN Sorted(K) |-> s[Sorted(K)[k]]]
<1>4. f = [k \in 1..Cardinality(K) |-> f[k]]
  BY <1>3
<1> HIDE DEF f
<1> QED
  BY <1>2, <1>4, FixedIsSeq DEF f

\* The two ways to drop duplicates return lists.
LEMMA DedupIsSeq ==
    ASSUME NEW s, IsSeq(s)
    PROVE  IsSeq(DedupById(s)) /\ IsSeq(DedupNeighbours(s))
<1> DEFINE K == {i \in DOMAIN s : \A j \in DOMAIN s : j < i => s[j].id # s[i].id}
           N == {i \in DOMAIN s : i = 1 \/ s[i - 1].id # s[i].id}
<1>1. DedupById(s) = Fixed([k \in DOMAIN Sorted(K) |-> s[Sorted(K)[k]]])
  BY DEF DedupById, KeepIndices
<1>2. DedupNeighbours(s) = Fixed([k \in DOMAIN Sorted(N) |-> s[Sorted(N)[k]]])
  BY DEF DedupNeighbours, KeepIndices
<1>3. K \in SUBSET (DOMAIN s) /\ N \in SUBSET (DOMAIN s)
  OBVIOUS
<1> HIDE DEF K, N
<1> QED
  BY <1>1, <1>2, <1>3, KeptIsSeq

-----------------------------------------------------------------------------
(* Ranks *)

\* R orders S strictly and totally.
StrictOrder(S, R) ==
  /\ \A i \in S : <<i, i>> \notin R
  /\ \A i, j \in S : i # j => <<i, j>> \in R \/ <<j, i>> \in R
  /\ \A i, j, k \in S : <<i, j>> \in R /\ <<j, k>> \in R => <<i, k>> \in R

\* r[i] counts upto[i], the elements of S that R does not put after i.
CountsUpTo(S, R, upto, r) ==
  /\ \A i \in S : upto[i] \in SUBSET S
  /\ \A i, j \in S : j \in upto[i] <=> j = i \/ <<j, i>> \in R
  /\ r = [i \in S |-> Cardinality(upto[i])]

\* r numbers S from 1 to n in the order of R.
Numbers(S, R, r, n) ==
  /\ n \in Nat
  /\ r \in [S -> 1..n]
  /\ \A i, j \in S : <<i, j>> \in R => r[i] < r[j]
  /\ \A i, j \in S : r[i] = r[j] => i = j
  /\ \A k \in 1..n : \E i \in S : r[i] = k

\* In a finite set with a strict total order R, counting the elements up to i
\* numbers the set from 1 to its size in the order of R.
LEMMA RankBijection ==
    ASSUME NEW S, NEW R, NEW upto, NEW r,
           IsFiniteSet(S), StrictOrder(S, R), CountsUpTo(S, R, upto, r)
    PROVE  Numbers(S, R, r, Cardinality(S))
<1>0. /\ \A i \in S : <<i, i>> \notin R
      /\ \A i, j \in S : i # j => <<i, j>> \in R \/ <<j, i>> \in R
      /\ \A i, j, k \in S : <<i, j>> \in R /\ <<j, k>> \in R => <<i, k>> \in R
      /\ \A i \in S : upto[i] \in SUBSET S
      /\ \A i, j \in S : j \in upto[i] <=> j = i \/ <<j, i>> \in R
      /\ r = [i \in S |-> Cardinality(upto[i])]
  BY DEF StrictOrder, CountsUpTo
<1> DEFINE n == Cardinality(S)
           B(i) == upto[i]
<1>1. n \in Nat
  BY FS_CardinalityType
<1>2. ASSUME NEW i \in S
      PROVE  /\ IsFiniteSet(B(i)) /\ Cardinality(B(i)) \in 1..n
             /\ r[i] = Cardinality(B(i))
  <2>1. B(i) \in SUBSET S /\ i \in B(i)
    BY <1>0
  <2> HIDE DEF B
  <2>2. IsFiniteSet(B(i)) /\ Cardinality(B(i)) <= n
    BY <2>1, FS_Subset
  <2>3. Cardinality(B(i)) \in Nat /\ Cardinality(B(i)) # 0
    BY <2>1, <2>2, FS_CardinalityType, FS_EmptySet
  <2>4. r[i] = Cardinality(B(i))
    BY <1>0 DEF B
  <2> QED
    BY <1>1, <2>2, <2>3, <2>4
<1>3. r \in [S -> 1..n]
  <2>1. \A i \in S : r[i] \in 1..n
    BY <1>2
  <2>2. r = [i \in S |-> r[i]]
    BY <1>0
  <2> HIDE DEF n
  <2> QED
    BY <2>1, <2>2
<1>4. ASSUME NEW i \in S, NEW j \in S, <<i, j>> \in R PROVE r[i] < r[j]
  <2>1. B(i) \in SUBSET B(j)
    BY <1>0, <1>4
  <2>2. j \in B(j) /\ j \notin B(i)
    <3>1. j # i
      BY <1>0, <1>4
    <3>2. <<j, i>> \notin R
      BY <1>0, <1>4
    <3> QED
      BY <1>0, <3>1, <3>2
  <2>3. B(i) # B(j)
    BY <2>2
  <2> HIDE DEF B
  <2>4. Cardinality(B(i)) <= Cardinality(B(j)) /\ Cardinality(B(i)) # Cardinality(B(j))
    BY <1>2, <2>1, <2>3, FS_Subset
  <2> QED
    BY <1>1, <1>2, <2>4
<1>5. ASSUME NEW i \in S, NEW j \in S, r[i] = r[j] PROVE i = j
  <2>1. r[i] \in Int /\ r[j] \in Int
    BY <1>1, <1>3
  <2>2. ~(r[i] < r[j]) /\ ~(r[j] < r[i])
    BY <1>5, <2>1
  <2> QED
    BY <1>0, <1>4, <2>2
<1>6. ASSUME NEW k \in 1..n PROVE \E i \in S : r[i] = k
  <2>1. IsFiniteSet(1..n) /\ Cardinality(1..n) = n
    BY <1>1, FS_Interval
  <2>2. r \in Injection(S, 1..n)
    BY <1>3, <1>5 DEF Injection, IsInjective
  <2>3. r \in Surjection(S, 1..n)
    <3> HIDE DEF n
    <3>1. Cardinality(S) = Cardinality(1..n)
      BY <2>1 DEF n
    <3> QED
      BY <2>1, <2>2, <3>1, FS_Injection
  <2> QED
    BY <2>3 DEF Surjection
<1> QED
  BY <1>1, <1>3, <1>4, <1>5, <1>6 DEF Numbers

\* Sorted lists every number of a finite set once, in ascending order.
LEMMA SortedFacts ==
    ASSUME NEW K \in SUBSET Int, IsFiniteSet(K)
    PROVE  /\ Cardinality(K) \in Nat
           /\ Sorted(K) \in [1..Cardinality(K) -> K]
           /\ \A a, b \in 1..Cardinality(K) : a < b => Sorted(K)[a] < Sorted(K)[b]
           /\ \A i \in K : \E a \in 1..Cardinality(K) : Sorted(K)[a] = i
<1> DEFINE R == {p \in K \X K : p[1] < p[2]}
           upto == [i \in K |-> {j \in K : j = i \/ <<j, i>> \in R}]
           r == [i \in K |-> Cardinality(upto[i])]
           n == Cardinality(K)
           f == Sorted(K)
<1>1. /\ \A i \in K : <<i, i>> \notin R
      /\ \A i, j \in K : i # j => <<i, j>> \in R \/ <<j, i>> \in R
      /\ \A i, j, k \in K : <<i, j>> \in R /\ <<j, k>> \in R => <<i, k>> \in R
      /\ \A i, j \in K : <<i, j>> \in R <=> i < j
  OBVIOUS
<1>2. \A i \in K : r[i] = Cardinality({j \in K : j <= i})
  <2> SUFFICES ASSUME NEW i \in K PROVE r[i] = Cardinality({j \in K : j <= i})
    OBVIOUS
  <2>1. {j \in K : j = i \/ <<j, i>> \in R} = {j \in K : j <= i}
    <3>1. \A j \in K : (j = i \/ <<j, i>> \in R) <=> j <= i
      <4> HIDE DEF R
      <4> QED
        BY <1>1
    <3> QED
      BY <3>1
  <2> QED
    BY <2>1
<1>3. /\ n \in Nat /\ r \in [K -> 1..n]
      /\ \A i, j \in K : <<i, j>> \in R => r[i] < r[j]
      /\ \A i, j \in K : r[i] = r[j] => i = j
      /\ \A k \in 1..n : \E i \in K : r[i] = k
  <2>1. r = [i \in K |-> Cardinality(upto[i])]
    OBVIOUS
  <2>2. \A i \in K : upto[i] \in SUBSET K
    OBVIOUS
  <2>3. \A i, j \in K : j \in upto[i] <=> j = i \/ <<j, i>> \in R
    OBVIOUS
  <2> HIDE DEF R, r, upto, n
  <2>4. StrictOrder(K, R)
    BY <1>1 DEF StrictOrder
  <2>5. CountsUpTo(K, R, upto, r)
    BY <2>1, <2>2, <2>3 DEF CountsUpTo
  <2>6. Numbers(K, R, r, n)
    BY <2>4, <2>5, RankBijection DEF n
  <2> QED
    BY <2>6 DEF Numbers
<1> HIDE DEF r, R
<1>4. f = [k \in 1..n |-> CHOOSE i \in K : Cardinality({j \in K : j <= i}) = k]
  BY DEF Sorted
<1>5. ASSUME NEW k \in 1..n PROVE f[k] \in K /\ r[f[k]] = k
  <2>1. PICK i \in K : r[i] = k
    BY <1>3
  <2>2. \E x \in K : Cardinality({j \in K : j <= x}) = k
    BY <1>2, <2>1
  <2>3. f[k] \in K /\ Cardinality({j \in K : j <= f[k]}) = k
    BY <1>4, <2>2
  <2> QED
    BY <1>2, <2>3
<1>6. f \in [1..n -> K]
  <2>1. \A k \in 1..n : f[k] \in K
    BY <1>5
  <2>2. f = [k \in 1..n |-> f[k]]
    BY <1>4
  <2> HIDE DEF f, n
  <2> QED
    BY <2>1, <2>2
<1>7. ASSUME NEW a \in 1..n, NEW b \in 1..n, a < b PROVE f[a] < f[b]
  <2>1. f[a] \in K /\ f[b] \in K /\ r[f[a]] = a /\ r[f[b]] = b
    BY <1>5
  <2>0. a \in Int /\ b \in Int
    BY <1>3
  <2>2. f[a] # f[b]
    BY <1>7, <2>0, <2>1
  <2>3. ~(<<f[b], f[a]>> \in R)
    <3>1. ~(b < a)
      BY <1>7, <2>0
    <3>2. \A i, j \in K : <<i, j>> \in R => r[i] < r[j]
      BY <1>3
    <3>3. <<f[b], f[a]>> \in R => r[f[b]] < r[f[a]]
      BY <2>1, <3>2
    <3> QED
      BY <2>1, <3>1, <3>3
  <2> QED
    BY <1>1, <2>1, <2>2, <2>3
<1>8. ASSUME NEW i \in K PROVE \E a \in 1..n : f[a] = i
  <2>1. r[i] \in 1..n /\ f[r[i]] \in K /\ r[f[r[i]]] = r[i]
    BY <1>3, <1>5
  <2> QED
    BY <1>3, <2>1
<1> QED
  BY <1>3, <1>6, <1>7, <1>8

\* r is the rank of every position after a stable sort of 1..n by key, and p
\* the position at every rank.
RanksBy(n, key, r, p) ==
  /\ r = [i \in 1..n |-> 1 + Cardinality({j \in 1..n :
                               key[j] < key[i] \/ (j < i /\ ~(key[i] < key[j]))})]
  /\ p = [k \in 1..n |-> CHOOSE i \in 1..n : r[i] = k]

\* p lists 1..n in an order that puts the keys in order.
SortsBy(n, key, p) ==
  /\ p \in [1..n -> 1..n]
  /\ \A a, b \in 1..n : a < b => key[p[a]] <= key[p[b]]
  /\ \A a, b \in 1..n : p[a] = p[b] => a = b
  /\ \A i \in 1..n : \E a \in 1..n : p[a] = i

\* A stable sort by a key is a permutation that puts the keys in order.
LEMMA SortByKey ==
    ASSUME NEW n \in Nat, NEW key \in [1..n -> Int], NEW r, NEW p, RanksBy(n, key, r, p)
    PROVE  SortsBy(n, key, p)
<1> DEFINE S == 1..n
           R == {q \in S \X S : key[q[1]] < key[q[2]] \/ (q[1] < q[2] /\ ~(key[q[2]] < key[q[1]]))}
           upto == [i \in S |-> {j \in S : j = i \/ <<j, i>> \in R}]
           rk == [i \in S |-> Cardinality(upto[i])]
<1>0. \A i, j \in S : <<i, j>> \in R <=> key[i] < key[j] \/ (i < j /\ ~(key[j] < key[i]))
  OBVIOUS
<1>1. /\ \A i \in S : <<i, i>> \notin R
      /\ \A i, j \in S : i # j => <<i, j>> \in R \/ <<j, i>> \in R
      /\ \A i, j, k \in S : <<i, j>> \in R /\ <<j, k>> \in R => <<i, k>> \in R
  <2>1. \A i \in S : key[i] \in Int /\ i \in Int
    OBVIOUS
  <2> HIDE DEF R, S
  <2>2. \A i \in S : <<i, i>> \notin R
    BY <1>0, <2>1
  <2>3. \A i, j \in S : i # j => <<i, j>> \in R \/ <<j, i>> \in R
    BY <1>0, <2>1
  <2>4. ASSUME NEW i \in S, NEW j \in S, NEW k \in S, <<i, j>> \in R, <<j, k>> \in R
        PROVE  <<i, k>> \in R
    BY <1>0, <2>1, <2>4, SMTT(30)
  <2> QED
    BY <2>2, <2>3, <2>4
<1>2. IsFiniteSet(S) /\ Cardinality(S) = n
  BY FS_Interval
<1>3. \A i \in S : rk[i] = r[i]
  <2> SUFFICES ASSUME NEW i \in S PROVE rk[i] = r[i]
    OBVIOUS
  <2> DEFINE B == {j \in S : <<j, i>> \in R}
  <2>1. B = {j \in 1..n : key[j] < key[i] \/ (j < i /\ ~(key[i] < key[j]))}
    <3> HIDE DEF R
    <3> QED
      BY <1>0
  <2>2. {j \in S : j = i \/ <<j, i>> \in R} = B \cup {i} /\ i \notin B /\ B \in SUBSET S
    BY <1>1
  <2> HIDE DEF B
  <2>3. IsFiniteSet(B)
    BY <1>2, <2>2, FS_Subset
  <2>4. Cardinality(B \cup {i}) = Cardinality(B) + 1 /\ Cardinality(B) \in Nat
    BY <2>2, <2>3, FS_AddElement, FS_CardinalityType
  <2>5. r[i] = 1 + Cardinality(B)
    BY <2>1 DEF RanksBy
  <2>6. rk[i] = Cardinality(B \cup {i})
    BY <2>2
  <2> HIDE DEF rk
  <2> QED
    BY <2>4, <2>5, <2>6
<1>4. /\ rk \in [S -> 1..n]
      /\ \A i, j \in S : <<i, j>> \in R => rk[i] < rk[j]
      /\ \A i, j \in S : rk[i] = rk[j] => i = j
      /\ \A k \in 1..n : \E i \in S : rk[i] = k
  <2>1. rk = [i \in S |-> Cardinality(upto[i])]
    OBVIOUS
  <2>2. \A i \in S : upto[i] \in SUBSET S
    OBVIOUS
  <2>3. \A i, j \in S : j \in upto[i] <=> j = i \/ <<j, i>> \in R
    OBVIOUS
  <2> HIDE DEF R, S, rk, upto
  <2>4. StrictOrder(S, R)
    BY <1>1 DEF StrictOrder
  <2>5. CountsUpTo(S, R, upto, rk)
    BY <2>1, <2>2, <2>3 DEF CountsUpTo
  <2>6. Numbers(S, R, rk, n)
    BY <1>2, <2>4, <2>5, RankBijection
  <2> QED
    BY <2>6 DEF Numbers
<1> HIDE DEF rk, R
<1>5. \A k \in 1..n : p[k] \in 1..n /\ rk[p[k]] = k
  <2> SUFFICES ASSUME NEW k \in 1..n PROVE p[k] \in 1..n /\ rk[p[k]] = k
    OBVIOUS
  <2>1. p[k] = CHOOSE i \in 1..n : r[i] = k
    BY DEF RanksBy
  <2>2. \E i \in 1..n : r[i] = k
    BY <1>3, <1>4
  <2>3. p[k] \in 1..n /\ r[p[k]] = k
    BY <2>1, <2>2
  <2> QED
    BY <2>3, <1>3
<1>6. p \in [1..n -> 1..n]
  BY <1>5 DEF RanksBy
<1>7. ASSUME NEW a \in 1..n, NEW b \in 1..n, a < b PROVE key[p[a]] <= key[p[b]]
  <2>1. p[a] \in S /\ p[b] \in S /\ rk[p[a]] = a /\ rk[p[b]] = b
    BY <1>5
  <2>2. ~(<<p[b], p[a]>> \in R)
    <3>1. ~(b < a)
      BY <1>7
    <3>2. \A i, j \in S : <<i, j>> \in R => rk[i] < rk[j]
      BY <1>4
    <3>3. <<p[b], p[a]>> \in R => rk[p[b]] < rk[p[a]]
      BY <2>1, <3>2
    <3> QED
      BY <2>1, <3>1, <3>3
  <2>3. key[p[a]] \in Int /\ key[p[b]] \in Int
    BY <2>1
  <2>4. ~(key[p[b]] < key[p[a]])
    <3> HIDE DEF S
    <3> QED
      BY <1>0, <2>1, <2>2
  <2> QED
    BY <2>3, <2>4
<1>8. ASSUME NEW a \in 1..n, NEW b \in 1..n, p[a] = p[b] PROVE a = b
  <2>1. rk[p[a]] = a /\ rk[p[b]] = b
    BY <1>5
  <2> QED
    BY <1>8, <2>1
<1>9. ASSUME NEW i \in 1..n PROVE \E a \in 1..n : p[a] = i
  <2>1. rk[i] \in 1..n /\ p[rk[i]] \in S /\ rk[p[rk[i]]] = rk[i]
    BY <1>4, <1>5
  <2> QED
    BY <1>4, <2>1
<1> QED
  BY <1>6, <1>7, <1>8, <1>9 DEF SortsBy

-----------------------------------------------------------------------------
(* Sorting, removing duplicates and cutting a list of scored results *)

\* Every element of s has a score that can be compared.
Scored(s) == \A i \in DOMAIN s : s[i].score \in Int

\* t is a rearrangement of s.
Rearranged(s, t) ==
  /\ IsSeq(t) /\ Len(t) = Len(s)
  /\ \A k \in DOMAIN t : \E i \in DOMAIN s : t[k] = s[i]
  /\ \A i \in DOMAIN s : \E k \in DOMAIN t : t[k] = s[i]

\* sort_by with the highest score first.
LEMMA SortDescending ==
    ASSUME NEW s, IsSeq(s), Scored(s), NEW t, t = StableSort(s, Descending)
    PROVE  /\ Rearranged(s, t)
           /\ \A a, b \in DOMAIN t : a < b => t[a].score >= t[b].score
<1> DEFINE n == Len(s)
           key == [i \in 1..n |-> 0 - s[i].score]
           r == [i \in 1..n |-> 1 + Cardinality({j \in 1..n : key[j] < key[i] \/ (j < i /\ ~(key[i] < key[j]))})]
           p == [k \in 1..n |-> CHOOSE i \in 1..n : r[i] = k]
<1>1. n \in Nat /\ DOMAIN s = 1..n
  BY IsSeqFacts
<1>2. \A i \in 1..n : s[i].score \in Int
  BY <1>1 DEF Scored
<1>3. key \in [1..n -> Int] /\ \A i \in 1..n : key[i] = 0 - s[i].score
  <2> HIDE DEF n
  <2> QED
    BY <1>2
<1>4. /\ p \in [1..n -> 1..n]
      /\ \A a, b \in 1..n : a < b => key[p[a]] <= key[p[b]]
      /\ \A a, b \in 1..n : p[a] = p[b] => a = b
      /\ \A i \in 1..n : \E a \in 1..n : p[a] = i
  <2>1. RanksBy(n, key, r, p)
    BY DEF RanksBy
  <2> HIDE DEF n, key, r, p
  <2>2. SortsBy(n, key, p)
    BY <1>1, <1>3, <2>1, SortByKey
  <2> QED
    BY <2>2 DEF SortsBy
<1> DEFINE rank == [i \in DOMAIN s |-> SortRank(s, Descending, i)]
<1>5. rank = r
  <2>1. \A i \in 1..n : SortRank(s, Descending, i) = r[i]
    <3> SUFFICES ASSUME NEW i \in 1..n PROVE SortRank(s, Descending, i) = r[i]
      OBVIOUS
    <3> DEFINE A == {j \in DOMAIN s : s[j].score > s[i].score \/ (j < i /\ ~(s[i].score > s[j].score))}
               B == {j \in 1..n : key[j] < key[i] \/ (j < i /\ ~(key[i] < key[j]))}
    <3>1. SortRank(s, Descending, i) = 1 + Cardinality(A)
      BY DEF SortRank, Descending
    <3>2. A = B
      <4>1. \A j \in 1..n : s[j].score > s[i].score <=> key[j] < key[i]
        <5> HIDE DEF key, n
        <5> QED
          BY <1>2, <1>3
      <4>2. \A j \in 1..n : s[i].score > s[j].score <=> key[i] < key[j]
        <5> HIDE DEF key, n
        <5> QED
          BY <1>2, <1>3
      <4> HIDE DEF key, n
      <4> QED
        BY <1>1, <4>1, <4>2
    <3>3. r[i] = 1 + Cardinality(B)
      OBVIOUS
    <3> HIDE DEF A, B, r
    <3> QED
      BY <3>1, <3>2, <3>3
  <2>2. r = [i \in 1..n |-> r[i]] /\ rank = [i \in 1..n |-> SortRank(s, Descending, i)]
    BY <1>1
  <2> HIDE DEF r, rank, n
  <2> QED
    BY <2>1, <2>2
<1>6. Fixed(rank) = r
  <2>1. r = [i \in 1..n |-> r[i]]
    OBVIOUS
  <2> HIDE DEF r, rank, n
  <2> QED
    BY <1>1, <1>5, <2>1, FixedIsSeq
<1> DEFINE f == [k \in DOMAIN s |-> s[CHOOSE i \in DOMAIN s : Fixed(rank)[i] = k]]
<1>7. t = Fixed(f)
  BY DEF StableSort
<1>8. f = [k \in 1..n |-> s[p[k]]]
  <2> HIDE DEF rank, r, n
  <2> QED
    BY <1>1, <1>6
<1>9. IsSeq(t) /\ t = [k \in 1..n |-> s[p[k]]] /\ Len(t) = n
  <2>1. f = [k \in 1..n |-> f[k]]
    <3> HIDE DEF f, p, n
    <3> QED
      BY <1>8
  <2> HIDE DEF f, p, n
  <2>2. IsSeq(t) /\ t = f
    BY <1>1, <1>7, <2>1, FixedIsSeq
  <2>3. Len(f) = n
    BY <1>1, <2>1, FunctionIsSeq
  <2> QED
    BY <1>8, <2>2, <2>3
<1> HIDE DEF n, key, r, p, f, rank
<1>10. DOMAIN t = 1..n /\ \A k \in 1..n : t[k] = s[p[k]] /\ p[k] \in 1..n
  BY <1>4, <1>9
<1>11. Rearranged(s, t)
  <2>1. \A k \in DOMAIN t : \E i \in DOMAIN s : t[k] = s[i]
    BY <1>1, <1>10
  <2>2. \A i \in DOMAIN s : \E k \in DOMAIN t : t[k] = s[i]
    BY <1>1, <1>4, <1>10
  <2> QED
    BY <1>9, <2>1, <2>2 DEF Rearranged, n
<1>12. ASSUME NEW a \in DOMAIN t, NEW b \in DOMAIN t, a < b
       PROVE  t[a].score >= t[b].score
  <2>1. a \in 1..n /\ b \in 1..n /\ t[a] = s[p[a]] /\ t[b] = s[p[b]] /\ p[a] \in 1..n /\ p[b] \in 1..n
    BY <1>10
  <2>2. key[p[a]] <= key[p[b]]
    BY <1>4, <1>12, <2>1
  <2>3. 0 - s[p[a]].score <= 0 - s[p[b]].score
    BY <1>3, <2>1, <2>2
  <2>4. s[p[a]].score \in Int /\ s[p[b]].score \in Int
    BY <1>2, <2>1
  <2> QED
    BY <2>1, <2>3, <2>4
<1> QED
  BY <1>11, <1>12

\* d lists the first element of every id of t; q says where they stand in t.
FirstOfEach(t, d, q) ==
  /\ IsSeq(d)
  /\ \A k \in DOMAIN d : q[k] \in DOMAIN t /\ d[k] = t[q[k]]
  /\ \A a, b \in DOMAIN d : a < b => q[a] < q[b]
  /\ \A k \in DOMAIN d : \A j \in DOMAIN t : j < q[k] => t[j].id # d[k].id
  /\ \A i \in DOMAIN t : \E k \in DOMAIN d : q[k] <= i /\ d[k].id = t[i].id

\* retain(|r| seen.insert(r.id)) keeps the first element of every id.
LEMMA DedupKeepsFirst ==
    ASSUME NEW t, IsSeq(t), NEW d, d = DedupById(t)
    PROVE  \E q : FirstOfEach(t, d, q)
<1> DEFINE K == {i \in DOMAIN t : \A j \in DOMAIN t : j < i => t[j].id # t[i].id}
           q == Sorted(K)
           n == Cardinality(K)
           f == [k \in DOMAIN q |-> t[q[k]]]
<1>1. Len(t) \in Nat /\ DOMAIN t = 1..Len(t)
  BY IsSeqFacts
<1>2. K \in SUBSET Int /\ IsFiniteSet(K) /\ K \in SUBSET (DOMAIN t)
  <2>1. K \in SUBSET (1..Len(t)) /\ IsFiniteSet(1..Len(t))
    BY <1>1, FS_Interval
  <2> HIDE DEF K
  <2>2. IsFiniteSet(K)
    BY <2>1, FS_Subset
  <2>3. 1..Len(t) \in SUBSET Int
    BY <1>1
  <2> QED
    BY <1>1, <2>1, <2>2, <2>3
<1>3. d = Fixed(f)
  BY DEF DedupById, KeepIndices
<1>4. /\ n \in Nat /\ q \in [1..n -> K]
      /\ \A a, b \in 1..n : a < b => q[a] < q[b]
      /\ \A i \in K : \E a \in 1..n : q[a] = i
  <2> HIDE DEF K
  <2> QED
    BY <1>2, SortedFacts
<1>5. \A i \in DOMAIN t : i \in K <=> \A j \in DOMAIN t : j < i => t[j].id # t[i].id
  OBVIOUS
<1> HIDE DEF K, q, n
<1>6. IsSeq(d) /\ DOMAIN d = 1..n /\ \A k \in 1..n : d[k] = t[q[k]]
  <2>1. f = [k \in 1..n |-> f[k]] /\ \A k \in 1..n : f[k] = t[q[k]]
    BY <1>4
  <2> HIDE DEF f
  <2> QED
    BY <1>3, <1>4, <2>1, FixedIsSeq
<1>7. \A k \in DOMAIN d : q[k] \in DOMAIN t /\ d[k] = t[q[k]] /\ q[k] \in K
  BY <1>2, <1>4, <1>6
<1>8. \A k \in DOMAIN d : \A j \in DOMAIN t : j < q[k] => t[j].id # d[k].id
  BY <1>5, <1>7
<1>9. ASSUME NEW i \in DOMAIN t PROVE \E k \in DOMAIN d : q[k] <= i /\ d[k].id = t[i].id
  <2> DEFINE T == {j \in DOMAIN t : t[j].id = t[i].id}
  <2>1. T \in SUBSET Nat /\ T # {} /\ i \in T
    BY <1>1
  <2>2. PICK x \in T : \A y \in T : x <= y
    BY <2>1, LeastElement
  <2>3. x \in DOMAIN t /\ t[x].id = t[i].id /\ x <= i
    BY <2>1, <2>2
  <2>4. \A j \in DOMAIN t : j < x => t[j].id # t[x].id
    <3> SUFFICES ASSUME NEW j \in DOMAIN t, j < x, t[j].id = t[x].id PROVE FALSE
      OBVIOUS
    <3>1. x <= j
      BY <2>2, <2>3
    <3> QED
      BY <1>1, <2>3, <3>1
  <2>5. x \in K
    BY <1>5, <2>3, <2>4
  <2>6. PICK k \in 1..n : q[k] = x
    BY <1>4, <2>5
  <2> QED
    BY <1>6, <2>3, <2>6
<1>10. FirstOfEach(t, d, q)
  BY <1>4, <1>6, <1>7, <1>8, <1>9 DEF FirstOfEach
<1> QED
  BY <1>10

\* Among the elements of s with the id of s[i] there is one with the highest score.
LEMMA BestExists ==
    ASSUME NEW s, IsSeq(s), Scored(s), NEW i \in DOMAIN s
    PROVE  \E m \in DOMAIN s : /\ s[m].id = s[i].id
                               /\ \A j \in DOMAIN s : s[j].id = s[i].id => s[j].score <= s[m].score
<1> DEFINE t == StableSort(s, Descending)
           T == {k \in DOMAIN t : t[k].id = s[i].id}
<1>1. /\ IsSeq(t)
      /\ \A k \in DOMAIN t : \E m \in DOMAIN s : t[k] = s[m]
      /\ \A m \in DOMAIN s : \E k \in DOMAIN t : t[k] = s[m]
      /\ \A a, b \in DOMAIN t : a < b => t[a].score >= t[b].score
  <2>1. t = StableSort(s, Descending)
    OBVIOUS
  <2> HIDE DEF t, T
  <2>2. Rearranged(s, t) /\ \A a, b \in DOMAIN t : a < b => t[a].score >= t[b].score
    BY <2>1, SortDescending
  <2> QED
    BY <2>2 DEF Rearranged
<1> HIDE DEF t
<1>2. Len(t) \in Nat /\ DOMAIN t = 1..Len(t)
  BY <1>1, IsSeqFacts
<1>3. T \in SUBSET Nat /\ T # {}
  BY <1>1, <1>2
<1>4. PICK x \in T : \A y \in T : x <= y
  BY <1>3, LeastElement
<1>5. PICK m \in DOMAIN s : t[x] = s[m]
  BY <1>1, <1>4
<1>6. ASSUME NEW j \in DOMAIN s, s[j].id = s[i].id PROVE s[j].score <= s[m].score
  <2>1. PICK k \in DOMAIN t : t[k] = s[j]
    BY <1>1
  <2>2. x <= k /\ x \in DOMAIN t
    BY <1>4, <1>6, <2>1
  <2>3. s[j].score \in Int /\ s[m].score \in Int
    BY DEF Scored
  <2>4. CASE x = k
    BY <1>5, <2>1, <2>3, <2>4
  <2>5. CASE x < k
    <3>1. t[x].score >= t[k].score
      BY <1>1, <2>2, <2>5
    <3> QED
      BY <1>5, <2>1, <2>3, <3>1
  <2>6. x \in Int /\ k \in Int
    BY <1>2, <2>2
  <2> QED
    BY <2>2, <2>4, <2>5, <2>6
<1> QED
  BY <1>4, <1>5, <1>6

\* rs lists the best elements of s: one for every id, with that id's highest
\* score, the highest first, and at most limit; an id is left out only when
\* there are limit others that are not behind it.
TopOf(s, rs, limit) ==
  /\ IsSeq(rs)
  /\ Len(rs) <= limit
  /\ \A k \in DOMAIN rs : \E i \in DOMAIN s : rs[k] = s[i]
  /\ \A k \in DOMAIN rs : \A i \in DOMAIN s : s[i].id = rs[k].id => s[i].score <= rs[k].score
  /\ \A a, b \in DOMAIN rs : rs[a].id = rs[b].id => a = b
  /\ \A a, b \in DOMAIN rs : a < b => rs[a].score >= rs[b].score
  /\ \A i \in DOMAIN s : \/ \E k \in DOMAIN rs : rs[k].id = s[i].id
                         \/ /\ Len(rs) = limit
                            /\ \A k \in DOMAIN rs : s[i].score <= rs[k].score

\* Sorting, dropping duplicates and only then cutting gives the best elements,
\* for every list and every limit.
THEOREM SortDedupTruncate ==
    ASSUME NEW s, IsSeq(s), Scored(s), NEW limit \in Nat,
           NEW rs, rs = Truncate(DedupById(StableSort(s, Descending)), limit)
    PROVE  TopOf(s, rs, limit)
<1> DEFINE t == StableSort(s, Descending)
           d == DedupById(t)
<1>1. /\ IsSeq(t) /\ Len(t) = Len(s)
      /\ \A k \in DOMAIN t : \E i \in DOMAIN s : t[k] = s[i]
      /\ \A i \in DOMAIN s : \E k \in DOMAIN t : t[k] = s[i]
      /\ \A a, b \in DOMAIN t : a < b => t[a].score >= t[b].score
  BY SortDescending DEF Rearranged
<1>2. rs = Truncate(d, limit)
  OBVIOUS
<1> HIDE DEF t
<1>3. PICK q : FirstOfEach(t, d, q)
  BY <1>1, DedupKeepsFirst
<1> HIDE DEF d
<1>4. /\ IsSeq(d)
      /\ \A k \in DOMAIN d : q[k] \in DOMAIN t /\ d[k] = t[q[k]]
      /\ \A a, b \in DOMAIN d : a < b => q[a] < q[b]
      /\ \A k \in DOMAIN d : \A j \in DOMAIN t : j < q[k] => t[j].id # d[k].id
      /\ \A i \in DOMAIN t : \E k \in DOMAIN d : q[k] <= i /\ d[k].id = t[i].id
  BY <1>3 DEF FirstOfEach
<1>5. /\ Len(t) \in Nat /\ DOMAIN t = 1..Len(t) /\ Len(d) \in Nat /\ DOMAIN d = 1..Len(d)
      /\ DOMAIN s = 1..Len(s)
  BY <1>1, <1>4, IsSeqFacts
<1>6. \A k \in DOMAIN t : t[k].score \in Int
  BY <1>1 DEF Scored
<1>7. ASSUME NEW a \in DOMAIN d, NEW b \in DOMAIN d, d[a].id = d[b].id PROVE a = b
  <2>1. a \in Int /\ b \in Int
    BY <1>5
  <2>2. ~(a < b)
    BY <1>4, <1>7
  <2>3. ~(b < a)
    BY <1>4, <1>7
  <2> QED
    BY <2>1, <2>2, <2>3
<1>8. ASSUME NEW a \in DOMAIN d, NEW b \in DOMAIN d, a < b PROVE d[a].score >= d[b].score
  <2>1. q[a] \in DOMAIN t /\ q[b] \in DOMAIN t /\ q[a] < q[b] /\ d[a] = t[q[a]] /\ d[b] = t[q[b]]
    BY <1>4, <1>8
  <2>2. t[q[a]].score >= t[q[b]].score
    BY <1>1, <2>1
  <2> QED
    BY <2>1, <2>2
<1>9. ASSUME NEW k \in DOMAIN d PROVE \E i \in DOMAIN s : d[k] = s[i]
  <2>1. q[k] \in DOMAIN t /\ d[k] = t[q[k]]
    BY <1>4
  <2>2. PICK i \in DOMAIN s : t[q[k]] = s[i]
    BY <1>1, <2>1
  <2> QED
    BY <2>1, <2>2
\* The element kept of an id is not behind any other element of that id.
<1>10. ASSUME NEW i \in DOMAIN s
       PROVE  \E k \in DOMAIN d : d[k].id = s[i].id /\ s[i].score <= d[k].score
  <2>1. PICK m \in DOMAIN t : t[m] = s[i]
    BY <1>1
  <2>2. PICK k \in DOMAIN d : q[k] <= m /\ d[k].id = t[m].id
    BY <1>4
  <2>3. q[k] \in DOMAIN t /\ d[k] = t[q[k]]
    BY <1>4
  <2>4. q[k] < m \/ q[k] = m
    BY <1>5, <2>2, <2>3
  <2>5. t[q[k]].score >= t[m].score
    <3>1. CASE q[k] = m
      BY <1>6, <3>1
    <3>2. CASE q[k] < m
      BY <1>1, <2>3, <3>2
    <3> QED
      BY <2>4, <3>1, <3>2
  <2>6. t[m].score <= d[k].score
    BY <1>6, <2>3, <2>5
  <2> QED
    BY <2>1, <2>2, <2>6
<1>11. ASSUME NEW k \in DOMAIN d, NEW i \in DOMAIN s, s[i].id = d[k].id
       PROVE  s[i].score <= d[k].score
  <2>1. PICK m \in DOMAIN d : d[m].id = s[i].id /\ s[i].score <= d[m].score
    BY <1>10
  <2>2. m = k
    BY <1>7, <1>11, <2>1
  <2> QED
    BY <2>1, <2>2
<1> DEFINE m == IF Len(d) < limit THEN Len(d) ELSE limit
<1>12. IsSeq(rs) /\ Len(rs) = m /\ DOMAIN rs = 1..m /\ \A k \in 1..m : rs[k] = d[k] /\ k \in DOMAIN d
  <2>1. m \in Nat /\ m <= Len(d)
    BY <1>5
  <2>2. rs = SubSeq(d, 1, m)
    BY <1>2 DEF Truncate
  <2> HIDE DEF m
  <2>3. IsSeq(rs)
    BY <1>4, <2>1, <2>2, SubSeqIsSeq
  <2> DEFINE Y == {d[i] : i \in DOMAIN d}
  <2>4. d \in Seq(Y)
    BY <1>4 DEF IsSeq
  <2> HIDE DEF Y
  <2>5. Len(rs) = m /\ \A k \in 1..m : rs[k] = d[k]
    BY <1>5, <2>1, <2>2, <2>4
  <2>6. DOMAIN rs = 1..m
    BY <2>3, <2>5, IsSeqFacts
  <2> QED
    BY <1>5, <2>1, <2>3, <2>5, <2>6
<1>13. m \in Nat
  BY <1>5
<1>14. ASSUME NEW i \in DOMAIN s
       PROVE  \/ \E k \in DOMAIN rs : rs[k].id = s[i].id
              \/ Len(rs) = limit /\ \A k \in DOMAIN rs : s[i].score <= rs[k].score
  <2>1. PICK k \in DOMAIN d : d[k].id = s[i].id /\ s[i].score <= d[k].score
    BY <1>10
  <2>2. k \notin 1..m => m = limit
    BY <1>5
  <2> HIDE DEF m
  <2>3. CASE k \in 1..m
    BY <1>12, <2>1, <2>3
  <2>4. CASE k \notin 1..m
    <3>1. ASSUME NEW j \in 1..m PROVE s[i].score <= rs[j].score
      <4>1. j < k /\ j \in DOMAIN d /\ rs[j] = d[j]
        BY <1>5, <1>12, <1>13, <2>4
      <4>2. d[j].score >= d[k].score
        BY <1>8, <4>1
      <4>3. d[j].score \in Int /\ d[k].score \in Int /\ s[i].score \in Int
        BY <1>4, <1>6, <4>1 DEF Scored
      <4> QED
        BY <2>1, <4>1, <4>2, <4>3
    <3> QED
      BY <1>12, <2>2, <2>4, <3>1
  <2> QED
    BY <2>3, <2>4
<1>15. m <= limit
  BY <1>5
<1> HIDE DEF m
<1>16. \A k \in DOMAIN rs : k \in DOMAIN d /\ rs[k] = d[k]
  BY <1>12
<1>17. \A k \in DOMAIN rs : \E i \in DOMAIN s : rs[k] = s[i]
  BY <1>9, <1>16
<1>18. \A k \in DOMAIN rs : \A i \in DOMAIN s : s[i].id = rs[k].id => s[i].score <= rs[k].score
  BY <1>11, <1>16
<1>19. \A a, b \in DOMAIN rs : rs[a].id = rs[b].id => a = b
  BY <1>7, <1>16
<1>20. \A a, b \in DOMAIN rs : a < b => rs[a].score >= rs[b].score
  BY <1>8, <1>16
<1> QED
  BY <1>12, <1>14, <1>15, <1>17, <1>18, <1>19, <1>20 DEF TopOf
-----------------------------------------------------------------------------
(* Sorting by any integer key, and the lists that are sorted upwards *)

\* What truncate keeps.
LEMMA TruncateFacts ==
    ASSUME NEW s, IsSeq(s), NEW k \in Nat, NEW t, t = Truncate(s, k)
    PROVE  /\ IsSeq(t) /\ Len(t) <= k /\ Len(t) <= Len(s) /\ Len(t) \in Nat
           /\ DOMAIN t = 1..Len(t) /\ \A i \in 1..Len(t) : t[i] = s[i]
<1> DEFINE m == IF Len(s) < k THEN Len(s) ELSE k
           Y == {s[i] : i \in DOMAIN s}
<1>1. Len(s) \in Nat
  BY IsSeqFacts
<1>2. m \in Nat /\ m <= Len(s) /\ m <= k
  BY <1>1
<1>3. t = SubSeq(s, 1, m)
  BY DEF Truncate
<1>4. s \in Seq(Y)
  BY DEF IsSeq
<1> HIDE DEF m, Y
<1>5. IsSeq(t)
  BY <1>1, <1>2, <1>3, SubSeqIsSeq
<1>6. Len(t) = m /\ \A i \in 1..m : t[i] = s[i]
  BY <1>1, <1>2, <1>3, <1>4
<1>7. DOMAIN t = 1..Len(t)
  BY <1>5, IsSeqFacts
<1> QED
  BY <1>2, <1>5, <1>6, <1>7

\* t lists s in the order p, which puts the keys in order.
SortedBy(s, key, t, p) ==
  /\ IsSeq(t) /\ Len(t) = Len(s)
  /\ SortsBy(Len(s), key, p)
  /\ \A k \in 1..Len(s) : t[k] = s[p[k]]

\* rank[i] is the place of s[i] in a stable sort by key.
RankedBy(s, key, rank) ==
  /\ rank = [i \in DOMAIN s |-> rank[i]]
  /\ \A i \in DOMAIN s :
       rank[i] = 1 + Cardinality({j \in DOMAIN s : key[j] < key[i] \/ (j < i /\ ~(key[i] < key[j]))})

\* t has the elements of s at their ranks.
PlacedBy(s, rank, t) ==
  t = Fixed([k \in DOMAIN s |-> s[CHOOSE i \in DOMAIN s : Fixed(rank)[i] = k]])

\* A stable sort by any order that an integer key stands for.
LEMMA SortFromKey ==
    ASSUME NEW s, IsSeq(s), NEW key \in [1..Len(s) -> Int], NEW rank, RankedBy(s, key, rank),
           NEW t, PlacedBy(s, rank, t)
    PROVE  \E p : SortedBy(s, key, t, p)
<1> DEFINE n == Len(s)
           p == [k \in 1..n |-> CHOOSE i \in 1..n : rank[i] = k]
           f == [k \in DOMAIN s |-> s[CHOOSE i \in DOMAIN s : Fixed(rank)[i] = k]]
<1>1. n \in Nat /\ DOMAIN s = 1..n
  BY IsSeqFacts
<1>2. RanksBy(n, key, rank, p)
  BY <1>1 DEF RanksBy, RankedBy
<1>3. SortsBy(n, key, p)
  <2> HIDE DEF n, p
  <2>1. key \in [1..n -> Int]
    BY DEF n
  <2> QED
    BY <1>1, <1>2, <2>1, SortByKey
<1>4. Fixed(rank) = rank
  <2>1. rank = [i \in 1..n |-> rank[i]]
    BY <1>1 DEF RankedBy
  <2> HIDE DEF n
  <2> QED
    BY <1>1, <2>1, FixedIsSeq
<1>5. f = [k \in 1..n |-> s[p[k]]]
  <2> HIDE DEF n
  <2> QED
    BY <1>1, <1>4
<1>6. f = [k \in 1..n |-> f[k]] /\ \A k \in 1..n : f[k] = s[p[k]]
  <2> HIDE DEF f, p, n
  <2> QED
    BY <1>5
<1>7. t = Fixed(f)
  BY DEF PlacedBy
<1> HIDE DEF n, p, f
<1>8. IsSeq(t) /\ t = f
  BY <1>1, <1>6, <1>7, FixedIsSeq
<1>9. Len(t) = n
  BY <1>1, <1>6, <1>8, FunctionIsSeq
<1>10. SortedBy(s, key, t, p)
  BY <1>3, <1>6, <1>8, <1>9 DEF SortedBy, n
<1> QED
  BY <1>10

\* SortedBy in terms of the two lists alone.
Permuted(s, key, t, p) ==
  /\ IsSeq(t) /\ Len(t) = Len(s) /\ DOMAIN t = 1..Len(s) /\ DOMAIN s = 1..Len(s)
  /\ \A k \in DOMAIN t : p[k] \in DOMAIN s /\ t[k] = s[p[k]]
  /\ \A a, b \in DOMAIN t : a < b => key[p[a]] <= key[p[b]]
  /\ \A a, b \in DOMAIN t : p[a] = p[b] => a = b
  /\ \A i \in DOMAIN s : \E k \in DOMAIN t : p[k] = i

\* What an order by key says of the elements.
LEMMA SortedByFacts ==
    ASSUME NEW s, IsSeq(s), NEW key, NEW t, NEW p, SortedBy(s, key, t, p)
    PROVE  Permuted(s, key, t, p)
<1>1. DOMAIN s = 1..Len(s)
  BY IsSeqFacts
<1>2. DOMAIN t = 1..Len(s)
  BY IsSeqFacts DEF SortedBy
<1>3. SortsBy(Len(s), key, p)
  BY DEF SortedBy
<1>4. /\ p \in [1..Len(s) -> 1..Len(s)]
      /\ \A a, b \in 1..Len(s) : a < b => key[p[a]] <= key[p[b]]
      /\ \A a, b \in 1..Len(s) : p[a] = p[b] => a = b
      /\ \A i \in 1..Len(s) : \E a \in 1..Len(s) : p[a] = i
  BY <1>3 DEF SortsBy
<1> QED
  BY <1>1, <1>2, <1>4 DEF SortedBy, Permuted

\* sort_by with the lowest score first.
LEMMA SortAscending ==
    ASSUME NEW s, IsSeq(s), Scored(s), NEW t, t = StableSort(s, Ascending)
    PROVE  /\ IsSeq(t) /\ Len(t) = Len(s)
           /\ \A k \in DOMAIN t : \E i \in DOMAIN s : t[k] = s[i]
           /\ \A a, b \in DOMAIN t : a < b => t[a].score <= t[b].score
<1> DEFINE n == Len(s)
           key == [i \in 1..n |-> s[i].score]
           rank == [i \in DOMAIN s |-> SortRank(s, Ascending, i)]
<1>1. n \in Nat /\ DOMAIN s = 1..n
  BY IsSeqFacts
<1>2. key \in [1..n -> Int] /\ \A i \in 1..n : key[i] = s[i].score
  <2> HIDE DEF n
  <2> QED
    BY <1>1 DEF Scored
<1>3. RankedBy(s, key, rank)
  <2>1. ASSUME NEW i \in DOMAIN s
        PROVE  rank[i] = 1 + Cardinality({j \in DOMAIN s : key[j] < key[i] \/ (j < i /\ ~(key[i] < key[j]))})
    <3> DEFINE A == {j \in DOMAIN s : s[j].score < s[i].score \/ (j < i /\ ~(s[i].score < s[j].score))}
               B == {j \in DOMAIN s : key[j] < key[i] \/ (j < i /\ ~(key[i] < key[j]))}
    <3>1. rank[i] = 1 + Cardinality(A)
      BY DEF SortRank, Ascending
    <3>2. A = B
      <4> HIDE DEF key, n
      <4> QED
        BY <1>1, <1>2
    <3> HIDE DEF A, rank
    <3> QED
      BY <3>1, <3>2
  <2>2. rank = [i \in DOMAIN s |-> rank[i]]
    OBVIOUS
  <2> HIDE DEF rank
  <2> QED
    BY <2>1, <2>2 DEF RankedBy
<1>4. PlacedBy(s, rank, t)
  BY DEF StableSort, PlacedBy
<1>5. PICK p : SortedBy(s, key, t, p)
  <2> HIDE DEF rank, key
  <2> QED
    BY <1>2, <1>3, <1>4, SortFromKey DEF n
<1> HIDE DEF key, rank, n
<1>. Permuted(s, key, t, p)
  BY <1>5, SortedByFacts
<1>6. /\ IsSeq(t) /\ Len(t) = Len(s)
      /\ \A k \in DOMAIN t : p[k] \in DOMAIN s /\ t[k] = s[p[k]]
      /\ \A a, b \in DOMAIN t : a < b => key[p[a]] <= key[p[b]]
  BY DEF Permuted
<1>7. \A k \in DOMAIN t : key[p[k]] = t[k].score
  BY <1>1, <1>2, <1>6
<1> QED
  BY <1>6, <1>7

\* r lists elements of s, at most limit, each id once, the lowest score first.
LowestOf(s, r, limit) ==
  /\ IsSeq(r) /\ Len(r) <= limit
  /\ \A k \in DOMAIN r : \E i \in DOMAIN s : r[k] = s[i]
  /\ \A a, b \in DOMAIN r : r[a].id = r[b].id => a = b
  /\ \A a, b \in DOMAIN r : a < b => r[a].score <= r[b].score

\* The same three steps with the lowest score first.
LEMMA SortAscendingDedupTruncate ==
    ASSUME NEW s, IsSeq(s), Scored(s), NEW limit \in Nat,
           NEW r, r = Truncate(DedupById(StableSort(s, Ascending)), limit)
    PROVE  LowestOf(s, r, limit)
<1> DEFINE t == StableSort(s, Ascending)
           d == DedupById(t)
<1>1. /\ IsSeq(t)
      /\ \A k \in DOMAIN t : \E i \in DOMAIN s : t[k] = s[i]
      /\ \A a, b \in DOMAIN t : a < b => t[a].score <= t[b].score
  BY SortAscending
<1>2. r = Truncate(d, limit)
  OBVIOUS
<1> HIDE DEF t
<1>3. PICK q : FirstOfEach(t, d, q)
  BY <1>1, DedupKeepsFirst
<1> HIDE DEF d
<1>4. /\ IsSeq(d)
      /\ \A k \in DOMAIN d : q[k] \in DOMAIN t /\ d[k] = t[q[k]]
      /\ \A a, b \in DOMAIN d : a < b => q[a] < q[b]
      /\ \A k \in DOMAIN d : \A j \in DOMAIN t : j < q[k] => t[j].id # d[k].id
  BY <1>3 DEF FirstOfEach
<1>5. Len(d) \in Nat /\ DOMAIN d = 1..Len(d)
  BY <1>4, IsSeqFacts
<1>6. ASSUME NEW a \in DOMAIN d, NEW b \in DOMAIN d, d[a].id = d[b].id PROVE a = b
  <2>1. a \in Int /\ b \in Int
    BY <1>5
  <2>2. ~(a < b)
    BY <1>4, <1>6
  <2>3. ~(b < a)
    BY <1>4, <1>6
  <2> QED
    BY <2>1, <2>2, <2>3
<1>7. ASSUME NEW a \in DOMAIN d, NEW b \in DOMAIN d, a < b PROVE d[a].score <= d[b].score
  <2>1. q[a] \in DOMAIN t /\ q[b] \in DOMAIN t /\ q[a] < q[b] /\ d[a] = t[q[a]] /\ d[b] = t[q[b]]
    BY <1>4, <1>7
  <2> QED
    BY <1>1, <2>1
<1>8. ASSUME NEW k \in DOMAIN d PROVE \E i \in DOMAIN s : d[k] = s[i]
  BY <1>1, <1>4
<1>9. /\ IsSeq(r) /\ Len(r) <= limit
      /\ \A k \in DOMAIN r : k \in DOMAIN d /\ r[k] = d[k]
  <2>1. /\ IsSeq(r) /\ Len(r) <= limit /\ Len(r) <= Len(d) /\ Len(r) \in Nat
        /\ DOMAIN r = 1..Len(r) /\ \A i \in 1..Len(r) : r[i] = d[i]
    BY <1>2, <1>4, TruncateFacts
  <2> QED
    BY <1>5, <2>1
<1> QED
  BY <1>6, <1>7, <1>8, <1>9 DEF LowestOf

=============================================================================
