-------------------------- MODULE VectorIndexProofs --------------------------
(***************************************************************************)
(* Proofs about the HNSW graph, the hot buffer, the Merkle tree and the    *)
(* engine around them, for any ids, points, configurations, clients and    *)
(* bounds.                                                                 *)
(***************************************************************************)
EXTENDS VectorIndex, RankingProofs, TLAPS

-----------------------------------------------------------------------------
(* Lists and their elements *)

\* A list of elements of B.
LEMMA SeqOfElements ==
    ASSUME NEW B, NEW s, IsSeq(s), \A a \in 1..Len(s) : s[a] \in B
    PROVE  s \in Seq(B)
<1>1. Len(s) \in Nat /\ s = [a \in 1..Len(s) |-> s[a]]
  BY IsSeqFacts
<1>2. s \in [1..Len(s) -> B]
  BY <1>1
<1> QED
  BY <1>1, <1>2

\* A list over a part of B is one over B.
LEMMA SeqWider ==
    ASSUME NEW A, NEW B, A \in SUBSET B, NEW s \in Seq(A)
    PROVE  s \in Seq(B)
<1>1. IsSeq(s)
  BY SeqIsSeq
<1>2. \A a \in 1..Len(s) : s[a] \in B
  BY ElementOfSeq
<1> QED
  BY <1>1, <1>2, SeqOfElements

-----------------------------------------------------------------------------
(* Walks on a layer of the graph *)

\* No edge leaves the nodes L on a layer.
ClosedOn(g, layer, L) == \A n \in L : g.edges[n][layer + 1] \in Seq(L)

\* A pass over the edges of a node stays among the nodes of the layer.
LEMMA NearestNeighbourStays ==
    ASSUME NEW g, NEW layer, NEW dist, NEW L, ClosedOn(g, layer, L), NEW from \in L
    PROVE  NearestNeighbour(g, layer, dist, from) \in L
<1> DEFINE list == g.edges[from][layer + 1]
           n == Len(list)
           E(y, i) == IF ~g.del[list[i]] /\ dist[list[i]] < dist[y] THEN list[i] ELSE y
           X == [i \in 0..n |-> L]
           T == [i \in 1..n |-> [y \in L |-> E(y, i)]]
           H == CHOOSE h : h = [i \in 0..n |-> IF i = 0 THEN from ELSE E(h[i - 1], i)]
<1>1. list \in Seq(L)
  BY DEF ClosedOn
<1>2. NearestNeighbour(g, layer, dist, from) = H[n]
  BY DEF NearestNeighbour, Fold
<1> HIDE DEF list
<1>3. n \in Nat /\ \A i \in 1..n : list[i] \in L
  BY <1>1
<1> HIDE DEF n
<1>a. \A i \in 1..n : \A y \in L : E(y, i) \in L
  BY <1>3
<1> HIDE DEF E
<1>4. from \in X[0] /\ \A i \in 1..n : \A y \in X[i - 1] : T[i][y] = E(y, i) /\ E(y, i) \in X[i]
  <2>1. X[0] = L /\ \A i \in 1..n : X[i - 1] = L /\ X[i] = L
    BY <1>3
  <2>2. \A i \in 1..n : \A y \in L : T[i][y] = E(y, i)
    OBVIOUS
  <2> HIDE DEF X, T
  <2> QED
    BY <1>a, <2>1, <2>2
<1> HIDE DEF X, T, H
<1>5. StepsUp(n, X, from, T)
  BY <1>4 DEF StepsUp
<1>6. PICK f : RunsUp(f, n, X, from, T)
  BY <1>3, <1>5, RecursionUp
<1>7. f = [i \in 0..n |-> IF i = 0 THEN from ELSE E(f[i - 1], i)]
  <2>1. /\ f = [i \in 0..n |-> f[i]] /\ f[0] = from /\ \A i \in 1..n : f[i] = T[i][f[i - 1]]
        /\ \A i \in 0..n : f[i] \in X[i]
    BY <1>6 DEF RunsUp
  <2>2. ASSUME NEW i \in 1..n PROVE f[i] = E(f[i - 1], i)
    <3>1. i - 1 \in 0..n
      BY <1>3
    <3> QED
      BY <1>4, <2>1, <3>1
  <2>3. ASSUME NEW i \in 0..n PROVE f[i] = IF i = 0 THEN from ELSE E(f[i - 1], i)
    <3>1. i = 0 \/ (i \in 1..n /\ i # 0)
      BY <1>3
    <3> QED
      BY <2>1, <2>2, <3>1
  <2> QED
    BY <2>1, <2>3
<1>8. H = [i \in 0..n |-> IF i = 0 THEN from ELSE E(H[i - 1], i)]
  BY <1>7 DEF H
<1>9. H[0] = from /\ \A i \in 1..n : H[i] = E(H[i - 1], i)
  BY <1>3, <1>8
<1>10. \A i \in 0..n : H[i] \in X[i]
  <2>1. H[0] \in X[0]
    BY <1>4, <1>9
  <2>2. \A i \in 1..n : H[i - 1] \in X[i - 1] => H[i] \in X[i]
    BY <1>4, <1>9
  <2> QED
    BY <1>3, <2>1, <2>2, StaysUp
<1> QED
  BY <1>2, <1>3, <1>10 DEF X

\* The greedy walk stays among the nodes of the layer.
LEMMA GreedyWalkStays ==
    ASSUME NEW g, Len(g.ids) \in Nat, NEW layer, NEW dist, NEW L, ClosedOn(g, layer, L), NEW start \in L
    PROVE  GreedyWalk(g, start, layer, dist) \in L
<1> DEFINE n == Len(g.ids)
           E(y, i) == NearestNeighbour(g, layer, dist, y)
           X == [i \in 0..n |-> L]
           T == [i \in 1..n |-> [y \in L |-> E(y, i)]]
           H == CHOOSE h : h = [i \in 0..n |-> IF i = 0 THEN start ELSE E(h[i - 1], i)]
<1>2. GreedyWalk(g, start, layer, dist) = H[n]
  BY DEF GreedyWalk
<1>3. n \in Nat
  OBVIOUS
<1>a. \A i \in 1..n : \A y \in L : E(y, i) \in L
  BY NearestNeighbourStays
<1> HIDE DEF E, n
<1> HIDE DEF E
<1>4. start \in X[0] /\ \A i \in 1..n : \A y \in X[i - 1] : T[i][y] = E(y, i) /\ E(y, i) \in X[i]
  <2>1. X[0] = L /\ \A i \in 1..n : X[i - 1] = L /\ X[i] = L
    BY <1>3
  <2>2. \A i \in 1..n : \A y \in L : T[i][y] = E(y, i)
    OBVIOUS
  <2> HIDE DEF X, T
  <2> QED
    BY <1>a, <2>1, <2>2
<1> HIDE DEF X, T, H
<1>5. StepsUp(n, X, start, T)
  BY <1>4 DEF StepsUp
<1>6. PICK f : RunsUp(f, n, X, start, T)
  BY <1>3, <1>5, RecursionUp
<1>7. f = [i \in 0..n |-> IF i = 0 THEN start ELSE E(f[i - 1], i)]
  <2>1. /\ f = [i \in 0..n |-> f[i]] /\ f[0] = start /\ \A i \in 1..n : f[i] = T[i][f[i - 1]]
        /\ \A i \in 0..n : f[i] \in X[i]
    BY <1>6 DEF RunsUp
  <2>2. ASSUME NEW i \in 1..n PROVE f[i] = E(f[i - 1], i)
    <3>1. i - 1 \in 0..n
      BY <1>3
    <3> QED
      BY <1>4, <2>1, <3>1
  <2>3. ASSUME NEW i \in 0..n PROVE f[i] = IF i = 0 THEN start ELSE E(f[i - 1], i)
    <3>1. i = 0 \/ (i \in 1..n /\ i # 0)
      BY <1>3
    <3> QED
      BY <2>1, <2>2, <3>1
  <2> QED
    BY <2>1, <2>3
<1>8. H = [i \in 0..n |-> IF i = 0 THEN start ELSE E(H[i - 1], i)]
  BY <1>7 DEF H
<1>9. H[0] = start /\ \A i \in 1..n : H[i] = E(H[i - 1], i)
  BY <1>3, <1>8
<1>10. \A i \in 0..n : H[i] \in X[i]
  <2>1. H[0] \in X[0]
    BY <1>4, <1>9
  <2>2. \A i \in 1..n : H[i - 1] \in X[i - 1] => H[i] \in X[i]
    BY <1>4, <1>9
  <2> QED
    BY <1>3, <2>1, <2>2, StaysUp
<1> QED
  BY <1>2, <1>3, <1>10 DEF X

\* Nodes can be ordered by their distances.
Measured(dist, S, D) ==
  /\ S \in SUBSET D /\ D \in SUBSET Nat /\ IsFiniteSet(S)
  /\ dist \in [D -> Int]

\* r numbers the nodes S, the nearest first.
NumbersNodes(dist, S, r) ==
  /\ r \in [S -> 1..Cardinality(S)]
  /\ Cardinality(S) \in Nat
  /\ \A a \in S : r[a] = 1 + Cardinality({b \in S : Nearer(dist, b, a)})
  /\ \A a, b \in S : a # b => Nearer(dist, a, b) \/ Nearer(dist, b, a)
  /\ \A a, b \in S : Nearer(dist, a, b) => r[a] < r[b]
  /\ \A a, b \in S : r[a] = r[b] => a = b
  /\ \A k \in 1..Cardinality(S) : \E a \in S : r[a] = k

\* Distance, then number, is a total order on nodes.
LEMMA NodesNumbered ==
    ASSUME NEW dist, NEW S, NEW D, Measured(dist, S, D)
    PROVE  \E r : NumbersNodes(dist, S, r)
<1> DEFINE R == {q \in S \X S : Nearer(dist, q[1], q[2])}
           upto == [i \in S |-> {j \in S : j = i \/ <<j, i>> \in R}]
           r == [i \in S |-> Cardinality(upto[i])]
<1>1. IsFiniteSet(S) /\ \A i \in S : i \in Nat /\ dist[i] \in Int
  BY DEF Measured
<1>2. \A i, j \in S : <<i, j>> \in R <=> Nearer(dist, i, j)
  OBVIOUS
<1>3. StrictOrder(S, R)
  <2> HIDE DEF R
  <2>1. \A i \in S : ~Nearer(dist, i, i)
    BY <1>1 DEF Nearer
  <2>2. \A i, j \in S : i # j => Nearer(dist, i, j) \/ Nearer(dist, j, i)
    BY <1>1 DEF Nearer
  <2>3. \A i, j, k \in S : Nearer(dist, i, j) /\ Nearer(dist, j, k) => Nearer(dist, i, k)
    BY <1>1 DEF Nearer
  <2> QED
    BY <1>2, <2>1, <2>2, <2>3 DEF StrictOrder
<1>4. CountsUpTo(S, R, upto, r)
  <2> HIDE DEF R
  <2> QED
    BY DEF CountsUpTo
<1>5. Numbers(S, R, r, Cardinality(S))
  <2> HIDE DEF R, upto, r
  <2> QED
    BY <1>1, <1>3, <1>4, RankBijection
<1>6. ASSUME NEW a \in S PROVE r[a] = 1 + Cardinality({b \in S : Nearer(dist, b, a)})
  <2> DEFINE A == {b \in S : Nearer(dist, b, a)}
  <2>1. upto[a] = A \cup {a}
    <3> HIDE DEF R
    <3> QED
      BY <1>2
  <2>2. a \notin A /\ A \in SUBSET S
    BY <1>1 DEF Nearer
  <2>3. r[a] = Cardinality(upto[a])
    OBVIOUS
  <2> HIDE DEF A, upto, r
  <2>4. IsFiniteSet(A)
    BY <1>1, <2>2, FS_Subset
  <2>5. Cardinality(A \cup {a}) = Cardinality(A) + 1 /\ Cardinality(A) \in Nat
    BY <2>2, <2>4, FS_AddElement, FS_CardinalityType
  <2>6. r[a] = 1 + Cardinality(A)
    BY <2>1, <2>3, <2>5
  <2> QED
    BY <2>6 DEF A
<1> HIDE DEF R, upto, r
<1>7. /\ Cardinality(S) \in Nat
      /\ r \in [S -> 1..Cardinality(S)]
      /\ \A i, j \in S : <<i, j>> \in R => r[i] < r[j]
      /\ \A i, j \in S : r[i] = r[j] => i = j
      /\ \A k \in 1..Cardinality(S) : \E i \in S : r[i] = k
  BY <1>5 DEF Numbers
<1>8. \A a, b \in S : a # b => Nearer(dist, a, b) \/ Nearer(dist, b, a)
  BY <1>2, <1>3 DEF StrictOrder
<1>9. NumbersNodes(dist, S, r)
  BY <1>2, <1>6, <1>7, <1>8 DEF NumbersNodes
<1> QED
  BY <1>9

\* The heap has a nearest node.
LEMMA NearestExists ==
    ASSUME NEW dist, NEW S, NEW D, Measured(dist, S, D), S # {}
    PROVE  Nearest(dist, S) \in S
<1>1. PICK r : NumbersNodes(dist, S, r)
  BY NodesNumbered
<1>2. /\ r \in [S -> 1..Cardinality(S)]
      /\ Cardinality(S) \in Nat
      /\ \A a, b \in S : a # b => Nearer(dist, a, b) \/ Nearer(dist, b, a)
      /\ \A a, b \in S : Nearer(dist, a, b) => r[a] < r[b]
      /\ \A k \in 1..Cardinality(S) : \E a \in S : r[a] = k
  BY <1>1 DEF NumbersNodes
<1>3. 1 \in 1..Cardinality(S)
  BY <1>2
<1>4. PICK a \in S : r[a] = 1
  BY <1>2, <1>3
<1>5. ASSUME NEW b \in S \ {a} PROVE Nearer(dist, a, b)
  <2>1. ~(r[b] < 1)
    BY <1>2
  <2> QED
    BY <1>2, <1>4, <2>1
<1> QED
  BY <1>4, <1>5 DEF Nearest

\* t lists the elements of S, each once.
Lists(t, S) ==
  /\ t \in Seq(S) /\ Len(t) = Cardinality(S)
  /\ \A a, b \in 1..Len(t) : t[a] = t[b] => a = b

\* into_sorted_vec returns every node of the heap once.
LEMMA NearestFirstLists ==
    ASSUME NEW dist, NEW S, NEW D, Measured(dist, S, D)
    PROVE  Lists(NearestFirst(dist, S), S)
<1> DEFINE n == Cardinality(S)
           Count(a) == Cardinality({b \in S : Nearer(dist, b, a)})
           Pick(k) == CHOOSE a \in S : Count(a) = k - 1
           f == [k \in 1..n |-> Pick(k)]
<1>1. PICK r : NumbersNodes(dist, S, r)
  BY NodesNumbered
<1>2. /\ n \in Nat
      /\ \A a \in S : r[a] \in 1..n /\ r[a] = 1 + Cardinality({b \in S : Nearer(dist, b, a)})
      /\ \A k \in 1..n : \E a \in S : r[a] = k
  BY <1>1 DEF NumbersNodes
<1>3. IsFiniteSet(S)
  BY DEF Measured
<1>4. \A a \in S : Cardinality({b \in S : Nearer(dist, b, a)}) \in Nat
  <2> SUFFICES ASSUME NEW a \in S PROVE Cardinality({b \in S : Nearer(dist, b, a)}) \in Nat
    OBVIOUS
  <2> DEFINE A == {b \in S : Nearer(dist, b, a)}
  <2>1. A \in SUBSET S
    OBVIOUS
  <2> HIDE DEF A
  <2>2. IsFiniteSet(A)
    BY <1>3, <2>1, FS_Subset
  <2>3. Cardinality(A) \in Nat
    BY <2>2, FS_CardinalityType
  <2> QED
    BY <2>3 DEF A
<1>6. \A a \in S : Count(a) \in Nat /\ r[a] = 1 + Count(a)
  BY <1>2, <1>4
<1>7. NearestFirst(dist, S) = Fixed(f)
  BY DEF NearestFirst
<1> HIDE DEF n, Count
<1>9. ASSUME NEW k \in 1..n PROVE Pick(k) \in S /\ Count(Pick(k)) = k - 1
  <2>1. PICK a \in S : r[a] = k
    BY <1>2
  <2>2. Count(a) = k - 1
    BY <1>6, <2>1
  <2> QED
    BY <2>2
<1> HIDE DEF Pick
<1>8. f = [k \in 1..n |-> f[k]] /\ \A k \in 1..n : f[k] \in S /\ Count(f[k]) = k - 1
  BY <1>9
<1> HIDE DEF f
<1>10. Fixed(f) = f
  BY <1>2, <1>8, FixedIsSeq
<1>11. Len(f) = n
  BY <1>2, <1>8, FunctionIsSeq
<1>12. f \in [1..n -> S]
  BY <1>8
<1>13. f \in Seq(S)
  BY <1>2, <1>12
<1>14. \A a, b \in 1..n : f[a] = f[b] => a = b
  <2> SUFFICES ASSUME NEW a \in 1..n, NEW b \in 1..n, f[a] = f[b] PROVE a = b
    OBVIOUS
  <2>1. a - 1 = b - 1
    BY <1>8
  <2> QED
    BY <1>2, <2>1
<1> QED
  BY <1>7, <1>10, <1>11, <1>13, <1>14 DEF Lists, n

\* Part of a set of nodes can be ordered too.
LEMMA MeasuredSubset ==
    ASSUME NEW dist, NEW L, NEW D, Measured(dist, L, D), NEW S \in SUBSET L
    PROVE  Measured(dist, S, D)
<1>1. IsFiniteSet(S)
  BY FS_Subset DEF Measured
<1> QED
  BY <1>1 DEF Measured

\* The states of a search among the nodes L.
SearchStates(L) == [visited : SUBSET L, candidates : SUBSET L, results : SUBSET L]

\* A neighbour that is met, or passed over, is one of the layer.
LEMMA VisitStays ==
    ASSUME NEW g, NEW L, NEW st \in SearchStates(L), NEW n \in L, NEW ef, NEW dist
    PROVE  Visit(g, st, n, ef, dist) \in SearchStates(L)
<1> DEFINE far == Farthest(dist, st.results)
           Trim(S) == IF Cardinality(S) > ef THEN S \ {Farthest(dist, S)} ELSE S
           kept == Trim(st.results \cup {n})
<1>1. kept \in SUBSET L
  BY DEF SearchStates
<1>2. /\ [visited |-> st.visited \cup {n}, candidates |-> st.candidates \cup {n}, results |-> kept]
            \in SearchStates(L)
      /\ [st EXCEPT !.visited = @ \cup {n}] \in SearchStates(L)
  <2> HIDE DEF kept
  <2> QED
    BY <1>1 DEF SearchStates
<1>3. Meet(st, n, ef, dist) \in SearchStates(L)
  <2>1. \/ Meet(st, n, ef, dist) = [visited |-> st.visited \cup {n},
                                    candidates |-> st.candidates \cup {n}, results |-> kept]
        \/ Meet(st, n, ef, dist) = [st EXCEPT !.visited = @ \cup {n}]
    BY DEF Meet
  <2> HIDE DEF kept
  <2> QED
    BY <1>2, <2>1
<1> QED
  BY <1>3 DEF Visit

\* The expansion of a candidate stays on the layer.
LEMMA ExpandStays ==
    ASSUME NEW g, NEW layer, NEW L, ClosedOn(g, layer, L), NEW st \in SearchStates(L), NEW from \in L,
           NEW ef, NEW dist
    PROVE  Expand(g, st, from, ef, layer, dist) \in SearchStates(L)
<1> DEFINE list == g.edges[from][layer + 1]
           n == Len(list)
           base == [st EXCEPT !.candidates = @ \ {from}]
           E(y, i) == Visit(g, y, list[i], ef, dist)
           X == [i \in 0..n |-> SearchStates(L)]
           T == [i \in 1..n |-> [y \in SearchStates(L) |-> E(y, i)]]
           H == CHOOSE h : h = [i \in 0..n |-> IF i = 0 THEN base ELSE E(h[i - 1], i)]
<1>1. list \in Seq(L)
  BY DEF ClosedOn
<1>2. \/ Expand(g, st, from, ef, layer, dist) = H[n]
      \/ Expand(g, st, from, ef, layer, dist) = [st EXCEPT !.candidates = {}]
  BY DEF Expand, Fold
<1>b. base \in SearchStates(L) /\ [st EXCEPT !.candidates = {}] \in SearchStates(L)
  BY DEF SearchStates
<1> HIDE DEF list, base
<1>3. n \in Nat /\ \A i \in 1..n : list[i] \in L
  BY <1>1
<1> HIDE DEF n
<1>a. base \in SearchStates(L) /\ \A i \in 1..n : \A y \in SearchStates(L) : E(y, i) \in SearchStates(L)
  BY <1>3, <1>b, VisitStays
<1> HIDE DEF E
<1>4. base \in X[0] /\ \A i \in 1..n : \A y \in X[i - 1] : T[i][y] = E(y, i) /\ E(y, i) \in X[i]
  <2>1. X[0] = SearchStates(L) /\ \A i \in 1..n : X[i - 1] = SearchStates(L) /\ X[i] = SearchStates(L)
    BY <1>3
  <2>2. \A i \in 1..n : \A y \in SearchStates(L) : T[i][y] = E(y, i)
    OBVIOUS
  <2> HIDE DEF X, T
  <2> QED
    BY <1>a, <2>1, <2>2
<1> HIDE DEF X, T, H
<1>5. StepsUp(n, X, base, T)
  BY <1>4 DEF StepsUp
<1>6. PICK f : RunsUp(f, n, X, base, T)
  BY <1>3, <1>5, RecursionUp
<1>7. f = [i \in 0..n |-> IF i = 0 THEN base ELSE E(f[i - 1], i)]
  <2>1. /\ f = [i \in 0..n |-> f[i]] /\ f[0] = base /\ \A i \in 1..n : f[i] = T[i][f[i - 1]]
        /\ \A i \in 0..n : f[i] \in X[i]
    BY <1>6 DEF RunsUp
  <2>2. ASSUME NEW i \in 1..n PROVE f[i] = E(f[i - 1], i)
    <3>1. i - 1 \in 0..n
      BY <1>3
    <3> QED
      BY <1>4, <2>1, <3>1
  <2>3. ASSUME NEW i \in 0..n PROVE f[i] = IF i = 0 THEN base ELSE E(f[i - 1], i)
    <3>1. i = 0 \/ (i \in 1..n /\ i # 0)
      BY <1>3
    <3> QED
      BY <2>1, <2>2, <3>1
  <2> QED
    BY <2>1, <2>3
<1>8. H = [i \in 0..n |-> IF i = 0 THEN base ELSE E(H[i - 1], i)]
  BY <1>7 DEF H
<1>9. H[0] = base /\ \A i \in 1..n : H[i] = E(H[i - 1], i)
  BY <1>3, <1>8
<1>10. \A i \in 0..n : H[i] \in X[i]
  <2>1. H[0] \in X[0]
    BY <1>4, <1>9
  <2>2. \A i \in 1..n : H[i - 1] \in X[i - 1] => H[i] \in X[i]
    BY <1>4, <1>9
  <2> QED
    BY <1>3, <2>1, <2>2, StaysUp
<1>11. H[n] \in SearchStates(L)
  BY <1>3, <1>10 DEF X
<1> QED
  BY <1>2, <1>11, <1>b

\* A round of the search loop stays on the layer.
LEMMA SearchStepStays ==
    ASSUME NEW g, NEW layer, NEW L, ClosedOn(g, layer, L), NEW st \in SearchStates(L),
           NEW ef, NEW dist, NEW D, Measured(dist, L, D)
    PROVE  SearchStep(g, st, ef, layer, dist) \in SearchStates(L)
<1>1. st.candidates \in SUBSET L
  BY DEF SearchStates
<1>2. CASE st.candidates # {}
  <2>1. Nearest(dist, st.candidates) \in L
    BY <1>1, <1>2, MeasuredSubset, NearestExists
  <2>2. Expand(g, st, Nearest(dist, st.candidates), ef, layer, dist) \in SearchStates(L)
    BY <2>1, ExpandStays
  <2> QED
    BY <1>2, <2>2 DEF SearchStep
<1> QED
  BY <1>2 DEF SearchStep

\* An ef-search returns nodes of the layer, each once.
LEMMA EfSearchLists ==
    ASSUME NEW g, Len(g.ids) \in Nat, NEW layer, NEW L, ClosedOn(g, layer, L), NEW start \in L,
           NEW ef, NEW dist, NEW D, Measured(dist, L, D)
    PROVE  \E S \in SUBSET L : Lists(EfSearch(g, start, ef, layer, dist), S)
<1> DEFINE n == Len(g.ids)
           base == [visited |-> {start}, candidates |-> {start}, results |-> {start}]
           E(y, i) == SearchStep(g, y, ef, layer, dist)
           X == [i \in 0..n |-> SearchStates(L)]
           T == [i \in 1..n |-> [y \in SearchStates(L) |-> E(y, i)]]
           H == CHOOSE h : h = [i \in 0..n |-> IF i = 0 THEN base ELSE E(h[i - 1], i)]
<1>2. EfSearch(g, start, ef, layer, dist) = NearestFirst(dist, H[n].results)
  BY DEF EfSearch
<1>b. base \in SearchStates(L)
  BY DEF SearchStates
<1>3. n \in Nat
  OBVIOUS
<1> HIDE DEF n, base
<1>a. base \in SearchStates(L) /\ \A i \in 1..n : \A y \in SearchStates(L) : E(y, i) \in SearchStates(L)
  BY <1>b, SearchStepStays
<1> HIDE DEF E
<1>4. base \in X[0] /\ \A i \in 1..n : \A y \in X[i - 1] : T[i][y] = E(y, i) /\ E(y, i) \in X[i]
  <2>1. X[0] = SearchStates(L) /\ \A i \in 1..n : X[i - 1] = SearchStates(L) /\ X[i] = SearchStates(L)
    BY <1>3
  <2>2. \A i \in 1..n : \A y \in SearchStates(L) : T[i][y] = E(y, i)
    OBVIOUS
  <2> HIDE DEF X, T
  <2> QED
    BY <1>a, <2>1, <2>2
<1> HIDE DEF X, T, H
<1>5. StepsUp(n, X, base, T)
  BY <1>4 DEF StepsUp
<1>6. PICK f : RunsUp(f, n, X, base, T)
  BY <1>3, <1>5, RecursionUp
<1>7. f = [i \in 0..n |-> IF i = 0 THEN base ELSE E(f[i - 1], i)]
  <2>1. /\ f = [i \in 0..n |-> f[i]] /\ f[0] = base /\ \A i \in 1..n : f[i] = T[i][f[i - 1]]
        /\ \A i \in 0..n : f[i] \in X[i]
    BY <1>6 DEF RunsUp
  <2>2. ASSUME NEW i \in 1..n PROVE f[i] = E(f[i - 1], i)
    <3>1. i - 1 \in 0..n
      BY <1>3
    <3> QED
      BY <1>4, <2>1, <3>1
  <2>3. ASSUME NEW i \in 0..n PROVE f[i] = IF i = 0 THEN base ELSE E(f[i - 1], i)
    <3>1. i = 0 \/ (i \in 1..n /\ i # 0)
      BY <1>3
    <3> QED
      BY <2>1, <2>2, <3>1
  <2> QED
    BY <2>1, <2>3
<1>8. H = [i \in 0..n |-> IF i = 0 THEN base ELSE E(H[i - 1], i)]
  BY <1>7 DEF H
<1>9. H[0] = base /\ \A i \in 1..n : H[i] = E(H[i - 1], i)
  BY <1>3, <1>8
<1>10. \A i \in 0..n : H[i] \in X[i]
  <2>1. H[0] \in X[0]
    BY <1>4, <1>9
  <2>2. \A i \in 1..n : H[i - 1] \in X[i - 1] => H[i] \in X[i]
    BY <1>4, <1>9
  <2> QED
    BY <1>3, <2>1, <2>2, StaysUp
<1>11. H[n] \in SearchStates(L)
  BY <1>3, <1>10 DEF X
<1>12. H[n].results \in SUBSET L
  BY <1>11 DEF SearchStates
<1>13. Measured(dist, H[n].results, D)
  BY <1>12, MeasuredSubset
<1>14. Lists(EfSearch(g, start, ef, layer, dist), H[n].results)
  BY <1>2, <1>13, NearestFirstLists
<1> QED
  BY <1>12, <1>14

\* Every two nodes of L have an edge on the layer.
AllLinked(edges, layer, L) == \A a, b \in L : a # b => b \in ToSet(edges[a][layer + 1])

\* A search with room for all of L that has met exactly the nodes S.
Gathered(st, L, S) == st \in SearchStates(L) /\ st.visited = S /\ st.results = S

\* A live node that is met joins the results while there is room for all.
LEMMA VisitGathers ==
    ASSUME NEW g, NEW L, IsFiniteSet(L), NEW st, NEW S, Gathered(st, L, S), NEW n \in L, ~g.del[n],
           NEW ef \in Nat, Cardinality(L) <= ef, NEW dist
    PROVE  Gathered(Visit(g, st, n, ef, dist), L, S \cup {n})
<1>1. st \in SearchStates(L) /\ st.visited = S /\ st.results = S /\ S \in SUBSET L
  BY DEF Gathered, SearchStates
<1>2. CASE n \in S
  <2>1. Visit(g, st, n, ef, dist) = st /\ S \cup {n} = S
    BY <1>1, <1>2 DEF Visit
  <2> QED
    BY <2>1
<1>3. CASE n \notin S
  <2> DEFINE both == S \cup {n}
             z == [visited |-> st.visited \cup {n}, candidates |-> st.candidates \cup {n}, results |-> both]
  <2>1. both \in SUBSET L /\ S # L
    BY <1>1, <1>3
  <2>2. Cardinality(L) \in Nat
    BY FS_CardinalityType
  <2>3. IsFiniteSet(S) /\ Cardinality(S) <= Cardinality(L) /\ Cardinality(S) # Cardinality(L)
    BY <1>1, <2>1, FS_Subset
  <2>4. IsFiniteSet(both) /\ Cardinality(both) <= Cardinality(L)
    <3> HIDE DEF both
    <3> QED
      BY <2>1, FS_Subset
  <2>5. Cardinality(S) \in Nat /\ Cardinality(both) \in Nat
    BY <2>3, <2>4, FS_CardinalityType
  <2>6. Cardinality(S) < ef /\ ~(Cardinality(both) > ef)
    <3> DEFINE cs == Cardinality(S)
               cb == Cardinality(both)
               cl == Cardinality(L)
    <3>1. cs \in Nat /\ cb \in Nat /\ cl \in Nat /\ cs <= cl /\ cs # cl /\ cb <= cl /\ cl <= ef
      BY <2>2, <2>3, <2>4, <2>5
    <3> HIDE DEF cs, cb, cl
    <3>2. cs < ef /\ ~(cb > ef)
      BY <3>1
    <3> QED
      BY <3>2 DEF cs, cb
  <2>7. Visit(g, st, n, ef, dist) = z
    <3>1. Visit(g, st, n, ef, dist) = Meet(st, n, ef, dist)
      BY <1>1, <1>3 DEF Visit
    <3>2. Meet(st, n, ef, dist) = z
      BY <1>1, <2>6 DEF Meet
    <3> QED
      BY <3>1, <3>2
  <2>8. z \in SearchStates(L) /\ z.visited = both /\ z.results = both
    BY <1>1, <2>1 DEF SearchStates
  <2> QED
    BY <2>7, <2>8 DEF Gathered
<1> QED
  BY <1>2, <1>3

\* The expansion of a candidate gathers its neighbours, unless it ends the search.
LEMMA ExpandGathers ==
    ASSUME NEW g, NEW layer, NEW L, IsFiniteSet(L), ClosedOn(g, layer, L), \A n \in L : ~g.del[n],
           NEW st, NEW S, Gathered(st, L, S), NEW from \in L, NEW ef \in Nat, Cardinality(L) <= ef, NEW dist,
           NEW z, z = Expand(g, st, from, ef, layer, dist)
    PROVE  \/ Gathered(z, L, S) /\ dist[from] > dist[Farthest(dist, S)]
           \/ Gathered(z, L, S \cup ToSet(g.edges[from][layer + 1]))
<1> DEFINE list == g.edges[from][layer + 1]
           n == Len(list)
           base == [st EXCEPT !.candidates = @ \ {from}]
           E(y, i) == Visit(g, y, list[i], ef, dist)
           Y(i) == {y \in SearchStates(L) : Gathered(y, L, S \cup {list[j] : j \in 1..i})}
           X == [i \in 0..n |-> Y(i)]
           T == [i \in 1..n |-> [y \in Y(i - 1) |-> E(y, i)]]
           H == CHOOSE h : h = [i \in 0..n |-> IF i = 0 THEN base ELSE E(h[i - 1], i)]
<1>1. list \in Seq(L)
  BY DEF ClosedOn
<1>a. st \in SearchStates(L) /\ st.visited = S /\ st.results = S
  BY DEF Gathered
<1>2. \/ z = H[n]
      \/ z = [st EXCEPT !.candidates = {}] /\ dist[from] > dist[Farthest(dist, S)]
  BY <1>a DEF Expand, Fold
<1>b. Gathered(base, L, S) /\ Gathered([st EXCEPT !.candidates = {}], L, S)
  BY <1>a DEF Gathered, SearchStates
<1> HIDE DEF list, base
<1>3. n \in Nat /\ DOMAIN list = 1..n /\ \A i \in 1..n : list[i] \in L
  BY <1>1
<1> HIDE DEF n
<1>e. base \in Y(0)
  <2>1. {list[j] : j \in 1..0} = {}
    OBVIOUS
  <2>2. base \in SearchStates(L)
    BY <1>b DEF Gathered
  <2>3. S \cup {list[j] : j \in 1..0} = S
    BY <2>1
  <2> QED
    BY <1>b, <2>2, <2>3
<1>f. ASSUME NEW i \in 1..n, NEW y \in Y(i - 1) PROVE E(y, i) \in Y(i)
  <2> DEFINE P == S \cup {list[j] : j \in 1..(i - 1)}
             Q == S \cup {list[j] : j \in 1..i}
  <2>1. Gathered(y, L, P)
    OBVIOUS
  <2>2. P \cup {list[i]} = Q
    <3>1. \A j \in 1..i : j = i \/ j \in 1..(i - 1)
      BY <1>3
    <3>2. i \in 1..i /\ \A j \in 1..(i - 1) : j \in 1..i
      BY <1>3
    <3> QED
      BY <3>1, <3>2
  <2> HIDE DEF P, Q
  <2>3. list[i] \in L /\ ~g.del[list[i]]
    BY <1>3
  <2>4. Gathered(E(y, i), L, P \cup {list[i]})
    BY <2>1, <2>3, VisitGathers
  <2>5. Gathered(E(y, i), L, Q)
    BY <2>2, <2>4
  <2> QED
    BY <2>5 DEF Q, Gathered
<1> HIDE DEF E, Y
<1>4. base \in X[0] /\ \A i \in 1..n : \A y \in X[i - 1] : T[i][y] = E(y, i) /\ E(y, i) \in X[i]
  <2>1. X[0] = Y(0) /\ \A i \in 1..n : X[i - 1] = Y(i - 1) /\ X[i] = Y(i)
    BY <1>3
  <2>2. \A i \in 1..n : \A y \in Y(i - 1) : T[i][y] = E(y, i)
    OBVIOUS
  <2> HIDE DEF X, T
  <2> QED
    BY <1>e, <1>f, <2>1, <2>2
<1> HIDE DEF X, T, H
<1>5. StepsUp(n, X, base, T)
  BY <1>4 DEF StepsUp
<1>6. PICK f : RunsUp(f, n, X, base, T)
  BY <1>3, <1>5, RecursionUp
<1>7. f = [i \in 0..n |-> IF i = 0 THEN base ELSE E(f[i - 1], i)]
  <2>1. /\ f = [i \in 0..n |-> f[i]] /\ f[0] = base /\ \A i \in 1..n : f[i] = T[i][f[i - 1]]
        /\ \A i \in 0..n : f[i] \in X[i]
    BY <1>6 DEF RunsUp
  <2>2. ASSUME NEW i \in 1..n PROVE f[i] = E(f[i - 1], i)
    <3>1. i - 1 \in 0..n
      BY <1>3
    <3> QED
      BY <1>4, <2>1, <3>1
  <2>3. ASSUME NEW i \in 0..n PROVE f[i] = IF i = 0 THEN base ELSE E(f[i - 1], i)
    <3>1. i = 0 \/ (i \in 1..n /\ i # 0)
      BY <1>3
    <3> QED
      BY <2>1, <2>2, <3>1
  <2> QED
    BY <2>1, <2>3
<1>8. H = [i \in 0..n |-> IF i = 0 THEN base ELSE E(H[i - 1], i)]
  BY <1>7 DEF H
<1>9. H[0] = base /\ \A i \in 1..n : H[i] = E(H[i - 1], i)
  BY <1>3, <1>8
<1>10. \A i \in 0..n : H[i] \in X[i]
  <2>1. H[0] \in X[0]
    BY <1>4, <1>9
  <2>2. \A i \in 1..n : H[i - 1] \in X[i - 1] => H[i] \in X[i]
    BY <1>4, <1>9
  <2> QED
    BY <1>3, <2>1, <2>2, StaysUp
<1>11. H[n] \in Y(n)
  BY <1>3, <1>10 DEF X
<1>12. Gathered(H[n], L, S \cup {list[j] : j \in 1..n})
  BY <1>11 DEF Y
<1>13. {list[j] : j \in 1..n} = ToSet(list)
  BY <1>3 DEF ToSet
<1>14. Gathered(H[n], L, S \cup ToSet(list))
  BY <1>12, <1>13
<1> QED
  BY <1>2, <1>14, <1>b DEF list

\* Among live nodes that are all linked, a search with room for all finds all.
LEMMA EfSearchFindsAll ==
    ASSUME NEW g, Len(g.ids) \in Nat, NEW layer, NEW L \in SUBSET (1..Len(g.ids)), ClosedOn(g, layer, L),
           \A n \in L : ~g.del[n], AllLinked(g.edges, layer, L), NEW start \in L,
           NEW ef \in Nat, Cardinality(L) <= ef, NEW dist, NEW D, Measured(dist, L, D)
    PROVE  Lists(EfSearch(g, start, ef, layer, dist), L)
<1> DEFINE n == Len(g.ids)
           base == [visited |-> {start}, candidates |-> {start}, results |-> {start}]
           E(y, i) == SearchStep(g, y, ef, layer, dist)
           Y(i) == {y \in SearchStates(L) : IF i = 0 THEN y = base ELSE Gathered(y, L, L)}
           X == [i \in 0..n |-> Y(i)]
           T == [i \in 1..n |-> [y \in Y(i - 1) |-> E(y, i)]]
           H == CHOOSE h : h = [i \in 0..n |-> IF i = 0 THEN base ELSE E(h[i - 1], i)]
<1>2. EfSearch(g, start, ef, layer, dist) = NearestFirst(dist, H[n].results)
  BY DEF EfSearch
<1>b. base \in SearchStates(L) /\ Gathered(base, L, {start}) /\ base.candidates = {start}
  BY DEF SearchStates, Gathered
<1>3. n \in Nat
  OBVIOUS
<1>c. n # 0
  <2>1. start \in 1..n
    OBVIOUS
  <2> QED
    BY <1>3, <2>1
<1>d. IsFiniteSet(L) /\ dist[start] \in Int
  BY DEF Measured
<1> HIDE DEF n, base
<1>e. base \in Y(0)
  BY <1>b
<1>g. SearchStep(g, base, ef, layer, dist) \in SearchStates(L) /\ Gathered(SearchStep(g, base, ef, layer, dist), L, L)
  <2>1. Measured(dist, {start}, D)
    <3>1. {start} \in SUBSET L
      OBVIOUS
    <3> QED
      BY <3>1, MeasuredSubset
  <2>2. Nearest(dist, {start}) = start
    <3>1. Nearest(dist, {start}) \in {start}
      BY <2>1, NearestExists
    <3> QED
      BY <3>1
  <2>3. Farthest(dist, {start}) = start
    <3>1. \E a \in {start} : \A b \in {start} \ {a} : Nearer(dist, b, a)
      OBVIOUS
    <3> QED
      BY <3>1 DEF Farthest
  <2> DEFINE z == Expand(g, base, start, ef, layer, dist)
  <2>4. SearchStep(g, base, ef, layer, dist) = z
    BY <1>b, <2>2 DEF SearchStep
  <2>5. \/ Gathered(z, L, {start}) /\ dist[start] > dist[Farthest(dist, {start})]
        \/ Gathered(z, L, {start} \cup ToSet(g.edges[start][layer + 1]))
    BY <1>b, <1>d, ExpandGathers
  <2>6. ~(dist[start] > dist[Farthest(dist, {start})])
    BY <1>d, <2>3
  <2>7. {start} \cup ToSet(g.edges[start][layer + 1]) = L
    <3>1. \A b \in L : b = start \/ b \in ToSet(g.edges[start][layer + 1])
      BY DEF AllLinked
    <3>2. ToSet(g.edges[start][layer + 1]) \in SUBSET L
      BY DEF ClosedOn, ToSet
    <3> QED
      BY <3>1, <3>2
  <2> HIDE DEF z
  <2>8. Gathered(z, L, L)
    BY <2>5, <2>6, <2>7
  <2> QED
    BY <2>4, <2>8 DEF Gathered
<1>h. ASSUME NEW y \in SearchStates(L), Gathered(y, L, L)
      PROVE  SearchStep(g, y, ef, layer, dist) \in SearchStates(L) /\ Gathered(SearchStep(g, y, ef, layer, dist), L, L)
  <2>1. CASE y.candidates = {}
    BY <1>h, <2>1 DEF SearchStep
  <2>2. CASE y.candidates # {}
    <3> DEFINE c == Nearest(dist, y.candidates)
               z == Expand(g, y, c, ef, layer, dist)
    <3>1. y.candidates \in SUBSET L
      BY DEF SearchStates
    <3>2. c \in L
      BY <2>2, <3>1, MeasuredSubset, NearestExists
    <3>3. SearchStep(g, y, ef, layer, dist) = z
      BY <2>2 DEF SearchStep
    <3> HIDE DEF c
    <3>4. Gathered(z, L, L) \/ Gathered(z, L, L \cup ToSet(g.edges[c][layer + 1]))
      BY <1>d, <1>h, <3>2, ExpandGathers
    <3>5. L \cup ToSet(g.edges[c][layer + 1]) = L
      <4>1. ToSet(g.edges[c][layer + 1]) \in SUBSET L
        BY <3>2 DEF ClosedOn, ToSet
      <4> QED
        BY <4>1
    <3> HIDE DEF z
    <3>6. Gathered(z, L, L)
      BY <3>4, <3>5
    <3> QED
      BY <3>3, <3>6 DEF Gathered
  <2> QED
    BY <2>1, <2>2
<1>f. ASSUME NEW i \in 1..n, NEW y \in Y(i - 1) PROVE E(y, i) \in Y(i)
  <2>1. i # 0
    BY <1>3
  <2>2. CASE i - 1 = 0
    <3>1. y = base
      BY <2>2
    <3> QED
      BY <1>g, <2>1, <3>1
  <2>3. CASE i - 1 # 0
    <3>1. y \in SearchStates(L) /\ Gathered(y, L, L)
      BY <2>3
    <3> QED
      BY <1>h, <2>1, <3>1
  <2> QED
    BY <2>2, <2>3
<1> HIDE DEF E, Y
<1>4. base \in X[0] /\ \A i \in 1..n : \A y \in X[i - 1] : T[i][y] = E(y, i) /\ E(y, i) \in X[i]
  <2>1. X[0] = Y(0) /\ \A i \in 1..n : X[i - 1] = Y(i - 1) /\ X[i] = Y(i)
    BY <1>3
  <2>2. \A i \in 1..n : \A y \in Y(i - 1) : T[i][y] = E(y, i)
    OBVIOUS
  <2> HIDE DEF X, T
  <2> QED
    BY <1>e, <1>f, <2>1, <2>2
<1> HIDE DEF X, T, H
<1>5. StepsUp(n, X, base, T)
  BY <1>4 DEF StepsUp
<1>6. PICK f : RunsUp(f, n, X, base, T)
  BY <1>3, <1>5, RecursionUp
<1>7. f = [i \in 0..n |-> IF i = 0 THEN base ELSE E(f[i - 1], i)]
  <2>1. /\ f = [i \in 0..n |-> f[i]] /\ f[0] = base /\ \A i \in 1..n : f[i] = T[i][f[i - 1]]
        /\ \A i \in 0..n : f[i] \in X[i]
    BY <1>6 DEF RunsUp
  <2>2. ASSUME NEW i \in 1..n PROVE f[i] = E(f[i - 1], i)
    <3>1. i - 1 \in 0..n
      BY <1>3
    <3> QED
      BY <1>4, <2>1, <3>1
  <2>3. ASSUME NEW i \in 0..n PROVE f[i] = IF i = 0 THEN base ELSE E(f[i - 1], i)
    <3>1. i = 0 \/ (i \in 1..n /\ i # 0)
      BY <1>3
    <3> QED
      BY <2>1, <2>2, <3>1
  <2> QED
    BY <2>1, <2>3
<1>8. H = [i \in 0..n |-> IF i = 0 THEN base ELSE E(H[i - 1], i)]
  BY <1>7 DEF H
<1>9. H[0] = base /\ \A i \in 1..n : H[i] = E(H[i - 1], i)
  BY <1>3, <1>8
<1>10. \A i \in 0..n : H[i] \in X[i]
  <2>1. H[0] \in X[0]
    BY <1>4, <1>9
  <2>2. \A i \in 1..n : H[i - 1] \in X[i - 1] => H[i] \in X[i]
    BY <1>4, <1>9
  <2> QED
    BY <1>3, <2>1, <2>2, StaysUp
<1>11. H[n] \in Y(n)
  BY <1>3, <1>10 DEF X
<1>12. H[n].results = L
  BY <1>11, <1>c DEF Y, Gathered
<1> QED
  BY <1>2, <1>12, NearestFirstLists

-----------------------------------------------------------------------------
(* Distances and the lists that shrink_connections cuts *)

\* The degree bounds are numbers.
LEMMA MaxConnPositive ==
    ASSUME config \in Configs, NEW layer
    PROVE  MaxConn(layer) \in Nat \ {0}
<1>1. config.m \in Nat \ {0} /\ config.m_max0 \in Nat \ {0}
  BY ConfigsAssumption
<1> QED
  BY <1>1 DEF MaxConn

\* Distances are numbers.
LEMMA DistanceIsInt ==
    ASSUME NEW a \in Int, NEW b \in Int, NEW w \in Int
    PROVE  distance_weighted(a, b, w) \in Int
<1>2. cosine_weighted(a, b, w) \in Int
  <2>1. w * w \in Int
    OBVIOUS
  <2>2. w * w * a \in Int
    BY <2>1
  <2>3. w * w * a * b \in Int
    BY <2>2
  <2> QED
    BY <2>3 DEF cosine_weighted
<1>3. euclidean_weighted(a, b, w) \in Int
  <2>1. w * (a - b) \in Int
    OBVIOUS
  <2> QED
    BY <2>1 DEF euclidean_weighted
<1> QED
  BY <1>2, <1>3 DEF distance_weighted

\* A list of vectors for n nodes.
Vectors(g, n) == n \in Nat /\ g.vec \in [1..n -> Points] /\ DOMAIN g.ids = 1..n

\* Every node has a distance to a query.
LEMMA DistancesMeasured ==
    ASSUME config \in Configs, NEW g, NEW n, Vectors(g, n), NEW q \in Points, NEW w \in Int
    PROVE  \A L \in SUBSET (1..n) : Measured(Distances(g, q, w), L, 1..n)
<1> DEFINE f == [i \in 1..n |-> distance_weighted(g.vec[i], q, w)]
<1>1. n \in Nat /\ q \in Int /\ \A i \in 1..n : g.vec[i] \in Int
  BY PointsFit DEF Vectors
<1>2. \A i \in 1..n : distance_weighted(g.vec[i], q, w) \in Int
  BY <1>1, DistanceIsInt
<1>3. f \in [1..n -> Int] /\ f = [i \in 1..n |-> f[i]]
  BY <1>2
<1>4. Distances(g, q, w) = Fixed(f)
  BY DEF Distances, NodesOf, Vectors
<1> HIDE DEF f
<1>5. Distances(g, q, w) \in [1..n -> Int]
  BY <1>1, <1>3, <1>4, FixedIsSeq
<1>6. ASSUME NEW L \in SUBSET (1..n) PROVE IsFiniteSet(L)
  <2>1. IsFiniteSet(1..n)
    BY <1>1, FS_Interval
  <2> QED
    BY <2>1, FS_Subset
<1>7. 1..n \in SUBSET Nat
  BY <1>1
<1> QED
  BY <1>5, <1>6, <1>7 DEF Measured

\* A list without repetitions.
Once(s) == \A a, b \in 1..Len(s) : s[a] = s[b] => a = b

\* t has some elements of s, each once if s does.
PartOf(t, s) ==
  /\ IsSeq(t)
  /\ \A a \in 1..Len(t) : \E b \in 1..Len(s) : t[a] = s[b]
  /\ Once(s) => Once(t)

\* shrink_connections keeps some of the neighbours, within the bound.
LEMMA ShrinkFacts ==
    ASSUME config \in Configs, NEW g, NEW N, Vectors(g, N), NEW n \in 1..N, NEW layer,
           NEW list \in Seq(1..N), NEW t, t = shrink_connections(g, n, layer, list)
    PROVE  PartOf(t, list) /\ Len(t) <= MaxConn(layer)
<1>0. MaxConn(layer) \in Nat
  BY MaxConnPositive
<1> DEFINE m == Len(list)
<1>1. m \in Nat /\ DOMAIN list = 1..m /\ (\A i \in 1..m : list[i] \in 1..N) /\ IsSeq(list)
  <2>1. IsSeq(list)
    BY SeqIsSeq
  <2>2. \A i \in 1..m : list[i] \in 1..N
    BY ElementOfSeq
  <2> QED
    BY <2>1, <2>2, IsSeqFacts
<1> DEFINE Closer(a, b) == distance_weighted(g.vec[n], g.vec[a], 1) < distance_weighted(g.vec[n], g.vec[b], 1)
           key == [i \in 1..m |-> distance_weighted(g.vec[n], g.vec[list[i]], 1)]
           rank == [i \in DOMAIN list |-> SortRank(list, Closer, i)]
           u == StableSort(list, Closer)
<1>2. CASE Len(list) <= MaxConn(layer)
  <2>1. t = list
    BY <1>2 DEF shrink_connections
  <2> QED
    BY <1>1, <1>2, <2>1 DEF PartOf, Once
<1>3. CASE ~(Len(list) <= MaxConn(layer))
  <2>1. t = Truncate(u, MaxConn(layer))
    BY <1>3 DEF shrink_connections
  <2>2. key \in [1..m -> Int] /\ \A i \in 1..m : key[i] = distance_weighted(g.vec[n], g.vec[list[i]], 1)
    <3>1. \A i \in 1..m : g.vec[list[i]] \in Int
      BY <1>1, PointsFit DEF Vectors
    <3>2. g.vec[n] \in Int
      BY PointsFit DEF Vectors
    <3> HIDE DEF m
    <3>3. ASSUME NEW i \in 1..m PROVE distance_weighted(g.vec[n], g.vec[list[i]], 1) \in Int
      <4>1. g.vec[list[i]] \in Int /\ 1 \in Int
        BY <3>1
      <4> QED
        BY <3>2, <4>1, DistanceIsInt
    <3> QED
      BY <3>3
  <2>3. RankedBy(list, key, rank)
    <3>1. ASSUME NEW i \in DOMAIN list
          PROVE  rank[i] = 1 + Cardinality({j \in DOMAIN list : key[j] < key[i] \/ (j < i /\ ~(key[i] < key[j]))})
      <4> DEFINE A == {j \in DOMAIN list : Closer(list[j], list[i]) \/ (j < i /\ ~Closer(list[i], list[j]))}
                 B == {j \in DOMAIN list : key[j] < key[i] \/ (j < i /\ ~(key[i] < key[j]))}
      <4>1. rank[i] = 1 + Cardinality(A)
        BY DEF SortRank
      <4>2. A = B
        <5> HIDE DEF key, m
        <5> QED
          BY <1>1, <2>2
      <4> HIDE DEF A, rank
      <4> QED
        BY <4>1, <4>2
    <3>2. rank = [i \in DOMAIN list |-> rank[i]]
      OBVIOUS
    <3> HIDE DEF rank
    <3> QED
      BY <3>1, <3>2 DEF RankedBy
  <2>4. PlacedBy(list, rank, u)
    BY DEF StableSort, PlacedBy
  <2> HIDE DEF key, rank, u
  <2>5. PICK p : SortedBy(list, key, u, p)
    BY <1>1, <2>2, <2>3, <2>4, SortFromKey
  <2>6. Permuted(list, key, u, p)
    BY <1>1, <2>5, SortedByFacts
  <2> HIDE DEF m
  <2>7. /\ IsSeq(u) /\ Len(u) = m /\ DOMAIN u = 1..m
        /\ \A k \in 1..m : p[k] \in 1..m /\ u[k] = list[p[k]]
        /\ \A a, b \in 1..m : p[a] = p[b] => a = b
    BY <1>1, <2>6 DEF Permuted, m
  <2>8. /\ IsSeq(t) /\ Len(t) <= MaxConn(layer) /\ Len(t) <= m /\ Len(t) \in Nat
        /\ \A i \in 1..Len(t) : t[i] = u[i]
    BY <1>0, <2>1, <2>7, TruncateFacts
  <2>9. \A a \in 1..Len(t) : a \in 1..m /\ p[a] \in 1..m /\ t[a] = list[p[a]]
    BY <1>1, <2>7, <2>8
  <2>10. Once(list) => Once(t)
    <3> SUFFICES ASSUME Once(list), NEW a \in 1..Len(t), NEW b \in 1..Len(t), t[a] = t[b]
                 PROVE  a = b
      BY DEF Once
    <3>1. a \in 1..m /\ b \in 1..m /\ p[a] \in 1..m /\ p[b] \in 1..m /\ list[p[a]] = list[p[b]]
      BY <2>9
    <3>2. p[a] = p[b]
      BY <3>1 DEF Once, m
    <3> QED
      BY <2>7, <3>1, <3>2
  <2> QED
    BY <2>8, <2>9, <2>10 DEF PartOf, m
<1> QED
  BY <1>2, <1>3

-----------------------------------------------------------------------------
(* Linking a new node *)

\* The graphs an index can hold, by their fields.
Graphs == [ids : Seq(Ids), vec : Seq(Points), edges : Seq(Seq(Seq(Nat))), del : Seq(BOOLEAN),
           entry : Nat, top : 0..MaxLayer]

\* A neighbour list of node n on a layer, in a graph whose nodes have the levels
\* lev.
GoodList(list, lev, n, layer) ==
  /\ list \in Seq(DOMAIN lev)
  /\ Len(list) <= MaxConn(layer) /\ Once(list)
  /\ \A a \in 1..Len(list) : list[a] # n /\ lev[list[a]] >= layer

\* The edges of x nodes with the levels lev.
GoodEdges(edges, x, lev) ==
  /\ edges \in Seq(Seq(Seq(Nat))) /\ Len(edges) = x
  /\ \A n \in 1..x : /\ Len(edges[n]) = lev[n] + 1
                     /\ \A j \in 0..lev[n] : GoodList(edges[n][j + 1], lev, n, j)

\* The nodes other than x that are on a layer.
Others(lev, x, layer) == {n \in 1..x - 1 : lev[n] >= layer}

\* x is the new node of the graph added, and the last one.
NewNode(added, x, lev) ==
  /\ added \in Graphs /\ x \in Nat \ {0} /\ Len(added.ids) = x /\ Len(added.vec) = x
  /\ lev \in [1..x -> Nat]

\* h is added after x was linked on the layers from l up.
Linking(h, added, x, lev, l) ==
  /\ h = [added EXCEPT !.edges = h.edges]
  /\ GoodEdges(h.edges, x, lev)
  /\ \A n \in 1..x : \A j \in 0..lev[n] :
       j < l => \A a \in 1..Len(h.edges[n][j + 1]) : h.edges[n][j + 1][a] # x
  /\ \A n \in 1..x : \A j \in 0..lev[n] : j < l => h.edges[n][j + 1] = added.edges[n][j + 1]

\* What does not change while x is linked.
LEMMA LinkingFacts ==
    ASSUME NEW added, NEW x, NEW lev, NewNode(added, x, lev), NEW l, NEW h, Linking(h, added, x, lev, l)
    PROVE  /\ h \in Graphs /\ Len(h.ids) = x /\ Len(h.ids) \in Nat /\ Vectors(h, x)
           /\ h.vec[x] \in Points
           /\ h.ids = added.ids /\ h.vec = added.vec /\ h.del = added.del
           /\ h.entry = added.entry /\ h.top = added.top
<1>1. h.edges \in Seq(Seq(Seq(Nat)))
  BY DEF Linking, GoodEdges
<1>2. h \in Graphs /\ h.ids = added.ids /\ h.vec = added.vec /\ h.del = added.del
      /\ h.entry = added.entry /\ h.top = added.top
  BY <1>1 DEF Linking, NewNode, Graphs
<1>3. x \in Nat \ {0} /\ added.vec \in Seq(Points) /\ Len(added.vec) = x /\ added.ids \in Seq(Ids) /\ Len(added.ids) = x
  BY DEF NewNode, Graphs
<1>4. added.vec \in [1..x -> Points] /\ DOMAIN added.ids = 1..x
  BY <1>3
<1> QED
  BY <1>2, <1>3, <1>4 DEF Vectors

\* The neighbours chosen for x on a layer.
GoodNearest(nearest, lev, x, layer) ==
  nearest \in Seq(Others(lev, x, layer)) /\ Once(nearest) /\ Len(nearest) <= MaxConn(layer)

\* On a layer that is not linked yet no edge leads to x.
LEMMA OthersClosed ==
    ASSUME NEW added, NEW x, NEW lev, NewNode(added, x, lev), NEW l \in Nat, NEW h,
           Linking(h, added, x, lev, l + 1)
    PROVE  ClosedOn(h, l, Others(lev, x, l))
<1> SUFFICES ASSUME NEW n \in Others(lev, x, l)
             PROVE  h.edges[n][l + 1] \in Seq(Others(lev, x, l))
  BY DEF ClosedOn
<1> DEFINE list == h.edges[n][l + 1]
<1>1. x \in Nat \ {0} /\ lev \in [1..x -> Nat]
  BY DEF NewNode
<1>2. n \in 1..x /\ l \in 0..lev[n]
  BY <1>1 DEF Others
<1>3. GoodList(list, lev, n, l) /\ \A a \in 1..Len(list) : list[a] # x
  <2>1. l < l + 1
    OBVIOUS
  <2> QED
    BY <1>2, <2>1 DEF Linking, GoodEdges
<1>4. list \in Seq(1..x) /\ \A a \in 1..Len(list) : lev[list[a]] >= l
  BY <1>1, <1>3 DEF GoodList
<1> HIDE DEF list
<1>5. Len(list) \in Nat /\ list = [a \in 1..Len(list) |-> list[a]] /\ \A a \in 1..Len(list) : list[a] \in 1..x
  <2>1. \A a \in 1..Len(list) : list[a] \in 1..x
    BY <1>4, ElementOfSeq
  <2>2. IsSeq(list)
    BY <1>4, SeqIsSeq
  <2> QED
    BY <2>1, <2>2, IsSeqFacts
<1>6. \A a \in 1..Len(list) : list[a] \in Others(lev, x, l)
  <2> SUFFICES ASSUME NEW a \in 1..Len(list) PROVE list[a] \in Others(lev, x, l)
    OBVIOUS
  <2>1. list[a] \in 1..x /\ list[a] # x
    BY <1>3, <1>5
  <2>2. list[a] \in 1..x - 1
    BY <1>1, <2>1
  <2> QED
    BY <1>4, <2>2 DEF Others
<1>7. list \in [1..Len(list) -> Others(lev, x, l)]
  BY <1>5, <1>6
<1>8. list \in Seq(Others(lev, x, l))
  BY <1>5, <1>7
<1> QED
  BY <1>8 DEF list

\* The nodes x is linked with on a layer are other nodes of the layer.
LEMMA CandidatesGood ==
    ASSUME config \in Configs, NEW added, NEW x, NEW lev, NewNode(added, x, lev), NEW l \in Nat, NEW h,
           Linking(h, added, x, lev, l + 1), NEW curr \in Others(lev, x, l)
    PROVE  GoodNearest(Candidates(h, x, curr, l), lev, x, l)
<1> DEFINE L == Others(lev, x, l)
           dist == Distances(h, h.vec[x], 1)
           found == EfSearch(h, curr, config.ef_construction, l, dist)
           nearest == Truncate(found, MaxConn(l))
<1>0. Candidates(h, x, curr, l) = nearest
  BY DEF Candidates, select_neighbors, search_layer, search_layer_weighted
<1>1. Len(h.ids) \in Nat /\ Vectors(h, x) /\ h.vec[x] \in Points /\ MaxConn(l) \in Nat
  BY LinkingFacts, MaxConnPositive
<1>2. L \in SUBSET (1..x)
  <2>1. x \in Nat
    BY <1>1 DEF Vectors
  <2> QED
    BY <2>1 DEF Others
<1>3. ClosedOn(h, l, L)
  BY OthersClosed
<1>4. Measured(dist, L, 1..x)
  <2>1. 1 \in Int
    OBVIOUS
  <2> HIDE DEF L
  <2> QED
    BY <1>1, <1>2, <2>1, DistancesMeasured
<1>5. curr \in L
  OBVIOUS
<1> HIDE DEF L, dist
<1>6. PICK S \in SUBSET L : Lists(found, S)
  BY <1>1, <1>3, <1>4, <1>5, EfSearchLists
<1> HIDE DEF found
<1>7. found \in Seq(S) /\ Once(found)
  BY <1>6 DEF Lists, Once
<1>8. IsSeq(found) /\ \A a \in 1..Len(found) : found[a] \in L
  <2>1. \A a \in 1..Len(found) : found[a] \in S
    BY <1>7, ElementOfSeq
  <2> QED
    BY <1>7, <2>1, SeqIsSeq
<1>9. Len(found) \in Nat
  BY <1>8, IsSeqFacts
<1>10. /\ IsSeq(nearest) /\ Len(nearest) <= MaxConn(l) /\ Len(nearest) <= Len(found) /\ Len(nearest) \in Nat
       /\ DOMAIN nearest = 1..Len(nearest) /\ \A i \in 1..Len(nearest) : nearest[i] = found[i]
  BY <1>1, <1>8, TruncateFacts
<1> HIDE DEF nearest
<1>11. \A a \in 1..Len(nearest) : a \in 1..Len(found) /\ nearest[a] = found[a] /\ nearest[a] \in L
  BY <1>8, <1>9, <1>10
<1>12. nearest \in [1..Len(nearest) -> L]
  BY <1>10, <1>11, IsSeqFacts
<1>13. nearest \in Seq(L)
  BY <1>10, <1>12
<1>14. Once(nearest)
  BY <1>7, <1>11 DEF Once
<1> QED
  BY <1>0, <1>10, <1>13, <1>14 DEF GoodNearest, L

\* The list a node gets when x is linked.
NewListOf(h, x, layer, nearest, n) ==
  IF n = x THEN nearest ELSE shrink_connections(h, n, layer, Append(h.edges[n][layer + 1], x))

\* The list of a chosen neighbour grows by x and is cut to the bound.
LEMMA NewListGood ==
    ASSUME config \in Configs, NEW added, NEW x, NEW lev, NewNode(added, x, lev), NEW l \in 0..lev[x], NEW h,
           Linking(h, added, x, lev, l + 1), NEW nearest, GoodNearest(nearest, lev, x, l),
           NEW n, n = x \/ n \in ToSet(nearest)
    PROVE  /\ n \in 1..x /\ l \in 0..lev[n]
           /\ GoodList(NewListOf(h, x, l, nearest, n), lev, n, l)
<1> DEFINE old == h.edges[n][l + 1]
           grown == Append(old, x)
           t == shrink_connections(h, n, l, grown)
<1>1. x \in Nat \ {0} /\ lev \in [1..x -> Nat] /\ l \in Nat /\ DOMAIN lev = 1..x /\ x \in 1..x /\ lev[x] \in Nat
  BY DEF NewNode
<1>2. /\ nearest \in Seq(Others(lev, x, l)) /\ Once(nearest) /\ Len(nearest) <= MaxConn(l)
      /\ Len(nearest) \in Nat
      /\ \A a \in 1..Len(nearest) : nearest[a] \in Others(lev, x, l)
  <2>1. nearest \in Seq(Others(lev, x, l)) /\ Once(nearest) /\ Len(nearest) <= MaxConn(l)
    BY DEF GoodNearest
  <2>2. \A a \in 1..Len(nearest) : nearest[a] \in Others(lev, x, l)
    BY <2>1, ElementOfSeq
  <2> QED
    BY <2>1, <2>2
<1>3. Others(lev, x, l) \in SUBSET (1..x) /\ x \notin Others(lev, x, l)
      /\ \A m \in Others(lev, x, l) : lev[m] >= l
  BY <1>1 DEF Others
<1>4. CASE n = x
  <2>1. NewListOf(h, x, l, nearest, n) = nearest
    BY <1>4 DEF NewListOf
  <2>2. nearest \in Seq(1..x)
    BY <1>2, <1>3, SeqWider
  <2>3. \A a \in 1..Len(nearest) : nearest[a] # n /\ lev[nearest[a]] >= l
    BY <1>2, <1>3, <1>4
  <2>4. GoodList(nearest, lev, n, l)
    BY <1>1, <1>2, <2>2, <2>3 DEF GoodList
  <2> QED
    BY <1>1, <1>4, <2>1, <2>4
<1>5. CASE n # x
  <2>1. n \in Others(lev, x, l)
    <3>1. n \in ToSet(nearest)
      BY <1>5
    <3>2. PICK i \in DOMAIN nearest : n = nearest[i]
      BY <3>1 DEF ToSet
    <3>3. DOMAIN nearest = 1..Len(nearest)
      BY <1>2
    <3> QED
      BY <1>2, <3>2, <3>3
  <2>2. n \in 1..x /\ n # x /\ lev[n] \in Nat /\ lev[n] >= l /\ l \in 0..lev[n]
    BY <1>1, <1>3, <2>1
  <2>3. GoodList(old, lev, n, l) /\ \A a \in 1..Len(old) : old[a] # x
    <3>1. l < l + 1
      BY <1>1
    <3> QED
      BY <2>2, <3>1 DEF Linking, GoodEdges
  <2>4. old \in Seq(1..x) /\ Once(old) /\ \A a \in 1..Len(old) : old[a] # n /\ lev[old[a]] >= l
    BY <1>1, <2>3 DEF GoodList
  <2> HIDE DEF old
  <2>5. /\ grown \in Seq(1..x) /\ Len(old) \in Nat /\ Len(grown) = Len(old) + 1
        /\ grown[Len(old) + 1] = x /\ \A a \in 1..Len(old) : grown[a] = old[a]
    BY <1>1, <2>4
  <2> HIDE DEF grown
  <2>6. Once(grown)
    <3> SUFFICES ASSUME NEW a \in 1..Len(grown), NEW b \in 1..Len(grown), grown[a] = grown[b]
                 PROVE  a = b
      BY DEF Once
    <3>1. (a = Len(old) + 1 \/ a \in 1..Len(old)) /\ (b = Len(old) + 1 \/ b \in 1..Len(old))
      BY <2>5
    <3>2. CASE a = Len(old) + 1
      BY <2>3, <2>5, <3>1, <3>2
    <3>3. CASE b = Len(old) + 1
      BY <2>3, <2>5, <3>1, <3>3
    <3>4. CASE a \in 1..Len(old) /\ b \in 1..Len(old)
      BY <2>4, <2>5, <3>4 DEF Once
    <3> QED
      BY <3>1, <3>2, <3>3, <3>4
  <2>7. \A a \in 1..Len(grown) : grown[a] # n /\ lev[grown[a]] >= l /\ grown[a] \in 1..x
    <3> SUFFICES ASSUME NEW a \in 1..Len(grown) PROVE grown[a] # n /\ lev[grown[a]] >= l /\ grown[a] \in 1..x
      OBVIOUS
    <3>1. a = Len(old) + 1 \/ a \in 1..Len(old)
      BY <2>5
    <3>2. CASE a = Len(old) + 1
      BY <1>1, <1>5, <2>5, <3>2
    <3>3. CASE a \in 1..Len(old)
      <4>1. old[a] \in 1..x
        BY <2>4, <3>3, ElementOfSeq
      <4> QED
        BY <2>4, <2>5, <3>3, <4>1
    <3> QED
      BY <3>1, <3>2, <3>3
  <2>8. Vectors(h, x)
    BY LinkingFacts
  <2>9. PartOf(t, grown) /\ Len(t) <= MaxConn(l)
    BY <2>2, <2>5, <2>8, ShrinkFacts
  <2> HIDE DEF t
  <2>10. IsSeq(t) /\ Once(t) /\ \A a \in 1..Len(t) : \E b \in 1..Len(grown) : t[a] = grown[b]
    BY <2>6, <2>9 DEF PartOf
  <2>11. \A a \in 1..Len(t) : t[a] # n /\ lev[t[a]] >= l /\ t[a] \in 1..x
    BY <2>7, <2>10
  <2>12. t \in Seq(1..x)
    BY <2>10, <2>11, SeqOfElements
  <2>13. GoodList(t, lev, n, l)
    BY <1>1, <2>9, <2>10, <2>11, <2>12 DEF GoodList
  <2>14. NewListOf(h, x, l, nearest, n) = t
    BY <1>5 DEF NewListOf, t, grown, old
  <2> QED
    BY <2>2, <2>13, <2>14
<1> QED
  BY <1>4, <1>5

\* k is h after the lists of x and of the chosen neighbours were replaced.
Relinked(k, h, x, lev, l, nearest) ==
  \A n \in 1..x : \A j \in 0..lev[n] :
    k.edges[n][j + 1] = IF (n = x \/ n \in ToSet(nearest)) /\ j = l
                        THEN NewListOf(h, x, l, nearest, n) ELSE h.edges[n][j + 1]

\* Linking x on layer l keeps every list good.
LEMMA LinkBothWaysGood ==
    ASSUME config \in Configs, NEW added, NEW x, NEW lev, NewNode(added, x, lev), NEW l \in 0..lev[x], NEW h,
           Linking(h, added, x, lev, l + 1), NEW nearest, GoodNearest(nearest, lev, x, l)
    PROVE  /\ Linking(LinkBothWays(h, x, l, nearest), added, x, lev, l)
           /\ Relinked(LinkBothWays(h, x, l, nearest), h, x, lev, l, nearest)
<1> DEFINE Linked(n) == n = x \/ n \in ToSet(nearest)
           New(n) == NewListOf(h, x, l, nearest, n)
           Row(n) == IF Linked(n) THEN [h.edges[n] EXCEPT ![l + 1] = New(n)] ELSE h.edges[n]
           f == [n \in 1..x |-> Row(n)]
           k == [h EXCEPT !.edges = f]
<1>1. x \in Nat \ {0} /\ lev \in [1..x -> Nat] /\ l \in Nat /\ added \in Graphs
  BY DEF NewNode
<1>2. /\ h.edges \in Seq(Seq(Seq(Nat))) /\ Len(h.edges) = x
      /\ \A n \in 1..x : Len(h.edges[n]) = lev[n] + 1
      /\ \A n \in 1..x : \A j \in 0..lev[n] : GoodList(h.edges[n][j + 1], lev, n, j)
      /\ \A n \in 1..x : \A j \in 0..lev[n] :
           j < l + 1 => \A a \in 1..Len(h.edges[n][j + 1]) : h.edges[n][j + 1][a] # x
  BY DEF Linking, GoodEdges
<1>2a. \A n \in 1..x : \A j \in 0..lev[n] : j < l + 1 => h.edges[n][j + 1] = added.edges[n][j + 1]
  BY DEF Linking
<1>3. DOMAIN h.edges = 1..x /\ \A n \in 1..x : h.edges[n] \in Seq(Seq(Nat))
  <2>1. \A n \in 1..x : h.edges[n] \in Seq(Seq(Nat))
    BY <1>2, ElementOfSeq
  <2> QED
    BY <1>2, <2>1
<1>4. \A n \in 1..x : Linked(n) => l \in 0..lev[n] /\ GoodList(New(n), lev, n, l)
  BY NewListGood
<1>5. f = [n \in 1..x |-> f[n]] /\ \A n \in 1..x : f[n] = Row(n)
  OBVIOUS
<1>6. LinkBothWays(h, x, l, nearest) = [h EXCEPT !.edges = Fixed([n \in DOMAIN @ |->
                            IF Linked(n) THEN [@[n] EXCEPT ![l + 1] = New(n)] ELSE @[n]])]
  BY DEF LinkBothWays, NewListOf
<1> HIDE DEF Linked, New
<1>7. LinkBothWays(h, x, l, nearest) = [h EXCEPT !.edges = Fixed(f)]
  BY <1>3, <1>6
<1>8. Fixed(f) = f
  <2> HIDE DEF f
  <2> QED
    BY <1>1, <1>5, FixedIsSeq
<1>9. LinkBothWays(h, x, l, nearest) = k
  BY <1>7, <1>8
<1>10. ASSUME NEW n \in 1..x
       PROVE  /\ Row(n) \in Seq(Seq(Nat)) /\ Len(Row(n)) = lev[n] + 1
              /\ \A j \in 0..lev[n] : Row(n)[j + 1] = IF Linked(n) /\ j = l THEN New(n) ELSE h.edges[n][j + 1]
  <2>1. h.edges[n] \in Seq(Seq(Nat)) /\ Len(h.edges[n]) = lev[n] + 1 /\ lev[n] \in Nat
    BY <1>1, <1>2, <1>3
  <2>2. CASE Linked(n)
    <3>1. New(n) \in Seq(1..x) /\ l \in 0..lev[n]
      BY <1>1, <1>4, <2>2 DEF GoodList
    <3>2. New(n) \in Seq(Nat)
      <4>1. 1..x \in SUBSET Nat
        BY <1>1
      <4> QED
        BY <3>1, <4>1, SeqWider
    <3>3. l + 1 \in 1..Len(h.edges[n])
      BY <1>1, <2>1, <3>1
    <3> DEFINE row == h.edges[n]
    <3> HIDE DEF row
    <3>4. row \in Seq(Seq(Nat)) /\ l + 1 \in 1..Len(row) /\ Len(row) = lev[n] + 1
      BY <2>1, <3>3 DEF row
    <3>5. [row EXCEPT ![l + 1] = New(n)] \in Seq(Seq(Nat)) /\ Len([row EXCEPT ![l + 1] = New(n)]) = Len(row)
      BY <3>2, <3>4, ExceptSeq
    <3>6. \A j \in 0..lev[n] : [row EXCEPT ![l + 1] = New(n)][j + 1] = IF j = l THEN New(n) ELSE row[j + 1]
      <4>1. DOMAIN row = 1..(lev[n] + 1)
        BY <3>4
      <4>2. \A j \in 0..lev[n] : j + 1 \in 1..(lev[n] + 1) /\ (j + 1 = l + 1 <=> j = l)
        BY <1>1, <2>1
      <4> QED
        BY <4>1, <4>2
    <3> QED
      BY <2>2, <3>4, <3>5, <3>6 DEF row
  <2>3. CASE ~Linked(n)
    BY <2>1, <2>3
  <2> QED
    BY <2>2, <2>3
<1> HIDE DEF Row
<1>11. f \in Seq(Seq(Seq(Nat))) /\ Len(f) = x
  <2>1. f \in [1..x -> Seq(Seq(Nat))]
    BY <1>10
  <2> HIDE DEF f
  <2> QED
    BY <1>1, <2>1
<1> HIDE DEF f
<1>12. k.edges = f /\ k = [added EXCEPT !.edges = k.edges]
  <2>1. h = [added EXCEPT !.edges = h.edges]
    BY DEF Linking
  <2> QED
    BY <1>1, <2>1 DEF Graphs
<1>13. ASSUME NEW n \in 1..x, NEW j \in 0..lev[n] PROVE GoodList(f[n][j + 1], lev, n, j)
  <2>1. f[n][j + 1] = IF Linked(n) /\ j = l THEN New(n) ELSE h.edges[n][j + 1]
    <3>1. f[n] = Row(n)
      BY <1>5
    <3> QED
      BY <1>10, <3>1
  <2>2. CASE Linked(n) /\ j = l
    BY <1>4, <2>1, <2>2
  <2>3. CASE ~(Linked(n) /\ j = l)
    BY <1>2, <2>1, <2>3
  <2> QED
    BY <2>2, <2>3
<1>14. GoodEdges(f, x, lev)
  BY <1>5, <1>10, <1>11, <1>13 DEF GoodEdges
<1>15a. ASSUME NEW n \in 1..x, NEW j \in 0..lev[n], j < l
        PROVE  f[n][j + 1] = added.edges[n][j + 1]
  <2>1. f[n] = Row(n) /\ j # l /\ j < l + 1
    BY <1>1, <1>5, <1>15a
  <2>2. Row(n)[j + 1] = h.edges[n][j + 1]
    BY <1>10, <2>1
  <2> QED
    BY <1>2a, <2>1, <2>2
<1>15b. ASSUME NEW n \in 1..x, NEW j \in 0..lev[n]
        PROVE  f[n][j + 1] = IF Linked(n) /\ j = l THEN New(n) ELSE h.edges[n][j + 1]
  <2>1. f[n] = Row(n)
    BY <1>5
  <2> QED
    BY <1>10, <2>1
<1>15. ASSUME NEW n \in 1..x, NEW j \in 0..lev[n], j < l, NEW a \in 1..Len(f[n][j + 1])
       PROVE  f[n][j + 1][a] # x
  <2>1. f[n][j + 1] = h.edges[n][j + 1]
    <3>1. f[n] = Row(n) /\ j # l
      BY <1>1, <1>5, <1>15
    <3>2. Row(n)[j + 1] = h.edges[n][j + 1]
      BY <1>10, <3>1
    <3> QED
      BY <3>1, <3>2
  <2>2. j < l + 1
    BY <1>1, <1>15
  <2> QED
    BY <1>2, <1>15, <2>1, <2>2
<1> HIDE DEF k
<1>16. Linking(k, added, x, lev, l)
  BY <1>12, <1>14, <1>15, <1>15a DEF Linking
<1>17. Relinked(k, h, x, lev, l, nearest)
  BY <1>12, <1>15b DEF Relinked, Linked, New
<1> QED
  BY <1>9, <1>16, <1>17

\* The states of an insertion that has linked the layers from l up.
LinkStates(added, x, lev, l) ==
  {at \in [g : Graphs, curr : Nat] :
     Linking(at.g, added, x, lev, l) /\ at.curr \in Others(lev, x, l - 1)}

\* One layer of phase 2.
LEMMA ConnectGood ==
    ASSUME config \in Configs, NEW added, NEW x, NEW lev, NewNode(added, x, lev), NEW l \in 0..lev[x],
           NEW at \in LinkStates(added, x, lev, l + 1)
    PROVE  Connect(at, x, l) \in LinkStates(added, x, lev, l)
<1> DEFINE h == at.g
           nearest == Candidates(h, x, at.curr, l)
           k == LinkBothWays(h, x, l, nearest)
           c == IF nearest = <<>> THEN at.curr ELSE nearest[1]
<1>0. x \in Nat \ {0} /\ lev \in [1..x -> Nat] /\ l \in Nat /\ (l + 1) - 1 = l
  BY DEF NewNode
<1>1. Linking(h, added, x, lev, l + 1) /\ at.curr \in Others(lev, x, l)
  BY <1>0 DEF LinkStates
<1>2. GoodNearest(nearest, lev, x, l)
  BY <1>0, <1>1, CandidatesGood
<1>3. Linking(k, added, x, lev, l)
  <2> HIDE DEF nearest
  <2> QED
    BY <1>1, <1>2, LinkBothWaysGood
<1>4. Connect(at, x, l) = [g |-> k, curr |-> c]
  BY DEF Connect, Relink
<1> HIDE DEF nearest, k
<1>5. c \in Others(lev, x, l)
  <2>1. CASE nearest = <<>>
    BY <1>1, <2>1
  <2>2. CASE nearest # <<>>
    <3>1. nearest \in Seq(Others(lev, x, l))
      BY <1>2 DEF GoodNearest
    <3>2. 1 \in 1..Len(nearest)
      BY <2>2, <3>1
    <3> QED
      BY <2>2, <3>1, <3>2, ElementOfSeq
  <2> QED
    BY <2>1, <2>2
<1> HIDE DEF c
<1>6. c \in Others(lev, x, l - 1) /\ c \in Nat
  BY <1>0, <1>5 DEF Others
<1>7. k \in Graphs
  BY <1>3, LinkingFacts
<1> QED
  BY <1>3, <1>4, <1>6, <1>7 DEF LinkStates

\* k is the graph after the last layer, 0, was linked.
LastLinked(k, added, x, lev) == \E at \in LinkStates(added, x, lev, 1) : k = Connect(at, x, 0).g

\* Phase 2: x is linked on every layer from first down.
LEMMA LinkLayersGood ==
    ASSUME config \in Configs, NEW added, NEW x, NEW lev, NewNode(added, x, lev), NEW first \in 0..lev[x],
           Linking(added, added, x, lev, first + 1), NEW curr \in Others(lev, x, first)
    PROVE  /\ Linking(LinkLayers(added, x, first, curr), added, x, lev, 0)
           /\ LastLinked(LinkLayers(added, x, first, curr), added, x, lev)
<1> DEFINE n == first + 1
           base == [g |-> added, curr |-> curr]
           Body(y, l) == IF l = first + 1 THEN base ELSE Connect(y, x, l)
           X == [l \in 0..n |-> LinkStates(added, x, lev, l)]
           T == [l \in 0..n |-> [y \in X[l + 1] |-> Body(y, l)]]
           H == CHOOSE h : h = [l \in 0..n |-> Body(h[l + 1], l)]
<1>1. LinkLayers(added, x, first, curr) = H[0].g
  BY DEF LinkLayers
<1>0. x \in Nat \ {0} /\ lev \in [1..x -> Nat] /\ first \in Nat /\ (first + 1) - 1 = first /\ added \in Graphs
  BY DEF NewNode
<1>2. base \in LinkStates(added, x, lev, n)
  <2>1. curr \in Nat
    BY <1>0 DEF Others
  <2> QED
    BY <1>0, <2>1 DEF LinkStates
<1>3. 0 \in Nat /\ n \in Nat /\ 0 <= n
  BY <1>0
<1>4. /\ base \in X[n] /\ \A y : Body(y, n) = base
      /\ \A i \in 0..(n - 1) : \A y \in X[i + 1] : T[i][y] = Body(y, i) /\ Body(y, i) \in X[i]
  <2>1. \A i \in 0..n : X[i] = LinkStates(added, x, lev, i)
    OBVIOUS
  <2>2. \A i \in 0..(n - 1) : \A y \in X[i + 1] : T[i][y] = Body(y, i)
    <3> HIDE DEF X, Body
    <3> QED
      BY <1>3
  <2>3. \A y : Body(y, n) = base
    OBVIOUS
  <2>4. ASSUME NEW i \in 0..(n - 1), NEW y \in LinkStates(added, x, lev, i + 1)
        PROVE  Body(y, i) \in LinkStates(added, x, lev, i)
    <3>1. i # first + 1 /\ i \in 0..lev[x]
      BY <1>0
    <3>2. Connect(y, x, i) \in LinkStates(added, x, lev, i)
      BY <3>1, ConnectGood
    <3> QED
      BY <3>1, <3>2
  <2>5. \A i \in 0..(n - 1) : i \in 0..n /\ i + 1 \in 0..n
    BY <1>3
  <2>6. n \in 0..n
    BY <1>3
  <2> HIDE DEF X, T, Body, base, n
  <2> QED
    BY <1>2, <2>1, <2>2, <2>3, <2>4, <2>5, <2>6
<1> HIDE DEF base, n
<1> HIDE DEF X, T, H, Body
<1>5. StepsDown(0, n, X, base, T)
  BY <1>4 DEF StepsDown
<1>6. PICK f : RunsDown(f, 0, n, X, base, T)
  BY <1>3, <1>5, RecursionDown
<1>7. f = [i \in 0..n |-> Body(f[i + 1], i)]
  <2>1. /\ f = [i \in 0..n |-> f[i]] /\ f[n] = base /\ \A i \in 0..(n - 1) : f[i] = T[i][f[i + 1]]
        /\ \A i \in 0..n : f[i] \in X[i]
    BY <1>6 DEF RunsDown
  <2>2. ASSUME NEW i \in 0..(n - 1) PROVE f[i] = Body(f[i + 1], i)
    <3>1. i + 1 \in 0..n
      BY <1>3
    <3> QED
      BY <1>4, <2>1, <3>1
  <2>3. ASSUME NEW i \in 0..n PROVE f[i] = Body(f[i + 1], i)
    <3>1. i = n \/ i \in 0..(n - 1)
      BY <1>3
    <3> QED
      BY <1>4, <2>1, <2>2, <3>1
  <2> QED
    BY <2>1, <2>3
<1>8. H = [i \in 0..n |-> Body(H[i + 1], i)]
  BY <1>7 DEF H
<1>9. \A i \in 0..n : H[i] \in X[i]
  <2>1. n \in 0..n
    BY <1>3
  <2>2. H[n] = Body(H[n + 1], n)
    BY <1>8, <2>1
  <2>3. H[n] \in X[n]
    BY <1>4, <2>2
  <2>4. ASSUME NEW i \in 0..(n - 1), H[i + 1] \in X[i + 1] PROVE H[i] \in X[i]
    <3>1. i \in 0..n
      BY <1>3
    <3>2. H[i] = Body(H[i + 1], i)
      BY <1>8, <3>1
    <3> QED
      BY <1>4, <2>4, <3>2
  <2> QED
    BY <1>3, <2>3, <2>4, StaysDown
<1>10. H[0] \in X[0]
  BY <1>3, <1>9
<1>11. H[0] \in LinkStates(added, x, lev, 0)
  BY <1>3, <1>10 DEF X
<1>12. H[1] \in LinkStates(added, x, lev, 1) /\ H[0] = Connect(H[1], x, 0)
  <2>1. 0 \in 0..n /\ 1 \in 0..n /\ 0 # first + 1 /\ 0 + 1 = 1
    BY <1>0 DEF n
  <2>2. H[1] \in LinkStates(added, x, lev, 1)
    BY <1>9, <2>1 DEF X
  <2>3. H[0] = Body(H[0 + 1], 0)
    BY <1>8, <2>1
  <2>4. Body(H[0 + 1], 0) = Connect(H[1], x, 0)
    BY <2>1 DEF Body
  <2> QED
    BY <2>2, <2>3, <2>4
<1> QED
  BY <1>1, <1>11, <1>12 DEF LinkStates, LastLinked

\* Phase 1 ends on a node of the first layer to be linked.
LEMMA DescendToGood ==
    ASSUME NEW added, NEW x, NEW lev, NewNode(added, x, lev),
           \A l \in Nat : Linking(added, added, x, lev, l),
           NEW g, \A n \in 1..x - 1 : LevelOf(g, n) = lev[n],
           g.entry \in 1..x - 1, g.top = lev[g.entry], g.top \in 0..MaxLayer,
           NEW level \in 0..MaxLayer
    PROVE  DescendTo(g, added, x, level) \in Others(lev, x, IF level < g.top THEN level ELSE g.top)
<1> DEFINE top == g.top
           highest == IF g.top < LevelOf(g, g.entry) THEN g.top ELSE LevelOf(g, g.entry)
           Down(above, l) ==
             IF l > LevelOf(g, above) THEN above ELSE greedy_search_layer(added, above, added.vec[x], l)
           Low(l) == IF l < top THEN l + 1 ELSE top
           entry == g.entry
           Body(y, l) == IF l >= highest THEN entry ELSE Down(y, l + 1)
           X == [l \in level..MaxLayer |-> Others(lev, x, Low(l))]
           T == [l \in level..MaxLayer |-> [y \in X[l + 1] |-> Body(y, l)]]
           H == CHOOSE h : h = [l \in level..MaxLayer |-> Body(h[l + 1], l)]
<1>0. /\ x \in Nat \ {0} /\ lev \in [1..x -> Nat] /\ MaxLayer \in Nat /\ level \in Nat /\ top \in Nat
      /\ Len(added.ids) \in Nat
  BY ConfigsAssumption DEF NewNode
<1>1. DescendTo(g, added, x, level) = H[level]
  BY DEF DescendTo
<1>2. highest = top /\ top <= MaxLayer
  BY <1>0
<1>3. level \in Nat /\ MaxLayer \in Nat /\ level <= MaxLayer
  BY <1>0
<1>4. /\ entry \in X[MaxLayer] /\ \A y : Body(y, MaxLayer) = entry
      /\ \A i \in level..(MaxLayer - 1) : \A y \in X[i + 1] : T[i][y] = Body(y, i) /\ Body(y, i) \in X[i]
  <2>1. \A i \in level..MaxLayer : X[i] = Others(lev, x, Low(i))
    OBVIOUS
  <2>2. \A i \in level..(MaxLayer - 1) : \A y \in X[i + 1] : T[i][y] = Body(y, i)
    <3> HIDE DEF X, Body
    <3> QED
      BY <1>3
  <2>3. \A y : Body(y, MaxLayer) = entry
    BY <1>0, <1>2
  <2>4. ASSUME NEW i \in level..(MaxLayer - 1), NEW y \in Others(lev, x, Low(i + 1))
        PROVE  Body(y, i) \in Others(lev, x, Low(i))
    <3>1. CASE i >= top
      <4>1. Body(y, i) = entry /\ Low(i) = top
        BY <1>0, <1>2, <3>1
      <4> QED
        BY <1>0, <4>1 DEF Others
    <3>2. CASE ~(i >= top)
      <4>1. Low(i) = i + 1 /\ Low(i + 1) >= i + 1 /\ Low(i + 1) \in Nat /\ i + 1 \in Nat
        BY <1>0, <3>2
      <4> HIDE DEF Low
      <4>2. y \in 1..x - 1 /\ lev[y] >= i + 1 /\ lev[y] \in Nat
        BY <1>0, <4>1 DEF Others
      <4>3. y \in Others(lev, x, i + 1)
        BY <4>2 DEF Others
      <4>4. ~(i + 1 > LevelOf(g, y))
        BY <4>1, <4>2
      <4>5. Body(y, i) = greedy_search_layer(added, y, added.vec[x], i + 1)
        BY <1>2, <3>2, <4>4
      <4>6. ClosedOn(added, i + 1, Others(lev, x, i + 1))
        <5>1. Linking(added, added, x, lev, (i + 1) + 1)
          BY <4>1
        <5> QED
          BY <4>1, <5>1, OthersClosed
      <4>7. greedy_search_layer(added, y, added.vec[x], i + 1) \in Others(lev, x, i + 1)
        BY <1>0, <4>3, <4>6, GreedyWalkStays DEF greedy_search_layer, greedy_search_layer_weighted
      <4> QED
        BY <4>1, <4>5, <4>7
    <3> QED
      BY <3>1, <3>2
  <2>5. \A i \in level..(MaxLayer - 1) : i \in level..MaxLayer /\ i + 1 \in level..MaxLayer
    BY <1>3
  <2>6. MaxLayer \in level..MaxLayer
    BY <1>3
  <2>7. entry \in Others(lev, x, Low(MaxLayer))
    <3>1. Low(MaxLayer) = top
      BY <1>0, <1>2
    <3> QED
      BY <1>0, <3>1 DEF Others
  <2> HIDE DEF X, T, Body, Low, entry
  <2> QED
    BY <2>1, <2>2, <2>3, <2>4, <2>5, <2>6, <2>7
<1> HIDE DEF Low, entry, highest
<1> HIDE DEF X, T, H, Body
<1>5. StepsDown(level, MaxLayer, X, entry, T)
  BY <1>4 DEF StepsDown
<1>6. PICK f : RunsDown(f, level, MaxLayer, X, entry, T)
  BY <1>3, <1>5, RecursionDown
<1>7. f = [i \in level..MaxLayer |-> Body(f[i + 1], i)]
  <2>1. /\ f = [i \in level..MaxLayer |-> f[i]] /\ f[MaxLayer] = entry /\ \A i \in level..(MaxLayer - 1) : f[i] = T[i][f[i + 1]]
        /\ \A i \in level..MaxLayer : f[i] \in X[i]
    BY <1>6 DEF RunsDown
  <2>2. ASSUME NEW i \in level..(MaxLayer - 1) PROVE f[i] = Body(f[i + 1], i)
    <3>1. i + 1 \in level..MaxLayer
      BY <1>3
    <3> QED
      BY <1>4, <2>1, <3>1
  <2>3. ASSUME NEW i \in level..MaxLayer PROVE f[i] = Body(f[i + 1], i)
    <3>1. i = MaxLayer \/ i \in level..(MaxLayer - 1)
      BY <1>3
    <3> QED
      BY <1>4, <2>1, <2>2, <3>1
  <2> QED
    BY <2>1, <2>3
<1>8. H = [i \in level..MaxLayer |-> Body(H[i + 1], i)]
  BY <1>7 DEF H
<1>9. \A i \in level..MaxLayer : H[i] \in X[i]
  <2>1. MaxLayer \in level..MaxLayer
    BY <1>3
  <2>2. H[MaxLayer] = Body(H[MaxLayer + 1], MaxLayer)
    BY <1>8, <2>1
  <2>3. H[MaxLayer] \in X[MaxLayer]
    BY <1>4, <2>2
  <2>4. ASSUME NEW i \in level..(MaxLayer - 1), H[i + 1] \in X[i + 1] PROVE H[i] \in X[i]
    <3>1. i \in level..MaxLayer
      BY <1>3
    <3>2. H[i] = Body(H[i + 1], i)
      BY <1>8, <3>1
    <3> QED
      BY <1>4, <2>4, <3>2
  <2> QED
    BY <1>3, <2>3, <2>4, StaysDown
<1>10. H[level] \in X[level]
  BY <1>3, <1>9
<1>11. H[level] \in Others(lev, x, Low(level))
  BY <1>3, <1>10 DEF X
<1>12. Others(lev, x, Low(level)) \in SUBSET Others(lev, x, IF level < top THEN level ELSE top)
  BY <1>0 DEF Others, Low
<1> QED
  BY <1>1, <1>11, <1>12

-----------------------------------------------------------------------------
(* Sound graphs *)

\* lev gives the nodes' levels; the entry point is on the top layer.
Levelled(g, lev) ==
  /\ lev \in [1..Len(g.ids) -> Nat]
  /\ GoodEdges(g.edges, Len(g.ids), lev)
  /\ Len(g.ids) # 0 => g.entry \in 1..Len(g.ids) /\ lev[g.entry] = g.top
  /\ \A n \in 1..Len(g.ids) : lev[n] <= g.top

\* No list of n nodes can have been shrunk, and no search cut short.
Roomy(n) == n <= config.m_max0 + 1 /\ n <= config.ef_construction + 1

\* As long as there is room and no tombstone, all nodes are linked on layer 0.
SmallMeshed(g) ==
  (Roomy(Len(g.ids)) /\ \A n \in 1..Len(g.ids) : ~g.del[n]) => AllLinked(g.edges, 0, 1..Len(g.ids))

\* What every graph of the index satisfies.
Sound(g) ==
  /\ g \in Graphs /\ Len(g.vec) = Len(g.ids) /\ Len(g.del) = Len(g.ids)
  /\ Once(g.ids)
  /\ \E lev : Levelled(g, lev)
  /\ SmallMeshed(g)

\* The lists of a sound graph.
LEMMA SoundFields ==
    ASSUME NEW g, Sound(g)
    PROVE  /\ g \in Graphs /\ Len(g.ids) \in Nat /\ Len(g.vec) = Len(g.ids) /\ Len(g.del) = Len(g.ids)
           /\ Once(g.ids)
           /\ g.ids \in Seq(Ids) /\ DOMAIN g.ids = 1..Len(g.ids) /\ NodesOf(g) = 1..Len(g.ids)
           /\ g.vec \in Seq(Points) /\ DOMAIN g.vec = 1..Len(g.ids)
           /\ g.del \in Seq(BOOLEAN) /\ DOMAIN g.del = 1..Len(g.ids)
           /\ Vectors(g, Len(g.ids))
           /\ g.top \in 0..MaxLayer
<1>1. /\ g \in Graphs /\ Len(g.vec) = Len(g.ids) /\ Len(g.del) = Len(g.ids) /\ Once(g.ids)
      /\ g.ids \in Seq(Ids) /\ g.vec \in Seq(Points) /\ g.del \in Seq(BOOLEAN) /\ g.top \in 0..MaxLayer
  BY DEF Sound, Graphs
<1>2. Len(g.ids) \in Nat /\ DOMAIN g.ids = 1..Len(g.ids) /\ DOMAIN g.vec = 1..Len(g.ids) /\ DOMAIN g.del = 1..Len(g.ids)
  BY <1>1
<1>3. g.vec \in [1..Len(g.ids) -> Points]
  BY <1>1, <1>2
<1> QED
  BY <1>1, <1>2, <1>3 DEF Vectors, NodesOf

\* Sets that a one-to-one map relates have the same number of elements.
LEMMA SameCount ==
    ASSUME NEW S, NEW T, IsFiniteSet(S), NEW f \in [S -> T],
           \A a, b \in S : f[a] = f[b] => a = b,
           \A e \in T : \E a \in S : f[a] = e
    PROVE  IsFiniteSet(T) /\ Cardinality(T) = Cardinality(S)
<1>1. f \in Bijection(S, T)
  BY DEF Bijection, Injection, Surjection, IsInjective
<1>2. ExistsBijection(S, T)
  BY <1>1 DEF ExistsBijection
<1> QED
  BY <1>2, FS_Bijection

\* A list without repetitions has as many elements as positions.
LEMMA OnceCounts ==
    ASSUME NEW s, IsSeq(s), Once(s)
    PROVE  IsFiniteSet(ToSet(s)) /\ Cardinality(ToSet(s)) = Len(s)
<1> DEFINE f == [i \in 1..Len(s) |-> s[i]]
<1>1. Len(s) \in Nat /\ DOMAIN s = 1..Len(s)
  BY IsSeqFacts
<1>2. /\ f \in [1..Len(s) -> ToSet(s)]
      /\ \A a, b \in 1..Len(s) : f[a] = f[b] => a = b
      /\ \A e \in ToSet(s) : \E a \in 1..Len(s) : f[a] = e
  <2>1. f \in [1..Len(s) -> ToSet(s)]
    BY <1>1 DEF ToSet
  <2>2. \A a, b \in 1..Len(s) : f[a] = f[b] => a = b
    BY DEF Once
  <2>3. \A e \in ToSet(s) : \E a \in 1..Len(s) : f[a] = e
    BY <1>1 DEF ToSet
  <2> QED
    BY <2>1, <2>2, <2>3
<1> HIDE DEF f
<1>3. IsFiniteSet(1..Len(s)) /\ Cardinality(1..Len(s)) = Len(s)
  <2>1. 1 \in Int /\ Len(s) \in Int
    BY <1>1
  <2>2. IsFiniteSet(1..Len(s)) /\ Cardinality(1..Len(s)) = IF 1 > Len(s) THEN 0 ELSE Len(s) - 1 + 1
    BY <2>1, FS_Interval
  <2> QED
    BY <1>1, <2>2
<1>5. IsFiniteSet(ToSet(s)) /\ Cardinality(ToSet(s)) = Cardinality(1..Len(s))
  BY <1>2, <1>3, SameCount
<1> QED
  BY <1>3, <1>5

\* Cutting a list to at least its length keeps it.
LEMMA TruncateAll ==
    ASSUME NEW s, IsSeq(s), NEW k \in Nat, Len(s) <= k
    PROVE  Truncate(s, k) = s
<1>1. Len(s) \in Nat /\ s = [i \in 1..Len(s) |-> s[i]]
  BY IsSeqFacts
<1>2. Truncate(s, k) = SubSeq(s, 1, Len(s))
  <2>1. (IF Len(s) < k THEN Len(s) ELSE k) = Len(s)
    BY <1>1
  <2> QED
    BY <2>1 DEF Truncate
<1>3. Fixed(s) = s
  BY <1>1, FixedIsSeq
<1> QED
  BY <1>2, <1>3 DEF Fixed

\* A list of all the elements of a finite set.
LEMMA ListsAll ==
    ASSUME NEW S, IsFiniteSet(S), NEW t, Lists(t, S)
    PROVE  IsSeq(t) /\ ToSet(t) = S
<1>1. t \in Seq(S) /\ Len(t) = Cardinality(S) /\ Once(t)
  BY DEF Lists, Once
<1>2. IsSeq(t) /\ DOMAIN t = 1..Len(t) /\ \A i \in 1..Len(t) : t[i] \in S
  BY <1>1, SeqIsSeq, IsSeqFacts, ElementOfSeq
<1>3. ToSet(t) \in SUBSET S
  BY <1>2 DEF ToSet
<1>4. Cardinality(ToSet(t)) = Cardinality(S)
  BY <1>1, <1>2, OnceCounts
<1> QED
  BY <1>2, <1>3, <1>4, FS_Subset

\* The first n numbers.
LEMMA CountTo ==
    ASSUME NEW n \in Nat
    PROVE  IsFiniteSet(1..n) /\ Cardinality(1..n) = n
<1>1. 1 \in Int /\ n \in Int
  OBVIOUS
<1>2. IsFiniteSet(1..n) /\ Cardinality(1..n) = IF 1 > n THEN 0 ELSE n - 1 + 1
  BY <1>1, FS_Interval
<1> QED
  BY <1>2

\* The list of a node without repetitions, of other nodes only, leaves room.
LEMMA OthersRoom ==
    ASSUME NEW N \in Nat, NEW n \in 1..N, NEW list \in Seq(1..N), Once(list),
           \A a \in 1..Len(list) : list[a] # n
    PROVE  Len(list) <= N - 1
<1> DEFINE S == ToSet(list)
           c == Cardinality(1..N)
<1>1. IsSeq(list) /\ DOMAIN list = 1..Len(list) /\ \A a \in 1..Len(list) : list[a] \in 1..N
  BY SeqIsSeq, IsSeqFacts, ElementOfSeq
<1>2. S \in SUBSET ((1..N) \ {n})
  BY <1>1 DEF ToSet
<1>3. Cardinality(S) = Len(list)
  BY <1>1, OnceCounts
<1> HIDE DEF S
<1>4. IsFiniteSet(1..N) /\ c = N
  BY CountTo
<1>5. IsFiniteSet((1..N) \ {n}) /\ Cardinality((1..N) \ {n}) = c - 1
  BY <1>4, FS_RemoveElement
<1>6. Cardinality(S) <= Cardinality((1..N) \ {n})
  BY <1>2, <1>5, FS_Subset
<1> QED
  BY <1>3, <1>4, <1>5, <1>6

\* While the lists have room, x is linked with every node on layer 0.
LEMMA LinkComplete ==
    ASSUME config \in Configs, NEW added, NEW x, NEW lev, NewNode(added, x, lev),
           x - 1 <= config.ef_construction, x - 1 <= config.m_max0,
           \A n \in 1..x - 1 : ~added.del[n], AllLinked(added.edges, 0, 1..x - 1),
           NEW k, LastLinked(k, added, x, lev)
    PROVE  AllLinked(k.edges, 0, 1..x)
<1> DEFINE N == x - 1
           L == 1..N
<1>1. PICK at \in LinkStates(added, x, lev, 1) : k = Connect(at, x, 0).g
  BY DEF LastLinked
<1> DEFINE h == at.g
           curr == at.curr
           dist == Distances(h, h.vec[x], 1)
           found == EfSearch(h, curr, config.ef_construction, 0, dist)
<1>2. /\ x \in Nat \ {0} /\ lev \in [1..x -> Nat] /\ x \in 1..x /\ 0 + 1 = 1 /\ 1 - 1 = 0 /\ 0 \in Nat
      /\ N \in Nat /\ x = N + 1 /\ lev[x] \in Nat /\ 0 \in 0..lev[x]
  BY DEF NewNode
<1>3. Others(lev, x, 0) = L
  BY <1>2 DEF Others
<1>4. Linking(h, added, x, lev, 0 + 1) /\ curr \in L
  BY <1>2, <1>3 DEF LinkStates
<1> HIDE DEF h, curr, N
<1>5. Len(h.ids) = x /\ Vectors(h, x) /\ h.vec[x] \in Points /\ h.del = added.del
  BY <1>4, LinkingFacts
<1>6. ClosedOn(h, 0, L)
  BY <1>2, <1>3, <1>4, OthersClosed
<1>7. L \in SUBSET (1..x) /\ (\A n \in L : n \in 1..x /\ n # x /\ 0 \in 0..lev[n]) /\ \A n \in 1..x : n = x \/ n \in L
  BY <1>2
<1>8. \A n \in L : h.edges[n][1] = added.edges[n][1]
  <2>1. \A n \in 1..x : \A j \in 0..lev[n] : j < 0 + 1 => h.edges[n][j + 1] = added.edges[n][j + 1]
    BY <1>4 DEF Linking
  <2> HIDE DEF L
  <2> SUFFICES ASSUME NEW n \in L PROVE h.edges[n][1] = added.edges[n][1]
    OBVIOUS
  <2>2. n \in 1..x /\ 0 \in 0..lev[n]
    BY <1>7
  <2>3. 0 < 0 + 1 => h.edges[n][0 + 1] = added.edges[n][0 + 1]
    BY <2>1, <2>2
  <2> QED
    BY <2>3
<1>9. AllLinked(h.edges, 0, L)
  <2>1. AllLinked(added.edges, 0, L)
    BY DEF N
  <2> HIDE DEF L
  <2> QED
    BY <1>2, <1>8, <2>1 DEF AllLinked
<1>10. \A n \in L : ~h.del[n]
  BY <1>5 DEF N
<1>11. Measured(dist, L, 1..x)
  <2>1. 1 \in Int
    OBVIOUS
  <2> HIDE DEF L
  <2> QED
    BY <1>5, <1>7, <2>1, DistancesMeasured
<1>12. IsFiniteSet(L) /\ Cardinality(L) = N
  BY <1>2, CountTo
<1>13. config.ef_construction \in Nat /\ config.m_max0 \in Nat /\ MaxConn(0) = config.m_max0
       /\ N <= config.ef_construction /\ N <= config.m_max0
  BY ConfigsAssumption DEF MaxConn, N
<1> HIDE DEF L, dist
<1>14. Lists(found, L)
  <2>1. Len(h.ids) \in Nat /\ L \in SUBSET (1..Len(h.ids)) /\ Cardinality(L) <= config.ef_construction
    BY <1>2, <1>5, <1>7, <1>12, <1>13
  <2> HIDE DEF found
  <2> QED
    BY <1>4, <1>6, <1>9, <1>10, <1>11, <1>13, <2>1, EfSearchFindsAll DEF found
<1>15. Candidates(h, x, curr, 0) = Truncate(found, MaxConn(0))
  BY DEF Candidates, select_neighbors, search_layer, search_layer_weighted, dist
<1> HIDE DEF found
<1>16. IsSeq(found) /\ ToSet(found) = L /\ Len(found) = N
  BY <1>12, <1>14, ListsAll DEF Lists
<1>17. Candidates(h, x, curr, 0) = found
  BY <1>13, <1>15, <1>16, TruncateAll
<1>18. GoodNearest(found, lev, x, 0)
  <2>1. GoodNearest(Candidates(h, x, curr, 0), lev, x, 0)
    BY <1>2, <1>3, <1>4, CandidatesGood
  <2> QED
    BY <1>17, <2>1
<1>19. k = LinkBothWays(h, x, 0, found)
  <2>1. k = LinkBothWays(h, x, 0, Candidates(h, x, curr, 0))
    BY <1>1 DEF Connect, Relink, h, curr
  <2> QED
    BY <1>17, <2>1
<1>20. Relinked(k, h, x, lev, 0, found)
  BY <1>2, <1>4, <1>18, <1>19, LinkBothWaysGood
<1>21. ASSUME NEW n \in 1..x PROVE k.edges[n][1] = NewListOf(h, x, 0, found, n)
  <2>1. n = x \/ n \in ToSet(found)
    BY <1>7, <1>16
  <2>2. 0 \in 0..lev[n]
    BY <1>2
  <2>3. k.edges[n][0 + 1] = IF (n = x \/ n \in ToSet(found)) /\ 0 = 0
                           THEN NewListOf(h, x, 0, found, n) ELSE h.edges[n][0 + 1]
    BY <1>20, <2>2 DEF Relinked
  <2> QED
    BY <1>2, <2>1, <2>3
<1>22. k.edges[x][1] = found
  BY <1>2, <1>21 DEF NewListOf
<1>23. ASSUME NEW n \in L
       PROVE  k.edges[n][1] = Append(h.edges[n][1], x) /\ IsSeq(h.edges[n][1])
  <2> DEFINE list == h.edges[n][1]
  <2>0. n \in 1..x /\ n # x /\ n \in 1..N
    BY <1>7 DEF L
  <2>1. list \in Seq(L)
    BY <1>2, <1>6 DEF ClosedOn
  <2>2. GoodList(list, lev, n, 0)
    <3>1. GoodEdges(h.edges, x, lev)
      BY <1>4 DEF Linking
    <3>2. 0 \in 0..lev[n]
      BY <1>7
    <3>3. GoodList(h.edges[n][0 + 1], lev, n, 0)
      BY <2>0, <3>1, <3>2 DEF GoodEdges
    <3> QED
      BY <1>2, <3>3
  <2> HIDE DEF list
  <2>3. Once(list) /\ \A a \in 1..Len(list) : list[a] # n
    BY <2>2 DEF GoodList
  <2>4. Len(list) <= N - 1
    <3>1. list \in Seq(1..N)
      BY <2>1 DEF L
    <3> QED
      BY <1>2, <2>0, <2>3, <3>1, OthersRoom
  <2>5. Len(Append(list, x)) = Len(list) + 1 /\ Len(list) \in Nat
    <3>1. list \in Seq(1..x) /\ x \in 1..x
      BY <1>2, <1>7, <2>1, SeqWider
    <3> QED
      BY <3>1, AppendProperties
  <2>6. Len(Append(list, x)) <= MaxConn(0)
    BY <1>2, <1>13, <2>4, <2>5
  <2>7. shrink_connections(h, n, 0, Append(list, x)) = Append(list, x)
    BY <2>6 DEF shrink_connections
  <2>8. NewListOf(h, x, 0, found, n) = shrink_connections(h, n, 0, Append(list, x))
    BY <1>2, <2>0 DEF NewListOf, list
  <2>9. IsSeq(list)
    BY <2>1, SeqIsSeq
  <2> QED
    BY <1>21, <2>0, <2>7, <2>8, <2>9 DEF list
<1>24. ASSUME NEW a \in 1..x, NEW b \in 1..x, a # b PROVE b \in ToSet(k.edges[a][1])
  <2>1. CASE a = x
    <3>1. b \in L
      BY <1>7, <1>24, <2>1
    <3> QED
      BY <1>16, <1>22, <2>1, <3>1
  <2>2. CASE a # x
    <3>0. a \in L
      BY <1>7, <2>2
    <3> DEFINE list == h.edges[a][1]
    <3>1. k.edges[a][1] = Append(list, x) /\ IsSeq(list)
      BY <1>23, <3>0
    <3>2. AllLinked(h.edges, 0, L)
      BY <1>9
    <3>3. b \in L => b \in ToSet(list)
      BY <1>2, <1>24, <3>0, <3>2 DEF AllLinked
    <3> HIDE DEF list
    <3>4. /\ Len(list) \in Nat /\ DOMAIN list = 1..Len(list)
          /\ DOMAIN Append(list, x) = 1..(Len(list) + 1)
          /\ Append(list, x)[Len(list) + 1] = x
          /\ \A i \in 1..Len(list) : Append(list, x)[i] = list[i]
      BY <3>1, AppendIsSeq, IsSeqFacts
    <3>5. CASE b = x
      <4>1. Len(list) + 1 \in DOMAIN Append(list, x)
        BY <3>4
      <4> QED
        BY <3>1, <3>4, <3>5, <4>1 DEF ToSet
    <3>6. CASE b # x
      <4>1. b \in L
        BY <1>7, <3>6
      <4>2. PICK i \in 1..Len(list) : b = list[i]
        BY <3>3, <3>4, <4>1 DEF ToSet
      <4>3. i \in DOMAIN Append(list, x) /\ Append(list, x)[i] = b
        BY <3>4, <4>2
      <4> QED
        BY <3>1, <4>3 DEF ToSet
    <3> QED
      BY <3>5, <3>6
  <2> QED
    BY <2>1, <2>2
<1> QED
  BY <1>2, <1>24 DEF AllLinked

\* A sound graph can be navigated and keeps its degree bounds.
LEMMA SoundGraph ==
    ASSUME NEW g, Sound(g)
    PROVE  Navigable(g) /\ Bounded(g)
<1> DEFINE N == Len(g.ids)
<1>1. PICK lev : Levelled(g, lev)
  BY DEF Sound
<1>2. N \in Nat /\ NodesOf(g) = 1..N /\ g.ids \in Seq(Ids)
  BY SoundFields
<1>3. /\ lev \in [1..N -> Nat]
      /\ \A n \in 1..N : Len(g.edges[n]) = lev[n] + 1
      /\ \A n \in 1..N : \A j \in 0..lev[n] : GoodList(g.edges[n][j + 1], lev, n, j)
      /\ N # 0 => g.entry \in 1..N /\ lev[g.entry] = g.top
      /\ \A n \in 1..N : lev[n] <= g.top
  BY <1>1 DEF Levelled, GoodEdges
<1>4. ASSUME NEW n \in 1..N PROVE LevelOf(g, n) = lev[n]
  <2>1. Len(g.edges[n]) = lev[n] + 1 /\ lev[n] \in Nat
    BY <1>3
  <2> QED
    BY <2>1 DEF LevelOf
<1>5. g.ids # <<>> => N # 0
  BY <1>2
<1> HIDE DEF N
<1>6. ASSUME NEW n \in 1..N, NEW l \in 0..lev[n]
      PROVE  LET list == g.edges[n][l + 1]
             IN  /\ Len(list) <= MaxConn(l) /\ Cardinality(ToSet(list)) = Len(list)
                 /\ \A e \in ToSet(list) : e \in 1..N \ {n} /\ l <= lev[e]
  <2> DEFINE list == g.edges[n][l + 1]
  <2>1. GoodList(list, lev, n, l)
    BY <1>3
  <2> HIDE DEF list
  <2>2. list \in Seq(1..N) /\ Len(list) <= MaxConn(l) /\ Once(list)
        /\ \A a \in 1..Len(list) : list[a] # n /\ lev[list[a]] >= l
    <3>1. DOMAIN lev = 1..N
      BY <1>3
    <3> QED
      BY <2>1, <3>1 DEF GoodList
  <2>3. IsSeq(list) /\ DOMAIN list = 1..Len(list)
    BY <2>2, SeqIsSeq, IsSeqFacts
  <2>4. Cardinality(ToSet(list)) = Len(list)
    BY <2>2, <2>3, OnceCounts
  <2>5. ASSUME NEW e \in ToSet(list) PROVE e \in 1..N \ {n} /\ l <= lev[e]
    <3>1. PICK a \in 1..Len(list) : e = list[a]
      BY <2>3 DEF ToSet
    <3>2. list[a] \in 1..N
      BY <2>2, ElementOfSeq
    <3>3. lev[list[a]] \in Nat
      BY <1>3, <3>2
    <3> QED
      BY <1>3, <2>2, <3>1, <3>2, <3>3
  <2> QED
    BY <2>2, <2>4, <2>5 DEF list
<1>7. Navigable(g)
  <2>1. ASSUME NEW n \in NodesOf(g), NEW l \in 0..LevelOf(g, n), NEW e \in ToSet(g.edges[n][l + 1])
        PROVE  e \in NodesOf(g) \ {n} /\ l <= LevelOf(g, e)
    <3>1. n \in 1..N /\ l \in 0..lev[n]
      BY <1>2, <1>4
    <3>2. e \in 1..N \ {n} /\ l <= lev[e]
      BY <1>6, <2>1, <3>1
    <3> QED
      BY <1>2, <1>4, <3>2
  <2>2. g.ids # <<>> => LevelOf(g, g.entry) = g.top
    BY <1>3, <1>4, <1>5
  <2>3. \A n \in NodesOf(g) : LevelOf(g, n) <= g.top
    BY <1>2, <1>3, <1>4
  <2> QED
    BY <2>1, <2>2, <2>3 DEF Navigable
<1>8. Bounded(g)
  <2>1. ASSUME NEW n \in NodesOf(g), NEW l \in 0..LevelOf(g, n)
        PROVE  /\ Len(g.edges[n][l + 1]) <= MaxConn(l)
               /\ Cardinality(ToSet(g.edges[n][l + 1])) = Len(g.edges[n][l + 1])
    <3>1. n \in 1..N /\ l \in 0..lev[n]
      BY <1>2, <1>4
    <3> QED
      BY <1>6, <3>1
  <2> QED
    BY <2>1 DEF Bounded
<1> QED
  BY <1>7, <1>8

\* The levels with a new node x.
LevelsWith(lev, x, level) == [n \in 1..x |-> IF n = x THEN level ELSE lev[n]]

\* added is g with a node x for id that has no edges.
HasUnlinked(added, g, x, lev2, id, v) ==
  /\ NewNode(added, x, lev2)
  /\ \A l \in Nat : Linking(added, added, x, lev2, l)
  /\ \A n \in 1..Len(g.ids) : added.edges[n] = g.edges[n]
  /\ added.ids = Append(g.ids, id) /\ added.vec = Append(g.vec, v)
  /\ added.del = Append(g.del, FALSE) /\ added.entry = g.entry /\ added.top = g.top

\* A graph with a node that is not linked yet.
LEMMA AddNodeGood ==
    ASSUME config \in Configs, NEW g, Sound(g), NEW lev, Levelled(g, lev), NEW id \in Ids, NEW v \in Points,
           NEW level \in 0..MaxLayer, NEW x, x = Len(g.ids) + 1,
           NEW added, added = AddNode(g, id, v, level),
           NEW lev2, lev2 = LevelsWith(lev, x, level)
    PROVE  HasUnlinked(added, g, x, lev2, id, v)
<1> DEFINE N == Len(g.ids)
           row == [l \in 1..level + 1 |-> <<>>]
<1>0. /\ N \in Nat /\ g \in Graphs /\ Len(g.vec) = N /\ Len(g.del) = N
      /\ g.ids \in Seq(Ids) /\ g.vec \in Seq(Points) /\ g.del \in Seq(BOOLEAN)
  BY SoundFields
<1>1. level \in Nat /\ level + 1 \in Nat /\ x \in Nat \ {0}
  BY <1>0, ConfigsAssumption
<1>2. Fixed(row) = row /\ Len(row) = level + 1 /\ row \in Seq(Seq(Nat)) /\ \A l \in 1..level + 1 : row[l] = <<>>
  <2>1. row = [l \in 1..level + 1 |-> row[l]] /\ \A l \in 1..level + 1 : row[l] = <<>>
    OBVIOUS
  <2>2. <<>> \in Seq(Nat)
    OBVIOUS
  <2>3. row \in [1..level + 1 -> Seq(Nat)]
    BY <2>2
  <2> HIDE DEF row
  <2>4. Fixed(row) = row
    BY <1>1, <2>1, FixedIsSeq
  <2>5. Len(row) = level + 1
    BY <1>1, <2>1, FunctionIsSeq
  <2>6. row \in Seq(Seq(Nat))
    BY <1>1, <2>3
  <2> QED
    BY <2>1, <2>4, <2>5, <2>6
<1>3. added = [g EXCEPT !.ids = Append(@, id), !.vec = Append(@, v), !.del = Append(@, FALSE),
                        !.edges = Append(@, Fixed(row))]
  BY DEF AddNode
<1> HIDE DEF row
<1>4. added = [g EXCEPT !.ids = Append(@, id), !.vec = Append(@, v), !.del = Append(@, FALSE),
                        !.edges = Append(@, row)]
  BY <1>2, <1>3
<1>5. /\ added.ids = Append(g.ids, id) /\ added.vec = Append(g.vec, v) /\ added.del = Append(g.del, FALSE)
      /\ added.edges = Append(g.edges, row) /\ added.entry = g.entry /\ added.top = g.top
  BY <1>0, <1>4 DEF Graphs
<1>6. /\ lev \in [1..N -> Nat]
      /\ g.edges \in Seq(Seq(Seq(Nat))) /\ Len(g.edges) = N
      /\ \A n \in 1..N : Len(g.edges[n]) = lev[n] + 1
      /\ \A n \in 1..N : \A j \in 0..lev[n] : GoodList(g.edges[n][j + 1], lev, n, j)
  BY DEF Levelled, GoodEdges
<1>7. /\ added.edges \in Seq(Seq(Seq(Nat))) /\ Len(added.edges) = x
      /\ (\A n \in 1..N : added.edges[n] = g.edges[n]) /\ added.edges[x] = row
  <2> DEFINE e == g.edges
             Rows == Seq(Seq(Nat))
  <2>1. e \in Seq(Rows) /\ Len(e) = N /\ row \in Rows
    BY <1>2, <1>6
  <2>2. added.edges = Append(e, row)
    BY <1>5
  <2> HIDE DEF e, Rows
  <2>3. /\ Append(e, row) \in Seq(Rows) /\ Len(Append(e, row)) = Len(e) + 1
        /\ \A i \in 1..Len(e) : Append(e, row)[i] = e[i]
        /\ Append(e, row)[Len(e) + 1] = row
    BY <2>1, AppendProperties
  <2> QED
    BY <2>1, <2>2, <2>3 DEF e, Rows
<1>8. added \in Graphs
  <2>1. Append(g.ids, id) \in Seq(Ids) /\ Append(g.vec, v) \in Seq(Points) /\ Append(g.del, FALSE) \in Seq(BOOLEAN)
    BY <1>0
  <2> HIDE DEF N
  <2> QED
    BY <1>0, <1>4, <1>5, <1>7, <2>1 DEF Graphs
<1>9. Len(added.ids) = x /\ Len(added.vec) = x
  BY <1>0, <1>5
<1>10. lev2 \in [1..x -> Nat] /\ lev2[x] = level /\ (\A n \in 1..N : lev2[n] = lev[n]) /\ DOMAIN lev2 = 1..x
  <2>1. \A n \in 1..x : n = x \/ (n \in 1..N /\ n # x)
    BY <1>0
  <2>2. \A n \in 1..N : n \in 1..x /\ n # x
    BY <1>0
  <2>3. x \in 1..x
    BY <1>1
  <2> HIDE DEF N
  <2> QED
    BY <1>1, <1>6, <2>1, <2>2, <2>3 DEF LevelsWith
<1>11. NewNode(added, x, lev2)
  BY <1>1, <1>8, <1>9, <1>10 DEF NewNode
<1>12. ASSUME NEW n \in 1..N, NEW j \in 0..lev[n]
       PROVE  /\ GoodList(g.edges[n][j + 1], lev2, n, j)
              /\ \A a \in 1..Len(g.edges[n][j + 1]) : g.edges[n][j + 1][a] # x
  <2> DEFINE list == g.edges[n][j + 1]
  <2>1. GoodList(list, lev, n, j)
    BY <1>6
  <2> HIDE DEF list
  <2>2. list \in Seq(1..N) /\ Len(list) <= MaxConn(j) /\ Once(list)
        /\ \A a \in 1..Len(list) : list[a] # n /\ lev[list[a]] >= j
    <3>1. DOMAIN lev = 1..N
      BY <1>6
    <3> QED
      BY <2>1, <3>1 DEF GoodList
  <2>3. \A a \in 1..Len(list) : list[a] \in 1..N
    BY <2>2, ElementOfSeq
  <2>4. 1..N \in SUBSET (1..x) /\ x \notin 1..N
    BY <1>0
  <2>5. list \in Seq(1..x)
    BY <2>2, <2>4, SeqWider
  <2>6. GoodList(list, lev2, n, j)
    BY <1>10, <2>2, <2>3, <2>5 DEF GoodList
  <2>7. \A a \in 1..Len(list) : list[a] # x
    BY <2>3, <2>4
  <2> QED
    BY <2>6, <2>7 DEF list
<1>13. ASSUME NEW j \in 0..level
       PROVE  GoodList(row[j + 1], lev2, x, j) /\ Len(row[j + 1]) = 0
  <2>1. j + 1 \in 1..level + 1
    BY <1>1
  <2>2. row[j + 1] = <<>>
    BY <1>2, <2>1
  <2>3. Len(<<>>) = 0 /\ <<>> \in Seq(DOMAIN lev2)
    OBVIOUS
  <2>4. Once(<<>>)
    BY <2>3 DEF Once
  <2> QED
    BY <2>2, <2>3, <2>4, MaxConnPositive DEF GoodList
<1>14. ASSUME NEW n \in 1..x, NEW j \in 0..lev2[n]
       PROVE  /\ GoodList(added.edges[n][j + 1], lev2, n, j)
              /\ \A a \in 1..Len(added.edges[n][j + 1]) : added.edges[n][j + 1][a] # x
  <2>1. CASE n \in 1..N
    <3>1. j \in 0..lev[n] /\ added.edges[n] = g.edges[n]
      BY <1>7, <1>10, <2>1
    <3> QED
      BY <1>12, <2>1, <3>1
  <2>2. CASE n = x
    <3>1. j \in 0..level
      BY <1>10, <2>2
    <3>2. added.edges[n] = row
      BY <1>7, <2>2
    <3> QED
      BY <1>13, <2>2, <3>1, <3>2
  <2>3. n \in 1..N \/ n = x
    BY <1>0
  <2> QED
    BY <2>1, <2>2, <2>3
<1>15. ASSUME NEW n \in 1..x PROVE Len(added.edges[n]) = lev2[n] + 1
  <2>1. n \in 1..N \/ n = x
    BY <1>0
  <2> QED
    BY <1>2, <1>6, <1>7, <1>10, <2>1
<1>16. GoodEdges(added.edges, x, lev2)
  BY <1>7, <1>14, <1>15 DEF GoodEdges
<1>17. added = [added EXCEPT !.edges = added.edges]
  BY <1>8 DEF Graphs
<1>18. \A l \in Nat : Linking(added, added, x, lev2, l)
  BY <1>14, <1>16, <1>17 DEF Linking
<1> QED
  BY <1>5, <1>7, <1>11, <1>18 DEF HasUnlinked

\* h is g with a new node for id.
Extends(h, g, id, v) ==
  h.ids = Append(g.ids, id) /\ h.vec = Append(g.vec, v) /\ h.del = Append(g.del, FALSE)

\* An id that is not there becomes a linked node, and the graph stays sound.
LEMMA InsertNew ==
    ASSUME config \in Configs, NEW g, Sound(g), NEW id \in Ids, NEW v \in Points,
           NEW level \in 0..MaxLayer, id \notin ToSet(g.ids),
           NEW h, h = hnsw_insert(g, id, v, level)
    PROVE  Sound(h) /\ Extends(h, g, id, v)
<1> DEFINE N == Len(g.ids)
           x == N + 1
           added == AddNode(g, id, v, level)
<1>0. N \in Nat /\ g.ids \in Seq(Ids) /\ Once(g.ids) /\ DOMAIN g.ids = 1..N /\ g.del \in Seq(BOOLEAN) /\ Len(g.del) = N
  BY SoundFields
<1>1. PICK lev : Levelled(g, lev)
  BY DEF Sound
<1> DEFINE lev2 == LevelsWith(lev, x, level)
<1>2. h = LinkNode(g, added, x, level)
  BY DEF hnsw_insert
<1>3. /\ NewNode(added, x, lev2)
      /\ \A l \in Nat : Linking(added, added, x, lev2, l)
      /\ added.ids = Append(g.ids, id) /\ added.vec = Append(g.vec, v)
      /\ added.del = Append(g.del, FALSE) /\ added.entry = g.entry /\ added.top = g.top
      /\ \A n \in 1..N : added.edges[n] = g.edges[n]
  <2>1. x = Len(g.ids) + 1 /\ added = AddNode(g, id, v, level) /\ lev2 = LevelsWith(lev, x, level)
    OBVIOUS
  <2> HIDE DEF lev2, added, x, N
  <2>2. HasUnlinked(added, g, x, lev2, id, v)
    BY <1>1, <2>1, AddNodeGood
  <2> QED
    BY <2>2 DEF HasUnlinked, N
<1>4. /\ lev \in [1..N -> Nat] /\ \A n \in 1..N : Len(g.edges[n]) = lev[n] + 1
      /\ N # 0 => g.entry \in 1..N /\ lev[g.entry] = g.top
      /\ \A n \in 1..N : lev[n] <= g.top
  BY <1>1 DEF Levelled, GoodEdges
<1>5. /\ x \in Nat \ {0} /\ x - 1 = N /\ x \in 1..x /\ level \in Nat /\ MaxLayer \in Nat
      /\ g.top \in 0..MaxLayer /\ g.top \in Nat
  BY <1>0, ConfigsAssumption, SoundFields
<1>6. /\ lev2 \in [1..x -> Nat] /\ lev2[x] = level /\ \A n \in 1..N : lev2[n] = lev[n]
  <2>1. lev2 \in [1..x -> Nat]
    BY <1>3 DEF NewNode
  <2>2. \A n \in 1..N : n \in 1..x /\ n # x
    BY <1>0
  <2> HIDE DEF N, x
  <2> QED
    BY <1>5, <2>1, <2>2 DEF LevelsWith
<1> HIDE DEF added, lev2, x
<1>7. Once(added.ids) /\ Len(added.del) = x /\ Len(added.ids) = x /\ Len(added.vec) = x /\ added \in Graphs
  <2>1. id \in Ids /\ Len(Append(g.ids, id)) = N + 1 /\ Append(g.ids, id)[N + 1] = id
        /\ \A i \in 1..N : Append(g.ids, id)[i] = g.ids[i]
    BY <1>0
  <2>2. \A i \in 1..N : g.ids[i] # id
    BY <1>0 DEF ToSet
  <2>3. \A i \in 1..(N + 1) : i = N + 1 \/ i \in 1..N
    BY <1>0
  <2>4. Once(Append(g.ids, id))
    <3> SUFFICES ASSUME NEW a \in 1..(N + 1), NEW b \in 1..(N + 1), Append(g.ids, id)[a] = Append(g.ids, id)[b]
                 PROVE  a = b
      BY <2>1 DEF Once
    <3> HIDE DEF N
    <3>1. CASE a = N + 1
      BY <2>1, <2>2, <2>3, <3>1
    <3>2. CASE b = N + 1
      BY <2>1, <2>2, <2>3, <3>2
    <3>3. CASE a \in 1..N /\ b \in 1..N
      BY <1>0, <2>1, <3>3 DEF Once, N
    <3> QED
      BY <2>3, <3>1, <3>2, <3>3
  <2>5. Len(Append(g.del, FALSE)) = N + 1
    BY <1>0
  <2> QED
    BY <1>3, <2>4, <2>5 DEF NewNode, x
<1>n. NewNode(added, x, lev2)
  BY <1>3
\* The new node is linked with all others while there is room.
<1>m. ASSUME NEW k, LastLinked(k, added, x, lev2), Roomy(x), \A n \in 1..x : ~added.del[n]
      PROVE  AllLinked(k.edges, 0, 1..x)
  <2>1. /\ \A n \in 1..N : added.del[n] = g.del[n]
        /\ \A n \in 1..N : n \in 1..x
    <3>1. \A n \in 1..N : Append(g.del, FALSE)[n] = g.del[n]
      <4> DEFINE d == g.del
                 e == FALSE
      <4>1. IsSeq(d) /\ Len(d) = N
        BY <1>0, SeqIsSeq
      <4> HIDE DEF d, e
      <4>2. \A i \in 1..Len(d) : Append(d, e)[i] = d[i]
        BY ONLY <4>1, AppendIsSeq
      <4> QED
        BY ONLY <4>1, <4>2 DEF d, e
    <3>2. \A n \in 1..N : n \in 1..x
      BY <1>0 DEF x
    <3> QED
      BY <1>3, <3>1, <3>2
  <2>2. config.m_max0 \in Nat /\ config.ef_construction \in Nat
    BY ConfigsAssumption
  <2>3. N <= config.m_max0 /\ N <= config.ef_construction /\ Roomy(N)
    BY <1>0, <1>m, <2>2 DEF Roomy, x
  <2>4. AllLinked(g.edges, 0, 1..N)
    BY <1>m, <2>1, <2>3 DEF Sound, SmallMeshed
  <2>5. AllLinked(added.edges, 0, 1..N)
    <3> HIDE DEF N
    <3> QED
      BY <1>3, <2>4 DEF AllLinked
  <2>6. \A n \in 1..N : ~added.del[n]
    BY <1>m, <2>1
  <2> HIDE DEF N
  <2>7. /\ x - 1 <= config.ef_construction /\ x - 1 <= config.m_max0
        /\ (\A n \in 1..x - 1 : ~added.del[n]) /\ AllLinked(added.edges, 0, 1..x - 1)
    BY <1>5, <2>3, <2>5, <2>6
  <2> QED
    BY <1>n, <1>m, <2>7, LinkComplete
\* What is left once the edges are good.
<1>8. ASSUME NEW k, Linking(k, added, x, lev2, 0),
             (Roomy(x) /\ \A n \in 1..x : ~added.del[n]) => AllLinked(k.edges, 0, 1..x), NEW top \in 0..MaxLayer, NEW entry \in 1..x,
             h = [k EXCEPT !.entry = entry, !.top = top],
             lev2[entry] = top, \A n \in 1..x : lev2[n] <= top
      PROVE  Sound(h) /\ Extends(h, g, id, v)
  <2>1. /\ k \in Graphs /\ k.ids = added.ids /\ k.vec = added.vec /\ k.del = added.del
    BY <1>n, <1>8, LinkingFacts
  <2>2. /\ h \in Graphs /\ h.ids = added.ids /\ h.vec = added.vec /\ h.del = added.del
        /\ h.edges = k.edges /\ h.entry = entry /\ h.top = top
    <3>1. entry \in Nat
      BY <1>5
    <3> QED
      BY <1>8, <2>1, <3>1 DEF Graphs
  <2>3. GoodEdges(h.edges, x, lev2)
    BY <1>8, <2>2 DEF Linking
  <2>4. Levelled(h, lev2)
    BY <1>6, <1>7, <1>8, <2>2, <2>3 DEF Levelled
  <2>5a. SmallMeshed(h)
    BY <1>7, <1>8, <2>2 DEF SmallMeshed
  <2>5. Sound(h)
    BY <1>7, <2>2, <2>4, <2>5a DEF Sound
  <2> QED
    BY <1>3, <2>2, <2>5 DEF Extends
<1>9. CASE x = 1
  <2>1. h = [added EXCEPT !.entry = 1, !.top = level]
    BY <1>2, <1>9 DEF LinkNode
  <2>2. Linking(added, added, x, lev2, 0)
    BY <1>3
  <2>3. 1 \in 1..x /\ lev2[1] = level /\ \A n \in 1..x : lev2[n] <= level
    <3>1. \A n \in 1..x : n = x
      BY <1>9
    <3> QED
      BY <1>5, <1>6, <1>9, <3>1
  <2>4. AllLinked(added.edges, 0, 1..x)
    <3>1. \A n \in 1..x : n = 1
      BY <1>9
    <3> QED
      BY <3>1 DEF AllLinked
  <2> QED
    BY <1>8, <2>1, <2>2, <2>3, <2>4
<1>10. CASE x # 1
  <2> DEFINE first == IF level < g.top THEN level ELSE g.top
             curr == DescendTo(g, added, x, level)
             k == LinkLayers(added, x, first, curr)
  <2>1. h = RaiseEntry(k, x, level)
    BY <1>2, <1>10 DEF LinkNode
  <2>2. N # 0 /\ g.entry \in 1..N /\ lev2[g.entry] = g.top
    BY <1>4, <1>6, <1>10 DEF x
  <2>3. \A n \in 1..x - 1 : LevelOf(g, n) = lev2[n]
    <3> SUFFICES ASSUME NEW n \in 1..N PROVE LevelOf(g, n) = lev2[n]
      BY <1>5
    <3>1. Len(g.edges[n]) = lev[n] + 1 /\ lev[n] \in Nat /\ lev2[n] = lev[n]
      BY <1>4, <1>6
    <3> QED
      BY <3>1 DEF LevelOf
  <2>4. g.entry \in 1..x - 1 /\ g.top = lev2[g.entry]
    BY <1>5, <2>2
  <2>5. curr \in Others(lev2, x, first)
    BY <1>3, <1>5, <2>3, <2>4, DescendToGood
  <2>6. first \in 0..lev2[x] /\ first + 1 \in Nat
    BY <1>5, <1>6
  <2>7. Linking(added, added, x, lev2, first + 1)
    BY <1>3, <2>6
  <2>8. Linking(k, added, x, lev2, 0) /\ LastLinked(k, added, x, lev2)
    <3> HIDE DEF first, curr
    <3> QED
      BY <1>3, <2>5, <2>6, <2>7, LinkLayersGood
  <2> HIDE DEF k, first, curr
  <2>9. k \in Graphs /\ k.entry = g.entry /\ k.top = g.top
    BY <1>3, <2>8, LinkingFacts
  <2>10. \A n \in 1..x : n = x \/ n \in 1..N
    BY <1>0 DEF x
  <2>10a. (Roomy(x) /\ \A n \in 1..x : ~added.del[n]) => AllLinked(k.edges, 0, 1..x)
    BY <1>m, <2>8
  <2>11. CASE level > g.top
    <3>1. h = [k EXCEPT !.entry = x, !.top = level]
      BY <2>1, <2>9, <2>11 DEF RaiseEntry, Graphs
    <3>2. \A n \in 1..x : lev2[n] <= level
      <4> SUFFICES ASSUME NEW n \in 1..x PROVE lev2[n] <= level
        OBVIOUS
      <4>1. CASE n = x
        BY <1>5, <1>6, <4>1
      <4>2. CASE n \in 1..N
        <5>1. lev[n] <= g.top /\ lev[n] \in Nat /\ lev2[n] = lev[n]
          BY <1>4, <1>6, <4>2
        <5> QED
          BY <1>5, <2>11, <5>1
      <4> QED
        BY <2>10, <4>1, <4>2
    <3> QED
      BY <1>5, <1>6, <1>8, <2>8, <2>10a, <3>1, <3>2
  <2>12. CASE ~(level > g.top)
    <3>1. h = [k EXCEPT !.entry = g.entry, !.top = g.top]
      <4>1. h = k
        BY <2>1, <2>9, <2>12 DEF RaiseEntry
      <4> QED
        BY <2>9, <4>1 DEF Graphs
    <3>2. \A n \in 1..x : lev2[n] <= g.top
      <4> SUFFICES ASSUME NEW n \in 1..x PROVE lev2[n] <= g.top
        OBVIOUS
      <4>1. CASE n = x
        BY <1>5, <1>6, <2>12, <4>1
      <4>2. CASE n \in 1..N
        BY <1>4, <1>6, <4>2
      <4> QED
        BY <2>10, <4>1, <4>2
    <3>3. g.entry \in 1..x
      BY <1>5, <2>4
    <3> QED
      BY <1>5, <1>8, <2>2, <2>8, <2>10a, <3>1, <3>2, <3>3
  <2> QED
    BY <2>11, <2>12
<1> QED
  BY <1>9, <1>10

\* h is g with the vector v for the node of id, which is there.
Replaces(h, g, id, v) ==
  \E n \in 1..Len(g.ids) :
    /\ g.ids[n] = id
    /\ h = [g EXCEPT !.vec = h.vec] /\ h.vec = [g.vec EXCEPT ![n] = v]

\* An id that is there only gets the new vector.
LEMMA InsertPresent ==
    ASSUME NEW g, Sound(g), NEW id \in Ids, NEW v \in Points, NEW level, id \in ToSet(g.ids),
           NEW h, h = hnsw_insert(g, id, v, level)
    PROVE  Sound(h) /\ Replaces(h, g, id, v)
<1> DEFINE n == NodeOf(g, id)
           w == [g.vec EXCEPT ![n] = v]
<1>0. /\ g \in Graphs /\ Len(g.ids) \in Nat /\ Len(g.vec) = Len(g.ids) /\ Len(g.del) = Len(g.ids)
      /\ DOMAIN g.ids = 1..Len(g.ids) /\ NodesOf(g) = 1..Len(g.ids)
      /\ g.vec \in Seq(Points) /\ DOMAIN g.vec = 1..Len(g.ids)
  BY SoundFields
<1>1. n \in 1..Len(g.ids) /\ g.ids[n] = id
  <2>1. \E i \in NodesOf(g) : g.ids[i] = id
    BY <1>0 DEF ToSet
  <2> QED
    BY <1>0, <2>1 DEF NodeOf
<1>2. h = [g EXCEPT !.vec[n] = v]
  BY DEF hnsw_insert
<1> HIDE DEF n
<1>3. h = [g EXCEPT !.vec = w]
  BY <1>0, <1>2 DEF Graphs
<1>4. w \in Seq(Points) /\ Len(w) = Len(g.ids)
  BY <1>0, <1>1, ExceptSeq
<1> HIDE DEF w
<1>5. /\ h \in Graphs /\ h.vec = w /\ h.ids = g.ids /\ h.del = g.del /\ h.edges = g.edges
      /\ h.entry = g.entry /\ h.top = g.top /\ h = [g EXCEPT !.vec = h.vec]
  BY <1>0, <1>3, <1>4 DEF Graphs
<1>6. PICK lev : Levelled(g, lev)
  BY DEF Sound
<1>7. Levelled(h, lev)
  BY <1>5, <1>6 DEF Levelled
<1>7a. SmallMeshed(h)
  BY <1>5 DEF Sound, SmallMeshed
<1>8. Sound(h)
  BY <1>0, <1>4, <1>5, <1>7, <1>7a DEF Sound
<1> QED
  BY <1>1, <1>5, <1>8 DEF Replaces, w

\* What an insertion does to the ids and the vectors.
Inserted(h, g, id, v) ==
  IF id \in ToSet(g.ids) THEN Replaces(h, g, id, v) ELSE Extends(h, g, id, v)

\* insert keeps the graph sound.
LEMMA InsertSound ==
    ASSUME config \in Configs, NEW g, Sound(g), NEW id \in Ids, NEW v \in Points, NEW level \in 0..MaxLayer,
           NEW h, h = hnsw_insert(g, id, v, level)
    PROVE  Sound(h) /\ Inserted(h, g, id, v)
<1>1. CASE id \in ToSet(g.ids)
  BY <1>1, InsertPresent DEF Inserted
<1>2. CASE id \notin ToSet(g.ids)
  BY <1>2, InsertNew DEF Inserted
<1> QED
  BY <1>1, <1>2

\* remove keeps the graph sound, with its ids and vectors.
LEMMA RemoveSound ==
    ASSUME NEW g, Sound(g), NEW id, id \in ToSet(g.ids), NEW h, h = hnsw_remove(g, id)
    PROVE  Sound(h) /\ h.ids = g.ids /\ h.vec = g.vec
<1> DEFINE n == NodeOf(g, id)
           d == [g.del EXCEPT ![n] = TRUE]
<1>0. /\ g \in Graphs /\ Len(g.ids) \in Nat /\ Len(g.vec) = Len(g.ids) /\ Len(g.del) = Len(g.ids)
      /\ DOMAIN g.ids = 1..Len(g.ids) /\ NodesOf(g) = 1..Len(g.ids)
      /\ g.del \in Seq(BOOLEAN) /\ DOMAIN g.del = 1..Len(g.ids)
  BY SoundFields
<1>1. n \in 1..Len(g.ids)
  <2>1. \E i \in NodesOf(g) : g.ids[i] = id
    BY <1>0 DEF ToSet
  <2> QED
    BY <1>0, <2>1 DEF NodeOf
<1>2. h = [g EXCEPT !.del[n] = TRUE]
  BY DEF hnsw_remove
<1> HIDE DEF n
<1>3. h = [g EXCEPT !.del = d]
  BY <1>0, <1>2 DEF Graphs
<1>4. d \in Seq(BOOLEAN) /\ Len(d) = Len(g.ids)
  BY <1>0, <1>1, ExceptSeq
<1>4a. d[n]
  BY <1>0, <1>1
<1> HIDE DEF d
<1>5. /\ h \in Graphs /\ h.vec = g.vec /\ h.ids = g.ids /\ h.del = d /\ h.edges = g.edges
      /\ h.entry = g.entry /\ h.top = g.top
  BY <1>0, <1>3, <1>4 DEF Graphs
<1>6. PICK lev : Levelled(g, lev)
  BY DEF Sound
<1>7. Levelled(h, lev)
  BY <1>5, <1>6 DEF Levelled
<1>8. SmallMeshed(h)
  BY <1>1, <1>4a, <1>5 DEF SmallMeshed
<1> QED
  BY <1>0, <1>4, <1>5, <1>7, <1>8 DEF Sound

\* The empty graph is sound.
LEMMA EmptySound == Sound(EmptyGraph) /\ EmptyGraph.ids = <<>> /\ EmptyGraph.vec = <<>>
<1>1. EmptyGraph \in Graphs
  BY ConfigsAssumption DEF EmptyGraph, Graphs
<1>2. EmptyGraph.ids = <<>> /\ EmptyGraph.vec = <<>> /\ EmptyGraph.del = <<>> /\ EmptyGraph.edges = <<>>
  BY DEF EmptyGraph
<1> DEFINE lev == [n \in 1..0 |-> 0]
<1>3. Len(<<>>) = 0 /\ <<>> \in Seq(Seq(Seq(Nat))) /\ lev \in [1..0 -> Nat]
  OBVIOUS
<1> HIDE DEF lev
<1>4. Levelled(EmptyGraph, lev)
  BY <1>2, <1>3 DEF Levelled, GoodEdges
<1>5. Once(<<>>)
  BY <1>3 DEF Once
<1>6. SmallMeshed(EmptyGraph)
  BY <1>2, <1>3 DEF SmallMeshed, AllLinked
<1> QED
  BY <1>1, <1>2, <1>3, <1>4, <1>5, <1>6 DEF Sound

-----------------------------------------------------------------------------
(* The log and its replay *)

\* v is the last vector the first k entries of a log have for id.
Current(lg, k, id, v) ==
  \E i \in 1..k : /\ lg[i].id = id /\ lg[i].vec = v /\ v # Misfit
                  /\ \A j \in (i + 1)..k : lg[j].id = id => lg[j].vec = Misfit

\* The ids of the first k entries that fit the index.
Logged(lg, k) == {lg[i].id : i \in {j \in 1..k : lg[j].vec # Misfit}}

\* The graph has the vector v for id.
HasVec(h, id, v) == \E n \in 1..Len(h.ids) : h.ids[n] = id /\ h.vec[n] = v

\* An id has one last vector.
LEMMA CurrentUnique ==
    ASSUME NEW lg, NEW k \in Nat, NEW id, NEW u, NEW v, Current(lg, k, id, u), Current(lg, k, id, v)
    PROVE  u = v
<1>1. PICK i \in 1..k : /\ lg[i].id = id /\ lg[i].vec = u /\ u # Misfit
                        /\ \A j \in (i + 1)..k : lg[j].id = id => lg[j].vec = Misfit
  BY DEF Current
<1>2. PICK m \in 1..k : /\ lg[m].id = id /\ lg[m].vec = v /\ v # Misfit
                        /\ \A j \in (m + 1)..k : lg[j].id = id => lg[j].vec = Misfit
  BY DEF Current
<1>3. ~(i < m) /\ ~(m < i)
  BY <1>1, <1>2
<1>4. i = m
  BY <1>3
<1> QED
  BY <1>1, <1>2, <1>4

\* What one more entry changes.
LEMMA CurrentStep ==
    ASSUME NEW lg, NEW k \in Nat, NEW id, NEW v
    PROVE  Current(lg, k + 1, id, v) <=>
             \/ lg[k + 1].id = id /\ lg[k + 1].vec = v /\ v # Misfit
             \/ Current(lg, k, id, v) /\ (lg[k + 1].id = id => lg[k + 1].vec = Misfit)
<1>1. ASSUME Current(lg, k + 1, id, v)
      PROVE  \/ lg[k + 1].id = id /\ lg[k + 1].vec = v /\ v # Misfit
             \/ Current(lg, k, id, v) /\ (lg[k + 1].id = id => lg[k + 1].vec = Misfit)
  <2>1. PICK i \in 1..(k + 1) : /\ lg[i].id = id /\ lg[i].vec = v /\ v # Misfit
                                /\ \A j \in (i + 1)..(k + 1) : lg[j].id = id => lg[j].vec = Misfit
    BY <1>1 DEF Current
  <2>2. CASE i = k + 1
    BY <2>1, <2>2
  <2>3. CASE i \in 1..k
    <3>1. k + 1 \in (i + 1)..(k + 1) /\ \A j \in (i + 1)..k : j \in (i + 1)..(k + 1)
      BY <2>3
    <3>2. Current(lg, k, id, v)
      BY <2>1, <2>3, <3>1 DEF Current
    <3> QED
      BY <2>1, <3>1, <3>2
  <2> QED
    BY <2>2, <2>3
<1>2. ASSUME lg[k + 1].id = id, lg[k + 1].vec = v, v # Misfit
      PROVE  Current(lg, k + 1, id, v)
  <2>1. k + 1 \in 1..(k + 1) /\ ((k + 1) + 1)..(k + 1) = {}
    OBVIOUS
  <2> QED
    BY <1>2, <2>1 DEF Current
<1>3. ASSUME Current(lg, k, id, v), lg[k + 1].id = id => lg[k + 1].vec = Misfit
      PROVE  Current(lg, k + 1, id, v)
  <2>1. PICK i \in 1..k : /\ lg[i].id = id /\ lg[i].vec = v /\ v # Misfit
                          /\ \A j \in (i + 1)..k : lg[j].id = id => lg[j].vec = Misfit
    BY <1>3 DEF Current
  <2>2. i \in 1..(k + 1) /\ \A j \in (i + 1)..(k + 1) : j = k + 1 \/ j \in (i + 1)..k
    OBVIOUS
  <2> QED
    BY <1>3, <2>1, <2>2 DEF Current
<1> QED
  BY <1>1, <1>2, <1>3

\* One more entry, in the set of the logged ids.
LEMMA LoggedStep ==
    ASSUME NEW lg, NEW k \in Nat
    PROVE  Logged(lg, k + 1) = IF lg[k + 1].vec = Misfit THEN Logged(lg, k) ELSE Logged(lg, k) \cup {lg[k + 1].id}
<1> DEFINE A == {j \in 1..(k + 1) : lg[j].vec # Misfit}
           B == {j \in 1..k : lg[j].vec # Misfit}
<1>1. A = IF lg[k + 1].vec = Misfit THEN B ELSE B \cup {k + 1}
  <2>1. \A j : j \in 1..(k + 1) <=> j \in 1..k \/ j = k + 1
    OBVIOUS
  <2> QED
    BY <2>1
<1>2. Logged(lg, k + 1) = {lg[i].id : i \in A} /\ Logged(lg, k) = {lg[i].id : i \in B}
  BY DEF Logged
<1> HIDE DEF A, B
<1> QED
  BY <1>1, <1>2

\* A logged id has a last vector, and an id with one is logged.
LEMMA CurrentExists ==
    ASSUME NEW lg, NEW n \in Nat
    PROVE  \A id : id \in Logged(lg, n) <=> \E v : Current(lg, n, id, v)
<1> DEFINE Good(k) == \A id : id \in Logged(lg, k) <=> \E v : Current(lg, k, id, v)
           S == {k \in Nat : Good(k)}
<1>1. 0 \in S
  <2>1. 1..0 = {}
    OBVIOUS
  <2> QED
    BY <2>1 DEF Logged, Current
<1>2. \A k \in Nat : k \in S => k + 1 \in S
  <2> SUFFICES ASSUME NEW k \in Nat, Good(k) PROVE Good(k + 1)
    OBVIOUS
  <2> SUFFICES ASSUME NEW id PROVE id \in Logged(lg, k + 1) <=> \E v : Current(lg, k + 1, id, v)
    OBVIOUS
  <2>1. \A v : Current(lg, k + 1, id, v) <=>
             \/ lg[k + 1].id = id /\ lg[k + 1].vec = v /\ v # Misfit
             \/ Current(lg, k, id, v) /\ (lg[k + 1].id = id => lg[k + 1].vec = Misfit)
    BY CurrentStep
  <2>2. Logged(lg, k + 1) = IF lg[k + 1].vec = Misfit THEN Logged(lg, k) ELSE Logged(lg, k) \cup {lg[k + 1].id}
    BY LoggedStep
  <2>3. id \in Logged(lg, k) <=> \E v : Current(lg, k, id, v)
    OBVIOUS
  <2> HIDE DEF Good
  <2>4. CASE lg[k + 1].vec = Misfit
    BY <2>1, <2>2, <2>3, <2>4
  <2>5. CASE lg[k + 1].vec # Misfit /\ lg[k + 1].id = id
    BY <2>1, <2>2, <2>5
  <2>6. CASE lg[k + 1].vec # Misfit /\ lg[k + 1].id # id
    BY <2>1, <2>2, <2>3, <2>6
  <2> QED
    BY <2>4, <2>5, <2>6
<1>3. n \in S
  <2> HIDE DEF S
  <2> QED
    BY <1>1, <1>2, Induction
<1> QED
  BY <1>3

\* A sound graph has one vector for an id.
LEMMA VecUnique ==
    ASSUME NEW h, Sound(h), NEW id, NEW u, NEW v, HasVec(h, id, u), HasVec(h, id, v)
    PROVE  u = v
<1>1. Once(h.ids)
  BY SoundFields
<1> QED
  BY <1>1 DEF HasVec, Once

\* What an insertion changes for the ids.
LEMMA InsertedVec ==
    ASSUME NEW g, Sound(g), NEW h, NEW id, NEW v, Inserted(h, g, id, v)
    PROVE  /\ ToSet(h.ids) = ToSet(g.ids) \cup {id}
           /\ HasVec(h, id, v)
           /\ \A j, u : j # id /\ HasVec(g, j, u) => HasVec(h, j, u)
           /\ id \in ToSet(g.ids) => h = [g EXCEPT !.vec = h.vec]
<1> DEFINE N == Len(g.ids)
<1>0. /\ g \in Graphs /\ N \in Nat /\ Len(g.vec) = N /\ DOMAIN g.ids = 1..N /\ DOMAIN g.vec = 1..N
      /\ g.ids \in Seq(Ids) /\ g.vec \in Seq(Points)
  BY SoundFields
<1>1. CASE id \in ToSet(g.ids)
  <2>1. PICK n \in 1..N : /\ g.ids[n] = id
                          /\ h = [g EXCEPT !.vec = h.vec] /\ h.vec = [g.vec EXCEPT ![n] = v]
    BY <1>1 DEF Inserted, Replaces
  <2>2. h.ids = g.ids
    BY <1>0, <2>1 DEF Graphs
  <2>3. h.vec[n] = v /\ \A m \in 1..N : m # n => h.vec[m] = g.vec[m]
    BY <1>0, <2>1
  <2>4. HasVec(h, id, v)
    BY <2>1, <2>2, <2>3 DEF HasVec
  <2>5. ASSUME NEW j, NEW u, j # id, HasVec(g, j, u) PROVE HasVec(h, j, u)
    <3>1. PICK m \in 1..N : g.ids[m] = j /\ g.vec[m] = u
      BY <2>5 DEF HasVec
    <3>2. m # n
      BY <2>1, <2>5, <3>1
    <3> QED
      BY <2>2, <2>3, <3>1, <3>2 DEF HasVec
  <2> QED
    BY <1>1, <2>1, <2>2, <2>4, <2>5
<1>2. CASE id \notin ToSet(g.ids)
  <2>1. h.ids = Append(g.ids, id) /\ h.vec = Append(g.vec, v)
    BY <1>2 DEF Inserted, Extends
  <2>2. IsSeq(g.ids) /\ IsSeq(g.vec)
    BY <1>0, SeqIsSeq
  <2>3. /\ IsSeq(h.ids) /\ Len(h.ids) = N + 1 /\ h.ids[N + 1] = id /\ \A i \in 1..N : h.ids[i] = g.ids[i]
    BY <2>1, <2>2, AppendIsSeq
  <2>4. h.vec[N + 1] = v /\ \A i \in 1..N : h.vec[i] = g.vec[i]
    BY <1>0, <2>1, <2>2, AppendIsSeq
  <2>5. DOMAIN h.ids = 1..(N + 1)
    BY <2>3, IsSeqFacts
  <2>6. N + 1 \in 1..(N + 1) /\ \A i : i \in 1..(N + 1) <=> i \in 1..N \/ i = N + 1
    BY <1>0
  <2> HIDE DEF N
  <2>7. ToSet(h.ids) = ToSet(g.ids) \cup {id}
    BY <1>0, <2>3, <2>5, <2>6 DEF ToSet
  <2>8. HasVec(h, id, v)
    BY <2>3, <2>4, <2>6 DEF HasVec
  <2>9. ASSUME NEW j, NEW u, j # id, HasVec(g, j, u) PROVE HasVec(h, j, u)
    <3>1. PICK m \in 1..N : g.ids[m] = j /\ g.vec[m] = u
      BY <2>9 DEF HasVec, N
    <3> QED
      BY <2>3, <2>4, <2>6, <3>1 DEF HasVec
  <2> QED
    BY <1>2, <2>7, <2>8, <2>9
<1> QED
  BY <1>1, <1>2

\* The cap of random_level is a number.
LEMMA CapIsNat ==
    ASSUME NEW n \in Nat
    PROVE  max_allowed_level(n) \in Nat
<1> DEFINE P == {k \in 0..n - 1 : 2^k < n}
<1>1. P \in SUBSET (0..n - 1) /\ IsFiniteSet(0..n - 1)
  BY FS_Interval
<1> HIDE DEF P
<1>2. IsFiniteSet(P)
  BY <1>1, FS_Subset
<1>3. Cardinality(P) \in Nat
  BY <1>2, FS_CardinalityType
<1>4. max_allowed_level(n) = IF n = 0 THEN 0 ELSE IF Cardinality(P) < 1 THEN 1 ELSE Cardinality(P)
  BY DEF max_allowed_level, P
<1> QED
  BY <1>3, <1>4

\* h is what the first k entries of a log make of the graph g.
Replayed(h, g, lg, k) ==
  /\ ToSet(h.ids) = ToSet(g.ids) \cup Logged(lg, k)
  /\ \A id \in Ids, v \in Points : Current(lg, k, id, v) => HasVec(h, id, v)
  /\ Logged(lg, Len(lg)) \subseteq ToSet(g.ids) => h = [g EXCEPT !.vec = h.vec]

\* One entry of the log.
LEMMA ReplayEntrySound ==
    ASSUME config \in Configs, NEW g, Sound(g), NEW lg \in Seq(Entry), NEW k \in Nat, k + 1 \in 1..Len(lg),
           NEW y, Sound(y), Replayed(y, g, lg, k), NEW level \in 0..MaxLayer,
           NEW h, h = ReplayEntry(y, lg[k + 1], level)
    PROVE  Sound(h) /\ Replayed(h, g, lg, k + 1)
<1> DEFINE e == lg[k + 1]
<1>1. e \in Entry
  BY ElementOfSeq
<1>2. e.id \in Ids /\ (e.vec = Misfit \/ e.vec \in Points)
  BY <1>1 DEF Entry
<1>3. \A id, v : Current(lg, k + 1, id, v) <=>
             \/ e.id = id /\ e.vec = v /\ v # Misfit
             \/ Current(lg, k, id, v) /\ (e.id = id => e.vec = Misfit)
  BY CurrentStep
<1>4. Logged(lg, k + 1) = IF e.vec = Misfit THEN Logged(lg, k) ELSE Logged(lg, k) \cup {e.id}
  BY LoggedStep
<1>5. e.vec # Misfit => e.id \in Logged(lg, Len(lg))
  BY DEF Logged
<1>6. /\ ToSet(y.ids) = ToSet(g.ids) \cup Logged(lg, k)
      /\ \A id \in Ids, v \in Points : Current(lg, k, id, v) => HasVec(y, id, v)
      /\ Logged(lg, Len(lg)) \subseteq ToSet(g.ids) => y = [g EXCEPT !.vec = y.vec]
  BY DEF Replayed
<1>7. h = ReplayEntry(y, e, level)
  OBVIOUS
<1> HIDE DEF e
<1>8. CASE e.vec = Misfit
  <2>1. h = y
    BY <1>7, <1>8 DEF ReplayEntry
  <2> QED
    BY <1>3, <1>4, <1>6, <1>8, <2>1 DEF Replayed
<1>9. CASE e.vec # Misfit
  <2> DEFINE cap == max_allowed_level(Len(y.ids))
             lv == IF level < cap THEN level ELSE cap
  <2>1. h = hnsw_insert(y, e.id, e.vec, lv)
    BY <1>7, <1>9 DEF ReplayEntry
  <2>2. Len(y.ids) \in Nat
    BY SoundFields
  <2>3. cap \in Nat
    BY <2>2, CapIsNat
  <2> HIDE DEF cap
  <2>4. lv \in 0..MaxLayer
    BY <2>3, ConfigsAssumption
  <2> HIDE DEF lv
  <2>5. e.vec \in Points
    BY <1>2, <1>9
  <2>6. Sound(h) /\ Inserted(h, y, e.id, e.vec)
    BY <1>2, <2>1, <2>4, <2>5, InsertSound
  <2>7. /\ ToSet(h.ids) = ToSet(y.ids) \cup {e.id}
        /\ HasVec(h, e.id, e.vec)
        /\ \A j, u : j # e.id /\ HasVec(y, j, u) => HasVec(h, j, u)
        /\ e.id \in ToSet(y.ids) => h = [y EXCEPT !.vec = h.vec]
    BY <2>6, InsertedVec
  <2>8. ToSet(h.ids) = ToSet(g.ids) \cup Logged(lg, k + 1)
    BY <1>4, <1>6, <1>9, <2>7
  <2>9. ASSUME NEW id \in Ids, NEW v \in Points, Current(lg, k + 1, id, v) PROVE HasVec(h, id, v)
    <3>1. CASE e.id = id
      BY <1>3, <1>9, <2>7, <2>9, <3>1
    <3>2. CASE e.id # id
      BY <1>3, <1>6, <2>7, <2>9, <3>2
    <3> QED
      BY <3>1, <3>2
  <2>10. ASSUME Logged(lg, Len(lg)) \subseteq ToSet(g.ids) PROVE h = [g EXCEPT !.vec = h.vec]
    <3>1. e.id \in ToSet(y.ids)
      BY <1>5, <1>6, <1>9, <2>10
    <3>2. h = [y EXCEPT !.vec = h.vec] /\ y = [g EXCEPT !.vec = y.vec]
      BY <1>6, <2>7, <2>10, <3>1
    <3>3. g \in Graphs /\ y \in Graphs /\ h \in Graphs
      BY <2>6, SoundFields
    <3> QED
      BY <3>2, <3>3 DEF Graphs
  <2> QED
    BY <2>6, <2>8, <2>9, <2>10 DEF Replayed
<1> QED
  BY <1>8, <1>9

\* open replays the whole log on top of a sound graph.
LEMMA ReplaySound ==
    ASSUME config \in Configs, NEW g, Sound(g), NEW lg \in Seq(Entry), NEW levels \in [DOMAIN lg -> 0..MaxLayer],
           NEW r, r = ReplayIndex(g, lg, levels)
    PROVE  Sound(r) /\ Replayed(r, g, lg, Len(lg))
<1> DEFINE n == Len(lg)
           E(y, i) == ReplayEntry(y, lg[i], levels[i])
           X == [i \in 0..n |-> {h \in Graphs : Sound(h) /\ Replayed(h, g, lg, i)}]
           T == [i \in 1..n |-> [y \in Graphs |-> E(y, i)]]
           H == CHOOSE h : h = [i \in 0..n |-> IF i = 0 THEN g ELSE E(h[i - 1], i)]
<1>2. r = H[n]
  BY DEF ReplayIndex
<1>3. n \in Nat /\ \A i \in 1..n : levels[i] \in 0..MaxLayer
  OBVIOUS
<1>a. g \in Graphs /\ Replayed(g, g, lg, 0)
  <2>1. g \in Graphs
    BY SoundFields
  <2>2. g = [g EXCEPT !.vec = g.vec]
    BY <2>1 DEF Graphs
  <2>3. 1..0 = {}
    OBVIOUS
  <2> QED
    BY <2>1, <2>2, <2>3 DEF Replayed, Logged, Current
<1>b. ASSUME NEW i \in 1..n, NEW y, Sound(y), Replayed(y, g, lg, i - 1)
      PROVE  Sound(E(y, i)) /\ Replayed(E(y, i), g, lg, i)
  <2>1. i - 1 \in Nat /\ (i - 1) + 1 = i
    BY <1>3
  <2> QED
    BY <1>3, <1>b, <2>1, ReplayEntrySound
<1>c. \A h : Sound(h) => h \in Graphs
  BY SoundFields
<1> HIDE DEF E, n
<1>4. g \in X[0] /\ \A i \in 1..n : \A y \in X[i - 1] : T[i][y] = E(y, i) /\ E(y, i) \in X[i]
  <2>1. \A i \in 0..n : \A y : y \in X[i] <=> y \in Graphs /\ Sound(y) /\ Replayed(y, g, lg, i)
    OBVIOUS
  <2>2. \A i \in 1..n : \A y \in Graphs : T[i][y] = E(y, i)
    OBVIOUS
  <2>3. 0 \in 0..n /\ \A i \in 1..n : i \in 0..n /\ i - 1 \in 0..n
    BY <1>3
  <2> HIDE DEF X, T
  <2> QED
    BY <1>a, <1>b, <1>c, <2>1, <2>2, <2>3
<1> HIDE DEF X, T, H
<1>5. StepsUp(n, X, g, T)
  BY <1>4 DEF StepsUp
<1>6. PICK f : RunsUp(f, n, X, g, T)
  BY <1>3, <1>5, RecursionUp
<1>7. f = [i \in 0..n |-> IF i = 0 THEN g ELSE E(f[i - 1], i)]
  <2>1. /\ f = [i \in 0..n |-> f[i]] /\ f[0] = g /\ \A i \in 1..n : f[i] = T[i][f[i - 1]]
        /\ \A i \in 0..n : f[i] \in X[i]
    BY <1>6 DEF RunsUp
  <2>2. ASSUME NEW i \in 1..n PROVE f[i] = E(f[i - 1], i)
    <3>1. i - 1 \in 0..n
      BY <1>3
    <3> QED
      BY <1>4, <2>1, <3>1
  <2>3. ASSUME NEW i \in 0..n PROVE f[i] = IF i = 0 THEN g ELSE E(f[i - 1], i)
    <3>1. i = 0 \/ (i \in 1..n /\ i # 0)
      BY <1>3
    <3> QED
      BY <2>1, <2>2, <3>1
  <2> QED
    BY <2>1, <2>3
<1>8. H = [i \in 0..n |-> IF i = 0 THEN g ELSE E(H[i - 1], i)]
  BY <1>7 DEF H
<1>9. H[0] = g /\ \A i \in 1..n : H[i] = E(H[i - 1], i)
  BY <1>3, <1>8
<1>10. \A i \in 0..n : H[i] \in X[i]
  <2>1. H[0] \in X[0]
    BY <1>4, <1>9
  <2>2. \A i \in 1..n : H[i - 1] \in X[i - 1] => H[i] \in X[i]
    BY <1>4, <1>9
  <2> QED
    BY <1>3, <2>1, <2>2, StaysUp
<1>11. n \in 0..n
  BY <1>3
<1>12. H[n] \in {h \in Graphs : Sound(h) /\ Replayed(h, g, lg, n)}
  BY <1>10, <1>11 DEF X
<1> QED
  BY <1>2, <1>12 DEF n

-----------------------------------------------------------------------------
(* The types of the engine's state *)

\* Soundness depends on the configuration, which never changes.
LEMMA SoundKept ==
    ASSUME config' = config, NEW g, Sound(g)
    PROVE  Sound(g)'
<1>1. \A l : MaxConn(l)' = MaxConn(l)
  BY DEF MaxConn
<1>2. PICK lev : Levelled(g, lev)
  BY DEF Sound
<1>3. Levelled(g, lev)'
  BY <1>1, <1>2 DEF Levelled, GoodEdges, GoodList
<1>4. SmallMeshed(g)'
  BY DEF Sound, SmallMeshed, Roomy, AllLinked
<1> QED
  BY <1>3, <1>4 DEF Sound

\* What waits in the buffer.
Buffered == [id : Ids, vec : Points]

\* The index file holds a graph that was sound when it was saved.
IndexFileSound == indexFile = NoFile \/ indexFile = Torn \/ \E g : indexFile = Saved(g) /\ Sound(g)

\* An insert under way has its entry, which fits the index once it is past it.
ClientSound(c) ==
  /\ pc[c] = "idle" <=> rec[c] = <<>>
  /\ pc[c] # "idle" => Len(rec[c]) = 1 /\ rec[c][1] \in Entry
  /\ pc[c] = "buffer" => rec[c][1] \in Buffered

TypeInv ==
  /\ config \in Configs /\ Sound(graph) /\ IndexFileSound
  /\ buffer \in Seq(Buffered) /\ Len(buffer) < (IF Capacity = 0 THEN 1 ELSE Capacity)
  /\ log \in Seq(Entry)
  /\ pc \in [Clients -> {"idle", "index", "buffer"}]
  /\ rec = [c \in Clients |-> rec[c]]
  /\ \A c \in Clients : ClientSound(c)
  /\ up \in BOOLEAN /\ astray \subseteq Ids /\ stopping \in {"no", "saved", "done"}
  /\ ~up => Idle /\ buffer = <<>> /\ stopping = "no"

\* The kinds of file are told apart, and a whole one by its content.
LEMMA Files ==
    ASSUME NEW g, NEW h
    PROVE  /\ Saved(g) # NoFile /\ Saved(g) # Torn /\ NoFile # Torn
           /\ Saved(g) = Saved(h) => g = h
           /\ Saved(g).content = g
<1>1. /\ Saved(g).state = "whole" /\ NoFile.state = "none" /\ Torn.state = "torn"
      /\ Saved(g).content = g /\ Saved(h).content = h
  BY DEF Saved, NoFile, Torn
<1> QED
  BY <1>1

\* A new engine has an empty graph, which is sound.
LEMMA TypeInit == ASSUME Init PROVE TypeInv
<1>1. Sound(graph)
  BY EmptySound DEF Init
<1>2. buffer \in Seq(Buffered) /\ Len(buffer) < (IF Capacity = 0 THEN 1 ELSE Capacity) /\ log \in Seq(Entry)
  BY CapacitiesAssumption DEF Init
<1>3. /\ config \in Configs /\ IndexFileSound
      /\ up \in BOOLEAN /\ astray \subseteq Ids /\ stopping \in {"no", "saved", "done"} /\ up
  BY DEF Init, IndexFileSound
<1>4. /\ pc \in [Clients -> {"idle", "index", "buffer"}] /\ rec = [c \in Clients |-> rec[c]]
      /\ \A c \in Clients : pc[c] = "idle" /\ rec[c] = <<>>
  BY DEF Init
<1> QED
  BY <1>1, <1>2, <1>3, <1>4 DEF TypeInv, ClientSound

\* The parts of the state most actions leave alone.
LEMMA TypeInsert ==
    ASSUME TypeInv, NEW c \in Clients, NEW id \in Ids, NEW v \in Points \cup {Misfit}, Insert(c, id, v)
    PROVE  TypeInv'
<1> DEFINE e == [id |-> id, vec |-> v]
<1>1. e \in Entry
  BY DEF Entry
<1>2. /\ config' = config /\ graph' = graph /\ buffer' = buffer /\ indexFile' = indexFile /\ up' = up /\ up
      /\ stopping' = stopping /\ astray' \subseteq Ids /\ log' = Append(log, e)
      /\ pc' = [pc EXCEPT ![c] = "index"] /\ rec' = [rec EXCEPT ![c] = <<e>>]
  BY DEF Insert, memory, TypeInv
<1> HIDE DEF e
<1>3. log' \in Seq(Entry)
  BY <1>1, <1>2, AppendProperties DEF TypeInv
<1>4. Sound(graph)' /\ IndexFileSound'
  <2>1. \A g : Sound(g) => Sound(g)'
    BY <1>2, SoundKept
  <2> QED
    BY <1>2, <2>1 DEF TypeInv, IndexFileSound
<1>5. /\ pc' \in [Clients -> {"idle", "index", "buffer"}] /\ rec' = [d \in Clients |-> rec'[d]]
      /\ pc'[c] = "index" /\ rec'[c] = <<e>>
      /\ \A d \in Clients : d # c => pc'[d] = pc[d] /\ rec'[d] = rec[d]
  BY <1>2 DEF TypeInv
<1>6. Len(<<e>>) = 1 /\ <<e>>[1] = e /\ <<e>> # <<>>
  OBVIOUS
<1>7. ASSUME NEW d \in Clients PROVE ClientSound(d)'
  <2>1. CASE d = c
    BY <1>1, <1>5, <1>6, <2>1 DEF ClientSound
  <2>2. CASE d # c
    BY <1>5, <2>2 DEF ClientSound, TypeInv
  <2> QED
    BY <2>1, <2>2
<1> QED
  BY <1>2, <1>3, <1>4, <1>5, <1>7 DEF TypeInv

\* When an insert returns, the other clients are where they were.
LEMMA TypeReturn ==
    ASSUME TypeInv, NEW c \in Clients, pc' = [pc EXCEPT ![c] = "idle"], rec' = [rec EXCEPT ![c] = <<>>]
    PROVE  /\ pc' \in [Clients -> {"idle", "index", "buffer"}] /\ rec' = [d \in Clients |-> rec'[d]]
           /\ \A d \in Clients : ClientSound(d)'
<1>1. /\ pc' \in [Clients -> {"idle", "index", "buffer"}] /\ rec' = [d \in Clients |-> rec'[d]]
      /\ pc'[c] = "idle" /\ rec'[c] = <<>>
      /\ \A d \in Clients : d # c => pc'[d] = pc[d] /\ rec'[d] = rec[d]
  BY DEF TypeInv
<1>2. ASSUME NEW d \in Clients PROVE ClientSound(d)'
  <2>1. CASE d = c
    BY <1>1, <2>1 DEF ClientSound
  <2>2. CASE d # c
    BY <1>1, <2>2 DEF ClientSound, TypeInv
  <2> QED
    BY <2>1, <2>2
<1> QED
  BY <1>1, <1>2

\* What an insert past the index has in its entry.
LEMMA EntryFits ==
    ASSUME TypeInv, NEW c \in Clients, pc[c] = "index", rec[c][1].vec # Misfit
    PROVE  rec[c][1].id \in Ids /\ rec[c][1].vec \in Points /\ rec[c][1] \in Buffered
<1>1. rec[c][1] \in Entry
  BY DEF TypeInv, ClientSound
<1>2. rec[c][1].id \in Ids /\ rec[c][1].vec \in Points /\ rec[c][1] = [id |-> rec[c][1].id, vec |-> rec[c][1].vec]
  BY <1>1 DEF Entry
<1> QED
  BY <1>2 DEF Buffered

\* random_level draws a level within MaxLayer.
LEMMA LevelsFit ==
    ASSUME NEW g, Sound(g), NEW level \in random_level(g)
    PROVE  level \in 0..MaxLayer
<1>1. Len(g.ids) \in Nat
  BY SoundFields
<1>2. max_allowed_level(Len(g.ids)) \in Nat
  BY <1>1, CapIsNat
<1> QED
  BY <1>2, ConfigsAssumption DEF random_level

\* An insert leaves a sound graph with its id and vector added or replaced.
LEMMA TypeIndexInsert ==
    ASSUME TypeInv, NEW c \in Clients, NEW level \in random_level(graph), IndexInsert(c, level)
    PROVE  TypeInv' /\ Sound(graph') /\ Inserted(graph', graph, rec[c][1].id, rec[c][1].vec)
<1>1. /\ config' = config /\ buffer' = buffer /\ indexFile' = indexFile /\ log' = log /\ up' = up
      /\ stopping' = stopping /\ astray' = astray /\ pc[c] = "index" /\ rec[c][1].vec # Misfit
      /\ pc' = [pc EXCEPT ![c] = "buffer"] /\ rec' = rec
      /\ graph' = hnsw_insert(graph, rec[c][1].id, rec[c][1].vec, level)
  BY DEF IndexInsert, files, history
<1>2. rec[c][1].id \in Ids /\ rec[c][1].vec \in Points /\ rec[c][1] \in Buffered
  BY <1>1, EntryFits
<1>3. level \in 0..MaxLayer /\ Sound(graph) /\ config \in Configs
  BY LevelsFit DEF TypeInv
<1>4. Sound(graph') /\ Inserted(graph', graph, rec[c][1].id, rec[c][1].vec)
  BY <1>1, <1>2, <1>3, InsertSound
<1>5. Sound(graph)' /\ IndexFileSound'
  <2>1. \A g : Sound(g) => Sound(g)'
    BY <1>1, SoundKept
  <2> QED
    BY <1>1, <1>4, <2>1 DEF TypeInv, IndexFileSound
<1>6. /\ pc' \in [Clients -> {"idle", "index", "buffer"}] /\ pc'[c] = "buffer"
      /\ \A d \in Clients : d # c => pc'[d] = pc[d]
  BY <1>1 DEF TypeInv
<1>7. ASSUME NEW d \in Clients PROVE ClientSound(d)'
  <2>1. CASE d = c
    BY <1>1, <1>2, <1>6, <2>1 DEF ClientSound, TypeInv
  <2>2. CASE d # c
    BY <1>1, <1>6, <2>2 DEF ClientSound, TypeInv
  <2> QED
    BY <2>1, <2>2
<1>8. up
  BY <1>1 DEF TypeInv, Idle
<1> QED
  BY <1>1, <1>4, <1>5, <1>6, <1>7, <1>8 DEF TypeInv

\* An insert that ends before the index leaves the graph alone.
LEMMA TypeIndexReject ==
    ASSUME TypeInv, NEW c \in Clients, IndexReject(c) \/ InsertFails(c)
    PROVE  TypeInv'
<1>1. /\ config' = config /\ graph' = graph /\ buffer' = buffer /\ indexFile' = indexFile /\ log' = log /\ up' = up
      /\ stopping' = stopping /\ pc[c] = "index"
      /\ astray' = astray \/ astray' = astray \cup {rec[c][1].id}
      /\ pc' = [pc EXCEPT ![c] = "idle"] /\ rec' = [rec EXCEPT ![c] = <<>>]
  BY DEF IndexReject, InsertFails, memory, files, history
<1>2. Sound(graph)' /\ IndexFileSound'
  <2>1. \A g : Sound(g) => Sound(g)'
    BY <1>1, SoundKept
  <2> QED
    BY <1>1, <2>1 DEF TypeInv, IndexFileSound
<1>3. up
  BY <1>1 DEF TypeInv, Idle
<1>4. rec[c][1].id \in Ids
  <2>1. rec[c][1] \in Entry
    BY <1>1 DEF TypeInv, ClientSound
  <2> QED
    BY <2>1 DEF Entry
<1>5. astray' \subseteq Ids
  BY <1>1, <1>4 DEF TypeInv
<1> QED
  BY <1>1, <1>2, <1>3, <1>5, TypeReturn DEF TypeInv

\* Filling the buffer, and merging it, keeps the types.
LEMMA TypeBufferAndAck ==
    ASSUME TypeInv, NEW c \in Clients, BufferAndAck(c)
    PROVE  TypeInv'
<1> DEFINE e == [id |-> rec[c][1].id, vec |-> rec[c][1].vec]
           filled == Append(buffer, e)
<1>1. /\ config' = config /\ graph' = graph /\ indexFile' = indexFile /\ log' = log /\ up' = up
      /\ stopping' = stopping /\ astray' = astray /\ pc[c] = "buffer"
      /\ pc' = [pc EXCEPT ![c] = "idle"] /\ rec' = [rec EXCEPT ![c] = <<>>]
  BY DEF BufferAndAck, history
<1>2. buffer' = (IF Len(filled) >= Capacity THEN <<>> ELSE filled)
  BY DEF BufferAndAck, BufferInsert
<1>3. e \in Buffered
  BY <1>1 DEF TypeInv, ClientSound, Buffered
<1>4. filled \in Seq(Buffered) /\ Len(filled) \in Nat
  BY <1>3, AppendProperties DEF TypeInv
<1> HIDE DEF filled
<1>5. buffer' \in Seq(Buffered) /\ Len(buffer') < (IF Capacity = 0 THEN 1 ELSE Capacity)
  <2>1. Len(<<>>) = 0 /\ <<>> \in Seq(Buffered)
    OBVIOUS
  <2> QED
    BY <1>2, <1>4, <2>1, CapacitiesAssumption
<1>6. Sound(graph)' /\ IndexFileSound'
  <2>1. \A g : Sound(g) => Sound(g)'
    BY <1>1, SoundKept
  <2> QED
    BY <1>1, <2>1 DEF TypeInv, IndexFileSound
<1>7. up
  BY <1>1 DEF TypeInv, Idle
<1> QED
  BY <1>1, <1>5, <1>6, <1>7, TypeReturn DEF TypeInv

\* A removal sets a tombstone and keeps ids and vectors.
LEMMA TypeRemoveVector ==
    ASSUME TypeInv, NEW id \in Ids, RemoveVector(id)
    PROVE  TypeInv' /\ graph'.ids = graph.ids /\ graph'.vec = graph.vec
<1>1. /\ config' = config /\ buffer' = buffer /\ indexFile' = indexFile /\ log' = log /\ up' = up
      /\ stopping' = stopping /\ astray' = astray /\ pc' = pc /\ rec' = rec /\ up
      /\ graph' = hnsw_remove(graph, id) /\ id \in ToSet(graph.ids)
  BY DEF RemoveVector, files
<1>2. Sound(graph') /\ graph'.ids = graph.ids /\ graph'.vec = graph.vec
  BY <1>1, RemoveSound DEF TypeInv
<1>3. Sound(graph)' /\ IndexFileSound'
  <2>1. \A g : Sound(g) => Sound(g)'
    BY <1>1, SoundKept
  <2> QED
    BY <1>1, <1>2, <2>1 DEF TypeInv, IndexFileSound
<1>4. \A d \in Clients : ClientSound(d)'
  BY <1>1 DEF TypeInv, ClientSound
<1> QED
  BY <1>1, <1>2, <1>3, <1>4 DEF TypeInv

\* Each step of shutdown keeps the types, and what it saves has them.
LEMMA TypeShutdown ==
    ASSUME TypeInv, ShutdownSave \/ ShutdownFails \/ ShutdownDrain
    PROVE  TypeInv'
<1>1. /\ config' = config /\ graph' = graph /\ log' = log /\ up' = up
      /\ stopping' \in {"saved", "done"} /\ astray' = astray /\ pc' = pc /\ rec' = rec
      /\ indexFile' = indexFile \/ indexFile' = Torn \/ indexFile' = Saved(graph)
      /\ buffer' = buffer \/ buffer' = <<>>
  BY DEF ShutdownSave, ShutdownFails, ShutdownDrain, DrainBuffer, memory, history
<1>2. up
  BY DEF ShutdownSave, ShutdownFails, ShutdownDrain, TypeInv
<1>3. Sound(graph)' /\ IndexFileSound'
  <2>1. \A g : Sound(g) => Sound(g)'
    BY <1>1, SoundKept
  <2> QED
    BY <1>1, <2>1 DEF TypeInv, IndexFileSound
<1>4. \A d \in Clients : ClientSound(d)'
  BY <1>1 DEF TypeInv, ClientSound
<1>5. buffer' \in Seq(Buffered) /\ Len(buffer') < (IF Capacity = 0 THEN 1 ELSE Capacity)
  <2>1. Len(<<>>) = 0 /\ <<>> \in Seq(Buffered)
    OBVIOUS
  <2>2. buffer \in Seq(Buffered) /\ Len(buffer) < (IF Capacity = 0 THEN 1 ELSE Capacity)
    BY DEF TypeInv
  <2>3. CASE buffer' = buffer
    BY <2>2, <2>3
  <2>4. CASE buffer' = <<>>
    BY <2>1, <2>4, CapacitiesAssumption
  <2> QED
    BY <1>1, <2>3, <2>4
<1> QED
  BY <1>1, <1>2, <1>3, <1>4, <1>5 DEF TypeInv

\* A stop keeps the types of what is left on disk.
LEMMA TypeStop ==
    ASSUME TypeInv, Stop
    PROVE  TypeInv'
<1>1. /\ config' = config /\ graph' = EmptyGraph /\ log' = log /\ up' = FALSE
      /\ stopping' = "no" /\ astray' = astray /\ buffer' = <<>>
      /\ pc' = [c \in Clients |-> "idle"] /\ rec' = [c \in Clients |-> <<>>]
      /\ indexFile' = indexFile \/ indexFile' = Torn
  BY DEF Stop
<1>2. Sound(graph)' /\ IndexFileSound'
  <2>1. \A g : Sound(g) => Sound(g)'
    BY <1>1, SoundKept
  <2> QED
    BY <1>1, <2>1, EmptySound DEF TypeInv, IndexFileSound
<1>3. \A d \in Clients : ClientSound(d)'
  BY <1>1 DEF ClientSound
<1>4. buffer' \in Seq(Buffered) /\ Len(buffer') < (IF Capacity = 0 THEN 1 ELSE Capacity)
  BY <1>1, CapacitiesAssumption
<1> QED
  BY <1>1, <1>2, <1>3, <1>4 DEF TypeInv, Idle

\* What open replays the log on.
Base == IF indexFile = NoFile THEN EmptyGraph ELSE indexFile.content

\* The graph that open starts from, loaded or new, is sound.
LEMMA BaseSound ==
    ASSUME TypeInv, indexFile # Torn
    PROVE  Sound(Base)
<1>1. CASE indexFile = NoFile
  BY <1>1, EmptySound DEF Base
<1>2. CASE indexFile # NoFile
  <2>1. PICK g : indexFile = Saved(g) /\ Sound(g)
    BY <1>2 DEF TypeInv, IndexFileSound
  <2>2. indexFile.content = g
    BY <2>1, Files
  <2> QED
    BY <1>2, <2>1, <2>2 DEF Base
<1> QED
  BY <1>1, <1>2

\* Replaying the log over the loaded graph leaves a sound graph.
LEMMA TypeOpen ==
    ASSUME TypeInv, Open
    PROVE  TypeInv' /\ Sound(graph') /\ Replayed(graph', Base, log, Len(log))
<1>1. /\ config' = config /\ log' = log /\ up' = TRUE /\ indexFile # Torn
      /\ stopping' = stopping /\ astray' = {} /\ buffer' = buffer
      /\ pc' = pc /\ rec' = rec /\ indexFile' = indexFile
      /\ \E levels \in [DOMAIN log -> 0..MaxLayer] : graph' = ReplayIndex(Base, log, levels)
  BY DEF Open, Base, files
<1>2. PICK levels \in [DOMAIN log -> 0..MaxLayer] : graph' = ReplayIndex(Base, log, levels)
  BY <1>1
<1>3. Sound(Base) /\ config \in Configs /\ log \in Seq(Entry)
  BY <1>1, BaseSound DEF TypeInv
<1>4. Sound(graph') /\ Replayed(graph', Base, log, Len(log))
  BY <1>2, <1>3, ReplaySound
<1>5. Sound(graph)' /\ IndexFileSound'
  <2>1. \A g : Sound(g) => Sound(g)'
    BY <1>1, SoundKept
  <2> QED
    BY <1>1, <1>4, <2>1 DEF TypeInv, IndexFileSound
<1>6. \A d \in Clients : ClientSound(d)'
  BY <1>1 DEF TypeInv, ClientSound
<1> QED
  BY <1>1, <1>4, <1>5, <1>6 DEF TypeInv

\* A stuttering step keeps the types.
LEMMA TypeStutter ==
    ASSUME TypeInv, UNCHANGED vars
    PROVE  TypeInv'
<1>1. /\ config' = config /\ graph' = graph /\ log' = log /\ up' = up
      /\ stopping' = stopping /\ astray' = astray /\ buffer' = buffer
      /\ pc' = pc /\ rec' = rec /\ indexFile' = indexFile
  BY DEF vars, memory, files, history
<1>2. Sound(graph)' /\ IndexFileSound'
  <2>1. \A g : Sound(g) => Sound(g)'
    BY <1>1, SoundKept
  <2> QED
    BY <1>1, <2>1 DEF TypeInv, IndexFileSound
<1>3. \A d \in Clients : ClientSound(d)'
  BY <1>1 DEF TypeInv, ClientSound
<1> QED
  BY <1>1, <1>2, <1>3 DEF TypeInv, Idle

\* Every step keeps the types.
LEMMA TypeStep == ASSUME TypeInv, [Next]_vars PROVE TypeInv'
<1>1. ASSUME NEW c \in Clients, NEW id \in NextIds, NEW v \in Points \cup {Misfit}, Insert(c, id, v) PROVE TypeInv'
  <2>1. id \in Ids
    BY DEF NextIds
  <2> QED
    BY <1>1, <2>1, TypeInsert
<1>2. ASSUME NEW c \in Clients, NEW level \in random_level(graph), IndexInsert(c, level) PROVE TypeInv'
  BY <1>2, TypeIndexInsert
<1>3. ASSUME NEW c \in Clients, IndexReject(c) \/ InsertFails(c) \/ BufferAndAck(c) PROVE TypeInv'
  BY <1>3, TypeIndexReject, TypeBufferAndAck
<1>4. ASSUME NEW id \in Ids, RemoveVector(id) PROVE TypeInv'
  BY <1>4, TypeRemoveVector
<1>5. CASE ShutdownSave \/ ShutdownFails \/ ShutdownDrain
  BY <1>5, TypeShutdown
<1>6. CASE Stop \/ Open
  BY <1>6, TypeStop, TypeOpen
<1> QED
  BY <1>1, <1>2, <1>3, <1>4, <1>5, <1>6, TypeStutter DEF Next

\* In every reachable state, of any instance, the parts of the index have their
\* types, the graph of the index and the one in a whole index file are sound, and
\* the engine has nothing under way while the process is down.
THEOREM TypesAlways == Spec => []TypeInv
<1>1. Init => TypeInv
  BY TypeInit
<1>2. TypeInv /\ [Next]_vars => TypeInv'
  BY TypeStep
<1> QED
  BY <1>1, <1>2, PTL DEF Spec

\* Ids are unique in the index and have their vectors, the buffer stays below its
\* capacity, and a client has an entry exactly while its insert is under way.
THEOREM VectorIndexTypeOK == Spec => []TypeOK
<1>1. TypeInv => TypeOK
  <2> SUFFICES ASSUME TypeInv PROVE TypeOK
    OBVIOUS
  <2>1. /\ Len(graph.vec) = Len(graph.ids) /\ Once(graph.ids)
        /\ graph.ids \in Seq(Ids) /\ graph.vec \in Seq(Points)
    BY SoundFields DEF TypeInv
  <2>2. IsSeq(graph.ids)
    BY <2>1, SeqIsSeq
  <2>3. Cardinality(ToSet(graph.ids)) = Len(graph.ids)
    BY <2>1, <2>2, OnceCounts
  <2>4. ToSet(graph.ids) \subseteq Ids
    BY <2>1 DEF ToSet
  <2>5. ToSet(graph.vec) \subseteq Points
    BY <2>1 DEF ToSet
  <2>6. ToSet(log) \subseteq Entry
    BY DEF ToSet, TypeInv
  <2>7. \A c \in Clients : rec[c] = <<>> <=> pc[c] = "idle"
    BY DEF TypeInv, ClientSound
  <2> QED
    BY <2>1, <2>3, <2>4, <2>5, <2>6, <2>7 DEF TypeOK, TypeInv
<1> QED
  BY <1>1, TypesAlways, PTL

\* However nodes are linked, shrunk, tombstoned, saved and replayed, on any number
\* of layers, no traversal can index a missing edge list and lists keep their bounds.
THEOREM GraphAlwaysSound == Spec => []GraphSound
<1>1. TypeInv => GraphSound
  BY SoundGraph DEF TypeInv, GraphSound
<1> QED
  BY <1>1, TypesAlways, PTL

-----------------------------------------------------------------------------
(* The index and the log *)

\* What the first k entries say does not depend on the later ones.
LEMMA LogPrefix ==
    ASSUME NEW lg, NEW lg2, NEW k \in Nat, \A i \in 1..k : lg2[i] = lg[i]
    PROVE  Logged(lg2, k) = Logged(lg, k) /\ \A id, v : Current(lg2, k, id, v) <=> Current(lg, k, id, v)
<1>1. \A i \in 1..k : \A j \in (i + 1)..k : j \in 1..k
  OBVIOUS
<1>2. Logged(lg2, k) = Logged(lg, k)
  BY DEF Logged
<1>3. ASSUME NEW id, NEW v PROVE Current(lg2, k, id, v) <=> Current(lg, k, id, v)
  BY <1>1 DEF Current
<1> QED
  BY <1>2, <1>3

\* An appended entry.
LEMMA LogAppend ==
    ASSUME NEW lg \in Seq(Entry), NEW e \in Entry, NEW lg2, lg2 = Append(lg, e)
    PROVE  /\ Logged(lg2, Len(lg2)) = IF e.vec = Misfit THEN Logged(lg, Len(lg)) ELSE Logged(lg, Len(lg)) \cup {e.id}
           /\ \A id, v : Current(lg2, Len(lg2), id, v) <=>
                \/ e.id = id /\ e.vec = v /\ v # Misfit
                \/ Current(lg, Len(lg), id, v) /\ (e.id = id => e.vec = Misfit)
<1> DEFINE k == Len(lg)
<1>1. k \in Nat /\ Len(lg2) = k + 1 /\ lg2[k + 1] = e /\ \A i \in 1..k : lg2[i] = lg[i]
  BY AppendProperties
<1> HIDE DEF k
<1>2. Logged(lg2, k) = Logged(lg, k) /\ \A id, v : Current(lg2, k, id, v) <=> Current(lg, k, id, v)
  BY <1>1, LogPrefix
<1>3. Logged(lg2, k + 1) = IF e.vec = Misfit THEN Logged(lg, k) ELSE Logged(lg, k) \cup {e.id}
  BY <1>1, <1>2, LoggedStep
<1>4. ASSUME NEW id, NEW v
      PROVE  Current(lg2, k + 1, id, v) <=>
                \/ e.id = id /\ e.vec = v /\ v # Misfit
                \/ Current(lg, k, id, v) /\ (e.id = id => e.vec = Misfit)
  <2>0. k \in Nat
    BY <1>1
  <2>1. Current(lg2, k + 1, id, v) <=>
             \/ lg2[k + 1].id = id /\ lg2[k + 1].vec = v /\ v # Misfit
             \/ Current(lg2, k, id, v) /\ (lg2[k + 1].id = id => lg2[k + 1].vec = Misfit)
    BY ONLY <2>0, CurrentStep
  <2> QED
    BY <1>1, <1>2, <2>1
<1> QED
  BY <1>1, <1>3, <1>4 DEF k

\* v is the last vector logged for id.
IsLast(id, v) == Current(log, Len(log), id, v)

LogIds == Logged(log, Len(log))

\* An insert of id is under way that has not reached the index and will change it.
Pending(id) == \E c \in Clients : pc[c] = "index" /\ rec[c][1].id = id /\ rec[c][1].vec # Misfit

\* The index, in memory and in its file, has ids of the log only.
OnlyLogged ==
  /\ ToSet(graph.ids) \subseteq LogIds
  /\ \A g : indexFile = Saved(g) => ToSet(g.ids) \subseteq LogIds
  /\ \A c \in Clients : pc[c] = "index" /\ rec[c][1].vec # Misfit => rec[c][1].id \in LogIds

\* At most one insert of id is on its way to the index, the one that is there was
\* logged last, and otherwise the index has the last vector of id.
InStep(id) ==
  /\ \A c, d \in Clients : pc[c] = "index" /\ pc[d] = "index" /\ rec[c][1].id = id /\ rec[d][1].id = id => c = d
  /\ \A c \in Clients : pc[c] = "index" /\ rec[c][1].id = id /\ rec[c][1].vec # Misfit => IsLast(id, rec[c][1].vec)
  /\ \A v \in Points : IsLast(id, v) => HasVec(graph, id, v) \/ Pending(id)

LogInv == OnlyLogged /\ (up => \A id \in Ids \ astray : InStep(id))

\* An empty graph matches an empty log.
LEMMA LogInit == ASSUME Init PROVE LogInv
<1>1. /\ graph.ids = <<>> /\ indexFile = NoFile /\ log = <<>> /\ \A c \in Clients : pc[c] = "idle"
  BY EmptySound DEF Init
<1>2. Len(log) = 0 /\ 1..0 = {} /\ DOMAIN graph.ids = {}
  BY <1>1
<1>3. ToSet(graph.ids) = {} /\ \A id, v : ~IsLast(id, v)
  BY <1>2 DEF ToSet, IsLast, Current
<1>4. \A g : indexFile # Saved(g)
  BY <1>1, Files
<1> QED
  BY <1>1, <1>3, <1>4 DEF LogInv, OnlyLogged, InStep

\* What an insert does to the log.
LEMMA InsertLogs ==
    ASSUME TypeInv, NEW c \in Clients, NEW id \in Ids, NEW v \in Points \cup {Misfit}, Insert(c, id, v)
    PROVE  /\ LogIds' = IF v = Misfit THEN LogIds ELSE LogIds \cup {id}
           /\ \A i, u : IsLast(i, u)' <=>
                \/ id = i /\ v = u /\ u # Misfit
                \/ IsLast(i, u) /\ (id = i => v = Misfit)
<1> DEFINE e == [id |-> id, vec |-> v]
<1>1. e \in Entry /\ e.id = id /\ e.vec = v
  BY DEF Entry
<1>2. log \in Seq(Entry) /\ log' = Append(log, e)
  BY DEF Insert, TypeInv
<1> HIDE DEF e
<1>3. /\ Logged(log', Len(log')) = IF e.vec = Misfit THEN Logged(log, Len(log)) ELSE Logged(log, Len(log)) \cup {e.id}
      /\ \A i, u : Current(log', Len(log'), i, u) <=>
                \/ e.id = i /\ e.vec = u /\ u # Misfit
                \/ Current(log, Len(log), i, u) /\ (e.id = i => e.vec = Misfit)
  BY <1>1, <1>2, LogAppend
<1> QED
  BY <1>1, <1>3 DEF LogIds, IsLast

\* An insert that is logged and not indexed yet is its client's to index.
LEMMA LogInsert ==
    ASSUME TypeInv, LogInv, NEW c \in Clients, NEW id \in Ids, NEW v \in Points \cup {Misfit}, Insert(c, id, v)
    PROVE  LogInv'
<1>1. /\ LogIds' = IF v = Misfit THEN LogIds ELSE LogIds \cup {id}
      /\ \A i, u : IsLast(i, u)' <=>
                \/ id = i /\ v = u /\ u # Misfit
                \/ IsLast(i, u) /\ (id = i => v = Misfit)
  BY InsertLogs
<1>2. /\ graph' = graph /\ indexFile' = indexFile /\ up' = up /\ pc[c] = "idle"
      /\ astray' = IF UnderWay(id) THEN astray \cup {id}
                   ELSE IF v = Misfit THEN astray ELSE astray \ {id}
  BY DEF Insert, memory
<1>3. /\ pc'[c] = "index" /\ rec'[c][1].id = id /\ rec'[c][1].vec = v
      /\ \A d \in Clients : d # c => pc'[d] = pc[d] /\ rec'[d] = rec[d]
  BY DEF Insert, TypeInv
<1>4. OnlyLogged'
  BY <1>1, <1>2, <1>3 DEF LogInv, OnlyLogged
<1>5. ASSUME up', NEW i \in Ids, i \notin astray' PROVE InStep(i)'
  <2>1. CASE i # id
    <3>1. InStep(i)
      BY <1>2, <1>5, <2>1 DEF LogInv
    <3>2. \A d \in Clients : pc'[d] = "index" /\ rec'[d][1].id = i => d # c /\ pc[d] = "index" /\ rec[d] = rec'[d]
      BY <1>3, <2>1
    <3>3. \A u : IsLast(i, u)' <=> IsLast(i, u)
      BY <1>1, <2>1
    <3>4. Pending(i) => Pending(i)'
      BY <1>2, <1>3 DEF Pending
    <3>5. \A u : HasVec(graph, i, u)' <=> HasVec(graph, i, u)
      BY <1>2 DEF HasVec
    <3> QED
      BY <3>1, <3>2, <3>3, <3>4, <3>5 DEF InStep
  <2>2. CASE i = id
    <3>1. \A d \in Clients : pc[d] = "index" => rec[d][1].id # id
      BY <1>2, <1>5, <2>2 DEF UnderWay
    <3>2. \A d \in Clients : pc'[d] = "index" /\ rec'[d][1].id = id => d = c
      BY <1>3, <3>1
    <3>3. CASE v # Misfit
      <4>1. IsLast(id, v)'
        BY <1>1, <3>3
      <4>2. Pending(id)'
        BY <1>3, <3>3 DEF Pending
      <4> QED
        BY <1>3, <2>2, <3>2, <4>1, <4>2 DEF InStep
    <3>4. CASE v = Misfit
      <4>1. InStep(id) /\ ~Pending(id)
        BY <1>2, <1>5, <2>2, <3>1, <3>4 DEF LogInv, Pending
      <4>2. \A u \in Points : IsLast(id, u)' => HasVec(graph, id, u)'
        <5>1. \A u : IsLast(id, u)' => IsLast(id, u)
          BY <1>1, <3>4
        <5>2. \A u \in Points : IsLast(id, u) => HasVec(graph, id, u)
          BY <4>1 DEF InStep
        <5>3. \A u : HasVec(graph, id, u)' <=> HasVec(graph, id, u)
          BY <1>2 DEF HasVec
        <5> QED
          BY <5>1, <5>2, <5>3
      <4> QED
        BY <1>3, <2>2, <3>2, <3>4, <4>2 DEF InStep
    <3> QED
      BY <3>3, <3>4
  <2> QED
    BY <2>1, <2>2
<1> QED
  BY <1>4, <1>5 DEF LogInv

\* Indexing a record brings the graph up with the log for that id.
LEMMA LogIndexInsert ==
    ASSUME TypeInv, LogInv, NEW c \in Clients, NEW level \in random_level(graph), IndexInsert(c, level)
    PROVE  LogInv'
<1> DEFINE id == rec[c][1].id
           v == rec[c][1].vec
<1>1. /\ indexFile' = indexFile /\ log' = log /\ up' = up /\ astray' = astray
      /\ pc[c] = "index" /\ v # Misfit /\ rec' = rec
  BY DEF IndexInsert, files, history
<1>2. pc'[c] = "buffer" /\ \A d \in Clients : d # c => pc'[d] = pc[d]
  BY DEF IndexInsert, TypeInv
<1>3. Inserted(graph', graph, id, v) /\ Sound(graph)
  BY TypeIndexInsert DEF TypeInv
<1>4. /\ ToSet(graph'.ids) = ToSet(graph.ids) \cup {id}
      /\ HasVec(graph', id, v)
      /\ \A j, u : j # id /\ HasVec(graph, j, u) => HasVec(graph', j, u)
  BY <1>3, InsertedVec
<1>5. Len(log) \in Nat
  BY DEF TypeInv
<1>6. OnlyLogged'
  BY <1>1, <1>2, <1>4 DEF LogInv, OnlyLogged, LogIds
<1>7. ASSUME up', NEW i \in Ids, i \notin astray' PROVE InStep(i)'
  <2>1. InStep(i)
    BY <1>1, <1>7 DEF LogInv
  <2>2. \A u : IsLast(i, u)' <=> IsLast(i, u)
    BY <1>1 DEF IsLast
  <2>3. \A d \in Clients : pc'[d] = "index" => d # c /\ pc[d] = "index" /\ rec'[d] = rec[d]
    BY <1>1, <1>2
  <2>4. ASSUME NEW u \in Points, IsLast(i, u)' PROVE HasVec(graph, i, u)' \/ Pending(i)'
    <3>0. IsLast(i, u)
      BY <2>2, <2>4
    <3>1. CASE i = id
      <4>1. IsLast(i, v)
        BY <1>1, <2>1, <3>1 DEF InStep
      <4>2. u = v
        BY <1>5, <3>0, <4>1, CurrentUnique DEF IsLast
      <4> QED
        BY <1>4, <3>1, <4>2
    <3>2. CASE i # id
      <4>1. HasVec(graph, i, u) \/ Pending(i)
        BY <2>1, <3>0 DEF InStep
      <4>2. Pending(i) => Pending(i)'
        BY <1>1, <1>2, <3>2 DEF Pending
      <4> QED
        BY <1>4, <3>2, <4>1, <4>2
    <3> QED
      BY <3>1, <3>2
  <2> QED
    BY <2>1, <2>2, <2>3, <2>4 DEF InStep
<1> QED
  BY <1>6, <1>7 DEF LogInv

\* A step that leaves the log and the ids and vectors of the index alone and takes
\* no pending insert away, unless it sets its id astray.
LEMMA LogSame ==
    ASSUME LogInv, log' = log, astray \subseteq astray', up' = up, indexFile' = indexFile,
           graph'.ids = graph.ids, graph'.vec = graph.vec,
           \A d \in Clients : pc'[d] = "index" => pc[d] = "index" /\ rec'[d] = rec[d],
           \A d \in Clients : pc[d] = "index" /\ rec[d][1].vec # Misfit => pc'[d] = "index" \/ rec[d][1].id \in astray'
    PROVE  LogInv'
<1>1. OnlyLogged'
  BY DEF LogInv, OnlyLogged, LogIds
<1>2. ASSUME up', NEW i \in Ids, i \notin astray' PROVE InStep(i)'
  <2>1. InStep(i)
    BY <1>2 DEF LogInv
  <2>2. \A u : IsLast(i, u)' <=> IsLast(i, u)
    BY DEF IsLast
  <2>3. \A u : HasVec(graph, i, u)' <=> HasVec(graph, i, u)
    BY DEF HasVec
  <2>4. Pending(i) => Pending(i)'
    BY <1>2 DEF Pending
  <2> QED
    BY <2>1, <2>2, <2>3, <2>4 DEF InStep
<1> QED
  BY <1>1, <1>2 DEF LogInv

\* The other steps of an insert leave graph and log as they are.
LEMMA LogOtherClientSteps ==
    ASSUME TypeInv, LogInv, NEW c \in Clients, IndexReject(c) \/ InsertFails(c) \/ BufferAndAck(c)
    PROVE  LogInv'
<1>1. /\ log' = log /\ astray \subseteq astray' /\ up' = up /\ indexFile' = indexFile /\ graph' = graph
  BY DEF IndexReject, InsertFails, BufferAndAck, memory, files, history
<1>2. pc[c] = "buffer" \/ (pc[c] = "index" /\ (rec[c][1].vec = Misfit \/ rec[c][1].id \in astray'))
  BY DEF IndexReject, InsertFails, BufferAndAck
<1>3. /\ pc' = [pc EXCEPT ![c] = "idle"] /\ rec' = [rec EXCEPT ![c] = <<>>]
  BY DEF IndexReject, InsertFails, BufferAndAck
<1>4. pc'[c] = "idle" /\ \A d \in Clients : d # c => pc'[d] = pc[d] /\ rec'[d] = rec[d]
  BY <1>3 DEF TypeInv
<1>5. \A d \in Clients : pc'[d] = "index" => pc[d] = "index" /\ rec'[d] = rec[d]
  BY <1>4
<1>6. \A d \in Clients : pc[d] = "index" /\ rec[d][1].vec # Misfit => pc'[d] = "index" \/ rec[d][1].id \in astray'
  BY <1>2, <1>4
<1> QED
  BY <1>1, <1>5, <1>6, LogSame

\* A tombstone changes no contents.
LEMMA LogRemoveVector ==
    ASSUME TypeInv, LogInv, NEW id \in Ids, RemoveVector(id)
    PROVE  LogInv'
<1>1. /\ log' = log /\ astray' = astray /\ up' = up /\ indexFile' = indexFile /\ pc' = pc /\ rec' = rec
  BY DEF RemoveVector, files
<1>2. graph'.ids = graph.ids /\ graph'.vec = graph.vec
  BY TypeRemoveVector
<1> QED
  BY <1>1, <1>2, LogSame

\* What shutdown saves matches the log as the graph does.
LEMMA LogShutdown ==
    ASSUME LogInv, ShutdownSave \/ ShutdownFails \/ ShutdownDrain \/ UNCHANGED vars
    PROVE  LogInv'
<1>1. /\ log' = log /\ astray' = astray /\ up' = up /\ graph' = graph /\ pc' = pc /\ rec' = rec
      /\ indexFile' = indexFile \/ indexFile' = Torn \/ indexFile' = Saved(graph)
  BY DEF ShutdownSave, ShutdownFails, ShutdownDrain, vars, memory, files, history
<1>2. \A g : indexFile' = Saved(g) => indexFile = Saved(g) \/ g = graph
  BY <1>1, Files
<1>3. OnlyLogged'
  BY <1>1, <1>2 DEF LogInv, OnlyLogged, LogIds
<1>4. \A id : InStep(id) => InStep(id)'
  BY <1>1 DEF InStep, IsLast, Pending, HasVec
<1> QED
  BY <1>1, <1>3, <1>4 DEF LogInv

\* A stop leaves log and files, which matched.
LEMMA LogStop ==
    ASSUME LogInv, Stop
    PROVE  LogInv'
<1>1. /\ log' = log /\ up' = FALSE /\ graph' = EmptyGraph /\ \A c \in Clients : pc'[c] = "idle"
      /\ indexFile' = indexFile \/ indexFile' = Torn
  BY DEF Stop
<1>2. \A g : indexFile' = Saved(g) => indexFile = Saved(g)
  BY <1>1, Files
<1>3. ToSet(graph'.ids) = {}
  <2>1. graph'.ids = <<>> /\ DOMAIN <<>> = {}
    BY <1>1, EmptySound
  <2> QED
    BY <2>1 DEF ToSet
<1> QED
  BY <1>1, <1>2, <1>3 DEF LogInv, OnlyLogged, LogIds

\* Replaying the log over a saved graph, which may already have part of it, makes them match.
LEMMA LogOpen ==
    ASSUME TypeInv, LogInv, Open
    PROVE  LogInv'
<1>1. /\ log' = log /\ ~up /\ indexFile # Torn /\ pc' = pc /\ rec' = rec /\ indexFile' = indexFile
  BY DEF Open, files
<1>2. \A c \in Clients : pc'[c] = "idle"
  BY <1>1 DEF TypeInv, Idle
<1>3. /\ ToSet(graph'.ids) = ToSet(Base.ids) \cup LogIds
      /\ \A id \in Ids, v \in Points : IsLast(id, v) => HasVec(graph', id, v)
  BY TypeOpen DEF Replayed, LogIds, IsLast
<1>4. ToSet(Base.ids) \subseteq LogIds
  <2>1. CASE indexFile = NoFile
    <3>1. Base.ids = <<>> /\ DOMAIN <<>> = {}
      BY <2>1, EmptySound DEF Base
    <3> QED
      BY <3>1 DEF ToSet
  <2>2. CASE indexFile # NoFile
    <3>1. PICK g : indexFile = Saved(g)
      BY <1>1, <2>2 DEF TypeInv, IndexFileSound
    <3>2. Base = g
      BY <2>2, <3>1, Files DEF Base
    <3> QED
      BY <3>1, <3>2 DEF LogInv, OnlyLogged
  <2> QED
    BY <2>1, <2>2
<1>5. OnlyLogged'
  BY <1>1, <1>2, <1>3, <1>4 DEF LogInv, OnlyLogged, LogIds
<1>6. \A id \in Ids : InStep(id)'
  <2>1. \A i, u : IsLast(i, u)' <=> IsLast(i, u)
    BY <1>1 DEF IsLast
  <2> QED
    BY <1>2, <1>3, <2>1 DEF InStep
<1> QED
  BY <1>5, <1>6 DEF LogInv

\* Every step keeps graph and files matching the log.
LEMMA LogStep == ASSUME TypeInv, LogInv, [Next]_vars PROVE LogInv'
<1>1. ASSUME NEW c \in Clients, NEW id \in NextIds, NEW v \in Points \cup {Misfit}, Insert(c, id, v) PROVE LogInv'
  <2>1. id \in Ids
    BY DEF NextIds
  <2> QED
    BY <1>1, <2>1, LogInsert
<1>2. ASSUME NEW c \in Clients, NEW level \in random_level(graph), IndexInsert(c, level) PROVE LogInv'
  BY <1>2, LogIndexInsert
<1>3. ASSUME NEW c \in Clients, IndexReject(c) \/ InsertFails(c) \/ BufferAndAck(c) PROVE LogInv'
  BY <1>3, LogOtherClientSteps
<1>4. ASSUME NEW id \in Ids, RemoveVector(id) PROVE LogInv'
  BY <1>4, LogRemoveVector
<1>5. CASE ShutdownSave \/ ShutdownFails \/ ShutdownDrain \/ UNCHANGED vars
  BY <1>5, LogShutdown
<1>6. CASE Stop \/ Open
  BY <1>6, LogStop, LogOpen
<1> QED
  BY <1>1, <1>2, <1>3, <1>4, <1>5, <1>6 DEF Next

\* The position LastLogged picks holds the last vector.
LEMMA LastLoggedIs ==
    ASSUME TypeInv, NEW id \in LogIds
    PROVE  IsLast(id, log[LastLogged(id)].vec) /\ log[LastLogged(id)].vec \in Points /\ id \in Ids
<1>1. Len(log) \in Nat /\ DOMAIN log = 1..Len(log) /\ \A i \in 1..Len(log) : log[i] \in Entry
  BY ElementOfSeq DEF TypeInv
<1>2. PICK v : Current(log, Len(log), id, v)
  BY <1>1, CurrentExists DEF LogIds
<1>3. PICK m \in 1..Len(log) : /\ log[m].id = id /\ log[m].vec # Misfit
                               /\ \A j \in (m + 1)..Len(log) : log[j].id = id => log[j].vec = Misfit
  BY <1>2 DEF Current
<1> DEFINE P(i) == /\ log[i].id = id /\ log[i].vec # Misfit
                   /\ \A j \in DOMAIN log : j > i /\ log[j].id = id => log[j].vec = Misfit
           i == LastLogged(id)
<1>4. \E k \in DOMAIN log : P(k)
  <2>1. \A j \in 1..Len(log) : j > m => j \in (m + 1)..Len(log)
    BY <1>1
  <2> QED
    BY <1>1, <1>3, <2>1
<1>5. i \in DOMAIN log /\ P(i)
  BY <1>4 DEF LastLogged
<1> HIDE DEF i
<1>6. \A j \in (i + 1)..Len(log) : j \in DOMAIN log /\ j > i
  BY <1>1, <1>5
<1>7. IsLast(id, log[i].vec)
  BY <1>1, <1>5, <1>6 DEF IsLast, Current
<1>8. log[i].vec \in Points /\ id \in Ids
  BY <1>1, <1>5 DEF Entry
<1> QED
  BY <1>7, <1>8 DEF i

\* With any number of clients, inserts, failures, stops and reopenings, the index has
\* logged ids only, and for each id the last vector logged: unless an insert of that
\* id is under way, or the last ones of it ended before the index or overlapped.
THEOREM IndexAlwaysMatchesLog == Spec => []IndexMatchesLog
<1>1. Init => TypeInv /\ LogInv
  BY TypeInit, LogInit
<1>2. TypeInv /\ LogInv /\ [Next]_vars => TypeInv' /\ LogInv'
  BY TypeStep, LogStep
<1>3. TypeInv /\ LogInv => IndexMatchesLog
  <2> SUFFICES ASSUME TypeInv, LogInv, up
               PROVE  /\ ToSet(graph.ids) \subseteq LoggedIds
                      /\ \A id \in LoggedIds : UnderWay(id) \/ id \in astray
                           \/ \E n \in NodesOf(graph) : graph.ids[n] = id /\ graph.vec[n] = log[LastLogged(id)].vec
    BY DEF IndexMatchesLog
  <2>0. Len(log) \in Nat /\ DOMAIN log = 1..Len(log) /\ Sound(graph)
    BY DEF TypeInv
  <2>1. NodesOf(graph) = 1..Len(graph.ids)
    BY <2>0, SoundFields
  <2>2. LogIds = LoggedIds
    BY <2>0 DEF LogIds, Logged, LoggedIds
  <2>3. ToSet(graph.ids) \subseteq LogIds
    BY DEF LogInv, OnlyLogged
  <2>4. ASSUME NEW id \in LogIds, ~UnderWay(id), id \notin astray
        PROVE  \E n \in NodesOf(graph) : graph.ids[n] = id /\ graph.vec[n] = log[LastLogged(id)].vec
    <3>1. IsLast(id, log[LastLogged(id)].vec) /\ log[LastLogged(id)].vec \in Points /\ id \in Ids
      BY LastLoggedIs
    <3>2. ~Pending(id) /\ InStep(id)
      BY <2>4, <3>1 DEF LogInv, Pending, UnderWay
    <3>3. HasVec(graph, id, log[LastLogged(id)].vec)
      BY <3>1, <3>2 DEF InStep
    <3> QED
      BY <2>1, <3>3 DEF HasVec
  <2> QED
    BY <2>2, <2>3, <2>4
<1> QED
  BY <1>1, <1>2, <1>3, PTL DEF Spec

-----------------------------------------------------------------------------
(* Reopening after an orderly shutdown *)

\* LowestLayerEntry, given the distances to the query.
EntryFrom(g, dist) ==
  LET Descend[l \in 0..g.top] == IF l = g.top THEN g.entry ELSE GreedyWalk(g, Descend[l + 1], l + 1, dist)
  IN  Descend[0]

\* Searches depend on the configuration, which never changes.
LEMMA DistancesKept ==
    ASSUME config' = config, NEW g, NEW q, NEW w
    PROVE  Distances(g, q, w)' = Distances(g, q, w)
<1>1. [n \in NodesOf(g) |-> distance_weighted(g.vec[n], q, w)]' = [n \in NodesOf(g) |-> distance_weighted(g.vec[n], q, w)]
  BY DEF distance_weighted
<1> QED
  BY <1>1 DEF Distances

\* What a search of a given graph returns depends on the configuration only.
LEMMA HnswSearchKept ==
    ASSUME config' = config, NEW g, NEW q, NEW ef, NEW w
    PROVE  hnsw_search(g, q, ef, w)' = hnsw_search(g, q, ef, w)
<1>1. Distances(g, q, w)' = Distances(g, q, w)
  BY DistancesKept
<1>2. LowestLayerEntry(g, q, w)' = LowestLayerEntry(g, q, w)
  <2>1. LowestLayerEntry(g, q, w) = EntryFrom(g, Distances(g, q, w))
    BY DEF LowestLayerEntry, greedy_search_layer_weighted, EntryFrom
  <2>2. LowestLayerEntry(g, q, w)' = EntryFrom(g, Distances(g, q, w)')
    BY DEF LowestLayerEntry, greedy_search_layer_weighted, EntryFrom
  <2> QED
    BY <1>1, <2>1, <2>2
<1>3. ASSUME NEW nodes PROVE ResultsOf(g, nodes, q, w)' = ResultsOf(g, nodes, q, w)
  <2>1. [k \in DOMAIN nodes |->
           [id |-> g.ids[nodes[k]], score |-> distance_weighted(g.vec[nodes[k]], q, w)]]'
      = [k \in DOMAIN nodes |->
           [id |-> g.ids[nodes[k]], score |-> distance_weighted(g.vec[nodes[k]], q, w)]]
    BY DEF distance_weighted
  <2> QED
    BY <2>1 DEF ResultsOf
<1> DEFINE start == LowestLayerEntry(g, q, w)
           nodes == Truncate(LiveNodes(g, search_layer_weighted(g, start, q, ef, 0, w)), ef)
<1>4. nodes' = nodes
  BY <1>1, <1>2 DEF search_layer_weighted
<1> HIDE DEF start, nodes
<1>5. hnsw_search(g, q, ef, w) = IF g.ids = <<>> THEN <<>> ELSE ResultsOf(g, nodes, q, w)
  BY DEF hnsw_search, nodes, start
<1>6. hnsw_search(g, q, ef, w)' = IF g.ids = <<>> THEN <<>> ELSE ResultsOf(g, nodes, q, w)'
  BY DEF hnsw_search, nodes, start
<1> QED
  BY <1>3, <1>4, <1>5, <1>6

\* What a given graph, buffer and tree answer depends on the configuration only.
LEMMA AnswersKept ==
    ASSUME config' = config, NEW g, NEW b, NEW t
    PROVE  Answers(g, b, t)' = Answers(g, b, t)
<1>1. ASSUME NEW q, NEW k PROVE search_tiers(g, b, t, q, k, 1)' = search_tiers(g, b, t, q, k, 1)
  BY HnswSearchKept DEF search_tiers
<1> QED
  BY <1>1 DEF Answers

\* The files hold all that answers depend on: the graph g, which has the last
\* vector of every id, and the tree; a running engine has just loaded them or is
\* about to leave them.
SealedBy(g) ==
  /\ indexFile = Saved(g)
  /\ sealed = <<Answers(g, <<>>, LoadTree(treeFile))>>
  /\ \A id \in Ids, v \in Points : IsLast(id, v) => HasVec(g, id, v)
  /\ up => graph = g /\ tree = LoadTree(treeFile)

SealInv ==
  sealed # <<>> =>
    /\ Idle /\ buffer = <<>>
    /\ \/ indexFile = Torn /\ (~up \/ stopping = "done")
       \/ \E g : SealedBy(g)

\* A step of the log and the clients that keeps the seal keeps what it says.
LEMMA SealedByKept ==
    ASSUME NEW g, SealedBy(g), config' = config, indexFile' = Saved(g), treeFile' = treeFile,
           sealed' = sealed, log' = log, up' => graph' = g /\ tree' = LoadTree(treeFile)
    PROVE  SealedBy(g)'
<1>1. Answers(g, <<>>, LoadTree(treeFile))' = Answers(g, <<>>, LoadTree(treeFile))
  <2> DEFINE t == LoadTree(treeFile)
  <2>1. t' = t
    OBVIOUS
  <2>2. \A x : Answers(g, <<>>, x)' = Answers(g, <<>>, x)
    BY AnswersKept
  <2> HIDE DEF t
  <2> QED
    BY <2>1, <2>2 DEF t
<1>2. \A id, v : IsLast(id, v)' <=> IsLast(id, v)
  BY DEF IsLast
<1> QED
  BY <1>1, <1>2 DEF SealedBy

\* No insert runs while the engine is sealed.
LEMMA SealClientSteps ==
    ASSUME SealInv, NEW c \in Clients,
           \/ \E level \in random_level(graph) : IndexInsert(c, level)
           \/ InsertFails(c) \/ IndexReject(c) \/ BufferAndAck(c)
    PROVE  SealInv'
<1>1. pc[c] # "idle" /\ sealed' = sealed
  BY DEF IndexInsert, InsertFails, IndexReject, BufferAndAck, history
<1> QED
  BY <1>1 DEF SealInv, Idle

\* Saving the index seals nothing yet.
LEMMA SealSave ==
    ASSUME SealInv, ShutdownSave
    PROVE  SealInv'
<1>1. /\ config' = config /\ graph' = graph /\ buffer' = buffer /\ tree' = tree /\ log' = log /\ treeFile' = treeFile
      /\ up /\ up' = up /\ pc' = pc /\ sealed' = sealed
      /\ stopping = "no" /\ indexFile' = Saved(graph)
  BY DEF ShutdownSave, memory, history
<1> SUFFICES ASSUME sealed # <<>> PROVE SealInv'
  BY <1>1 DEF SealInv
<1>2. PICK g : SealedBy(g)
  BY <1>1 DEF SealInv
<1>3. graph = g /\ tree = LoadTree(treeFile)
  BY <1>1, <1>2 DEF SealedBy
<1>4. SealedBy(g)'
  BY <1>1, <1>2, <1>3, SealedByKept
<1> QED
  BY <1>1, <1>4 DEF SealInv, Idle

\* A save that fails seals nothing.
LEMMA SealFails ==
    ASSUME SealInv, ShutdownFails
    PROVE  SealInv'
<1>1. /\ config' = config /\ graph' = graph /\ buffer' = buffer /\ tree' = tree /\ log' = log /\ treeFile' = treeFile
      /\ up' = up /\ pc' = pc /\ sealed' = sealed
      /\ stopping' = "done" /\ indexFile' \in {indexFile, Torn}
  BY DEF ShutdownFails, memory, history
<1> SUFFICES ASSUME sealed # <<>> PROVE SealInv'
  BY <1>1 DEF SealInv
<1>2. Idle' /\ buffer' = <<>>
  BY <1>1 DEF SealInv, Idle
<1>3. CASE indexFile' = Torn
  BY <1>1, <1>2, <1>3 DEF SealInv
<1>4. CASE indexFile' = indexFile /\ indexFile # Torn
  <2>1. PICK g : SealedBy(g)
    BY <1>4 DEF SealInv
  <2>2. SealedBy(g)'
    BY <1>1, <1>4, <2>1, SealedByKept DEF SealedBy
  <2> QED
    BY <1>2, <2>2 DEF SealInv
<1> QED
  BY <1>1, <1>3, <1>4

\* After the last step of shutdown the files hold what the engine would answer from.
LEMMA SealDrain ==
    ASSUME TypeInv, LogInv, ShutdownDrain
    PROVE  SealInv'
<1>1. /\ config' = config /\ graph' = graph /\ log' = log /\ indexFile' = indexFile
      /\ up' = up /\ pc' = pc /\ stopping = "saved"
  BY DEF ShutdownDrain
<1> SUFFICES ASSUME sealed' # <<>> PROVE SealInv'
  BY <1>1 DEF SealInv
<1>2. /\ Idle /\ astray = {} /\ indexFile = Saved(graph)
      /\ treeFile' = (IF tree' = EmptyTree THEN NoFile ELSE Saved(tree'))
      /\ sealed' = <<Answers(graph, <<>>, tree')>>
  BY DEF ShutdownDrain
<1>3. buffer' = <<>> /\ up
  BY DEF ShutdownDrain, DrainBuffer, TypeInv
<1>4. LoadTree(treeFile') = tree'
  BY <1>2, Files DEF LoadTree, NoFile, Saved
<1>5. \A id \in Ids, v \in Points : IsLast(id, v) => HasVec(graph, id, v)
  BY <1>1, <1>2, <1>3 DEF LogInv, InStep, Pending, Idle
<1>6. \A g, t : Answers(g, <<>>, t)' = Answers(g, <<>>, t)
  BY <1>1, AnswersKept
<1>7. PICK g : g = graph
  OBVIOUS
<1>8. SealedBy(g)'
  <2>1. \A id, v : IsLast(id, v)' <=> IsLast(id, v)
    BY <1>1 DEF IsLast
  <2>2. \A id, v : HasVec(g, id, v)' <=> HasVec(graph, id, v)
    BY <1>7 DEF HasVec
  <2>3. sealed' = <<Answers(g, <<>>, LoadTree(treeFile))>>'
    <3>1. PICK t : t = tree'
      OBVIOUS
    <3>2. sealed' = <<Answers(g, <<>>, t)>> /\ LoadTree(treeFile') = t
      BY <1>2, <1>4, <1>7, <3>1
    <3>3. sealed' = <<Answers(g, <<>>, t)'>>
      BY <1>6, <3>2
    <3> QED
      BY <3>2, <3>3
  <2>4. indexFile' = Saved(g) /\ (up' => graph' = g /\ tree' = LoadTree(treeFile'))
    BY <1>1, <1>2, <1>4, <1>7
  <2> QED
    BY <1>5, <2>1, <2>2, <2>3, <2>4 DEF SealedBy
<1> QED
  BY <1>1, <1>2, <1>3, <1>8 DEF SealInv, Idle

\* A stop keeps the files that the seal speaks of, or tears the index file.
LEMMA SealStop ==
    ASSUME SealInv, Stop
    PROVE  SealInv'
<1>1. /\ config' = config /\ log' = log /\ up' = FALSE /\ sealed' = sealed
      /\ \A c \in Clients : pc'[c] = "idle"
      /\ buffer' = <<>> /\ (indexFile' = indexFile \/ indexFile' = Torn)
  BY DEF Stop
<1> SUFFICES ASSUME sealed # <<>> PROVE SealInv'
  BY <1>1 DEF SealInv
<1>2. Idle' /\ buffer' = <<>>
  BY <1>1 DEF Idle
<1>3. treeFile' = treeFile
  <2>1. ~(\E c \in Clients : pc[c] = "buffer") /\ buffer = <<>>
    BY DEF SealInv, Idle
  <2> QED
    BY <2>1 DEF Stop
<1>4. CASE indexFile' = Torn
  BY <1>1, <1>2, <1>4 DEF SealInv
<1>5. CASE indexFile' = indexFile /\ indexFile # Torn
  <2>1. PICK g : SealedBy(g)
    BY <1>5 DEF SealInv
  <2>2. SealedBy(g)'
    BY <1>1, <1>3, <1>5, <2>1, SealedByKept DEF SealedBy
  <2> QED
    BY <1>2, <2>2 DEF SealInv
<1> QED
  BY <1>1, <1>4, <1>5

\* Replaying the log over a graph that has the last vector of every id, and no
\* other ids, changes nothing.
LEMMA ReplayIdempotent ==
    ASSUME TypeInv, NEW g, Sound(g), ToSet(g.ids) \subseteq LogIds,
           \A id \in Ids, v \in Points : IsLast(id, v) => HasVec(g, id, v),
           NEW h, Sound(h), Replayed(h, g, log, Len(log))
    PROVE  h = g
<1>1. /\ g \in Graphs /\ Len(g.ids) \in Nat /\ DOMAIN g.ids = 1..Len(g.ids) /\ DOMAIN g.vec = 1..Len(g.ids)
      /\ g.vec \in Seq(Points)
  BY SoundFields
<1>2. LogIds \subseteq ToSet(g.ids)
  <2> SUFFICES ASSUME NEW id \in LogIds PROVE id \in ToSet(g.ids)
    OBVIOUS
  <2>1. HasVec(g, id, log[LastLogged(id)].vec)
    BY LastLoggedIs
  <2> QED
    BY <1>1, <2>1 DEF HasVec, ToSet
<1>3. /\ h = [g EXCEPT !.vec = h.vec]
      /\ \A id \in Ids, v \in Points : IsLast(id, v) => HasVec(h, id, v)
  BY <1>2 DEF Replayed, LogIds, IsLast
<1>4. h.ids = g.ids
  BY <1>1, <1>3 DEF Graphs
<1>5. h.vec \in Seq(Points) /\ DOMAIN h.vec = 1..Len(g.ids)
  BY <1>4, SoundFields
<1>6. ASSUME NEW n \in 1..Len(g.ids) PROVE h.vec[n] = g.vec[n]
  <2> DEFINE id == g.ids[n]
             v == log[LastLogged(id)].vec
  <2>1. id \in LogIds
    BY <1>1 DEF ToSet
  <2>2. HasVec(g, id, v) /\ HasVec(h, id, v)
    BY <1>3, <2>1, LastLoggedIs
  <2> HIDE DEF v
  <2>3. HasVec(g, id, g.vec[n]) /\ HasVec(h, id, h.vec[n])
    BY <1>4 DEF HasVec
  <2>4. v = g.vec[n]
    BY <2>2, <2>3, VecUnique
  <2>5. v = h.vec[n]
    BY <2>2, <2>3, VecUnique
  <2> QED
    BY <2>4, <2>5
<1>7. h.vec = g.vec
  BY <1>1, <1>5, <1>6
<1> QED
  BY <1>1, <1>3, <1>7 DEF Graphs

\* What open finds after an orderly shutdown.
LEMMA OpenSealed ==
    ASSUME TypeInv, LogInv, SealInv, Open, sealed # <<>>
    PROVE  \E g : SealedBy(g) /\ graph' = g /\ tree' = LoadTree(treeFile) /\ buffer' = <<>>
<1>1. ~up /\ indexFile # Torn /\ tree' = LoadTree(treeFile) /\ buffer' = buffer
  BY DEF Open
<1>2. PICK g : SealedBy(g)
  BY <1>1 DEF SealInv
<1>3. buffer = <<>> /\ indexFile = Saved(g)
  BY <1>2 DEF SealInv, SealedBy
<1>4. Base = g
  BY <1>3, Files DEF Base
<1>5. Sound(g)
  BY <1>1, <1>4, BaseSound
<1>6. ToSet(g.ids) \subseteq LogIds /\ \A id \in Ids, v \in Points : IsLast(id, v) => HasVec(g, id, v)
  BY <1>2, <1>3 DEF LogInv, OnlyLogged, SealedBy
<1>7. Sound(graph') /\ Replayed(graph', g, log, Len(log))
  BY <1>4, TypeOpen
<1>8. graph' = g
  BY <1>5, <1>6, <1>7, ReplayIdempotent
<1> QED
  BY <1>1, <1>2, <1>3, <1>8

\* Opening sealed files gives an engine that answers as before.
LEMMA SealOpen ==
    ASSUME TypeInv, LogInv, SealInv, Open
    PROVE  SealInv'
<1>1. /\ config' = config /\ log' = log /\ sealed' = sealed /\ pc' = pc
      /\ treeFile' = treeFile /\ indexFile' = indexFile
  BY DEF Open, files
<1> SUFFICES ASSUME sealed # <<>> PROVE SealInv'
  BY <1>1 DEF SealInv
<1>2. PICK g : SealedBy(g) /\ graph' = g /\ tree' = LoadTree(treeFile) /\ buffer' = <<>>
  BY OpenSealed
<1>3. SealedBy(g)'
  BY <1>1, <1>2, SealedByKept DEF SealedBy
<1> QED
  BY <1>1, <1>2, <1>3 DEF SealInv, Idle

\* A stuttering step keeps the seal.
LEMMA SealStutter ==
    ASSUME SealInv, UNCHANGED vars
    PROVE  SealInv'
<1>1. /\ config' = config /\ graph' = graph /\ buffer' = buffer /\ tree' = tree /\ log' = log /\ treeFile' = treeFile
      /\ indexFile' = indexFile /\ up' = up /\ pc' = pc /\ sealed' = sealed /\ stopping' = stopping
  BY DEF vars, memory, files, history
<1> SUFFICES ASSUME sealed # <<>> PROVE SealInv'
  BY <1>1 DEF SealInv
<1>2. ASSUME NEW g, SealedBy(g) PROVE SealedBy(g)'
  BY <1>1, <1>2, SealedByKept DEF SealedBy
<1> QED
  BY <1>1, <1>2 DEF SealInv, Idle

\* Every step keeps the seal true.
LEMMA SealStep == ASSUME TypeInv, LogInv, SealInv, [Next]_vars PROVE SealInv'
<1>1. ASSUME NEW c \in Clients, NEW id \in NextIds, NEW v \in Points \cup {Misfit}, Insert(c, id, v) PROVE SealInv'
  BY <1>1 DEF Insert, SealInv
<1>2. ASSUME NEW c \in Clients, \/ \E level \in random_level(graph) : IndexInsert(c, level)
                                \/ InsertFails(c) \/ IndexReject(c) \/ BufferAndAck(c)
      PROVE  SealInv'
  BY <1>2, SealClientSteps
<1>3. ASSUME NEW id \in Ids, RemoveVector(id) PROVE SealInv'
  BY <1>3 DEF RemoveVector, SealInv
<1>4. CASE ShutdownSave \/ ShutdownFails \/ ShutdownDrain
  BY <1>4, SealSave, SealFails, SealDrain
<1>5. CASE Stop \/ Open
  BY <1>5, SealStop, SealOpen
<1> QED
  BY <1>1, <1>2, <1>3, <1>4, <1>5, SealStutter DEF Next

\* After any history that ends in an orderly shutdown whose files were written and
\* with no id astray, the reopened engine gives every query the answers it gave
\* before.
THEOREM ReopenAlwaysAnswers == Spec => ReopenAnswers
<1>1. Init => TypeInv /\ LogInv /\ SealInv
  <2>1. Init => SealInv
    BY DEF Init, SealInv
  <2> QED
    BY <2>1, TypeInit, LogInit
<1>2. TypeInv /\ LogInv /\ SealInv /\ [Next]_vars => TypeInv' /\ LogInv' /\ SealInv'
  BY TypeStep, LogStep, SealStep
<1>3. TypeInv /\ LogInv /\ SealInv /\ [Next]_vars =>
        [(~up /\ up' /\ sealed # <<>>) => <<Answers(graph', buffer', tree')>> = sealed]_vars
  <2> SUFFICES ASSUME TypeInv, LogInv, SealInv, [Next]_vars, ~up, up', sealed # <<>>
               PROVE  <<Answers(graph', buffer', tree')>> = sealed
    OBVIOUS
  <2>1. Open
    <3>1. up' # up
      OBVIOUS
    <3>2. \A c \in Clients : \A id, v : ~Insert(c, id, v)
      BY DEF Insert
    <3>3. \A c \in Clients : pc[c] = "idle"
      BY DEF TypeInv, Idle
    <3>4. ASSUME NEW c \in Clients, NEW level PROVE ~IndexInsert(c, level) /\ ~InsertFails(c) /\ ~IndexReject(c) /\ ~BufferAndAck(c)
      BY <3>3 DEF IndexInsert, InsertFails, IndexReject, BufferAndAck
    <3>5. \A id : ~RemoveVector(id)
      BY DEF RemoveVector
    <3>6. ~ShutdownSave /\ ~ShutdownFails /\ ~ShutdownDrain /\ ~Stop
      BY DEF ShutdownSave, ShutdownFails, ShutdownDrain, Stop, TypeInv
    <3>7. ~UNCHANGED vars
      BY <3>1 DEF vars
    <3> QED
      BY <3>2, <3>4, <3>5, <3>6, <3>7 DEF Next
  <2>2. PICK g : SealedBy(g) /\ graph' = g /\ tree' = LoadTree(treeFile) /\ buffer' = <<>>
    BY <2>1, OpenSealed
  <2> QED
    BY <2>2 DEF SealedBy
<1> QED
  BY <1>1, <1>2, <1>3, PTL DEF Spec, ReopenAnswers

-----------------------------------------------------------------------------
(* Sums of counts *)

\* A list of leaves or of nodes above them.
Counted(s) == IsSeq(s) /\ \A i \in 1..Len(s) : s[i].count \in Nat

\* F has the sums of the first counts.
Sums(F, s) ==
  /\ F \in [0..Len(s) -> Nat] /\ F[0] = 0
  /\ \A i \in 1..Len(s) : F[i] = F[i - 1] + s[i].count

\* The sum of the counts of a list.
Total(s) == LET Add(acc, l) == acc + l.count IN Fold(Add, 0, s)

\* Total is the last of the sums.
LEMMA TotalSums ==
    ASSUME NEW s, Counted(s)
    PROVE  \E F : Sums(F, s) /\ F[Len(s)] = Total(s)
<1> DEFINE n == Len(s)
           E(y, i) == y + s[i].count
           X == [i \in 0..n |-> Nat]
           T == [i \in 1..n |-> [y \in Nat |-> E(y, i)]]
           H == CHOOSE h : h = [i \in 0..n |-> IF i = 0 THEN 0 ELSE E(h[i - 1], i)]
<1>2. Total(s) = H[n]
  BY DEF Total, Fold
<1>3. n \in Nat /\ \A i \in 1..n : s[i].count \in Nat
  BY IsSeqFacts DEF Counted
<1> HIDE DEF n
<1>a. 0 \in Nat /\ \A i \in 1..n : \A y \in Nat : E(y, i) \in Nat
  BY <1>3
<1>b. \A y, i : E(y, i) = y + s[i].count
  OBVIOUS
<1> HIDE DEF E
<1>4. 0 \in X[0] /\ \A i \in 1..n : \A y \in X[i - 1] : T[i][y] = E(y, i) /\ E(y, i) \in X[i]
  <2>1. X[0] = Nat /\ \A i \in 1..n : X[i - 1] = Nat /\ X[i] = Nat
    BY <1>3
  <2>2. \A i \in 1..n : \A y \in Nat : T[i][y] = E(y, i)
    OBVIOUS
  <2> HIDE DEF X, T
  <2> QED
    BY <1>a, <2>1, <2>2
<1> HIDE DEF X, T, H
<1>5. StepsUp(n, X, 0, T)
  BY <1>4 DEF StepsUp
<1>6. PICK f : RunsUp(f, n, X, 0, T)
  BY <1>3, <1>5, RecursionUp
<1>7. f = [i \in 0..n |-> IF i = 0 THEN 0 ELSE E(f[i - 1], i)]
  <2>1. /\ f = [i \in 0..n |-> f[i]] /\ f[0] = 0 /\ \A i \in 1..n : f[i] = T[i][f[i - 1]]
        /\ \A i \in 0..n : f[i] \in X[i]
    BY <1>6 DEF RunsUp
  <2>2. ASSUME NEW i \in 1..n PROVE f[i] = E(f[i - 1], i)
    <3>1. i - 1 \in 0..n
      BY <1>3
    <3> QED
      BY <1>4, <2>1, <3>1
  <2>3. ASSUME NEW i \in 0..n PROVE f[i] = IF i = 0 THEN 0 ELSE E(f[i - 1], i)
    <3>1. i = 0 \/ (i \in 1..n /\ i # 0)
      BY <1>3
    <3> QED
      BY <2>1, <2>2, <3>1
  <2> QED
    BY <2>1, <2>3
<1>8. H = [i \in 0..n |-> IF i = 0 THEN 0 ELSE E(H[i - 1], i)]
  BY <1>7 DEF H
<1>9. H[0] = 0 /\ \A i \in 1..n : H[i] = E(H[i - 1], i)
  BY <1>3, <1>8
<1>10. \A i \in 0..n : H[i] \in X[i]
  <2>1. H[0] \in X[0]
    BY <1>4, <1>9
  <2>2. \A i \in 1..n : H[i - 1] \in X[i - 1] => H[i] \in X[i]
    BY <1>4, <1>9
  <2> QED
    BY <1>3, <2>1, <2>2, StaysUp
<1>11. \A i \in 0..n : X[i] = Nat
  BY DEF X
<1>12. H \in [0..n -> Nat]
  BY <1>8, <1>10, <1>11
<1>13. Sums(H, s)
  BY <1>9, <1>12, <1>b DEF Sums, n
<1> QED
  BY <1>2, <1>13 DEF n

\* Lists that begin with the same counts have the same sums there.
LEMMA SumsAgree ==
    ASSUME NEW s, NEW t, NEW n \in Nat, Len(s) \in Nat, Len(t) \in Nat, n <= Len(s), n <= Len(t),
           \A i \in 1..n : s[i].count = t[i].count,
           NEW F, NEW G, Sums(F, s), Sums(G, t)
    PROVE  \A i \in 0..n : F[i] = G[i]
<1> DEFINE S == {i \in 0..n : F[i] = G[i]}
<1>1. 0 \in S
  BY DEF Sums
<1>2. \A k \in 0..(n - 1) : k \in S => k + 1 \in S
  <2> SUFFICES ASSUME NEW k \in 0..(n - 1), F[k] = G[k] PROVE k + 1 \in 0..n /\ F[k + 1] = G[k + 1]
    OBVIOUS
  <2>1. k + 1 \in 0..n /\ k + 1 \in 1..n /\ k + 1 \in 1..Len(s) /\ k + 1 \in 1..Len(t) /\ (k + 1) - 1 = k
    OBVIOUS
  <2>2. F[k + 1] = F[k] + s[k + 1].count /\ G[k + 1] = G[k] + t[k + 1].count
    BY <2>1 DEF Sums
  <2> QED
    BY <2>1, <2>2
<1> HIDE DEF S
<1>3. \A k \in 0..n : k \in S
  BY <1>1, <1>2, InductionUpTo
<1> QED
  BY <1>3 DEF S

\* There is only one last sum.
LEMMA TotalUnique ==
    ASSUME NEW s, Counted(s), NEW F, Sums(F, s)
    PROVE  Total(s) = F[Len(s)] /\ Total(s) \in Nat
<1>1. PICK G : Sums(G, s) /\ G[Len(s)] = Total(s)
  BY TotalSums
<1>2. Len(s) \in Nat
  BY IsSeqFacts DEF Counted
<1>3. \A i \in 0..Len(s) : F[i] = G[i]
  BY <1>1, <1>2, SumsAgree
<1>4. Len(s) \in 0..Len(s)
  BY <1>2
<1>5. F[Len(s)] \in Nat
  BY <1>4 DEF Sums
<1> QED
  BY <1>1, <1>3, <1>4, <1>5

\* One more element.
LEMMA TotalAppend ==
    ASSUME NEW s, Counted(s), NEW e, e.count \in Nat, NEW t, t = Append(s, e)
    PROVE  Counted(t) /\ Total(t) = Total(s) + e.count
<1>1. /\ IsSeq(t) /\ Len(t) = Len(s) + 1 /\ Len(s) \in Nat /\ t[Len(s) + 1] = e
      /\ \A i \in 1..Len(s) : t[i] = s[i]
  BY AppendIsSeq, IsSeqFacts DEF Counted
<1> DEFINE n == Len(s)
<1>2. n \in Nat /\ n + 1 \in 1..(n + 1) /\ \A i \in 1..(n + 1) : i \in 1..n \/ i = n + 1
  BY <1>1
<1> HIDE DEF n
<1>3. Counted(t)
  <2>1. \A i \in 1..n : s[i].count \in Nat
    BY DEF Counted, n
  <2>2. \A i \in 1..(n + 1) : t[i].count \in Nat
    BY <1>1, <1>2, <2>1 DEF n
  <2> QED
    BY <1>1, <2>2 DEF Counted, n
<1>4. PICK F : Sums(F, s) /\ F[Len(s)] = Total(s)
  BY TotalSums
<1>5. PICK G : Sums(G, t) /\ G[Len(t)] = Total(t)
  BY <1>3, TotalSums
<1>6. \A i \in 0..n : F[i] = G[i]
  <2>1. n <= Len(s) /\ n <= Len(t) /\ \A i \in 1..n : s[i].count = t[i].count
    BY <1>1, <1>2 DEF n
  <2>2. n \in Nat /\ Len(s) \in Nat /\ Len(t) \in Nat
    BY <1>1, <1>2
  <2>3. Sums(F, s) /\ Sums(G, t)
    BY <1>4, <1>5
  <2> QED
    BY ONLY <2>1, <2>2, <2>3, SumsAgree
<1>7. G[n + 1] = G[n] + e.count
  <2>1. Len(t) = n + 1 /\ t[n + 1] = e /\ (n + 1) - 1 = n
    BY <1>1, <1>2 DEF n
  <2> QED
    BY <1>2, <1>5, <2>1 DEF Sums
<1>8. F[n] = G[n]
  BY <1>2, <1>6
<1>9. Total(t) = G[n + 1] /\ Total(s) = F[n]
  BY <1>1, <1>4, <1>5 DEF n
<1> QED
  BY <1>3, <1>7, <1>8, <1>9

\* The empty list.
LEMMA TotalEmpty == Counted(<<>>) /\ Total(<<>>) = 0
<1>1. Len(<<>>) = 0 /\ 1..0 = {} /\ <<>> \in Seq({})
  OBVIOUS
<1>2. IsSeq(<<>>)
  BY <1>1, SeqIsSeq
<1>3. Counted(<<>>)
  BY <1>1, <1>2 DEF Counted
<1>4. PICK F : Sums(F, <<>>) /\ F[Len(<<>>)] = Total(<<>>)
  BY <1>3, TotalSums
<1> QED
  BY <1>1, <1>3, <1>4 DEF Sums

\* The counts of the first k elements, laid out one by one.
Cells(s, k) == {c \in (1..Len(s)) \X Nat : c[1] <= k /\ c[2] \in 1..s[c[1]].count}

\* A sum counts the cells.
LEMMA CellsCount ==
    ASSUME NEW s, Counted(s), NEW F, Sums(F, s)
    PROVE  \A k \in 0..Len(s) : IsFiniteSet(Cells(s, k)) /\ Cardinality(Cells(s, k)) = F[k]
<1> DEFINE n == Len(s)
           S == {k \in 0..n : IsFiniteSet(Cells(s, k)) /\ Cardinality(Cells(s, k)) = F[k]}
<1>1. n \in Nat /\ \A i \in 1..n : s[i].count \in Nat
  BY IsSeqFacts DEF Counted
<1>2. F[0] = 0 /\ \A i \in 0..n : F[i] \in Nat
  BY DEF Sums
<1>3. 0 \in S
  <2>1. Cells(s, 0) = {}
    BY <1>1 DEF Cells
  <2>2. IsFiniteSet({}) /\ Cardinality({}) = 0
    BY FS_EmptySet
  <2>3. 0 \in 0..n
    BY <1>1
  <2> QED
    BY <1>2, <2>1, <2>2, <2>3
<1>4. ASSUME NEW k \in 0..(n - 1), k \in S PROVE k + 1 \in S
  <2> DEFINE A == Cells(s, k)
             c == s[k + 1].count
             B == {k + 1} \X (1..c)
  <2>1. k \in Nat /\ k + 1 \in 0..n /\ k + 1 \in 1..n /\ (k + 1) - 1 = k /\ k \in 0..n
    BY <1>1
  <2>2. c \in Nat /\ F[k + 1] = F[k] + c
    BY <1>1, <2>1 DEF Sums
  <2>3. Cells(s, k + 1) = A \cup B
    <3>1. ASSUME NEW x \in Cells(s, k + 1) PROVE x \in A \cup B
      <4>1. x = <<x[1], x[2]>> /\ x[1] \in 1..n /\ x[2] \in Nat /\ x[1] <= k + 1 /\ x[2] \in 1..s[x[1]].count
        BY DEF Cells
      <4>2. x[1] <= k \/ x[1] = k + 1
        BY <2>1, <4>1
      <4>3. CASE x[1] <= k
        BY <4>1, <4>3 DEF Cells
      <4>4. CASE x[1] = k + 1
        BY <4>1, <4>4
      <4> QED
        BY <4>2, <4>3, <4>4
    <3>2. ASSUME NEW x \in A PROVE x \in Cells(s, k + 1)
      BY <1>1, <2>1 DEF Cells
    <3>3. ASSUME NEW x \in B PROVE x \in Cells(s, k + 1)
      <4>1. x = <<x[1], x[2]>> /\ x[1] = k + 1 /\ x[2] \in 1..c
        OBVIOUS
      <4>2. x[2] \in Nat /\ k + 1 <= k + 1
        BY <2>1, <2>2, <4>1
      <4> QED
        BY <2>1, <4>1, <4>2 DEF Cells
    <3> QED
      BY <3>1, <3>2, <3>3
  <2>4. A \cap B = {}
    <3>1. \A x \in A : x[1] <= k /\ x[1] \in Nat
      BY DEF Cells
    <3>2. \A x \in B : x[1] = k + 1
      OBVIOUS
    <3> HIDE DEF A, B
    <3> QED
      BY <2>1, <3>1, <3>2
  <2>5. IsFiniteSet(A) /\ Cardinality(A) = F[k]
    BY <1>4
  <2>6. IsFiniteSet(B) /\ Cardinality(B) = c
    <3>1. IsFiniteSet(1..c) /\ Cardinality(1..c) = c
      <4>1. 1 \in Int /\ c \in Int
        BY <2>2
      <4>2. IsFiniteSet(1..c) /\ Cardinality(1..c) = IF 1 > c THEN 0 ELSE c - 1 + 1
        BY <4>1, FS_Interval
      <4> QED
        BY <2>2, <4>2
    <3>2. IsFiniteSet({k + 1}) /\ Cardinality({k + 1}) = 1
      BY FS_Singleton
    <3> HIDE DEF c
    <3>3. IsFiniteSet(B) /\ Cardinality(B) = 1 * c
      <4> DEFINE U == {k + 1}
                 V == 1..c
      <4>1. IsFiniteSet(U) /\ IsFiniteSet(V) /\ Cardinality(U) = 1 /\ Cardinality(V) = c /\ B = U \X V
        BY <3>1, <3>2
      <4> HIDE DEF B, U, V
      <4>2. IsFiniteSet(U \X V) /\ Cardinality(U \X V) = Cardinality(U) * Cardinality(V)
        BY ONLY <4>1, FS_Product
      <4> QED
        BY ONLY <4>1, <4>2
    <3> QED
      BY <2>2, <3>3
  <2> HIDE DEF A, B, c
  <2>7. IsFiniteSet(A \cup B) /\ Cardinality(A \cup B) = Cardinality(A) + Cardinality(B) - Cardinality({})
    BY <2>4, <2>5, <2>6, FS_Union
  <2>8. Cardinality({}) = 0
    BY FS_EmptySet
  <2>9. F[k] \in Nat
    BY <1>2, <2>1
  <2>10. Cardinality(A \cup B) = F[k + 1]
    BY <2>2, <2>5, <2>6, <2>7, <2>8, <2>9
  <2> QED
    BY <2>1, <2>3, <2>7, <2>10
<1>5. \A k \in 0..n : k \in S
  <2> HIDE DEF S, n
  <2> QED
    BY <1>1, <1>3, <1>4, InductionUpTo
<1> QED
  BY <1>5

\* p puts the positions of t and s in correspondence, with the same counts.
Matches(t, s, p) ==
  /\ Len(t) = Len(s) /\ p \in [1..Len(s) -> 1..Len(s)]
  /\ \A a, b \in 1..Len(s) : p[a] = p[b] => a = b
  /\ \A i \in 1..Len(s) : \E a \in 1..Len(s) : p[a] = i
  /\ \A a \in 1..Len(s) : t[a].count = s[p[a]].count

\* A rearranged list has the same total.
LEMMA TotalPermuted ==
    ASSUME NEW s, NEW t, Counted(s), Counted(t), NEW p, Matches(t, s, p)
    PROVE  Total(t) = Total(s)
<1> DEFINE n == Len(s)
           A == Cells(t, n)
           B == Cells(s, n)
           f == [c \in A |-> <<p[c[1]], c[2]>>]
<1>1. /\ Len(t) = n /\ p \in [1..n -> 1..n] /\ n \in Nat
      /\ \A a, b \in 1..n : p[a] = p[b] => a = b
      /\ \A i \in 1..n : \E a \in 1..n : p[a] = i
      /\ \A a \in 1..n : t[a].count = s[p[a]].count
  BY IsSeqFacts DEF Matches, Counted
<1>2. PICK F : Sums(F, s) /\ F[n] = Total(s)
  BY TotalSums
<1>3. PICK G : Sums(G, t) /\ G[n] = Total(t)
  <2>1. PICK G : Sums(G, t) /\ G[Len(t)] = Total(t)
    BY TotalSums
  <2> QED
    BY <1>1, <2>1
<1>4. n \in 0..n /\ n \in 0..Len(t)
  BY <1>1
<1>5. IsFiniteSet(A) /\ Cardinality(A) = Total(t)
  BY <1>3, <1>4, CellsCount
<1>6. IsFiniteSet(B) /\ Cardinality(B) = Total(s)
  BY <1>2, <1>4, CellsCount
<1>7. \A c : c \in A <=> c = <<c[1], c[2]>> /\ c[1] \in 1..n /\ c[2] \in Nat /\ c[2] \in 1..t[c[1]].count
  <2>1. \A x \in 1..n : x <= n
    BY <1>1
  <2> QED
    BY <1>1, <2>1 DEF Cells
<1>8. \A c : c \in B <=> c = <<c[1], c[2]>> /\ c[1] \in 1..n /\ c[2] \in Nat /\ c[2] \in 1..s[c[1]].count
  <2>1. \A x \in 1..n : x <= n
    BY <1>1
  <2> QED
    BY <2>1 DEF Cells
<1> HIDE DEF A, B, n
<1>9. f \in [A -> B]
  <2> SUFFICES ASSUME NEW c \in A PROVE <<p[c[1]], c[2]>> \in B
    OBVIOUS
  <2>1. c[1] \in 1..n /\ c[2] \in Nat /\ c[2] \in 1..t[c[1]].count
    BY <1>7
  <2>2. p[c[1]] \in 1..n /\ c[2] \in 1..s[p[c[1]]].count
    BY <1>1, <2>1
  <2>3. <<p[c[1]], c[2]>>[1] = p[c[1]] /\ <<p[c[1]], c[2]>>[2] = c[2]
    OBVIOUS
  <2> QED
    BY <1>8, <2>1, <2>2, <2>3
<1>10. ASSUME NEW c \in A, NEW d \in A, f[c] = f[d] PROVE c = d
  <2>1. p[c[1]] = p[d[1]] /\ c[2] = d[2]
    BY <1>10
  <2>2. c = <<c[1], c[2]>> /\ d = <<d[1], d[2]>> /\ c[1] \in 1..n /\ d[1] \in 1..n
    BY <1>7
  <2>3. c[1] = d[1]
    BY <1>1, <2>1, <2>2
  <2> QED
    BY <2>1, <2>2, <2>3
<1>11. ASSUME NEW e \in B PROVE \E c \in A : f[c] = e
  <2>1. e = <<e[1], e[2]>> /\ e[1] \in 1..n /\ e[2] \in Nat /\ e[2] \in 1..s[e[1]].count
    BY <1>8
  <2>2. PICK a \in 1..n : p[a] = e[1]
    BY <1>1, <2>1
  <2> DEFINE c == <<a, e[2]>>
  <2>3. c[1] = a /\ c[2] = e[2] /\ c = <<c[1], c[2]>>
    OBVIOUS
  <2> HIDE DEF c
  <2>4. e[2] \in 1..t[a].count
    BY <1>1, <2>1, <2>2
  <2>5. c \in A
    BY <1>7, <2>1, <2>2, <2>3, <2>4
  <2>6. f[c] = <<e[1], e[2]>>
    BY <2>2, <2>3, <2>5
  <2> QED
    BY <2>1, <2>5, <2>6
<1> HIDE DEF f
<1>12. Cardinality(B) = Cardinality(A)
  BY <1>5, <1>9, <1>10, <1>11, SameCount
<1> QED
  BY <1>5, <1>6, <1>12

-----------------------------------------------------------------------------
(* The tree above the leaves *)

\* A level of the tree has half the nodes of the one below, with the same sum.
LEMMA ParentsSum ==
    ASSUME NEW s, Counted(s), Len(s) >= 1, NEW t, t = Parents(s)
    PROVE  Counted(t) /\ Len(t) = (Len(s) + 1) \div 2 /\ Total(t) = Total(s)
<1> DEFINE n == Len(s)
           m == (n + 1) \div 2
           Node(k) == IF 2 * k > n THEN s[2 * k - 1]
                      ELSE [count |-> s[2 * k - 1].count + s[2 * k].count,
                            hash |-> <<s[2 * k - 1].hash, s[2 * k].hash>>]
           f == [k \in 1..m |-> Node(k)]
<1>1. n \in Nat /\ n >= 1 /\ \A i \in 1..n : s[i].count \in Nat
  BY IsSeqFacts DEF Counted
<1>2. t = Fixed(f)
  BY DEF Parents
<1>3. PICK F : Sums(F, s) /\ F[n] = Total(s)
  BY TotalSums
<1>4. F[0] = 0 /\ (\A i \in 0..n : F[i] \in Nat) /\ \A i \in 1..n : F[i] = F[i - 1] + s[i].count
  BY <1>3 DEF Sums
<1> HIDE DEF n
<1>5. m \in Nat /\ 2 * m >= n /\ 2 * m <= n + 1
  BY <1>1
<1>6. \A k \in 1..m : k \in Nat /\ 2 * k - 1 \in 1..n /\ (2 * k > n => 2 * k - 1 = n) /\ (~(2 * k > n) => 2 * k \in 1..n)
  BY <1>1, <1>5
<1>7. ASSUME NEW k \in 1..m
      PROVE  Node(k).count = IF 2 * k > n THEN s[2 * k - 1].count ELSE s[2 * k - 1].count + s[2 * k].count
  OBVIOUS
<1>8. f = [k \in 1..m |-> f[k]] /\ \A k \in 1..m : f[k] = Node(k)
  OBVIOUS
<1> HIDE DEF f, Node, m
<1>9. IsSeq(t) /\ t = f /\ Len(t) = m
  <2>1. IsSeq(Fixed(f)) /\ Fixed(f) = f
    BY <1>5, <1>8, FixedIsSeq
  <2>2. Len(f) = m
    BY <1>5, <1>8, FunctionIsSeq
  <2> QED
    BY <1>2, <2>1, <2>2
<1>10. \A k \in 1..m : t[k].count = IF 2 * k > n THEN s[2 * k - 1].count ELSE s[2 * k - 1].count + s[2 * k].count
  BY <1>7, <1>8, <1>9
<1>11. Counted(t)
  <2>1. ASSUME NEW k \in 1..m PROVE t[k].count \in Nat
    <3>1. CASE 2 * k > n
      BY <1>1, <1>6, <1>10, <3>1
    <3>2. CASE ~(2 * k > n)
      <4>1. s[2 * k - 1].count \in Nat /\ s[2 * k].count \in Nat
        BY <1>1, <1>6, <3>2
      <4> QED
        BY <1>10, <3>2, <4>1
    <3> QED
      BY <3>1, <3>2
  <2> QED
    BY <1>9, <2>1 DEF Counted
<1>12. PICK G : Sums(G, t) /\ G[Len(t)] = Total(t)
  BY <1>11, TotalSums
<1>13. G[0] = 0 /\ \A k \in 1..m : G[k] = G[k - 1] + t[k].count
  BY <1>9, <1>12 DEF Sums
<1> DEFINE At(k) == IF 2 * k > n THEN n ELSE 2 * k
           S == {k \in 0..m : G[k] = F[At(k)]}
<1>14. 0 \in S
  BY <1>1, <1>4, <1>5, <1>13
<1>15. ASSUME NEW k \in 0..(m - 1), k \in S PROVE k + 1 \in S
  <2>1. /\ k \in Nat /\ k + 1 \in 1..m /\ k + 1 \in 0..m /\ (k + 1) - 1 = k
        /\ 2 * (k + 1) - 1 = 2 * k + 1 /\ 2 * (k + 1) = 2 * k + 2
    BY <1>5
  <2>2. 2 * k + 1 \in 1..n /\ (2 * k + 1) - 1 = 2 * k /\ 2 * k \in 0..n /\ ~(2 * k > n)
    BY <1>1, <1>6, <2>1
  <2>3. G[k] = F[2 * k]
    BY <1>15, <2>2
  <2>4. F[2 * k + 1] = F[2 * k] + s[2 * k + 1].count
    BY <1>4, <2>2
  <2>5. G[k + 1] = F[2 * k] + t[k + 1].count
    BY <1>13, <2>1, <2>3
  <2>6. CASE 2 * k + 2 > n
    <3>1. 2 * k + 1 = n
      BY <1>1, <2>2, <2>6
    <3>2. t[k + 1].count = s[2 * k + 1].count
      BY <1>10, <2>1, <2>6
    <3>3. At(k + 1) = n
      BY <2>1, <2>6
    <3> HIDE DEF At
    <3>4. G[k + 1] = F[At(k + 1)]
      BY <2>4, <2>5, <3>1, <3>2, <3>3
    <3> QED
      BY <2>1, <3>4
  <2>7. CASE ~(2 * k + 2 > n)
    <3>1. 2 * k + 2 \in 1..n /\ (2 * k + 2) - 1 = 2 * k + 1
      BY <1>1, <2>1, <2>7
    <3>2. t[k + 1].count = s[2 * k + 1].count + s[2 * k + 2].count
      BY <1>10, <2>1, <2>7
    <3>3. F[2 * k + 2] = F[2 * k + 1] + s[2 * k + 2].count
      BY <1>4, <3>1
    <3>4. At(k + 1) = 2 * k + 2
      BY <2>1, <2>7
    <3>5. F[2 * k] \in Nat /\ s[2 * k + 1].count \in Nat /\ s[2 * k + 2].count \in Nat
      BY <1>1, <1>4, <2>2, <3>1
    <3> HIDE DEF At
    <3>6. G[k + 1] = F[At(k + 1)]
      BY <2>4, <2>5, <3>2, <3>3, <3>4, <3>5
    <3> QED
      BY <2>1, <3>6
  <2> QED
    BY <2>6, <2>7
<1>16. m \in S
  <2> HIDE DEF S
  <2>1. \A k \in 0..m : k \in S
    BY <1>5, <1>14, <1>15, InductionUpTo
  <2> QED
    BY <1>5, <2>1
<1>17. At(m) = n
  BY <1>1, <1>5
<1>18. G[m] = F[n]
  BY <1>16, <1>17
<1> QED
  BY <1>3, <1>9, <1>11, <1>12, <1>18 DEF m, n

\* f has the first levels of the tree over base.
Levels(f, k, base) ==
  /\ f = [i \in 0..k |-> f[i]] /\ f[0] = base
  /\ \A i \in 1..k : f[i] = Parents(f[i - 1])

\* The first n levels of the tree over a base exist, for every n.
LEMMA LevelsExist ==
    ASSUME NEW base, NEW n \in Nat
    PROVE  \E f : Levels(f, n, base)
<1> DEFINE S == {k \in 0..n : \E f : Levels(f, k, base)}
<1>1. 0 \in S
  <2> DEFINE f == [i \in 0..0 |-> base]
  <2>1. f = [i \in 0..0 |-> f[i]] /\ f[0] = base /\ 1..0 = {}
    OBVIOUS
  <2> HIDE DEF f
  <2>2. Levels(f, 0, base)
    BY <2>1 DEF Levels
  <2> QED
    BY <2>2
<1>2. ASSUME NEW k \in 0..(n - 1), k \in S PROVE k + 1 \in S
  <2>1. PICK f : Levels(f, k, base)
    BY <1>2
  <2>2. f[0] = base /\ \A i \in 1..k : f[i] = Parents(f[i - 1])
    BY <2>1 DEF Levels
  <2> DEFINE h == [i \in 0..(k + 1) |-> IF i = k + 1 THEN Parents(f[k]) ELSE f[i]]
  <2>3. h = [i \in 0..(k + 1) |-> h[i]] /\ h[k + 1] = Parents(f[k]) /\ \A i \in 0..k : h[i] = f[i]
    OBVIOUS
  <2> HIDE DEF h
  <2>4. ASSUME NEW i \in 1..(k + 1) PROVE h[i] = Parents(h[i - 1])
    <3>1. CASE i = k + 1
      <4>1. i - 1 = k /\ k \in 0..k
        BY <3>1
      <4> QED
        BY <2>3, <3>1, <4>1
    <3>2. CASE i # k + 1
      <4>1. i \in 1..k /\ i \in 0..k /\ i - 1 \in 0..k
        BY <3>2
      <4> QED
        BY <2>2, <2>3, <4>1
    <3> QED
      BY <3>1, <3>2
  <2>5. 0 \in 0..k /\ k + 1 \in 0..n
    OBVIOUS
  <2>6. Levels(h, k + 1, base)
    BY <2>2, <2>3, <2>4, <2>5 DEF Levels
  <2> QED
    BY <2>5, <2>6
<1>3. \A k \in 0..n : k \in S
  <2> HIDE DEF S
  <2> QED
    BY <1>1, <1>2, InductionUpTo
<1>4. n \in 0..n
  OBVIOUS
<1> QED
  BY <1>3, <1>4

\* build_tree ends with one node, which has the sum of the leaves.
LEMMA RootSum ==
    ASSUME NEW leaves, Counted(leaves), Len(leaves) >= 1
    PROVE  build_root(leaves)[1].count = Total(leaves)
<1> DEFINE n == Len(leaves)
           base == Fixed([i \in DOMAIN leaves |-> [count |-> leaves[i].count, hash |-> leaves[i].hash]])
           H == CHOOSE h : h = [k \in 0..n |-> IF k = 0 THEN base ELSE Parents(h[k - 1])]
           sum == Total(leaves)
<1>1. build_root(leaves) = H[n]
  BY DEF build_root
<1>2. n \in Nat /\ n >= 1 /\ DOMAIN leaves = 1..n /\ \A i \in 1..n : leaves[i].count \in Nat
  BY IsSeqFacts DEF Counted
<1>3. Counted(base) /\ Len(base) = n /\ Total(base) = sum
  <2> DEFINE g == [i \in 1..n |-> [count |-> leaves[i].count, hash |-> leaves[i].hash]]
  <2>1. base = Fixed(g)
    BY <1>2
  <2>2. g = [i \in 1..n |-> g[i]] /\ \A i \in 1..n : g[i].count = leaves[i].count
    OBVIOUS
  <2> HIDE DEF g, base, n
  <2>3. IsSeq(base) /\ base = g /\ Len(base) = n
    BY <1>2, <2>1, <2>2, FixedIsSeq, FunctionIsSeq
  <2>4. Counted(base)
    BY <1>2, <2>2, <2>3 DEF Counted
  <2>5. PICK F : Sums(F, leaves) /\ F[n] = Total(leaves)
    BY TotalSums DEF n
  <2>6. PICK G : Sums(G, base) /\ G[n] = Total(base)
    <3>1. PICK G : Sums(G, base) /\ G[Len(base)] = Total(base)
      BY <2>4, TotalSums
    <3> QED
      BY <2>3, <3>1
  <2>7. \A i \in 0..n : F[i] = G[i]
    <3>1. n \in Nat /\ Len(leaves) = n /\ Len(base) = n /\ n <= Len(leaves) /\ n <= Len(base)
      BY <1>2, <2>3 DEF n
    <3>2. \A i \in 1..n : leaves[i].count = base[i].count
      BY <2>2, <2>3
    <3>3. Len(leaves) \in Nat /\ Len(base) \in Nat
      BY <3>1
    <3>4. n \in Nat /\ n <= Len(leaves) /\ n <= Len(base)
      BY <3>1
    <3>5. Sums(F, leaves) /\ Sums(G, base)
      BY <2>5, <2>6
    <3> QED
      BY ONLY <3>2, <3>3, <3>4, <3>5, SumsAgree
  <2>8. n \in 0..n
    BY <1>2
  <2> QED
    BY <2>3, <2>4, <2>5, <2>6, <2>7, <2>8
<1> HIDE DEF base, H, n, sum
<1>4. PICK f : Levels(f, n, base)
  BY <1>2, LevelsExist
<1>5. f = [k \in 0..n |-> IF k = 0 THEN base ELSE Parents(f[k - 1])]
  <2>1. f = [i \in 0..n |-> f[i]] /\ f[0] = base /\ \A i \in 1..n : f[i] = Parents(f[i - 1])
    BY <1>4 DEF Levels
  <2>2. \A k \in 0..n : k = 0 \/ k \in 1..n
    BY <1>2
  <2>3. \A k \in 0..n : f[k] = IF k = 0 THEN base ELSE Parents(f[k - 1])
    BY <2>1, <2>2
  <2> QED
    BY <2>1, <2>3
<1>6. H = [k \in 0..n |-> IF k = 0 THEN base ELSE Parents(H[k - 1])]
  BY <1>5 DEF H
<1>7. H[0] = base /\ \A k \in 1..n : H[k] = Parents(H[k - 1])
  BY <1>2, <1>6
<1> DEFINE S == {k \in 0..n : /\ Counted(H[k]) /\ Total(H[k]) = sum
                              /\ Len(H[k]) \in 1..(IF n - k < 1 THEN 1 ELSE n - k)}
<1>8. 0 \in S
  BY <1>2, <1>3, <1>7
<1>9. ASSUME NEW k \in 0..(n - 1), k \in S PROVE k + 1 \in S
  <2>1. k + 1 \in 0..n /\ k + 1 \in 1..n /\ (k + 1) - 1 = k /\ k \in Nat
    BY <1>2
  <2>2. H[k + 1] = Parents(H[k])
    BY <1>7, <2>1
  <2>3. Counted(H[k]) /\ Total(H[k]) = sum /\ Len(H[k]) \in 1..(IF n - k < 1 THEN 1 ELSE n - k)
    BY <1>9
  <2>4. Len(H[k]) \in Nat /\ Len(H[k]) >= 1
    BY <1>2, <2>1, <2>3
  <2>5. Counted(H[k + 1]) /\ Len(H[k + 1]) = (Len(H[k]) + 1) \div 2 /\ Total(H[k + 1]) = sum
    BY <2>2, <2>3, <2>4, ParentsSum
  <2>6. Len(H[k + 1]) \in 1..(IF n - (k + 1) < 1 THEN 1 ELSE n - (k + 1))
    <3> DEFINE a == Len(H[k])
               b == Len(H[k + 1])
    <3>1. a \in Nat /\ a >= 1 /\ a <= (IF n - k < 1 THEN 1 ELSE n - k) /\ b = (a + 1) \div 2
      BY <1>2, <2>1, <2>3, <2>4, <2>5
    <3> HIDE DEF a, b
    <3>2. b \in Nat /\ b >= 1 /\ (b = 1 \/ b <= a - 1)
      BY <3>1
    <3>3. b \in 1..(IF n - (k + 1) < 1 THEN 1 ELSE n - (k + 1))
      BY <1>2, <2>1, <3>1, <3>2
    <3> QED
      BY <3>3 DEF b
  <2> QED
    BY <2>1, <2>5, <2>6
<1>10. n \in S
  <2> HIDE DEF S
  <2>1. \A k \in 0..n : k \in S
    BY <1>2, <1>8, <1>9, InductionUpTo
  <2> QED
    BY <1>2, <2>1
<1>11. Counted(H[n]) /\ Total(H[n]) = sum /\ Len(H[n]) = 1
  <2>1. (IF n - n < 1 THEN 1 ELSE n - n) = 1 /\ \A x \in 1..1 : x = 1
    BY <1>2
  <2>2. Counted(H[n]) /\ Total(H[n]) = sum /\ Len(H[n]) \in 1..(IF n - n < 1 THEN 1 ELSE n - n)
    BY <1>10
  <2> QED
    BY <2>1, <2>2
<1>12. PICK F : Sums(F, H[n]) /\ F[1] = Total(H[n])
  <2>1. PICK F : Sums(F, H[n]) /\ F[Len(H[n])] = Total(H[n])
    BY <1>11, TotalSums
  <2> QED
    BY <1>11, <2>1
<1>13. F[0] = 0 /\ F[1] = F[1 - 1] + H[n][1].count /\ H[n][1].count \in Nat
  BY <1>11, <1>12 DEF Sums, Counted
<1>14. H[n][1].count = sum
  BY <1>11, <1>12, <1>13
<1> QED
  BY <1>1, <1>14 DEF sum

-----------------------------------------------------------------------------
(* The leaves *)

Leaf == [id : Nat, num : Int, den : Int, count : Nat, hash : Seq(Int)]

\* A leaf that is not empty and has its own hash.
GoodLeaf(l) == l \in Leaf /\ l.count >= 1 /\ l.hash = leaf_hash(l)

\* Good leaves whose ids are unique and were given out before next.
GoodLeaves(ls, next) ==
  /\ next \in Nat /\ IsSeq(ls)
  /\ \A i \in 1..Len(ls) : GoodLeaf(ls[i]) /\ ls[i].id < next
  /\ \A i, j \in 1..Len(ls) : ls[i].id = ls[j].id => i = j

\* Sound leaves have sizes that can be summed.
LEMMA GoodLeavesCounted ==
    ASSUME NEW ls, NEW next, GoodLeaves(ls, next)
    PROVE  Counted(ls) /\ Len(ls) \in Nat /\ DOMAIN ls = 1..Len(ls)
<1>1. \A i \in 1..Len(ls) : ls[i].count \in Nat
  BY DEF GoodLeaves, GoodLeaf, Leaf
<1> QED
  BY <1>1, IsSeqFacts DEF GoodLeaves, Counted

\* A hash is a list of numbers.
LEMMA HashGood ==
    ASSUME NEW l \in [id : Nat, num : Int, den : Int, count : Nat, hash : Seq(Int)], l.count >= 1,
           NEW r, r = recompute_hash(l)
    PROVE  GoodLeaf(r) /\ r.id = l.id /\ r.num = l.num /\ r.den = l.den /\ r.count = l.count
<1>1. l.id \in Int /\ l.num \in Int /\ l.den \in Int /\ l.count \in Int
  OBVIOUS
<1>2. leaf_hash(l) \in Seq(Int)
  BY <1>1 DEF leaf_hash
<1>3. r = [l EXCEPT !.hash = leaf_hash(l)]
  BY DEF recompute_hash
<1> DEFINE h == leaf_hash(l)
<1>4. h \in Seq(Int) /\ r = [l EXCEPT !.hash = h] /\ h = <<l.num, l.den, l.count, l.id>>
  BY <1>2, <1>3 DEF leaf_hash
<1> HIDE DEF h
<1>5. r \in Leaf /\ r.id = l.id /\ r.num = l.num /\ r.den = l.den /\ r.count = l.count /\ r.hash = h
  BY <1>4 DEF Leaf
<1>6. r.hash = leaf_hash(r)
  BY <1>4, <1>5 DEF leaf_hash
<1> QED
  BY <1>5, <1>6 DEF GoodLeaf

\* A good leaf with a given id and count.
LeafWith(l, id, count) == GoodLeaf(l) /\ l.id = id /\ l.count = count

\* A new cluster of at least one vector is a sound leaf.
LEMMA NewLeafGood ==
    ASSUME NEW id \in Nat, NEW num \in Int, NEW den \in Int, NEW count \in Nat, count >= 1,
           NEW l, l = NewLeaf(id, num, den, count)
    PROVE  LeafWith(l, id, count)
<1> DEFINE b == [id |-> id, num |-> num, den |-> den, count |-> count, hash |-> <<>>]
<1>1. b \in [id : Nat, num : Int, den : Int, count : Nat, hash : Seq(Int)] /\ b.id = id /\ b.count = count
  OBVIOUS
<1>2. l = recompute_hash(b)
  BY DEF NewLeaf
<1> HIDE DEF b
<1> QED
  BY <1>1, <1>2, HashGood DEF LeafWith

\* The sum of coordinates.
LEMMA SumIsInt ==
    ASSUME NEW vs, IsSeq(vs), \A i \in 1..Len(vs) : vs[i].vec \in Int
    PROVE  SumOf(vs) \in Int
<1> DEFINE n == Len(vs)
           E(y, i) == y + vs[i].vec
           X == [i \in 0..n |-> Int]
           T == [i \in 1..n |-> [y \in Int |-> E(y, i)]]
           H == CHOOSE h : h = [i \in 0..n |-> IF i = 0 THEN 0 ELSE E(h[i - 1], i)]
<1>2. SumOf(vs) = H[n]
  BY DEF SumOf, Fold
<1>3. n \in Nat
  BY IsSeqFacts
<1>a. 0 \in Int /\ \A i \in 1..n : \A y \in Int : E(y, i) \in Int
  OBVIOUS
<1> HIDE DEF E, n
<1>4. 0 \in X[0] /\ \A i \in 1..n : \A y \in X[i - 1] : T[i][y] = E(y, i) /\ E(y, i) \in X[i]
  <2>1. X[0] = Int /\ \A i \in 1..n : X[i - 1] = Int /\ X[i] = Int
    BY <1>3
  <2>2. \A i \in 1..n : \A y \in Int : T[i][y] = E(y, i)
    OBVIOUS
  <2> HIDE DEF X, T
  <2> QED
    BY <1>a, <2>1, <2>2
<1> HIDE DEF X, T, H
<1>5. StepsUp(n, X, 0, T)
  BY <1>4 DEF StepsUp
<1>6. PICK f : RunsUp(f, n, X, 0, T)
  BY <1>3, <1>5, RecursionUp
<1>7. f = [i \in 0..n |-> IF i = 0 THEN 0 ELSE E(f[i - 1], i)]
  <2>1. /\ f = [i \in 0..n |-> f[i]] /\ f[0] = 0 /\ \A i \in 1..n : f[i] = T[i][f[i - 1]]
        /\ \A i \in 0..n : f[i] \in X[i]
    BY <1>6 DEF RunsUp
  <2>2. ASSUME NEW i \in 1..n PROVE f[i] = E(f[i - 1], i)
    <3>1. i - 1 \in 0..n
      BY <1>3
    <3> QED
      BY <1>4, <2>1, <3>1
  <2>3. ASSUME NEW i \in 0..n PROVE f[i] = IF i = 0 THEN 0 ELSE E(f[i - 1], i)
    <3>1. i = 0 \/ (i \in 1..n /\ i # 0)
      BY <1>3
    <3> QED
      BY <2>1, <2>2, <3>1
  <2> QED
    BY <2>1, <2>3
<1>8. H = [i \in 0..n |-> IF i = 0 THEN 0 ELSE E(H[i - 1], i)]
  BY <1>7 DEF H
<1>9. H[0] = 0 /\ \A i \in 1..n : H[i] = E(H[i - 1], i)
  BY <1>3, <1>8
<1>10. \A i \in 0..n : H[i] \in X[i]
  <2>1. H[0] \in X[0]
    BY <1>4, <1>9
  <2>2. \A i \in 1..n : H[i - 1] \in X[i - 1] => H[i] \in X[i]
    BY <1>4, <1>9
  <2> QED
    BY <1>3, <2>1, <2>2, StaysUp
<1>11. n \in 0..n
  BY <1>3
<1>12. H[n] \in Int
  BY <1>10, <1>11 DEF X
<1> QED
  BY <1>2, <1>12

\* The elements of s whose positions are in K.
PickedFrom(t, s, K) ==
  /\ IsSeq(t) /\ IsFiniteSet(K) /\ Len(t) = Cardinality(K)
  /\ \A a \in 1..Len(t) : \E i \in K : t[a] = s[i]
  /\ \A i \in K : \E a \in 1..Len(t) : t[a] = s[i]

\* Keeping some indices of a list picks those elements in their order.
LEMMA KeptPicked ==
    ASSUME NEW s, IsSeq(s), NEW K \in SUBSET (DOMAIN s), NEW t,
           t = Fixed([k \in DOMAIN Sorted(K) |-> s[Sorted(K)[k]]])
    PROVE  PickedFrom(t, s, K)
<1> DEFINE q == Sorted(K)
           n == Cardinality(K)
           f == [k \in DOMAIN q |-> s[q[k]]]
<1>1. K \in SUBSET Int /\ IsFiniteSet(K)
  <2>1. Len(s) \in Nat /\ DOMAIN s = 1..Len(s)
    BY IsSeqFacts
  <2>2. K \in SUBSET (1..Len(s)) /\ IsFiniteSet(1..Len(s)) /\ 1..Len(s) \in SUBSET Int
    BY <2>1, FS_Interval
  <2>3. IsFiniteSet(K)
    BY <2>2, FS_Subset
  <2> QED
    BY <2>2, <2>3
<1>2. n \in Nat /\ q \in [1..n -> K] /\ \A i \in K : \E a \in 1..n : q[a] = i
  BY <1>1, SortedFacts
<1>3. t = Fixed(f)
  OBVIOUS
<1> HIDE DEF q, n
<1>4. f = [k \in 1..n |-> f[k]] /\ \A k \in 1..n : f[k] = s[q[k]] /\ q[k] \in K
  BY <1>2
<1> HIDE DEF f
<1>5. IsSeq(t) /\ t = f /\ Len(t) = n
  BY <1>2, <1>3, <1>4, FixedIsSeq, FunctionIsSeq
<1>6. \A i \in K : \E a \in 1..Len(t) : t[a] = s[i]
  <2> SUFFICES ASSUME NEW i \in K PROVE \E a \in 1..Len(t) : t[a] = s[i]
    OBVIOUS
  <2>1. PICK a \in 1..n : q[a] = i
    BY <1>2
  <2>2. t[a] = s[i]
    BY <1>4, <1>5, <2>1
  <2> QED
    BY <1>5, <2>1, <2>2
<1>7. \A a \in 1..Len(t) : \E i \in K : t[a] = s[i]
  <2> SUFFICES ASSUME NEW a \in 1..Len(t) PROVE \E i \in K : t[a] = s[i]
    OBVIOUS
  <2>1. t[a] = s[q[a]] /\ q[a] \in K
    BY <1>4, <1>5
  <2> QED
    BY ONLY <2>1
<1> QED
  BY <1>1, <1>5, <1>6, <1>7 DEF PickedFrom, n

\* A leaf that takes in vectors.
LEMMA AbsorbGood ==
    ASSUME NEW l, GoodLeaf(l), NEW mine, IsSeq(mine), \A i \in 1..Len(mine) : mine[i].vec \in Int,
           NEW r, r = recompute_hash(Absorb(l, mine))
    PROVE  GoodLeaf(r) /\ r.id = l.id /\ r.count = l.count + Len(mine)
<1>1. /\ l \in Leaf /\ l.count >= 1 /\ l.count \in Nat /\ l.id \in Nat /\ l.num \in Int /\ l.den \in Int
      /\ l.hash \in Seq(Int)
  BY DEF GoodLeaf, Leaf
<1>2. Len(mine) \in Nat /\ SumOf(mine) \in Int
  BY SumIsInt, IsSeqFacts
<1>3. CASE mine = <<>>
  <2>1. Absorb(l, mine) = l /\ Len(mine) = 0
    BY <1>3 DEF Absorb
  <2>2. GoodLeaf(r) /\ r.id = l.id /\ r.count = l.count
    BY <1>1, <2>1, HashGood DEF Leaf
  <2> QED
    BY <1>1, <2>1, <2>2
<1>4. CASE mine # <<>>
  <2> DEFINE num == l.num * l.count + SumOf(mine) * l.den
             den == l.den * (l.count + Len(mine))
             count == l.count + Len(mine)
             a == [l EXCEPT !.num = num, !.den = den, !.count = count]
  <2>1. Absorb(l, mine) = a
    BY <1>4 DEF Absorb
  <2>2. num \in Int
    <3>1. l.num * l.count \in Int /\ SumOf(mine) * l.den \in Int
      BY <1>1, <1>2
    <3> QED
      BY <3>1
  <2>3. den \in Int /\ count \in Nat /\ count >= 1
    BY <1>1, <1>2
  <2> HIDE DEF num, den, count
  <2>4. a \in [id : Nat, num : Int, den : Int, count : Nat, hash : Seq(Int)] /\ a.count = count /\ a.id = l.id
    BY <1>1, <2>2, <2>3 DEF Leaf
  <2> HIDE DEF a
  <2>5. GoodLeaf(r) /\ r.id = a.id /\ r.count = a.count
    BY <2>1, <2>3, <2>4, HashGood
  <2> QED
    BY <2>4, <2>5 DEF count
<1> QED
  BY <1>3, <1>4

\* On an empty tree every vector is a leaf of its own.
LEMMA FirstLeavesGood ==
    ASSUME NEW vs \in Seq(Buffered), NEW next \in Nat, NEW ls, ls = FirstLeaves(vs, next)
    PROVE  GoodLeaves(ls, next + Len(vs)) /\ Len(ls) = Len(vs) /\ Total(ls) = Len(vs)
<1> DEFINE n == Len(vs)
           f == [i \in 1..n |-> NewLeaf(next + i - 1, vs[i].vec, 1, 1)]
<1>1. n \in Nat /\ DOMAIN vs = 1..n /\ \A i \in 1..n : vs[i].vec \in Int
  <2>1. \A i \in 1..n : vs[i] \in Buffered
    BY ElementOfSeq
  <2>2. n \in Nat /\ DOMAIN vs = 1..n
    OBVIOUS
  <2>3. \A x \in Buffered : x.vec \in Int
    BY PointsFit DEF Buffered
  <2> HIDE DEF n
  <2> QED
    BY <2>1, <2>2, <2>3
<1>2. ls = Fixed(f)
  BY <1>1 DEF FirstLeaves
<1>3. \A i \in 1..n : next + i - 1 \in Nat
  BY <1>1
<1>4. ASSUME NEW i \in 1..n PROVE GoodLeaf(f[i]) /\ f[i].id = next + i - 1 /\ f[i].count = 1
  <2>1. f[i] = NewLeaf(next + i - 1, vs[i].vec, 1, 1)
    OBVIOUS
  <2> DEFINE id == next + i - 1
             v == vs[i].vec
             l == f[i]
  <2>2. id \in Nat /\ v \in Int /\ 1 \in Int /\ 1 \in Nat /\ 1 >= 1 /\ l = NewLeaf(id, v, 1, 1)
    BY <1>1, <1>3, <2>1
  <2> HIDE DEF f, id, v, l
  <2>3. LeafWith(l, id, 1)
    BY <2>2, NewLeafGood
  <2> QED
    BY <2>3 DEF l, id, LeafWith
<1>5. f = [i \in 1..n |-> f[i]]
  OBVIOUS
<1> HIDE DEF f, n
<1>6. IsSeq(ls) /\ ls = f /\ Len(ls) = n
  BY <1>1, <1>2, <1>5, FixedIsSeq, FunctionIsSeq
<1>7. GoodLeaves(ls, next + n)
  <2>1. \A i \in 1..n : GoodLeaf(ls[i]) /\ ls[i].id < next + n
    BY <1>1, <1>4, <1>6
  <2>2. \A i, j \in 1..n : ls[i].id = ls[j].id => i = j
    BY <1>1, <1>4, <1>6
  <2> QED
    BY <1>1, <1>6, <2>1, <2>2 DEF GoodLeaves
<1>8. Counted(ls)
  BY <1>7, GoodLeavesCounted
<1> DEFINE F == [i \in 0..n |-> i]
<1>9. Sums(F, ls)
  <2>1. F \in [0..n -> Nat] /\ F[0] = 0
    BY <1>1
  <2>2. \A i \in 1..n : F[i] = F[i - 1] + ls[i].count
    BY <1>1, <1>4, <1>6
  <2> QED
    BY <1>6, <2>1, <2>2 DEF Sums
<1>10. F[n] = n
  BY <1>1
<1> HIDE DEF F
<1>11. Total(ls) = F[Len(ls)]
  BY <1>8, <1>9, TotalUnique
<1> QED
  BY <1>6, <1>7, <1>10, <1>11 DEF n

\* The nearest leaf, the first of equals, exists.
LEMMA NearestLeafExists ==
    ASSUME NEW ls, IsSeq(ls), Len(ls) >= 1, NEW v
    PROVE  find_nearest_in_leaves(ls, v) \in 1..Len(ls)
<1> DEFINE n == Len(ls)
           D == [i \in 1..n |-> centroid_distance(ls[i], v)]
<1>1. n \in Nat /\ n >= 1 /\ DOMAIN ls = 1..n
  BY IsSeqFacts
<1>2. D \in [1..n -> Nat]
  <2>1. \A x : Sign(x) \in {-1, 0, 1}
    BY DEF Sign
  <2>2. \A x, y \in {-1, 0, 1} : 1 - x * y \in Nat
    OBVIOUS
  <2>3. \A i \in 1..n : centroid_distance(ls[i], v) \in Nat
    BY <2>1, <2>2 DEF centroid_distance
  <2> QED
    BY <2>3
<1>3. \A i \in 1..n : D[i] = centroid_distance(ls[i], v)
  OBVIOUS
<1> HIDE DEF D, n
<1> DEFINE T == {D[i] : i \in 1..n}
<1>4. PICK d \in T : \A e \in T : d <= e
  <2>1. T \in SUBSET Nat /\ D[1] \in T
    BY <1>1, <1>2
  <2> HIDE DEF T
  <2> QED
    BY <2>1, LeastElement
<1> DEFINE U == {i \in 1..n : D[i] = d}
<1>5. PICK i \in U : \A j \in U : i <= j
  <2>1. U \in SUBSET Nat /\ U # {}
    BY <1>1, <1>4
  <2> HIDE DEF U, T
  <2> QED
    BY <2>1, LeastElement
<1>6. i \in 1..n /\ \A j \in 1..n : D[i] < D[j] \/ (D[i] = D[j] /\ i <= j)
  <2>1. i \in 1..n /\ D[i] = d
    BY <1>5
  <2>2. ASSUME NEW j \in 1..n PROVE D[i] < D[j] \/ (D[i] = D[j] /\ i <= j)
    <3>1. d <= D[j] /\ D[j] \in Nat /\ d \in Nat
      BY <1>2, <1>4, <2>1
    <3>2. CASE D[j] = d
      BY <1>5, <2>1, <3>2
    <3>3. CASE D[j] # d
      BY <2>1, <3>1, <3>3
    <3> QED
      BY <3>2, <3>3
  <2> QED
    BY <2>1, <2>2
<1>7. \E k \in DOMAIN ls : \A j \in DOMAIN ls :
        LET di == centroid_distance(ls[k], v)
            dj == centroid_distance(ls[j], v)
        IN  di < dj \/ (di = dj /\ k <= j)
  BY <1>1, <1>3, <1>6
<1>8. find_nearest_in_leaves(ls, v) \in DOMAIN ls
  BY <1>7 DEF find_nearest_in_leaves
<1> QED
  BY <1>1, <1>8 DEF n

\* A finite set of positions has a size.
LEMMA PositionsFinite ==
    ASSUME NEW m \in Nat
    PROVE  \A K \in SUBSET (1..m) : IsFiniteSet(K) /\ Cardinality(K) \in Nat
<1>1. IsFiniteSet(1..m)
  BY FS_Interval
<1>2. ASSUME NEW K \in SUBSET (1..m) PROVE IsFiniteSet(K)
  BY <1>1, FS_Subset
<1> QED
  BY <1>2, FS_CardinalityType

\* The counts of t are those of s and the sizes of the groups near sorts m
\* positions into.
Grouped(t, s, m, near) ==
  \A i \in 1..Len(s) : t[i].count = s[i].count + Cardinality({j \in 1..m : near[j] = i})

\* Counts that grow by the sizes of the groups near sorts m positions into add up
\* to m more.
LEMMA GroupsAddUp ==
    ASSUME NEW s, NEW t, Counted(s), Counted(t), Len(t) = Len(s), NEW m \in Nat,
           NEW near \in [1..m -> 1..Len(s)], Grouped(t, s, m, near)
    PROVE  Total(t) = Total(s) + m
<1> DEFINE n == Len(s)
           K(i) == {j \in 1..m : near[j] = i}
           U(k) == {j \in 1..m : near[j] <= k}
<1>1. n \in Nat /\ Len(t) = n /\ \A i \in 1..n : s[i].count \in Nat
  BY IsSeqFacts DEF Counted
<1>2. PICK F : Sums(F, s) /\ F[n] = Total(s)
  BY TotalSums
<1>3. PICK G : Sums(G, t) /\ G[n] = Total(t)
  <2>1. PICK G : Sums(G, t) /\ G[Len(t)] = Total(t)
    BY TotalSums
  <2> QED
    BY <1>1, <2>1
<1>4. /\ F[0] = 0 /\ (\A i \in 0..n : F[i] \in Nat) /\ \A i \in 1..n : F[i] = F[i - 1] + s[i].count
      /\ G[0] = 0 /\ \A i \in 1..n : G[i] = G[i - 1] + t[i].count
  BY <1>1, <1>2, <1>3 DEF Sums
<1>5. \A i \in 1..n : t[i].count = s[i].count + Cardinality(K(i))
  BY DEF Grouped
<1>6. near \in [1..m -> 1..n]
  OBVIOUS
<1> HIDE DEF n
<1>7. \A k : IsFiniteSet(U(k)) /\ Cardinality(U(k)) \in Nat /\ IsFiniteSet(K(k)) /\ Cardinality(K(k)) \in Nat
  <2>1. \A k : U(k) \in SUBSET (1..m) /\ K(k) \in SUBSET (1..m)
    OBVIOUS
  <2> HIDE DEF U, K
  <2> QED
    BY <2>1, PositionsFinite
<1>8. U(0) = {} /\ Cardinality({}) = 0
  BY <1>6, FS_EmptySet
<1>9. ASSUME NEW k \in 0..(n - 1) PROVE Cardinality(U(k + 1)) = Cardinality(U(k)) + Cardinality(K(k + 1))
  <2>1. U(k + 1) = U(k) \cup K(k + 1) /\ U(k) \cap K(k + 1) = {}
    <3>1. \A j \in 1..m : near[j] \in Nat /\ (near[j] <= k + 1 <=> near[j] <= k \/ near[j] = k + 1)
      BY <1>1, <1>6
    <3>2. \A j \in 1..m : ~(near[j] <= k /\ near[j] = k + 1)
      BY <3>1
    <3> QED
      BY <3>1, <3>2
  <2> HIDE DEF U, K
  <2>2. Cardinality(U(k) \cup K(k + 1)) = Cardinality(U(k)) + Cardinality(K(k + 1)) - Cardinality({})
    BY <1>7, <2>1, FS_Union
  <2> DEFINE a == Cardinality(U(k))
             b == Cardinality(K(k + 1))
             c == Cardinality(U(k + 1))
  <2>3. a \in Nat /\ b \in Nat /\ c = a + b - 0
    BY <1>7, <1>8, <2>1, <2>2
  <2> HIDE DEF a, b, c
  <2>4. c = a + b
    BY <2>3
  <2> QED
    BY <2>4 DEF a, b, c
<1>10. U(n) = 1..m
  BY <1>1, <1>6
<1> DEFINE S == {k \in 0..n : G[k] = F[k] + Cardinality(U(k))}
<1> HIDE DEF U, K
<1>11. 0 \in S
  <2>1. 0 \in 0..n
    BY <1>1
  <2>2. G[0] = 0 /\ F[0] = 0
    BY <1>4
  <2>3. Cardinality(U(0)) = 0
    BY ONLY <1>8
  <2>4. G[0] = F[0] + Cardinality(U(0))
    BY <2>2, <2>3
  <2> QED
    BY <2>1, <2>4
<1>12. ASSUME NEW k \in 0..(n - 1), k \in S PROVE k + 1 \in S
  <2>1. k + 1 \in 0..n /\ k + 1 \in 1..n /\ (k + 1) - 1 = k /\ k \in 0..n
    BY <1>1
  <2>2. G[k + 1] = G[k] + t[k + 1].count /\ F[k + 1] = F[k] + s[k + 1].count
    BY <1>4, <2>1
  <2>3. G[k] = F[k] + Cardinality(U(k)) /\ t[k + 1].count = s[k + 1].count + Cardinality(K(k + 1))
    BY <1>5, <1>12, <2>1
  <2>4. F[k] \in Nat /\ s[k + 1].count \in Nat
    BY <1>1, <1>4, <2>1
  <2>5. G[k + 1] = F[k + 1] + Cardinality(U(k + 1))
    BY <1>7, <1>9, <2>2, <2>3, <2>4
  <2> QED
    BY <2>1, <2>5
<1>13. n \in S
  <2> HIDE DEF S
  <2>1. \A k \in 0..n : k \in S
    BY <1>1, <1>11, <1>12, InductionUpTo
  <2> QED
    BY <1>1, <2>1
<1>14. Cardinality(1..m) = m
  <2>1. 1 \in Int /\ m \in Int
    OBVIOUS
  <2>2. Cardinality(1..m) = IF 1 > m THEN 0 ELSE m - 1 + 1
    BY <2>1, FS_Interval
  <2> QED
    BY <2>2
<1> QED
  BY <1>2, <1>3, <1>10, <1>13, <1>14

\* Every vector goes to one leaf.
LEMMA UpdateLeavesGood ==
    ASSUME NEW ls, NEW next, GoodLeaves(ls, next), Len(ls) >= 1, NEW vs \in Seq(Buffered),
           NEW us, us = UpdateLeaves(ls, vs)
    PROVE  GoodLeaves(us, next) /\ Len(us) = Len(ls) /\ Total(us) = Total(ls) + Len(vs)
<1> DEFINE n == Len(ls)
           m == Len(vs)
           near == [j \in 1..m |-> find_nearest_in_leaves(ls, vs[j].vec)]
           K(i) == {j \in 1..m : near[j] = i}
           mine(i) == Fixed([k \in DOMAIN Sorted(K(i)) |-> vs[Sorted(K(i))[k]]])
           f == [i \in 1..n |-> recompute_hash(Absorb(ls[i], mine(i)))]
<1>1. n \in Nat /\ DOMAIN ls = 1..n /\ Counted(ls) /\ IsSeq(ls) /\ next \in Nat
  BY GoodLeavesCounted DEF GoodLeaves
<1>2. m \in Nat /\ DOMAIN vs = 1..m /\ IsSeq(vs) /\ \A j \in 1..m : vs[j].vec \in Int
  <2>1. \A i \in 1..m : vs[i] \in Buffered
    BY ElementOfSeq
  <2>2. m \in Nat /\ DOMAIN vs = 1..m /\ IsSeq(vs)
    BY SeqIsSeq
  <2>3. \A x \in Buffered : x.vec \in Int
    BY PointsFit DEF Buffered
  <2> HIDE DEF m
  <2> QED
    BY <2>1, <2>2, <2>3
<1>3. near \in [1..m -> 1..n]
  <2>1. \A v : find_nearest_in_leaves(ls, v) \in 1..n
    BY <1>1, NearestLeafExists
  <2> QED
    BY <2>1
<1>4. us = Fixed(f)
  <2>1. ASSUME NEW i
        PROVE  KeepIndices(vs, LAMBDA j : find_nearest_in_leaves(ls, vs[j].vec) = i) = mine(i)
    <3>1. {j \in DOMAIN vs : find_nearest_in_leaves(ls, vs[j].vec) = i} = K(i)
      BY <1>2
    <3> HIDE DEF K
    <3> QED
      BY <3>1 DEF KeepIndices
  <2> HIDE DEF mine
  <2>2. [i \in DOMAIN ls |-> recompute_hash(Absorb(ls[i],
            KeepIndices(vs, LAMBDA j : find_nearest_in_leaves(ls, vs[j].vec) = i)))] = f
    BY <1>1, <2>1
  <2> QED
    BY <2>2 DEF UpdateLeaves
<1> HIDE DEF near
<1>5. ASSUME NEW i \in 1..n
      PROVE  IsSeq(mine(i)) /\ Len(mine(i)) = Cardinality(K(i)) /\ \A a \in 1..Len(mine(i)) : mine(i)[a].vec \in Int
  <2>1. K(i) \in SUBSET (DOMAIN vs)
    BY <1>2
  <2> HIDE DEF K
  <2>2. PickedFrom(mine(i), vs, K(i))
    BY <1>2, <2>1, KeptPicked
  <2> HIDE DEF mine
  <2>3. /\ IsSeq(mine(i)) /\ Len(mine(i)) = Cardinality(K(i))
        /\ \A a \in 1..Len(mine(i)) : \E j \in K(i) : mine(i)[a] = vs[j]
    BY <2>2 DEF PickedFrom
  <2> QED
    BY <1>2, <2>1, <2>3
<1> HIDE DEF mine
<1>6. ASSUME NEW i \in 1..n
      PROVE  GoodLeaf(f[i]) /\ f[i].id = ls[i].id /\ f[i].count = ls[i].count + Cardinality(K(i))
  <2>1. GoodLeaf(ls[i])
    BY DEF GoodLeaves
  <2>2. f[i] = recompute_hash(Absorb(ls[i], mine(i)))
    OBVIOUS
  <2> DEFINE l == ls[i]
             r == f[i]
             x == mine(i)
  <2>3. GoodLeaf(l) /\ r = recompute_hash(Absorb(l, x)) /\ IsSeq(x) /\ (\A a \in 1..Len(x) : x[a].vec \in Int)
    BY <1>5, <2>1, <2>2
  <2> HIDE DEF f, l, r, x, K
  <2>4. GoodLeaf(r) /\ r.id = l.id /\ r.count = l.count + Len(x)
    BY <2>3, AbsorbGood
  <2> QED
    BY <1>5, <2>4 DEF l, r, x
<1>7. f = [i \in 1..n |-> f[i]]
  OBVIOUS
<1> HIDE DEF f
<1>8. IsSeq(us) /\ us = f /\ Len(us) = n
  BY <1>1, <1>4, <1>7, FixedIsSeq, FunctionIsSeq
<1>9. GoodLeaves(us, next)
  BY <1>1, <1>6, <1>8 DEF GoodLeaves
<1>10. Counted(us)
  BY <1>9, GoodLeavesCounted
<1>11. \A i \in 1..n : us[i].count = ls[i].count + Cardinality({j \in 1..m : near[j] = i})
  BY <1>6, <1>8
<1>a. Grouped(us, ls, m, near)
  BY <1>11 DEF Grouped
<1> HIDE DEF K, m
<1>12. Total(us) = Total(ls) + m
  BY <1>1, <1>2, <1>3, <1>8, <1>10, <1>a, GroupsAddUp
<1> QED
  BY <1>8, <1>9, <1>12 DEF m

-----------------------------------------------------------------------------
(* Splitting *)

\* Sound leaves are leaves.
LEMMA GoodLeavesAreLeaves ==
    ASSUME NEW ls, NEW next, GoodLeaves(ls, next)
    PROVE  ls \in Seq(Leaf)
<1>1. IsSeq(ls) /\ \A i \in 1..Len(ls) : ls[i] \in Leaf
  BY DEF GoodLeaves, GoodLeaf
<1>2. Len(ls) \in Nat /\ ls = [i \in 1..Len(ls) |-> ls[i]]
  BY <1>1, IsSeqFacts
<1> QED
  BY <1>1, <1>2

\* A leaf with an id of its own joins the others.
Joined(us, ls, l, next) ==
  /\ GoodLeaves(us, next) /\ Total(us) = Total(ls) + l.count /\ Len(us) = Len(ls) + 1
  /\ us[Len(ls) + 1] = l /\ \A i \in 1..Len(ls) : us[i] = ls[i]

\* A new leaf with an unused id joins the sound ones.
LEMMA LeafJoins ==
    ASSUME NEW ls, NEW old, GoodLeaves(ls, old), NEW l, GoodLeaf(l), NEW next \in Nat, old <= next, l.id < next,
           \A i \in 1..Len(ls) : ls[i].id # l.id
    PROVE  Joined(Append(ls, l), ls, l, next)
<1>1. IsSeq(ls) /\ old \in Nat /\ Counted(ls) /\ Len(ls) \in Nat
  BY GoodLeavesCounted DEF GoodLeaves
<1> DEFINE us == Append(ls, l)
           n == Len(ls)
<1>2. IsSeq(us) /\ Len(us) = n + 1 /\ us[n + 1] = l /\ \A i \in 1..n : us[i] = ls[i]
  BY <1>1, AppendIsSeq
<1>3. l.count \in Nat /\ l.id \in Nat
  BY DEF GoodLeaf, Leaf
<1>4. Total(us) = Total(ls) + l.count
  BY <1>1, <1>3, TotalAppend
<1> HIDE DEF us
<1>5. \A i \in 1..n : GoodLeaf(ls[i]) /\ ls[i].id < old /\ ls[i].id \in Nat
  BY DEF GoodLeaves, GoodLeaf, Leaf
<1>6. \A i \in 1..(n + 1) : i = n + 1 \/ i \in 1..n
  BY <1>1
<1>7. \A i \in 1..(n + 1) : GoodLeaf(us[i]) /\ us[i].id < next
  BY <1>1, <1>2, <1>5, <1>6
<1>8. ASSUME NEW i \in 1..(n + 1), NEW j \in 1..(n + 1), us[i].id = us[j].id PROVE i = j
  <2>1. CASE i = n + 1 /\ j \in 1..n
    BY <1>2, <1>8, <2>1
  <2>2. CASE j = n + 1 /\ i \in 1..n
    BY <1>2, <1>8, <2>2
  <2>3. CASE i \in 1..n /\ j \in 1..n
    BY <1>2, <1>8, <2>3 DEF GoodLeaves
  <2> QED
    BY <1>6, <2>1, <2>2, <2>3
<1>9. GoodLeaves(us, next)
  BY <1>2, <1>7, <1>8 DEF GoodLeaves
<1> QED
  BY <1>2, <1>4, <1>9 DEF Joined, us

\* What a pass has made of the leaves: C bounds their counts, tot is their sum.
SplitStates == [leaves : Seq(Leaf), next : Nat]
Within(y, tot, C) ==
  /\ GoodLeaves(y.leaves, y.next) /\ Total(y.leaves) = tot
  /\ \A a \in 1..Len(y.leaves) : y.leaves[a].count <= C

\* The same, in the middle of a pass over ls: the ids are those of leaves passed
\* or new.
MidPass(y, ls, next, i, tot, C) ==
  /\ Within(y, tot, C) /\ next <= y.next
  /\ \A a \in 1..Len(y.leaves) :
       y.leaves[a].id >= next \/ \E j \in 1..i : y.leaves[a].id = ls[j].id

\* What a pass makes of one leaf.
PassOne(acc, l) ==
  IF l.count <= MaxCluster
  THEN [acc EXCEPT !.leaves = Append(@, l)]
  ELSE [leaves |-> acc.leaves \o SplitLeaf(l, acc.next), next |-> acc.next + 2]

\* A leaf that is small enough is passed on.
LEMMA KeepOne ==
    ASSUME NEW ls, NEW next, GoodLeaves(ls, next), NEW i \in 1..Len(ls), NEW C \in Nat, MaxCluster <= C,
           ls[i].count <= MaxCluster, NEW tot \in Nat,
           NEW y \in SplitStates, MidPass(y, ls, next, i - 1, tot, C)
    PROVE  PassOne(y, ls[i]) \in SplitStates /\ MidPass(PassOne(y, ls[i]), ls, next, i, tot + ls[i].count, C)
<1> DEFINE l == ls[i]
           us == Append(y.leaves, l)
           n == Len(y.leaves)
<1>1. PassOne(y, l) = [leaves |-> us, next |-> y.next]
  BY DEF PassOne, SplitStates
<1>2. GoodLeaf(l) /\ l.id < next /\ l.id \in Nat /\ l.count \in Nat /\ i \in Nat /\ next \in Nat
  BY GoodLeavesCounted DEF GoodLeaves, GoodLeaf, Leaf
<1>3. GoodLeaves(y.leaves, y.next) /\ y.next \in Nat /\ next <= y.next /\ Total(y.leaves) = tot
  BY DEF MidPass, Within, SplitStates
<1>4. ASSUME NEW a \in 1..n PROVE y.leaves[a].id # l.id
  <2>1. CASE y.leaves[a].id >= next
    BY <1>2, <2>1
  <2>2. CASE \E j \in 1..(i - 1) : y.leaves[a].id = ls[j].id
    <3>1. PICK j \in 1..(i - 1) : y.leaves[a].id = ls[j].id
      BY <2>2
    <3>2. j \in 1..Len(ls) /\ j # i
      BY <1>2, GoodLeavesCounted
    <3>3. ls[j].id # ls[i].id
      BY <3>2 DEF GoodLeaves
    <3> QED
      BY <3>1, <3>3
  <2> QED
    BY <2>1, <2>2 DEF MidPass
<1>5. Joined(us, y.leaves, l, y.next)
  <2> HIDE DEF l, us
  <2>1. l.id < y.next
    BY <1>2, <1>3
  <2> QED
    BY <1>2, <1>3, <1>4, <2>1, LeafJoins DEF us
<1> HIDE DEF us
<1>6. /\ GoodLeaves(us, y.next) /\ Total(us) = tot + l.count /\ Len(us) = n + 1
      /\ us[n + 1] = l /\ \A a \in 1..n : us[a] = y.leaves[a]
  BY <1>3, <1>5 DEF Joined
<1>7. n \in Nat
  BY <1>3, GoodLeavesCounted
<1>8. ASSUME NEW a \in 1..(n + 1)
      PROVE  us[a].count <= C /\ (us[a].id >= next \/ \E j \in 1..i : us[a].id = ls[j].id)
  <2>1. CASE a = n + 1
    <3>1. i \in 1..i /\ us[a].id = ls[i].id
      BY <1>2, <1>6, <2>1
    <3>2. us[a].count <= C
      BY <1>2, <1>6, <2>1, CapacitiesAssumption
    <3> QED
      BY <3>1, <3>2
  <2>2. CASE a \in 1..n
    <3>1. us[a].count <= C /\ (us[a].id >= next \/ \E j \in 1..(i - 1) : us[a].id = ls[j].id)
      BY <1>6, <2>2 DEF MidPass, Within
    <3>2. \A j \in 1..(i - 1) : j \in 1..i
      BY <1>2
    <3> QED
      BY <3>1, <3>2
  <2> QED
    BY <1>7, <2>1, <2>2
<1> DEFINE z == [leaves |-> us, next |-> y.next]
<1>9. z \in SplitStates /\ z.leaves = us /\ z.next = y.next
  <2>1. us \in Seq(Leaf)
    BY <1>6, GoodLeavesAreLeaves
  <2> QED
    BY <1>3, <2>1 DEF SplitStates
<1> HIDE DEF z, l
<1>10. Within(z, tot + l.count, C)
  BY <1>6, <1>8, <1>9 DEF Within
<1>11. MidPass(z, ls, next, i, tot + l.count, C)
  BY <1>3, <1>6, <1>8, <1>9, <1>10 DEF MidPass
<1> QED
  BY <1>1, <1>9, <1>11 DEF z, l

\* The halves of a leaf that is too large: two new ids, no count lost, and each
\* half smaller than the leaf.
LEMMA HalvesGood ==
    ASSUME NEW l, GoodLeaf(l), l.count > MaxCluster, NEW next \in Nat
    PROVE  \E a, b : /\ SplitLeaf(l, next) = <<a, b>> /\ GoodLeaf(a) /\ GoodLeaf(b)
                     /\ a.id = next /\ b.id = next + 1 /\ a.count + b.count = l.count
                     /\ a.count < l.count /\ b.count < l.count
<1> DEFINE c == l.count
           h == l.count \div 2
           a == NewLeaf(next, l.num * 100 + l.den, l.den * 100, h)
           b == NewLeaf(next + 1, l.num * 100 - l.den, l.den * 100, c - h)
<1>1. c \in Nat /\ l.num \in Int /\ l.den \in Int
  BY DEF GoodLeaf, Leaf
<1>2. c >= 2
  BY <1>1, CapacitiesAssumption
<1>3. h \in Nat /\ h >= 1 /\ c - h \in Nat /\ c - h >= 1
  <2> HIDE DEF c
  <2>1. c \div 2 \in Nat /\ 2 * (c \div 2) <= c /\ c < 2 * (c \div 2) + 2
    BY <1>2, <1>1
  <2>2. h = c \div 2
    BY DEF c
  <2> HIDE DEF h
  <2> QED
    BY <1>1, <1>2, <2>1, <2>2
<1>4. SplitLeaf(l, next) = <<a, b>>
  BY DEF SplitLeaf
<1>5. LeafWith(a, next, h)
  <2>1. l.num * 100 + l.den \in Int /\ l.den * 100 \in Int
    BY <1>1
  <2> HIDE DEF h, c
  <2> QED
    BY <1>3, <2>1, NewLeafGood
<1>6. LeafWith(b, next + 1, c - h)
  <2>1. l.num * 100 - l.den \in Int /\ l.den * 100 \in Int /\ next + 1 \in Nat
    BY <1>1
  <2> HIDE DEF h, c
  <2> QED
    BY <1>3, <2>1, NewLeafGood
<1> HIDE DEF a, b, h
<1>7. /\ GoodLeaf(a) /\ GoodLeaf(b) /\ a.id = next /\ b.id = next + 1
      /\ a.count = h /\ b.count = c - h
  BY <1>5, <1>6 DEF LeafWith
<1>8. a.count + b.count = c /\ a.count < c /\ b.count < c
  <2> HIDE DEF c
  <2> QED
    BY <1>1, <1>3, <1>7
<1> QED
  BY <1>4, <1>7, <1>8

\* Two elements one after the other.
LEMMA AppendTwo ==
    ASSUME NEW X, NEW s \in Seq(X), NEW a \in X, NEW b \in X
    PROVE  s \o <<a, b>> = Append(Append(s, a), b)
<1>1. Len(s) \in Nat /\ <<a, b>> \in Seq(X) /\ Len(<<a, b>>) = 2
  OBVIOUS
<1> DEFINE n == Len(s)
           u == s \o <<a, b>>
           w == Append(Append(s, a), b)
<1>2. u \in Seq(X) /\ Len(u) = n + 2 /\ w \in Seq(X) /\ Len(w) = n + 2
  BY <1>1
<1>3. ASSUME NEW i \in 1..(n + 2) PROVE u[i] = w[i]
  <2>1. CASE i \in 1..n
    BY <1>1, <2>1
  <2>2. CASE i = n + 1
    BY <1>1, <2>2
  <2>3. CASE i = n + 2
    BY <1>1, <2>3
  <2> QED
    BY <1>1, <2>1, <2>2, <2>3
<1>4. u = [i \in 1..(n + 2) |-> u[i]] /\ w = [i \in 1..(n + 2) |-> w[i]]
  <2> HIDE DEF u, w
  <2> QED
    BY <1>1, <1>2
<1> HIDE DEF u, w, n
<1>5. u = w
  BY <1>3, <1>4
<1> QED
  BY <1>5 DEF u, w

\* A leaf that is too large is replaced by its halves.
LEMMA SplitOne ==
    ASSUME NEW ls, NEW next, GoodLeaves(ls, next), NEW i \in 1..Len(ls), NEW C \in Nat, MaxCluster <= C,
           ~(ls[i].count <= MaxCluster), ls[i].count <= C + 1, NEW tot \in Nat,
           NEW y \in SplitStates, MidPass(y, ls, next, i - 1, tot, C)
    PROVE  PassOne(y, ls[i]) \in SplitStates /\ MidPass(PassOne(y, ls[i]), ls, next, i, tot + ls[i].count, C)
<1> DEFINE l == ls[i]
           n == Len(y.leaves)
           id == y.next
<1>1. PassOne(y, l) = [leaves |-> y.leaves \o SplitLeaf(l, id), next |-> id + 2]
  BY DEF PassOne
<1>2. GoodLeaf(l) /\ l.id < next /\ l.id \in Nat /\ l.count \in Nat /\ i \in Nat /\ next \in Nat /\ l.count > MaxCluster
  BY GoodLeavesCounted, CapacitiesAssumption DEF GoodLeaves, GoodLeaf, Leaf
<1>3. /\ GoodLeaves(y.leaves, id) /\ id \in Nat /\ next <= id /\ Total(y.leaves) = tot
      /\ y.leaves \in Seq(Leaf)
  BY DEF MidPass, Within, SplitStates
<1>4. PICK a, b : /\ SplitLeaf(l, id) = <<a, b>> /\ GoodLeaf(a) /\ GoodLeaf(b)
                  /\ a.id = id /\ b.id = id + 1 /\ a.count + b.count = l.count
                  /\ a.count < l.count /\ b.count < l.count
  <2> HIDE DEF l, id
  <2> QED
    BY <1>2, <1>3, HalvesGood
<1> DEFINE us == Append(y.leaves, a)
           ws == Append(us, b)
<1>5. y.leaves \o SplitLeaf(l, id) = ws
  <2>1. a \in Leaf /\ b \in Leaf
    BY <1>4 DEF GoodLeaf
  <2> DEFINE s == y.leaves
  <2>2. s \in Seq(Leaf)
    BY <1>3
  <2> HIDE DEF s
  <2>3. s \o <<a, b>> = Append(Append(s, a), b)
    BY ONLY <2>1, <2>2, AppendTwo
  <2> QED
    BY ONLY <1>4, <2>3 DEF s
<1>6. \A k \in 1..n : y.leaves[k].id < id /\ y.leaves[k].id \in Nat
  BY <1>3 DEF GoodLeaves, GoodLeaf, Leaf
<1> HIDE DEF id
<1>7. n \in Nat
  BY <1>3, GoodLeavesCounted
<1>8. Joined(us, y.leaves, a, id + 1)
  <2>1. id + 1 \in Nat /\ id <= id + 1 /\ a.id < id + 1
    BY <1>3, <1>4
  <2>2. \A k \in 1..n : y.leaves[k].id # a.id
    BY <1>3, <1>4, <1>6
  <2> QED
    BY <1>3, <1>4, <2>1, <2>2, LeafJoins
<1> HIDE DEF us, l
<1>9. /\ GoodLeaves(us, id + 1) /\ Total(us) = tot + a.count /\ Len(us) = n + 1
      /\ us[n + 1] = a /\ \A k \in 1..n : us[k] = y.leaves[k]
  BY <1>3, <1>8 DEF Joined
<1>10. Joined(ws, us, b, id + 2)
  <2>1. id + 2 \in Nat /\ id + 1 <= id + 2 /\ b.id < id + 2
    BY <1>3, <1>4
  <2>2. \A k \in 1..Len(us) : us[k].id # b.id
    <3>1. \A k \in 1..Len(us) : us[k].id < id + 1 /\ us[k].id \in Nat
      BY <1>9 DEF GoodLeaves, GoodLeaf, Leaf
    <3> QED
      BY <1>3, <1>4, <3>1
  <2> QED
    BY <1>4, <1>9, <2>1, <2>2, LeafJoins
<1> HIDE DEF ws
<1>11. /\ GoodLeaves(ws, id + 2) /\ Total(ws) = Total(us) + b.count /\ Len(ws) = n + 2
       /\ ws[n + 2] = b /\ ws[n + 1] = a /\ \A k \in 1..n : ws[k] = y.leaves[k]
  <2>1. /\ GoodLeaves(ws, id + 2) /\ Total(ws) = Total(us) + b.count /\ Len(ws) = Len(us) + 1
        /\ ws[Len(us) + 1] = b /\ \A k \in 1..Len(us) : ws[k] = us[k]
    BY <1>10 DEF Joined
  <2>2. Len(us) = n + 1 /\ (n + 1) + 1 = n + 2 /\ n + 1 \in 1..(n + 1) /\ \A k \in 1..n : k \in 1..(n + 1)
    BY <1>7, <1>9
  <2> QED
    BY <1>9, <2>1, <2>2
<1>12. Total(ws) = tot + l.count
  <2>1. a.count \in Nat /\ b.count \in Nat
    BY <1>4 DEF GoodLeaf, Leaf
  <2>2. Total(us) = tot + a.count /\ Total(ws) = Total(us) + b.count /\ a.count + b.count = l.count
    BY <1>4, <1>9, <1>11
  <2> QED
    BY ONLY <2>1, <2>2, tot \in Nat
<1>13. ASSUME NEW k \in 1..(n + 2)
       PROVE  ws[k].count <= C /\ (ws[k].id >= next \/ \E j \in 1..i : ws[k].id = ls[j].id)
  <2>0. a.count \in Nat /\ b.count \in Nat /\ a.count <= C /\ b.count <= C
    <3>1. a.count \in Nat /\ b.count \in Nat
      BY <1>4 DEF GoodLeaf, Leaf
    <3>2. l.count <= C + 1
      BY DEF l
    <3>3. l.count \in Nat /\ a.count < l.count /\ b.count < l.count
      BY <1>2, <1>4
    <3> QED
      BY ONLY <3>1, <3>2, <3>3, C \in Nat
  <2>i. id \in Nat /\ next \in Nat /\ id >= next /\ id + 1 >= next
    BY <1>2, <1>3
  <2>1. CASE k = n + 1
    <3>1. ws[k] = a
      BY <1>11, <2>1
    <3> QED
      BY <1>4, <2>0, <2>i, <3>1
  <2>2. CASE k = n + 2
    <3>1. ws[k] = b
      BY <1>11, <2>2
    <3> QED
      BY <1>4, <2>0, <2>i, <3>1
  <2>3. CASE k \in 1..n
    <3>1. ws[k].count <= C /\ (ws[k].id >= next \/ \E j \in 1..(i - 1) : ws[k].id = ls[j].id)
      BY <1>11, <2>3 DEF MidPass, Within
    <3>2. \A j \in 1..(i - 1) : j \in 1..i
      BY <1>2
    <3> QED
      BY <3>1, <3>2
  <2>4. k = n + 1 \/ k = n + 2 \/ k \in 1..n
    BY ONLY <1>7, k \in 1..(n + 2)
  <2> QED
    BY ONLY <2>1, <2>2, <2>3, <2>4
<1> DEFINE z == [leaves |-> ws, next |-> id + 2]
<1>14. z \in SplitStates /\ z.leaves = ws /\ z.next = id + 2
  <2>1. ws \in Seq(Leaf)
    BY <1>11, GoodLeavesAreLeaves
  <2> QED
    BY <1>3, <2>1 DEF SplitStates
<1> HIDE DEF z
<1>15. Within(z, tot + l.count, C)
  BY <1>11, <1>12, <1>13, <1>14 DEF Within
<1>16. next <= id + 2
  BY <1>2, <1>3
<1>17. MidPass(z, ls, next, i, tot + l.count, C)
  BY <1>11, <1>13, <1>14, <1>15, <1>16 DEF MidPass
<1> QED
  BY <1>1, <1>5, <1>14, <1>17 DEF z, l

\* A pass over the leaves loses no count, repeats no id, and brings a bound above
\* max_cluster_size down by one.
LEMMA PassGood ==
    ASSUME NEW y \in SplitStates, NEW tot, NEW C \in Nat, MaxCluster <= C, Within(y, tot, C + 1)
    PROVE  SplitPass(y) \in SplitStates /\ Within(SplitPass(y), tot, C)
<1> DEFINE ls == y.leaves
           next == y.next
           n == Len(ls)
           base == [leaves |-> <<>>, next |-> next]
           E(x, i) == PassOne(x, ls[i])
<1>1. GoodLeaves(ls, next) /\ Total(ls) = tot /\ next \in Nat /\ \A i \in 1..n : ls[i].count <= C + 1
  BY DEF Within, SplitStates
<1>b. n \in Nat /\ Counted(ls)
  BY <1>1, GoodLeavesCounted
<1>c. PICK F : Sums(F, ls) /\ F[n] = Total(ls)
  BY <1>b, TotalSums
<1> DEFINE L(i) == {x \in SplitStates : MidPass(x, ls, next, i, F[i], C)}
           X == [i \in 0..n |-> L(i)]
           T == [i \in 1..n |-> [x \in L(i - 1) |-> E(x, i)]]
           H == CHOOSE h : h = [i \in 0..n |-> IF i = 0 THEN base ELSE E(h[i - 1], i)]
<1>2. SplitPass(y) = H[n]
  BY DEF SplitPass, Fold, PassOne
<1>3. n \in Nat
  BY <1>b
<1>d. F[0] = 0 /\ (\A i \in 0..n : F[i] \in Nat) /\ \A i \in 1..n : F[i] = F[i - 1] + ls[i].count
  BY <1>c DEF Sums
<1> HIDE DEF ls, next, n
<1>e. base \in L(0)
  <2>1. GoodLeaves(<<>>, next)
    <3>1. IsSeq(<<>>) /\ Len(<<>>) = 0 /\ 1..0 = {}
      BY TotalEmpty DEF Counted
    <3> QED
      BY <1>1, <3>1 DEF GoodLeaves
  <2>2. base \in SplitStates /\ base.leaves = <<>> /\ base.next = next /\ Len(<<>>) = 0 /\ 1..0 = {}
    BY <1>1 DEF SplitStates
  <2> HIDE DEF base
  <2>3. Within(base, 0, C)
    BY <2>1, <2>2, TotalEmpty DEF Within
  <2>4. MidPass(base, ls, next, 0, 0, C)
    BY <1>1, <2>2, <2>3 DEF MidPass
  <2> QED
    BY <1>d, <2>2, <2>4
<1>f. ASSUME NEW i \in 1..n, NEW x \in L(i - 1) PROVE E(x, i) \in L(i)
  <2>1. x \in SplitStates /\ MidPass(x, ls, next, i - 1, F[i - 1], C)
    OBVIOUS
  <2>2. i - 1 \in 0..n
    BY <1>3
  <2>3. F[i - 1] \in Nat /\ F[i] = F[i - 1] + ls[i].count
    BY <1>d, <2>2
  <2>4. i \in 1..Len(ls) /\ ls[i].count <= C + 1
    BY <1>1 DEF n
  <2> DEFINE f == F[i - 1]
  <2>5. f \in Nat /\ MidPass(x, ls, next, i - 1, f, C) /\ F[i] = f + ls[i].count
    BY <2>1, <2>3
  <2> HIDE DEF f, L
  <2>6. PassOne(x, ls[i]) \in SplitStates /\ MidPass(PassOne(x, ls[i]), ls, next, i, f + ls[i].count, C)
    <3>1. CASE ls[i].count <= MaxCluster
      BY <1>1, <2>1, <2>4, <2>5, <3>1, KeepOne
    <3>2. CASE ~(ls[i].count <= MaxCluster)
      BY <1>1, <2>1, <2>4, <2>5, <3>2, SplitOne
    <3> QED
      BY <3>1, <3>2
  <2> QED
    BY <2>5, <2>6 DEF L
<1> HIDE DEF E, L, base
<1>4. base \in X[0] /\ \A i \in 1..n : \A x \in X[i - 1] : T[i][x] = E(x, i) /\ E(x, i) \in X[i]
  <2>1. X[0] = L(0) /\ \A i \in 1..n : X[i - 1] = L(i - 1) /\ X[i] = L(i)
    BY <1>3
  <2>2. \A i \in 1..n : \A x \in L(i - 1) : T[i][x] = E(x, i)
    OBVIOUS
  <2> HIDE DEF X, T
  <2> QED
    BY <1>e, <1>f, <2>1, <2>2
<1> HIDE DEF X, T, H
<1>5. StepsUp(n, X, base, T)
  BY <1>4 DEF StepsUp
<1>6. PICK f : RunsUp(f, n, X, base, T)
  BY <1>3, <1>5, RecursionUp
<1>7. f = [i \in 0..n |-> IF i = 0 THEN base ELSE E(f[i - 1], i)]
  <2>1. /\ f = [i \in 0..n |-> f[i]] /\ f[0] = base /\ \A i \in 1..n : f[i] = T[i][f[i - 1]]
        /\ \A i \in 0..n : f[i] \in X[i]
    BY <1>6 DEF RunsUp
  <2>2. ASSUME NEW i \in 1..n PROVE f[i] = E(f[i - 1], i)
    <3>1. i - 1 \in 0..n
      BY <1>3
    <3> QED
      BY <1>4, <2>1, <3>1
  <2>3. ASSUME NEW i \in 0..n PROVE f[i] = IF i = 0 THEN base ELSE E(f[i - 1], i)
    <3>1. i = 0 \/ (i \in 1..n /\ i # 0)
      BY <1>3
    <3> QED
      BY <2>1, <2>2, <3>1
  <2> QED
    BY <2>1, <2>3
<1>8. H = [i \in 0..n |-> IF i = 0 THEN base ELSE E(H[i - 1], i)]
  BY <1>7 DEF H
<1>9. H[0] = base /\ \A i \in 1..n : H[i] = E(H[i - 1], i)
  BY <1>3, <1>8
<1>10. \A i \in 0..n : H[i] \in X[i]
  <2>1. H[0] \in X[0]
    BY <1>4, <1>9
  <2>2. \A i \in 1..n : H[i - 1] \in X[i - 1] => H[i] \in X[i]
    BY <1>4, <1>9
  <2> QED
    BY <1>3, <2>1, <2>2, StaysUp
<1>11. H[n] \in L(n)
  BY <1>3, <1>10 DEF X
<1>12. H[n] \in SplitStates /\ MidPass(H[n], ls, next, n, F[n], C)
  BY <1>11 DEF L
<1> QED
  BY <1>1, <1>2, <1>c, <1>12 DEF MidPass

\* A list that is not empty has a largest count.
LEMMA LargestExists ==
    ASSUME NEW s, Counted(s), Len(s) >= 1
    PROVE  \E c \in {s[i].count : i \in DOMAIN s} : \A i \in DOMAIN s : s[i].count <= c
<1> DEFINE n == Len(s)
           S == {k \in 0..n : k = 0 \/ \E m \in 1..k : \A i \in 1..k : s[i].count <= s[m].count}
<1>1. n \in Nat /\ DOMAIN s = 1..n /\ n >= 1 /\ \A i \in 1..n : s[i].count \in Nat
  BY IsSeqFacts DEF Counted
<1> HIDE DEF n
<1>2. 0 \in S
  BY <1>1
<1>3. ASSUME NEW k \in 0..(n - 1), k \in S PROVE k + 1 \in S
  <2>1. k \in Nat /\ k + 1 \in 1..n /\ k + 1 \in 0..n /\ k + 1 \in 1..(k + 1)
    BY <1>1
  <2>2. \A i \in 1..(k + 1) : (i \in 1..k \/ i = k + 1) /\ i \in 1..n
    BY <1>1, <2>1
  <2>3. CASE k = 0
    <3>1. \A i \in 1..(k + 1) : s[i].count <= s[k + 1].count
      <4>1. \A i \in 1..(k + 1) : i = k + 1
        BY <2>3
      <4>2. s[k + 1].count <= s[k + 1].count
        BY <1>1, <2>1
      <4> QED
        BY <4>1, <4>2
    <3> QED
      BY <2>1, <3>1
  <2>4. CASE k # 0
    <3>1. PICK m \in 1..k : \A i \in 1..k : s[i].count <= s[m].count
      BY <1>3, <2>4
    <3>2. m \in 1..n /\ m \in 1..(k + 1)
      BY <1>1, <2>1
    <3>3. CASE s[k + 1].count <= s[m].count
      <4>1. \A i \in 1..(k + 1) : s[i].count <= s[m].count
        BY <2>2, <3>1, <3>3
      <4> QED
        BY <2>1, <3>2, <4>1
    <3>4. CASE ~(s[k + 1].count <= s[m].count)
      <4>1. s[m].count \in Nat /\ s[k + 1].count \in Nat
        BY <1>1, <2>1, <3>2
      <4>2. ASSUME NEW i \in 1..(k + 1) PROVE s[i].count <= s[k + 1].count
        <5>1. s[i].count \in Nat
          BY <1>1, <2>2
        <5>2. CASE i = k + 1
          BY <4>1, <5>2
        <5>3. CASE i \in 1..k
          <6>1. s[i].count <= s[m].count
            BY <3>1, <5>3
          <6> QED
            BY <3>4, <4>1, <5>1, <6>1
        <5> QED
          BY <2>2, <5>2, <5>3
      <4> QED
        BY <2>1, <4>2
    <3> QED
      BY <3>3, <3>4
  <2> QED
    BY <2>3, <2>4
<1>4. n \in S
  <2> HIDE DEF S
  <2>1. \A k \in 0..n : k \in S
    BY <1>1, <1>2, <1>3, InductionUpTo
  <2> QED
    BY <1>1, <2>1
<1>5. PICK m \in 1..n : \A i \in 1..n : s[i].count <= s[m].count
  BY <1>1, <1>4
<1> QED
  BY <1>1, <1>5

\* The passes together: no cluster is left too large.
LEMMA SplitAllGood ==
    ASSUME NEW ls, NEW next, GoodLeaves(ls, next), Len(ls) >= 1
    PROVE  SplitAll(ls, next) \in SplitStates /\ Within(SplitAll(ls, next), Total(ls), MaxCluster)
<1> DEFINE n == CHOOSE c \in {ls[i].count : i \in DOMAIN ls} : \A i \in DOMAIN ls : ls[i].count <= c
           base == [leaves |-> ls, next |-> next]
           E(x, i) == SplitPass(x)
           B(i) == IF n - i > MaxCluster THEN n - i ELSE MaxCluster
           L(i) == {x \in SplitStates : Within(x, Total(ls), B(i))}
           X == [i \in 0..n |-> L(i)]
           T == [i \in 1..n |-> [x \in L(i - 1) |-> E(x, i)]]
           H == CHOOSE h : h = [i \in 0..n |-> IF i = 0 THEN base ELSE E(h[i - 1], i)]
<1>1. Counted(ls) /\ DOMAIN ls = 1..Len(ls) /\ Len(ls) \in Nat /\ \A i \in 1..Len(ls) : ls[i].count \in Nat
  BY GoodLeavesCounted DEF Counted
<1>2. SplitAll(ls, next) = H[n]
  BY DEF SplitAll
<1>b. n \in {ls[i].count : i \in DOMAIN ls} /\ \A i \in DOMAIN ls : ls[i].count <= n
  <2>1. \E c \in {ls[i].count : i \in DOMAIN ls} : \A i \in DOMAIN ls : ls[i].count <= c
    BY <1>1, LargestExists
  <2> QED
    BY <2>1
<1> HIDE DEF n
<1>3. n \in Nat
  BY <1>1, <1>b
<1>c. \A i \in 0..n : B(i) \in Nat /\ MaxCluster <= B(i)
  BY <1>3, CapacitiesAssumption
<1>d. \A i \in 1..n : B(i - 1) = B(i) + 1 \/ B(i - 1) = B(i)
  BY <1>3, CapacitiesAssumption
<1>e. n <= B(0) /\ B(n) = MaxCluster
  BY <1>3, CapacitiesAssumption
<1> HIDE DEF B
<1>f. base \in L(0)
  <2>1. base \in SplitStates /\ base.leaves = ls /\ base.next = next
    BY GoodLeavesAreLeaves DEF SplitStates, GoodLeaves
  <2>2. \A i \in 1..Len(ls) : ls[i].count <= B(0)
    <3>1. B(0) \in Nat
      BY <1>3, <1>c
    <3> QED
      BY <1>1, <1>3, <1>b, <1>e, <3>1
  <2> HIDE DEF base
  <2>3. Within(base, Total(ls), B(0))
    BY <2>1, <2>2 DEF Within
  <2> QED
    BY <2>1, <2>3
<1>g. ASSUME NEW i \in 1..n, NEW x \in L(i - 1) PROVE E(x, i) \in L(i)
  <2>1. x \in SplitStates /\ Within(x, Total(ls), B(i - 1))
    OBVIOUS
  <2>2. B(i) \in Nat /\ B(i - 1) \in Nat /\ MaxCluster <= B(i) /\ B(i - 1) <= B(i) + 1
    <3>1. i \in 0..n /\ i - 1 \in 0..n
      BY <1>3
    <3>2. B(i) \in Nat /\ B(i - 1) \in Nat /\ MaxCluster <= B(i)
      BY <1>c, <3>1
    <3> QED
      BY <1>d, <3>2
  <2> DEFINE C == B(i)
             D == B(i - 1)
  <2>3. C \in Nat /\ D \in Nat /\ MaxCluster <= C /\ D <= C + 1 /\ Within(x, Total(ls), D)
    BY <2>1, <2>2
  <2> HIDE DEF C, D
  <2>4. Within(x, Total(ls), C + 1)
    <3>1. GoodLeaves(x.leaves, x.next) /\ Total(x.leaves) = Total(ls)
      BY <2>3 DEF Within
    <3>2. ASSUME NEW a \in 1..Len(x.leaves) PROVE x.leaves[a].count <= C + 1
      <4>1. x.leaves[a].count \in Nat
        BY <3>1, GoodLeavesCounted DEF Counted
      <4>2. x.leaves[a].count <= D
        BY <2>3 DEF Within
      <4> QED
        BY <2>3, <4>1, <4>2
    <3> QED
      BY <3>1, <3>2 DEF Within
  <2>5. SplitPass(x) \in SplitStates /\ Within(SplitPass(x), Total(ls), C)
    BY <2>1, <2>3, <2>4, PassGood
  <2> QED
    BY <2>5 DEF C
<1> HIDE DEF E, L, base
<1>4. base \in X[0] /\ \A i \in 1..n : \A x \in X[i - 1] : T[i][x] = E(x, i) /\ E(x, i) \in X[i]
  <2>1. X[0] = L(0) /\ \A i \in 1..n : X[i - 1] = L(i - 1) /\ X[i] = L(i)
    BY <1>3
  <2>2. \A i \in 1..n : \A x \in L(i - 1) : T[i][x] = E(x, i)
    OBVIOUS
  <2> HIDE DEF X, T
  <2> QED
    BY <1>f, <1>g, <2>1, <2>2
<1> HIDE DEF X, T, H
<1>5. StepsUp(n, X, base, T)
  BY <1>4 DEF StepsUp
<1>6. PICK f : RunsUp(f, n, X, base, T)
  BY <1>3, <1>5, RecursionUp
<1>7. f = [i \in 0..n |-> IF i = 0 THEN base ELSE E(f[i - 1], i)]
  <2>1. /\ f = [i \in 0..n |-> f[i]] /\ f[0] = base /\ \A i \in 1..n : f[i] = T[i][f[i - 1]]
        /\ \A i \in 0..n : f[i] \in X[i]
    BY <1>6 DEF RunsUp
  <2>2. ASSUME NEW i \in 1..n PROVE f[i] = E(f[i - 1], i)
    <3>1. i - 1 \in 0..n
      BY <1>3
    <3> QED
      BY <1>4, <2>1, <3>1
  <2>3. ASSUME NEW i \in 0..n PROVE f[i] = IF i = 0 THEN base ELSE E(f[i - 1], i)
    <3>1. i = 0 \/ (i \in 1..n /\ i # 0)
      BY <1>3
    <3> QED
      BY <2>1, <2>2, <3>1
  <2> QED
    BY <2>1, <2>3
<1>8. H = [i \in 0..n |-> IF i = 0 THEN base ELSE E(H[i - 1], i)]
  BY <1>7 DEF H
<1>9. H[0] = base /\ \A i \in 1..n : H[i] = E(H[i - 1], i)
  BY <1>3, <1>8
<1>10. \A i \in 0..n : H[i] \in X[i]
  <2>1. H[0] \in X[0]
    BY <1>4, <1>9
  <2>2. \A i \in 1..n : H[i - 1] \in X[i - 1] => H[i] \in X[i]
    BY <1>4, <1>9
  <2> QED
    BY <1>3, <2>1, <2>2, StaysUp
<1>11. H[n] \in L(n)
  BY <1>3, <1>10 DEF X
<1>12. H[n] \in SplitStates /\ Within(H[n], Total(ls), MaxCluster)
  BY <1>11, <1>e DEF L
<1> QED
  BY <1>2, <1>12

-----------------------------------------------------------------------------
(* The tree *)

\* t is ls in the order of the ids.
IdsAscend(t) == \A a, b \in 1..Len(t) : a < b => t[a].id < t[b].id

\* build_tree puts good leaves in the order of their ids and loses none.
LEMMA SortByIdGood ==
    ASSUME NEW y \in SplitStates, NEW tot, Within(y, tot, MaxCluster), NEW t, t = StableSort(y.leaves, ById)
    PROVE  Within([leaves |-> t, next |-> y.next], tot, MaxCluster) /\ IdsAscend(t) /\ Len(t) = Len(y.leaves)
<1> DEFINE s == y.leaves
           n == Len(s)
           key == [i \in 1..n |-> s[i].id]
           rank == [i \in DOMAIN s |-> SortRank(s, ById, i)]
<1>0. GoodLeaves(s, y.next) /\ Total(s) = tot /\ \A a \in 1..n : s[a].count <= MaxCluster
  BY DEF Within
<1>1. n \in Nat /\ DOMAIN s = 1..n /\ IsSeq(s) /\ Counted(s)
  BY <1>0, GoodLeavesCounted DEF GoodLeaves
<1>a. \A i \in 1..n : GoodLeaf(s[i]) /\ s[i].id \in Nat /\ s[i].id < y.next
  BY <1>0 DEF GoodLeaves, GoodLeaf, Leaf
<1>b. t = StableSort(s, ById)
  OBVIOUS
<1> HIDE DEF s
<1>2. key \in [1..n -> Int] /\ \A i \in 1..n : key[i] = s[i].id
  <2> HIDE DEF n
  <2> QED
    BY <1>1, <1>a
<1>3. RankedBy(s, key, rank)
  <2>1. ASSUME NEW i \in DOMAIN s
        PROVE  rank[i] = 1 + Cardinality({j \in DOMAIN s : key[j] < key[i] \/ (j < i /\ ~(key[i] < key[j]))})
    <3> DEFINE A == {j \in DOMAIN s : s[j].id < s[i].id \/ (j < i /\ ~(s[i].id < s[j].id))}
               B == {j \in DOMAIN s : key[j] < key[i] \/ (j < i /\ ~(key[i] < key[j]))}
    <3>1. rank[i] = 1 + Cardinality(A)
      BY DEF SortRank, ById
    <3>2. A = B
      <4> HIDE DEF key, n
      <4> QED
        BY <1>1, <1>2
    <3> HIDE DEF A, rank
    <3> QED
      BY <3>1, <3>2
  <2>2. rank = [i \in DOMAIN s |-> rank[i]]
    OBVIOUS
  <2> HIDE DEF rank
  <2> QED
    BY <2>1, <2>2 DEF RankedBy
<1>4. PlacedBy(s, rank, t)
  BY <1>b DEF StableSort, PlacedBy
<1>5. PICK p : SortedBy(s, key, t, p)
  <2> HIDE DEF rank, key
  <2> QED
    BY <1>1, <1>2, <1>3, <1>4, SortFromKey DEF n
<1>6. IsSeq(t) /\ Len(t) = n /\ \A k \in 1..n : t[k] = s[p[k]]
  BY <1>5 DEF SortedBy
<1>7. /\ p \in [1..n -> 1..n]
      /\ \A a, b \in 1..n : a < b => key[p[a]] <= key[p[b]]
      /\ \A a, b \in 1..n : p[a] = p[b] => a = b
      /\ \A i \in 1..n : \E a \in 1..n : p[a] = i
  BY <1>5 DEF SortedBy, SortsBy
<1> HIDE DEF key, rank, n
<1>8. \A a \in 1..n : p[a] \in 1..n /\ GoodLeaf(t[a]) /\ t[a].id \in Nat /\ t[a].id < y.next /\ t[a].count <= MaxCluster
  BY <1>0, <1>6, <1>7, <1>a DEF n
<1>9. ASSUME NEW a \in 1..n, NEW b \in 1..n, t[a].id = t[b].id PROVE a = b
  <2>1. \A i, j \in 1..n : s[i].id = s[j].id => i = j
    BY <1>0 DEF GoodLeaves, n
  <2>2. p[a] \in 1..n /\ p[b] \in 1..n /\ t[a] = s[p[a]] /\ t[b] = s[p[b]]
    BY <1>6, <1>8
  <2>3. p[a] = p[b]
    BY <1>9, <2>1, <2>2
  <2> QED
    BY <1>7, <2>3
<1>10. GoodLeaves(t, y.next)
  BY <1>0, <1>6, <1>8, <1>9 DEF GoodLeaves
<1>11. ASSUME NEW a \in 1..n, NEW b \in 1..n, a < b PROVE t[a].id < t[b].id
  <2>0. p[a] \in 1..n /\ p[b] \in 1..n /\ t[a] = s[p[a]] /\ t[b] = s[p[b]]
    BY <1>6, <1>8
  <2>3. key[p[a]] = t[a].id /\ key[p[b]] = t[b].id
    BY <1>2, <2>0
  <2>1. key[p[a]] <= key[p[b]] /\ key[p[a]] = t[a].id /\ key[p[b]] = t[b].id
    BY <1>7, <1>11, <2>3
  <2>2. t[a].id # t[b].id
    BY <1>1, <1>9, <1>11
  <2> QED
    BY <1>8, <2>1, <2>2
<1>12. Total(t) = Total(s)
  <2>1. Matches(t, s, p)
    <3>1. \A a \in 1..n : t[a].count = s[p[a]].count
      BY <1>6
    <3> QED
      BY <1>6, <1>7, <3>1 DEF Matches, n
  <2>2. Counted(t)
    BY <1>10, GoodLeavesCounted
  <2> QED
    BY <1>1, <2>1, <2>2, TotalPermuted
<1> DEFINE z == [leaves |-> t, next |-> y.next]
<1>13. z.leaves = t /\ z.next = y.next
  OBVIOUS
<1> HIDE DEF z
<1>14. Within(z, tot, MaxCluster)
  BY <1>0, <1>6, <1>8, <1>10, <1>12, <1>13 DEF Within
<1> QED
  BY <1>6, <1>11, <1>14 DEF z, IdsAscend, n, s

\* A tree whose leaves are good, in the order of their ids and not too large, and
\* whose root was built from them.
TreeOK(t) ==
  /\ GoodLeaves(t.leaves, t.next) /\ IdsAscend(t.leaves)
  /\ \A a \in 1..Len(t.leaves) : t.leaves[a].count <= MaxCluster
  /\ t.leaves # <<>> => t.root = build_root(t.leaves)

\* The empty tree is sound and counts nothing.
LEMMA EmptyTreeOK == TreeOK(EmptyTree) /\ Total(EmptyTree.leaves) = 0
<1>1. EmptyTree.leaves = <<>> /\ EmptyTree.next = 1 /\ Len(<<>>) = 0 /\ 1..0 = {}
  BY DEF EmptyTree
<1>2. IsSeq(<<>>)
  BY TotalEmpty DEF Counted
<1>3. GoodLeaves(<<>>, 1)
  BY <1>1, <1>2 DEF GoodLeaves
<1> QED
  BY <1>1, <1>3, TotalEmpty DEF TreeOK, IdsAscend

\* A list that is not empty has an element.
LEMMA NotEmpty ==
    ASSUME NEW s, IsSeq(s)
    PROVE  s # <<>> <=> Len(s) >= 1
<1>1. Len(s) \in Nat /\ s = [i \in 1..Len(s) |-> s[i]]
  BY IsSeqFacts
<1>2. ASSUME Len(s) = 0 PROVE s = <<>>
  BY <1>1, <1>2
<1>3. ASSUME s = <<>> PROVE Len(s) = 0
  BY <1>3
<1> QED
  BY <1>1, <1>2, <1>3

\* What a tree says when its conjuncts are told apart.
LEMMA TreeFacts ==
    ASSUME NEW t, TreeOK(t)
    PROVE  TreeSound(t) /\ TotalCount(t) = Total(t.leaves)
<1> DEFINE ls == t.leaves
<1>1. GoodLeaves(ls, t.next) /\ IdsAscend(ls) /\ \A a \in 1..Len(ls) : ls[a].count <= MaxCluster
  BY DEF TreeOK
<1>2. IsSeq(ls) /\ Counted(ls) /\ DOMAIN ls = 1..Len(ls) /\ Len(ls) \in Nat
  BY <1>1, GoodLeavesCounted DEF GoodLeaves
<1>3. TotalCount(t) = Total(ls)
  BY DEF TotalCount, Total, Fold
<1>4. \A i \in DOMAIN ls : ls[i].id < t.next /\ ls[i].count \in 1..MaxCluster /\ ls[i].hash = leaf_hash(ls[i])
  <2>1. \A i \in 1..Len(ls) : ls[i].id < t.next /\ ls[i].count \in Nat /\ ls[i].count >= 1 /\ ls[i].hash = leaf_hash(ls[i])
    BY <1>1 DEF GoodLeaves, GoodLeaf, Leaf
  <2> QED
    BY <1>1, <1>2, <2>1, CapacitiesAssumption
<1>5. \A i, j \in DOMAIN ls : i < j => ls[i].id < ls[j].id
  BY <1>1, <1>2 DEF IdsAscend
<1>6. ls # <<>> => t.root = build_root(ls) /\ t.root[1].count = TotalCount(t)
  <2> SUFFICES ASSUME ls # <<>> PROVE t.root = build_root(ls) /\ t.root[1].count = TotalCount(t)
    OBVIOUS
  <2>1. t.root = build_root(ls)
    BY DEF TreeOK
  <2>2. build_root(ls)[1].count = Total(ls)
    BY <1>2, NotEmpty, RootSum
  <2> QED
    BY <1>3, <2>1, <2>2
<1> QED
  BY <1>3, <1>4, <1>5, <1>6 DEF TreeSound

\* The sizes of sound leaves sum to a natural number.
LEMMA TotalIsNat ==
    ASSUME NEW ls, NEW next, GoodLeaves(ls, next)
    PROVE  Total(ls) \in Nat
<1>1. Counted(ls) /\ Len(ls) \in Nat
  BY GoodLeavesCounted
<1>2. PICK F : Sums(F, ls) /\ F[Len(ls)] = Total(ls)
  BY <1>1, TotalSums
<1>3. Len(ls) \in 0..Len(ls)
  BY <1>1
<1> QED
  BY <1>2, <1>3 DEF Sums

\* A merge keeps the tree as it should be and adds every vector once.
LEMMA MergeGood ==
    ASSUME NEW t, TreeOK(t), NEW vs \in Seq(Buffered), NEW u, u = insert_batch(t, vs)
    PROVE  TreeOK(u) /\ Total(u.leaves) = Total(t.leaves) + Len(vs)
<1> DEFINE first == t.leaves = <<>>
           grown == IF t.leaves = <<>> THEN FirstLeaves(vs, t.next) ELSE UpdateLeaves(t.leaves, vs)
           next == IF t.leaves = <<>> THEN t.next + Len(vs) ELSE t.next
           y == SplitAll(grown, next)
           sorted == StableSort(y.leaves, ById)
<1>1. GoodLeaves(t.leaves, t.next) /\ t.next \in Nat /\ IsSeq(t.leaves) /\ Len(vs) \in Nat /\ Counted(t.leaves)
  BY GoodLeavesCounted DEF TreeOK, GoodLeaves
<1>2. Total(t.leaves) \in Nat
  BY <1>1, TotalIsNat
<1>3. CASE vs = <<>>
  <2>1. u = t /\ Len(vs) = 0
    BY <1>3 DEF insert_batch
  <2> QED
    BY <1>2, <2>1
<1>4. CASE vs # <<>>
  <2>0. Len(vs) >= 1
    <3>1. IsSeq(vs)
      BY SeqIsSeq
    <3> QED
      BY <1>4, <3>1, NotEmpty
  <2>1. u = [leaves |-> sorted, root |-> build_root(sorted), next |-> y.next]
    BY <1>4 DEF insert_batch, build_tree, build_sorted
  <2>2. GoodLeaves(grown, next) /\ Len(grown) >= 1 /\ Total(grown) = Total(t.leaves) + Len(vs)
    <3>1. CASE t.leaves = <<>>
      <4>1. grown = FirstLeaves(vs, t.next) /\ next = t.next + Len(vs)
        BY <3>1
      <4> HIDE DEF grown, next
      <4>2. GoodLeaves(grown, t.next + Len(vs)) /\ Len(grown) = Len(vs) /\ Total(grown) = Len(vs)
        BY <1>1, <4>1, FirstLeavesGood
      <4> QED
        BY <1>1, <2>0, <3>1, <4>1, <4>2, TotalEmpty
    <3>2. CASE t.leaves # <<>>
      <4>1. grown = UpdateLeaves(t.leaves, vs) /\ next = t.next
        BY <3>2
      <4>2. Len(t.leaves) >= 1
        BY <1>1, <3>2, NotEmpty
      <4> HIDE DEF grown, next
      <4>3. GoodLeaves(grown, t.next) /\ Len(grown) = Len(t.leaves) /\ Total(grown) = Total(t.leaves) + Len(vs)
        BY <1>1, <4>1, <4>2, UpdateLeavesGood
      <4> QED
        BY <4>1, <4>2, <4>3
    <3> QED
      BY <3>1, <3>2
  <2> HIDE DEF grown, next
  <2>3. y \in SplitStates /\ Within(y, Total(grown), MaxCluster)
    BY <2>2, SplitAllGood
  <2> HIDE DEF y
  <2>4. Within([leaves |-> sorted, next |-> y.next], Total(grown), MaxCluster) /\ IdsAscend(sorted)
    BY <2>3, SortByIdGood
  <2> HIDE DEF sorted
  <2> DEFINE z == [leaves |-> sorted, next |-> y.next]
  <2>5. Within(z, Total(grown), MaxCluster) /\ z.leaves = sorted /\ z.next = y.next
    BY <2>4
  <2> HIDE DEF z
  <2>6. /\ GoodLeaves(sorted, y.next) /\ Total(sorted) = Total(grown)
        /\ \A a \in 1..Len(sorted) : sorted[a].count <= MaxCluster
    BY <2>5 DEF Within
  <2>7. u.leaves = sorted /\ u.next = y.next /\ u.root = build_root(sorted)
    BY <2>1
  <2>8. TreeOK(u)
    BY <2>4, <2>6, <2>7 DEF TreeOK
  <2> QED
    BY <2>2, <2>6, <2>7, <2>8
<1> QED
  BY <1>3, <1>4

-----------------------------------------------------------------------------
(* The tree of the engine and the one in its file *)

TreeFileSound == treeFile = NoFile \/ treeFile = Torn \/ \E t : treeFile = Saved(t) /\ TreeOK(t)
TreeInv == TreeOK(tree) /\ TreeFileSound

\* A merge of vs into the tree of the engine.
Merged(vs) == vs \in Seq(Buffered) /\ tree' = insert_batch(tree, vs)

\* A merge leaves a sound tree that counts exactly the merged vectors more.
LEMMA MergedOK ==
    ASSUME TreeInv, NEW vs, Merged(vs)
    PROVE  TreeOK(tree') /\ Total(tree'.leaves) = Total(tree.leaves) + Len(vs)
<1>1. TreeOK(tree) /\ vs \in Seq(Buffered) /\ tree' = insert_batch(tree, vs)
  BY DEF TreeInv, Merged
<1> QED
  BY <1>1, MergeGood

\* What an insert adds to the buffer and the tree.
LEMMA AckMerges ==
    ASSUME TypeInv, TreeInv, NEW c \in Clients, BufferAndAck(c)
    PROVE  /\ TreeOK(tree') /\ Total(tree'.leaves) + Len(buffer') = Total(tree.leaves) + Len(buffer) + 1
           /\ treeFile' \in {Saved(tree'), treeFile, Torn}
<1> DEFINE e == [id |-> rec[c][1].id, vec |-> rec[c][1].vec]
           filled == Append(buffer, e)
<1>1. e \in Buffered
  BY DEF TypeInv, ClientSound, BufferAndAck, Buffered
<1>2. buffer \in Seq(Buffered) /\ Len(buffer) \in Nat
  BY DEF TypeInv
<1>3. treeFile' \in {Saved(tree'), treeFile, Torn}
  BY DEF BufferAndAck, SaveTree
<1>4. \/ buffer' = <<>> /\ tree' = insert_batch(tree, filled)
      \/ buffer' = filled /\ tree' = tree
  BY DEF BufferAndAck, BufferInsert
<1> HIDE DEF e
<1>5. filled \in Seq(Buffered) /\ Len(filled) = Len(buffer) + 1
  BY <1>1, <1>2, AppendProperties
<1> HIDE DEF filled
<1>6. Total(tree.leaves) \in Nat /\ TreeOK(tree)
  <2>1. TreeOK(tree)
    BY DEF TreeInv
  <2> QED
    BY <2>1, TotalIsNat DEF TreeOK
<1>7. CASE buffer' = <<>> /\ tree' = insert_batch(tree, filled)
  <2>1. TreeOK(tree') /\ Total(tree'.leaves) = Total(tree.leaves) + Len(filled)
    BY <1>5, <1>7, MergedOK DEF Merged
  <2>2. Len(buffer') = 0
    BY <1>7
  <2> QED
    BY <1>2, <1>3, <1>5, <1>6, <2>1, <2>2
<1>8. CASE buffer' = filled /\ tree' = tree
  BY <1>2, <1>3, <1>5, <1>6, <1>8
<1> QED
  BY <1>4, <1>7, <1>8

\* The tree file after a write of the tree.
LEMMA TreeFileKept ==
    ASSUME TreeInv, TreeOK(tree'), treeFile' \in {Saved(tree'), treeFile, Torn, NoFile}
    PROVE  TreeInv'
<1>1. TreeFileSound'
  BY DEF TreeInv, TreeFileSound
<1> QED
  BY <1>1 DEF TreeInv

\* A step that merges vs into the tree, or leaves it alone, and counts the inserts
\* that reach the buffer.
Conserves ==
  up /\ up' =>
    TotalCount(tree') + Len(buffer') = TotalCount(tree) + Len(buffer)
      + Cardinality({c \in Clients : pc[c] = "buffer" /\ pc'[c] = "idle"})

\* A step in which no insert reaches the buffer.
LEMMA NoneReaches ==
    ASSUME TypeInv, TreeInv, TreeOK(tree'),
           Total(tree'.leaves) + Len(buffer') = Total(tree.leaves) + Len(buffer),
           \A d \in Clients : pc[d] = "buffer" => pc'[d] # "idle"
    PROVE  Conserves
<1> DEFINE R == {c \in Clients : pc[c] = "buffer" /\ pc'[c] = "idle"}
<1>1. R = {}
  OBVIOUS
<1> HIDE DEF R
<1>2. Cardinality(R) = 0
  BY <1>1, FS_EmptySet
<1>3. TotalCount(tree') = Total(tree'.leaves) /\ TotalCount(tree) = Total(tree.leaves)
  BY TreeFacts DEF TreeInv
<1>4. Total(tree.leaves) \in Nat /\ Len(buffer) \in Nat
  BY TotalIsNat DEF TreeInv, TreeOK, TypeInv
<1>5. TotalCount(tree') + Len(buffer') = TotalCount(tree) + Len(buffer) + Cardinality(R)
  BY <1>2, <1>3, <1>4
<1> QED
  BY <1>5 DEF Conserves, R

\* A step that leaves the buffer, the tree and its file alone.
LEMMA TreeAlone ==
    ASSUME TypeInv, TreeInv, tree' = tree, buffer' = buffer, treeFile' = treeFile,
           \A d \in Clients : pc[d] = "buffer" => pc'[d] # "idle"
    PROVE  TreeInv' /\ Conserves
<1>1. TreeOK(tree') /\ Total(tree'.leaves) + Len(buffer') = Total(tree.leaves) + Len(buffer)
  BY DEF TreeInv
<1>2. Conserves
  BY <1>1, NoneReaches
<1>3. TreeInv'
  BY <1>1, TreeFileKept
<1> QED
  BY <1>2, <1>3

\* An insert that fills the buffer merges it whole.
LEMMA TreeAck ==
    ASSUME TypeInv, TreeInv, NEW c \in Clients, BufferAndAck(c)
    PROVE  TreeInv' /\ Conserves
<1>1. /\ TreeOK(tree') /\ Total(tree'.leaves) + Len(buffer') = Total(tree.leaves) + Len(buffer) + 1
      /\ treeFile' \in {Saved(tree'), treeFile, Torn}
  BY AckMerges
<1>2. TreeInv'
  BY <1>1, TreeFileKept
<1> DEFINE R == {d \in Clients : pc[d] = "buffer" /\ pc'[d] = "idle"}
<1>3. R = {c}
  <2>1. pc[c] = "buffer" /\ pc' = [pc EXCEPT ![c] = "idle"] /\ pc \in [Clients -> {"idle", "index", "buffer"}]
    BY DEF BufferAndAck, TypeInv
  <2>2. pc'[c] = "idle" /\ \A d \in Clients : d # c => pc'[d] = pc[d]
    BY <2>1
  <2> QED
    BY <2>1, <2>2
<1> HIDE DEF R
<1>4. Cardinality(R) = 1
  BY <1>3, FS_Singleton
<1>5. TotalCount(tree') = Total(tree'.leaves) /\ TotalCount(tree) = Total(tree.leaves)
  BY <1>1, TreeFacts DEF TreeInv
<1>6. TotalCount(tree') + Len(buffer') = TotalCount(tree) + Len(buffer) + Cardinality(R)
  BY <1>1, <1>4, <1>5
<1> QED
  BY <1>2, <1>6 DEF Conserves, R

\* Shutdown merges what is in the buffer.
LEMMA TreeDrain ==
    ASSUME TypeInv, TreeInv, ShutdownDrain
    PROVE  TreeInv' /\ Conserves
<1>1. pc' = pc
  BY DEF ShutdownDrain
<1>2. CASE buffer = <<>>
  BY <1>1, <1>2, TreeAlone DEF ShutdownDrain
<1>3. CASE buffer # <<>>
  <2>1. buffer' = <<>> /\ tree' = insert_batch(tree, buffer) /\ treeFile' \in {Saved(tree'), treeFile, Torn}
    BY <1>3 DEF ShutdownDrain, DrainBuffer, SaveTree
  <2>2. buffer \in Seq(Buffered) /\ Len(buffer) \in Nat
    BY DEF TypeInv
  <2>3. TreeOK(tree') /\ Total(tree'.leaves) = Total(tree.leaves) + Len(buffer)
    BY <2>1, <2>2, MergedOK DEF Merged
  <2>4. Total(tree.leaves) \in Nat /\ Len(buffer') = 0
    BY <2>1, TotalIsNat DEF TreeInv, TreeOK
  <2>5. Conserves
    BY <1>1, <2>2, <2>3, <2>4, NoneReaches
  <2>6. TreeInv'
    BY <2>1, <2>3, TreeFileKept
  <2> QED
    BY <2>5, <2>6
<1> QED
  BY <1>2, <1>3

\* A stop leaves the saved tree, which is sound.
LEMMA TreeStop ==
    ASSUME TypeInv, TreeInv, Stop
    PROVE  TreeInv' /\ Conserves
<1>1. tree' = EmptyTree /\ up' = FALSE /\ treeFile' \in {treeFile, Torn}
  BY DEF Stop
<1>2. TreeOK(tree')
  BY <1>1, EmptyTreeOK
<1> QED
  BY <1>1, <1>2, TreeFileKept DEF Conserves

\* Opening starts from the saved tree or an empty one.
LEMMA TreeOpen ==
    ASSUME TypeInv, TreeInv, Open
    PROVE  TreeInv' /\ Conserves
<1>1. ~up /\ tree' = LoadTree(treeFile) /\ treeFile' = treeFile
  BY DEF Open, files
<1>2. TreeOK(LoadTree(treeFile))
  <2>1. CASE treeFile = NoFile
    <3>1. NoFile.state # "whole"
      BY DEF NoFile
    <3> QED
      BY <2>1, <3>1, EmptyTreeOK DEF LoadTree
  <2>2. CASE treeFile = Torn
    <3>1. Torn.state # "whole"
      BY DEF Torn
    <3> QED
      BY <2>2, <3>1, EmptyTreeOK DEF LoadTree
  <2>3. CASE \E t : treeFile = Saved(t) /\ TreeOK(t)
    <3>1. PICK t : treeFile = Saved(t) /\ TreeOK(t)
      BY <2>3
    <3>2. Saved(t).state = "whole" /\ Saved(t).content = t
      BY DEF Saved
    <3> QED
      BY <3>1, <3>2 DEF LoadTree
  <2> QED
    BY <2>1, <2>2, <2>3 DEF TreeInv, TreeFileSound
<1> QED
  BY <1>1, <1>2, TreeFileKept DEF Conserves

\* Every step keeps the tree sound and conserves what was merged.
LEMMA TreeStep ==
    ASSUME TypeInv, TreeInv, [Next]_vars
    PROVE  TreeInv' /\ [Conserves]_vars
<1>1. CASE UNCHANGED vars
  <2>1. tree' = tree /\ buffer' = buffer /\ treeFile' = treeFile /\ pc' = pc
    BY <1>1 DEF vars, memory, files
  <2> QED
    BY <1>1, <2>1, TreeAlone
<1>2. ASSUME NEW c \in Clients, NEW id \in NextIds, NEW v \in Points \cup {Misfit}, Insert(c, id, v)
      PROVE  TreeInv' /\ Conserves
  <2>1. tree' = tree /\ buffer' = buffer /\ treeFile' = treeFile /\ pc' = [pc EXCEPT ![c] = "index"]
    BY <1>2 DEF Insert, memory
  <2>2. \A d \in Clients : pc[d] = "buffer" => pc'[d] # "idle"
    BY <2>1 DEF TypeInv
  <2> QED
    BY <2>1, <2>2, TreeAlone
<1>3. ASSUME NEW c \in Clients, NEW level \in random_level(graph), IndexInsert(c, level)
      PROVE  TreeInv' /\ Conserves
  <2>1. tree' = tree /\ buffer' = buffer /\ treeFile' = treeFile /\ pc' = [pc EXCEPT ![c] = "buffer"]
    BY <1>3 DEF IndexInsert, files
  <2>2. \A d \in Clients : pc[d] = "buffer" => pc'[d] # "idle"
    BY <2>1 DEF TypeInv
  <2> QED
    BY <2>1, <2>2, TreeAlone
<1>4. ASSUME NEW c \in Clients, IndexReject(c) \/ InsertFails(c)
      PROVE  TreeInv' /\ Conserves
  <2>1. /\ tree' = tree /\ buffer' = buffer /\ treeFile' = treeFile
        /\ pc[c] = "index" /\ pc' = [pc EXCEPT ![c] = "idle"]
    BY <1>4 DEF IndexReject, InsertFails, files, memory
  <2>2. \A d \in Clients : pc[d] = "buffer" => pc'[d] # "idle"
    BY <2>1 DEF TypeInv
  <2> QED
    BY <2>1, <2>2, TreeAlone
<1>5. ASSUME NEW id \in Ids, RemoveVector(id)
      PROVE  TreeInv' /\ Conserves
  <2>1. tree' = tree /\ buffer' = buffer /\ treeFile' = treeFile /\ pc' = pc
    BY <1>5 DEF RemoveVector, files
  <2> QED
    BY <2>1, TreeAlone
<1>6. CASE ShutdownSave \/ ShutdownFails
  <2>1. tree' = tree /\ buffer' = buffer /\ treeFile' = treeFile /\ pc' = pc
    BY <1>6 DEF ShutdownSave, ShutdownFails, memory
  <2> QED
    BY <2>1, TreeAlone
<1> QED
  BY <1>1, <1>2, <1>3, <1>4, <1>5, <1>6, TreeAck, TreeDrain, TreeStop, TreeOpen DEF Next

\* A new engine has an empty tree.
LEMMA TreeInit == Init => TreeInv
BY EmptyTreeOK DEF Init, TreeInv, TreeFileSound

\* For any buffer capacity and cluster bound, through every merge, split, save, stop
\* and reload: cluster ids are unique, in order and below the next one, no cluster is
\* empty or too large, and the root stands for the leaves.
THEOREM MerkleAlwaysSound == Spec => []MerkleSound
<1>1. Init => TypeInv /\ TreeInv
  BY TypeInit, TreeInit
<1>2. TypeInv /\ TreeInv /\ [Next]_vars => TypeInv' /\ TreeInv'
  BY TypeStep, TreeStep
<1>3. TreeInv => MerkleSound
  BY TreeFacts DEF TreeInv, MerkleSound
<1> QED
  BY <1>1, <1>2, <1>3, PTL DEF Spec

\* While the process runs, the counts of the clusters and the vectors in the buffer
\* grow together by exactly the inserts that reach the buffer.
THEOREM MergesAlwaysConserve == Spec => MergeConserves
<1>1. Init => TypeInv /\ TreeInv
  BY TypeInit, TreeInit
<1>2. TypeInv /\ TreeInv /\ [Next]_vars => TypeInv' /\ TreeInv'
  BY TypeStep, TreeStep
<1>3. TypeInv /\ TreeInv /\ [Next]_vars =>
        [up /\ up' =>
           TotalCount(tree') + Len(buffer') = TotalCount(tree) + Len(buffer)
             + Cardinality({c \in Clients : pc[c] = "buffer" /\ pc'[c] = "idle"})]_vars
  BY TreeStep DEF Conserves
<1> QED
  BY <1>1, <1>2, <1>3, PTL DEF Spec, MergeConserves

-----------------------------------------------------------------------------
(* What a search returns *)

\* The nodes on a layer.
Layer(g, lev, l) == {n \in 1..Len(g.ids) : lev[n] >= l}

\* No edge leaves its layer.
LEMMA LayerClosed ==
    ASSUME NEW g, Sound(g), NEW lev, Levelled(g, lev), NEW l \in Nat
    PROVE  ClosedOn(g, l, Layer(g, lev, l))
<1> DEFINE x == Len(g.ids)
<1>1. x \in Nat /\ lev \in [1..x -> Nat] /\ GoodEdges(g.edges, x, lev)
  BY SoundFields DEF Levelled
<1> SUFFICES ASSUME NEW n \in Layer(g, lev, l)
             PROVE  g.edges[n][l + 1] \in Seq(Layer(g, lev, l))
  BY DEF ClosedOn
<1> DEFINE list == g.edges[n][l + 1]
<1>2. n \in 1..x /\ l \in 0..lev[n]
  BY <1>1 DEF Layer
<1>3. GoodList(list, lev, n, l)
  BY <1>1, <1>2 DEF GoodEdges
<1>4. list \in Seq(1..x) /\ \A a \in 1..Len(list) : lev[list[a]] >= l
  BY <1>1, <1>3 DEF GoodList
<1> HIDE DEF list
<1>5. \A a \in 1..Len(list) : list[a] \in 1..x
  BY <1>4, ElementOfSeq
<1>6. \A a \in 1..Len(list) : list[a] \in Layer(g, lev, l)
  BY <1>4, <1>5 DEF Layer
<1>7. IsSeq(list)
  BY <1>4, SeqIsSeq
<1>8. list \in Seq(Layer(g, lev, l))
  <2> DEFINE B == Layer(g, lev, l)
  <2>1. \A a \in 1..Len(list) : list[a] \in B
    BY <1>6
  <2> HIDE DEF B
  <2>2. list \in Seq(B)
    BY <1>7, <2>1, SeqOfElements
  <2> QED
    BY <2>2 DEF B
<1> QED
  BY <1>8 DEF list

\* The descent ends on a node of the graph.
LEMMA LowestEntryIsNode ==
    ASSUME NEW g, Sound(g), Len(g.ids) # 0, NEW q, NEW w
    PROVE  LowestLayerEntry(g, q, w) \in 1..Len(g.ids)
<1> DEFINE top == g.top
           entry == g.entry
<1>1. PICK lev : Levelled(g, lev)
  BY DEF Sound
<1> DEFINE Body(y, l) == IF l = top THEN entry ELSE greedy_search_layer_weighted(g, y, q, l + 1, w)
           X == [l \in 0..top |-> Layer(g, lev, l)]
           T == [l \in 0..top |-> [y \in X[l + 1] |-> Body(y, l)]]
           H == CHOOSE h : h = [l \in 0..top |-> Body(h[l + 1], l)]
<1>2. LowestLayerEntry(g, q, w) = H[0]
  BY DEF LowestLayerEntry
<1>3. 0 \in Nat /\ top \in Nat /\ 0 <= top
  BY SoundFields, ConfigsAssumption
<1>a. /\ Len(g.ids) \in Nat /\ lev \in [1..Len(g.ids) -> Nat] /\ entry \in 1..Len(g.ids) /\ lev[entry] = top
  BY <1>1, SoundFields DEF Levelled
<1>4. /\ entry \in X[top] /\ \A y : Body(y, top) = entry
      /\ \A i \in 0..(top - 1) : \A y \in X[i + 1] : T[i][y] = Body(y, i) /\ Body(y, i) \in X[i]
  <2>1. \A i \in 0..top : X[i] = Layer(g, lev, i)
    OBVIOUS
  <2>2. \A i \in 0..(top - 1) : \A y \in X[i + 1] : T[i][y] = Body(y, i)
    <3> HIDE DEF X, Body
    <3> QED
      BY <1>3
  <2>3. \A y : Body(y, top) = entry
    OBVIOUS
  <2>4. ASSUME NEW i \in 0..(top - 1), NEW y \in Layer(g, lev, i + 1)
        PROVE  Body(y, i) \in Layer(g, lev, i)
    <3>1. i + 1 \in Nat /\ i \in Nat /\ i # top
      BY <1>3
    <3>2. Body(y, i) = GreedyWalk(g, y, i + 1, Distances(g, q, w))
      BY <3>1 DEF greedy_search_layer_weighted
    <3>3. ClosedOn(g, i + 1, Layer(g, lev, i + 1))
      BY <1>1, <3>1, LayerClosed
    <3>4. Body(y, i) \in Layer(g, lev, i + 1)
      <4> HIDE DEF Body
      <4> QED
        BY <1>a, <3>2, <3>3, GreedyWalkStays
    <3> HIDE DEF Body
    <3> QED
      BY <1>a, <3>1, <3>4 DEF Layer
  <2>5. \A i \in 0..(top - 1) : i \in 0..top /\ i + 1 \in 0..top
    BY <1>3
  <2>6. top \in 0..top
    BY <1>3
  <2>7. entry \in Layer(g, lev, top)
    BY <1>3, <1>a DEF Layer
  <2> HIDE DEF X, T, Body, top, entry
  <2> QED
    BY <2>1, <2>2, <2>3, <2>4, <2>5, <2>6, <2>7
<1> HIDE DEF top, entry
<1> HIDE DEF X, T, H, Body
<1>5. StepsDown(0, top, X, entry, T)
  BY <1>4 DEF StepsDown
<1>6. PICK f : RunsDown(f, 0, top, X, entry, T)
  BY <1>3, <1>5, RecursionDown
<1>7. f = [i \in 0..top |-> Body(f[i + 1], i)]
  <2>1. /\ f = [i \in 0..top |-> f[i]] /\ f[top] = entry /\ \A i \in 0..(top - 1) : f[i] = T[i][f[i + 1]]
        /\ \A i \in 0..top : f[i] \in X[i]
    BY <1>6 DEF RunsDown
  <2>2. ASSUME NEW i \in 0..(top - 1) PROVE f[i] = Body(f[i + 1], i)
    <3>1. i + 1 \in 0..top
      BY <1>3
    <3> QED
      BY <1>4, <2>1, <3>1
  <2>3. ASSUME NEW i \in 0..top PROVE f[i] = Body(f[i + 1], i)
    <3>1. i = top \/ i \in 0..(top - 1)
      BY <1>3
    <3> QED
      BY <1>4, <2>1, <2>2, <3>1
  <2> QED
    BY <2>1, <2>3
<1>8. H = [i \in 0..top |-> Body(H[i + 1], i)]
  BY <1>7 DEF H
<1>9. \A i \in 0..top : H[i] \in X[i]
  <2>1. top \in 0..top
    BY <1>3
  <2>2. H[top] = Body(H[top + 1], top)
    BY <1>8, <2>1
  <2>3. H[top] \in X[top]
    BY <1>4, <2>2
  <2>4. ASSUME NEW i \in 0..(top - 1), H[i + 1] \in X[i + 1] PROVE H[i] \in X[i]
    <3>1. i \in 0..top
      BY <1>3
    <3>2. H[i] = Body(H[i + 1], i)
      BY <1>8, <3>1
    <3> QED
      BY <1>4, <2>4, <3>2
  <2> QED
    BY <1>3, <2>3, <2>4, StaysDown
<1>10. H[0] \in Layer(g, lev, 0)
  BY <1>3, <1>9 DEF X
<1> QED
  BY <1>2, <1>10 DEF Layer

\* Every result is a scored live node of the index.
FromIndex(r, g) ==
  /\ IsSeq(r)
  /\ \A i \in 1..Len(r) : r[i].score \in Int /\ \E n \in NodesOf(g) : g.ids[n] = r[i].id /\ ~g.del[n]

\* A list of nodes becomes a list of their ids and distances.
LEMMA ResultsFromIndex ==
    ASSUME config \in Configs, NEW g, Sound(g), NEW q \in Points, NEW w \in Int, NEW nodes, IsSeq(nodes),
           \A i \in 1..Len(nodes) : nodes[i] \in 1..Len(g.ids) /\ ~g.del[nodes[i]]
    PROVE  FromIndex(ResultsOf(g, nodes, q, w), g)
<1> DEFINE m == Len(nodes)
           f == [k \in 1..m |-> [id |-> g.ids[nodes[k]], score |-> distance_weighted(g.vec[nodes[k]], q, w)]]
           r == ResultsOf(g, nodes, q, w)
<1>1. m \in Nat /\ DOMAIN nodes = 1..m
  BY IsSeqFacts
<1>2. r = Fixed(f)
  BY <1>1 DEF ResultsOf
<1>3. NodesOf(g) = 1..Len(g.ids) /\ g.vec \in Seq(Points) /\ DOMAIN g.vec = 1..Len(g.ids) /\ Len(g.vec) = Len(g.ids)
  BY SoundFields
<1>4. f = [k \in 1..m |-> f[k]]
  OBVIOUS
<1>5. ASSUME NEW k \in 1..m
      PROVE  f[k].score \in Int /\ \E n \in NodesOf(g) : g.ids[n] = f[k].id /\ ~g.del[n]
  <2>1. nodes[k] \in 1..Len(g.ids) /\ ~g.del[nodes[k]]
    OBVIOUS
  <2>a. g.vec[nodes[k]] \in Points
    BY <2>1, SoundFields DEF Vectors
  <2>2. g.vec[nodes[k]] \in Int /\ q \in Int
    BY <2>a, PointsFit
  <2>3. distance_weighted(g.vec[nodes[k]], q, w) \in Int
    BY <2>2, DistanceIsInt
  <2>4. f[k].id = g.ids[nodes[k]] /\ f[k].score \in Int
    BY <2>3
  <2> HIDE DEF f
  <2> QED
    BY <1>3, <2>1, <2>4
<1> HIDE DEF f, r, m
<1>6. IsSeq(r) /\ r = f /\ Len(r) = m
  BY <1>1, <1>2, <1>4, FixedIsSeq, FunctionIsSeq
<1>7. FromIndex(r, g)
  BY <1>5, <1>6 DEF FromIndex
<1> QED
  BY <1>7 DEF r

\* search on the index returns live nodes only.
LEMMA HnswFinds ==
    ASSUME config \in Configs, NEW g, Sound(g), NEW q \in Points, NEW ef \in Nat, NEW w \in Int
    PROVE  FromIndex(hnsw_search(g, q, ef, w), g)
<1>1. CASE g.ids = <<>>
  <2>1. hnsw_search(g, q, ef, w) = <<>>
    BY <1>1 DEF hnsw_search
  <2>2. Len(<<>>) = 0 /\ 1..0 = {} /\ IsSeq(<<>>)
    BY TotalEmpty DEF Counted
  <2> QED
    BY <2>1, <2>2 DEF FromIndex
<1>2. CASE g.ids # <<>>
  <2> DEFINE x == Len(g.ids)
             dist == Distances(g, q, w)
             start == LowestLayerEntry(g, q, w)
             found == EfSearch(g, start, ef, 0, dist)
             K == {i \in DOMAIN found : ~g.del[found[i]]}
             live == LiveNodes(g, found)
             nodes == Truncate(live, ef)
  <2>0. hnsw_search(g, q, ef, w) = ResultsOf(g, nodes, q, w)
    BY <1>2 DEF hnsw_search, search_layer_weighted
  <2>1. x \in Nat /\ x # 0 /\ Vectors(g, x)
    <3>1. IsSeq(g.ids)
      BY SoundFields, SeqIsSeq
    <3> QED
      BY <1>2, <3>1, NotEmpty, SoundFields
  <2>2. start \in 1..x
    BY <2>1, LowestEntryIsNode
  <2>3. PICK lev : Levelled(g, lev)
    BY DEF Sound
  <2>4. Layer(g, lev, 0) = 1..x
    BY <2>1, <2>3 DEF Levelled, Layer
  <2>5. ClosedOn(g, 0, 1..x)
    <3>1. 0 \in Nat
      OBVIOUS
    <3> QED
      BY <2>3, <2>4, <3>1, LayerClosed
  <2>6. Measured(dist, 1..x, 1..x)
    <3>1. 1..x \in SUBSET (1..x)
      OBVIOUS
    <3> QED
      BY <2>1, <3>1, DistancesMeasured
  <2> HIDE DEF dist, start
  <2>7. PICK S \in SUBSET (1..x) : Lists(found, S)
    <3> DEFINE L == 1..x
    <3>1. Len(g.ids) \in Nat /\ ClosedOn(g, 0, L) /\ start \in L /\ Measured(dist, L, L)
      BY <2>1, <2>2, <2>5, <2>6
    <3> HIDE DEF L
    <3>2. \E S \in SUBSET L : Lists(EfSearch(g, start, ef, 0, dist), S)
      BY <3>1, EfSearchLists
    <3> QED
      BY <3>2 DEF L
  <2>8. IsSeq(found) /\ DOMAIN found = 1..Len(found) /\ \A i \in 1..Len(found) : found[i] \in 1..x
    <3>1. found \in Seq(S)
      BY <2>7 DEF Lists
    <3>2. \A i \in 1..Len(found) : found[i] \in S
      BY <3>1, ElementOfSeq
    <3>3. IsSeq(found)
      BY <3>1, SeqIsSeq
    <3> QED
      BY <3>2, <3>3, IsSeqFacts
  <2>9. live = Fixed([k \in DOMAIN Sorted(K) |-> found[Sorted(K)[k]]])
    BY DEF LiveNodes, KeepIndices
  <2> HIDE DEF found, live
  <2>10. PickedFrom(live, found, K)
    <3>1. K \in SUBSET (DOMAIN found)
      OBVIOUS
    <3> HIDE DEF K
    <3> QED
      BY <2>8, <2>9, <3>1, KeptPicked
  <2>11. IsSeq(live) /\ \A a \in 1..Len(live) : live[a] \in 1..x /\ ~g.del[live[a]]
    BY <2>8, <2>10 DEF PickedFrom
  <2>12. /\ IsSeq(nodes) /\ Len(nodes) <= Len(live) /\ Len(nodes) \in Nat /\ Len(live) \in Nat
         /\ \A i \in 1..Len(nodes) : nodes[i] = live[i]
    BY <2>11, TruncateFacts, IsSeqFacts
  <2> HIDE DEF nodes
  <2>13. \A i \in 1..Len(nodes) : nodes[i] \in 1..x /\ ~g.del[nodes[i]]
    BY <2>11, <2>12
  <2>14. FromIndex(ResultsOf(g, nodes, q, w), g)
    BY <2>12, <2>13, ResultsFromIndex
  <2> QED
    BY <2>0, <2>14
<1> QED
  BY <1>1, <1>2

\* Every result has a score and an id of the list s.
FromList(r, s) == IsSeq(r) /\ \A i \in 1..Len(r) : r[i].score \in Int /\ r[i].id \in IdsOf(s)

\* all scores the elements of s.
Scores(all, s) ==
  /\ all = [i \in 1..Len(s) |-> all[i]]
  /\ \A i \in 1..Len(s) : all[i].id = s[i].id /\ all[i].score \in Int

\* The closest of a list, by score.
LEMMA ClosestFromList ==
    ASSUME NEW s, IsSeq(s), NEW all, Scores(all, s), NEW k \in Nat,
           NEW r, r = Truncate(StableSort(Fixed(all), Ascending), k)
    PROVE  FromList(r, s)
<1> DEFINE t == StableSort(all, Ascending)
<1>1. Len(s) \in Nat /\ DOMAIN s = 1..Len(s)
  BY IsSeqFacts
<1>2. /\ all = [i \in 1..Len(s) |-> all[i]]
      /\ \A i \in 1..Len(s) : all[i].id = s[i].id /\ all[i].score \in Int
  BY DEF Scores
<1>3. IsSeq(all) /\ Fixed(all) = all /\ Len(all) = Len(s)
  BY <1>1, <1>2, FixedIsSeq, FunctionIsSeq
<1>4. DOMAIN all = 1..Len(s)
  BY <1>3, IsSeqFacts
<1>5. Scored(all)
  BY <1>2, <1>4 DEF Scored
<1>6. IsSeq(t) /\ \A a \in DOMAIN t : \E i \in DOMAIN all : t[a] = all[i]
  BY <1>3, <1>5, SortAscending
<1>7. r = Truncate(t, k)
  BY <1>3
<1> HIDE DEF t
<1>8. /\ IsSeq(r) /\ Len(r) <= Len(t) /\ Len(r) \in Nat /\ Len(t) \in Nat /\ DOMAIN t = 1..Len(t)
      /\ \A i \in 1..Len(r) : r[i] = t[i]
  BY <1>6, <1>7, TruncateFacts, IsSeqFacts
<1>9. ASSUME NEW i \in 1..Len(r) PROVE r[i].score \in Int /\ r[i].id \in IdsOf(s)
  <2>1. i \in DOMAIN t /\ r[i] = t[i]
    BY <1>8
  <2>2. PICK j \in 1..Len(s) : r[i] = all[j]
    BY <1>4, <1>6, <2>1
  <2>3. r[i].score \in Int /\ r[i].id = s[j].id
    BY <1>2, <2>2
  <2> QED
    BY <1>1, <2>3 DEF IdsOf
<1> QED
  BY <1>8, <1>9 DEF FromList

\* HotBuffer::search returns ids of the buffer.
LEMMA BufferFinds ==
    ASSUME NEW b \in Seq(Buffered), NEW q \in Points, NEW k \in Nat
    PROVE  FromList(buffer_search(b, q, k), b)
<1> DEFINE all == [i \in 1..Len(b) |-> [id |-> b[i].id, score |-> 1 - b[i].vec * q]]
<1>1. IsSeq(b) /\ Len(b) \in Nat /\ DOMAIN b = 1..Len(b)
  BY SeqIsSeq
<1>2. \A i \in 1..Len(b) : b[i].vec \in Int
  <2>1. \A i \in 1..Len(b) : b[i] \in Buffered
    BY ElementOfSeq
  <2> QED
    BY <2>1, PointsFit DEF Buffered
<1>3. q \in Int
  BY PointsFit
<1>4. buffer_search(b, q, k) = Truncate(StableSort(Fixed(all), Ascending), k)
  BY <1>1 DEF buffer_search
<1>5. ASSUME NEW i \in 1..Len(b) PROVE all[i].id = b[i].id /\ all[i].score \in Int
  <2> DEFINE v == b[i].vec
  <2>1. v \in Int
    BY <1>2
  <2> HIDE DEF v
  <2>2. 1 - v * q \in Int
    BY <1>3, <2>1
  <2> QED
    BY <2>2 DEF v
<1>6. all = [i \in 1..Len(b) |-> all[i]]
  OBVIOUS
<1> HIDE DEF all
<1>7. Scores(all, b)
  BY <1>5, <1>6 DEF Scores
<1> QED
  BY <1>1, <1>4, <1>7, ClosestFromList

\* MerkleTree::search returns cluster ids.
LEMMA TreeFinds ==
    ASSUME NEW t, IsSeq(t.leaves), NEW q, NEW k \in Nat
    PROVE  FromList(tree_search(t, q, k), t.leaves)
<1> DEFINE s == t.leaves
           all == [i \in 1..Len(s) |-> [id |-> s[i].id, score |-> centroid_distance(s[i], q)]]
<1>1. IsSeq(s) /\ Len(s) \in Nat /\ DOMAIN s = 1..Len(s)
  BY IsSeqFacts
<1>2. \A l : centroid_distance(l, q) \in Int
  <2>1. \A v : Sign(v) \in {-1, 0, 1}
    BY DEF Sign
  <2>2. \A c, d \in {-1, 0, 1} : 1 - c * d \in Int
    OBVIOUS
  <2> QED
    BY <2>1, <2>2 DEF centroid_distance
<1>4. tree_search(t, q, k) = Truncate(StableSort(Fixed(all), Ascending), k)
  BY <1>1 DEF tree_search
<1>5. \A i \in 1..Len(s) : all[i].id = s[i].id /\ all[i].score \in Int
  BY <1>2
<1>6. all = [i \in 1..Len(s) |-> all[i]]
  OBVIOUS
<1> HIDE DEF all
<1>7. Scores(all, s)
  BY <1>5, <1>6 DEF Scores
<1> QED
  BY <1>1, <1>4, <1>7, ClosestFromList

\* Every element of u is one of s or one of t.
MadeOf(u, s, t) ==
  /\ IsSeq(u)
  /\ \A i \in 1..Len(u) : (\E j \in 1..Len(s) : u[i] = s[j]) \/ (\E j \in 1..Len(t) : u[i] = t[j])

\* A concatenation has the elements of its two parts and no others.
LEMMA ConcatElements ==
    ASSUME NEW s, NEW t, IsSeq(s), IsSeq(t), NEW u, u = s \o t
    PROVE  MadeOf(u, s, t)
<1> DEFINE Y == {s[i] : i \in DOMAIN s}
           Z == {t[i] : i \in DOMAIN t}
<1>1. s \in Seq(Y \cup Z) /\ t \in Seq(Y \cup Z)
  <2>1. s \in Seq(Y) /\ t \in Seq(Z)
    BY DEF IsSeq
  <2> HIDE DEF Y, Z
  <2> QED
    BY <2>1
<1>2. IsSeq(u)
  BY ConcatIsSeq
<1> HIDE DEF Y, Z
<1>3. Len(s) \in Nat /\ Len(t) \in Nat /\ Len(u) = Len(s) + Len(t)
  BY <1>1
<1>4. ASSUME NEW i \in 1..Len(u)
      PROVE  (\E j \in 1..Len(s) : u[i] = s[j]) \/ (\E j \in 1..Len(t) : u[i] = t[j])
  <2>1. CASE i <= Len(s)
    <3>1. i \in 1..Len(s) /\ u[i] = s[i]
      BY <1>1, <1>3, <2>1
    <3> QED
      BY <3>1
  <2>2. CASE ~(i <= Len(s))
    <3>1. i - Len(s) \in 1..Len(t) /\ u[i] = t[i - Len(s)]
      BY <1>1, <1>3, <2>2
    <3> QED
      BY <3>1
  <2> QED
    BY <2>1, <2>2
<1> QED
  BY <1>2, <1>4 DEF MadeOf

\* As many ids as results.
LEMMA IdsCounted ==
    ASSUME NEW r, IsSeq(r), \A a, b \in DOMAIN r : r[a].id = r[b].id => a = b
    PROVE  Cardinality(IdsOf(r)) = Len(r)
<1> DEFINE f == [i \in 1..Len(r) |-> r[i].id]
<1>1. Len(r) \in Nat /\ DOMAIN r = 1..Len(r)
  BY IsSeqFacts
<1>2. f = [i \in 1..Len(r) |-> f[i]] /\ \A i \in 1..Len(r) : f[i] = r[i].id
  OBVIOUS
<1> HIDE DEF f
<1>3. IsSeq(f) /\ Len(f) = Len(r)
  BY <1>1, <1>2, FunctionIsSeq
<1>4. DOMAIN f = 1..Len(r)
  BY <1>3, IsSeqFacts
<1>5. ToSet(f) = IdsOf(r)
  BY <1>1, <1>2, <1>4 DEF ToSet, IdsOf
<1>6. Once(f)
  BY <1>1, <1>2, <1>3 DEF Once
<1> QED
  BY <1>3, <1>5, <1>6, OnceCounts

\* For any index, buffer and tree the engine can have, and any number of results
\* asked for: at most so many, closest first, each id once, and no tombstoned node.
THEOREM SearchAlwaysSound == Spec => []SearchSound
<1>1. Init => TypeInv /\ TreeInv
  BY TypeInit, TreeInit
<1>2. TypeInv /\ TreeInv /\ [Next]_vars => TypeInv' /\ TreeInv'
  BY TypeStep, TreeStep
<1>3. TypeInv /\ TreeInv => SearchSound
  <2> SUFFICES ASSUME TypeInv, TreeInv, NEW q \in Points, NEW k \in Ks
               PROVE  ResultSound(engine_search(q, k, 1), k)
    BY DEF SearchSound
  <2> DEFINE A == hnsw_search(graph, q, k, 1)
             B == buffer_search(buffer, q, k)
             C == tree_search(tree, q, k)
             AB == A \o B
             all == AB \o C
             r == Truncate(DedupById(StableSort(all, Ascending)), k)
  <2>1. engine_search(q, k, 1) = r
    BY DEF engine_search, search_tiers
  <2>2. k \in Nat /\ 1 \in Int
    BY ResultSizes
  <2>3. FromIndex(A, graph)
    BY <2>2, HnswFinds DEF TypeInv
  <2>4. FromList(B, buffer)
    BY <2>2, BufferFinds DEF TypeInv
  <2>5. FromList(C, tree.leaves)
    BY <2>2, TreeFinds DEF TreeInv, TreeOK, GoodLeaves
  <2> HIDE DEF A, B, C
  <2> DEFINE Found(x) == \/ \E n \in NodesOf(graph) : graph.ids[n] = x.id /\ ~graph.del[n]
                         \/ x.id \in IdsOf(buffer) \/ x.id \in IdsOf(tree.leaves)
  <2>6. /\ IsSeq(A) /\ \A i \in 1..Len(A) : A[i].score \in Int /\ Found(A[i])
        /\ IsSeq(B) /\ \A i \in 1..Len(B) : B[i].score \in Int /\ Found(B[i])
        /\ IsSeq(C) /\ \A i \in 1..Len(C) : C[i].score \in Int /\ Found(C[i])
    BY <2>3, <2>4, <2>5 DEF FromIndex, FromList
  <2> HIDE DEF Found
  <2>7. IsSeq(AB) /\ \A i \in 1..Len(AB) : AB[i].score \in Int /\ Found(AB[i])
    <3>0. AB = A \o B /\ IsSeq(A) /\ IsSeq(B)
      BY <2>6
    <3> HIDE DEF AB
    <3>1. /\ IsSeq(AB)
          /\ \A i \in 1..Len(AB) : (\E j \in 1..Len(A) : AB[i] = A[j]) \/ (\E j \in 1..Len(B) : AB[i] = B[j])
      <4>1. MadeOf(AB, A, B)
        BY ONLY <3>0, ConcatElements
      <4> QED
        BY <4>1 DEF MadeOf
    <3> QED
      BY <2>6, <3>1
  <2> HIDE DEF AB
  <2>8. IsSeq(all) /\ \A i \in 1..Len(all) : all[i].score \in Int /\ Found(all[i])
    <3>0. all = AB \o C /\ IsSeq(AB) /\ IsSeq(C)
      BY <2>6, <2>7
    <3> HIDE DEF all
    <3>1. /\ IsSeq(all)
          /\ \A i \in 1..Len(all) : (\E j \in 1..Len(AB) : all[i] = AB[j]) \/ (\E j \in 1..Len(C) : all[i] = C[j])
      <4>1. MadeOf(all, AB, C)
        BY ONLY <3>0, ConcatElements
      <4> QED
        BY <4>1 DEF MadeOf
    <3> QED
      BY <2>6, <2>7, <3>1
  <2> HIDE DEF all
  <2>9. DOMAIN all = 1..Len(all)
    BY <2>8, IsSeqFacts
  <2>10. Scored(all)
    BY <2>8, <2>9 DEF Scored
  <2>11. LowestOf(all, r, k)
    BY <2>2, <2>8, <2>10, SortAscendingDedupTruncate
  <2> HIDE DEF r
  <2>12. /\ IsSeq(r) /\ Len(r) <= k
         /\ \A i \in DOMAIN r : \E j \in DOMAIN all : r[i] = all[j]
         /\ \A a, b \in DOMAIN r : r[a].id = r[b].id => a = b
         /\ \A a, b \in DOMAIN r : a < b => r[a].score <= r[b].score
    BY <2>11 DEF LowestOf
  <2>13. Cardinality(IdsOf(r)) = Len(r)
    BY <2>12, IdsCounted
  <2>14. \A i \in 1..Len(r) - 1 : r[i].score <= r[i + 1].score
    <3>1. Len(r) \in Nat /\ DOMAIN r = 1..Len(r)
      BY <2>12, IsSeqFacts
    <3>2. \A i \in 1..Len(r) - 1 : i \in DOMAIN r /\ i + 1 \in DOMAIN r /\ i < i + 1
      BY <3>1
    <3> QED
      BY <2>12, <3>2
  <2>15. \A i \in DOMAIN r : Found(r[i])
    BY <2>8, <2>9, <2>12
  <2>16. ResultSound(r, k)
    BY <2>12, <2>13, <2>14, <2>15 DEF ResultSound, Found
  <2> QED
    BY <2>1, <2>16
<1> QED
  BY <1>1, <1>2, <1>3, PTL DEF Spec

\* The ids of the results are those of the nodes.
IdsFrom(r, g, nodes) == IdsOf(r) = {g.ids[nodes[i]] : i \in 1..Len(nodes)}

\* The results made from nodes carry the ids of those nodes.
LEMMA ResultIds ==
    ASSUME NEW g, NEW q, NEW w, NEW nodes, IsSeq(nodes)
    PROVE  IdsFrom(ResultsOf(g, nodes, q, w), g, nodes)
<1> DEFINE m == Len(nodes)
           f == [k \in 1..m |-> [id |-> g.ids[nodes[k]], score |-> distance_weighted(g.vec[nodes[k]], q, w)]]
           r == ResultsOf(g, nodes, q, w)
<1>1. m \in Nat /\ DOMAIN nodes = 1..m
  BY IsSeqFacts
<1>2. r = Fixed(f)
  BY <1>1 DEF ResultsOf
<1>3. f = [k \in 1..m |-> f[k]] /\ \A k \in 1..m : f[k].id = g.ids[nodes[k]]
  OBVIOUS
<1> HIDE DEF f, r, m
<1>4. r = f /\ DOMAIN f = 1..m
  BY <1>1, <1>2, <1>3, FixedIsSeq
<1>5. IdsOf(r) = {g.ids[nodes[i]] : i \in 1..m}
  <2>1. IdsOf(r) = {f[i].id : i \in 1..m}
    BY <1>4 DEF IdsOf
  <2> QED
    BY <1>3, <2>1
<1> QED
  BY <1>5 DEF IdsFrom, r, m

\* A search with room for everything finds everything in a small graph without
\* tombstones.
LEMMA SmallFindsAll ==
    ASSUME config \in Configs, NEW g, Sound(g), Roomy(Len(g.ids)), \A n \in 1..Len(g.ids) : ~g.del[n],
           NEW q \in Points, NEW w \in Int
    PROVE  IdsOf(hnsw_search(g, q, Len(g.ids), w)) = ToSet(g.ids)
<1>1. CASE g.ids = <<>>
  <2>1. hnsw_search(g, q, Len(g.ids), w) = <<>>
    BY <1>1 DEF hnsw_search
  <2>2. DOMAIN <<>> = {}
    OBVIOUS
  <2> QED
    BY <1>1, <2>1, <2>2 DEF IdsOf, ToSet
<1>2. CASE g.ids # <<>>
  <2> DEFINE x == Len(g.ids)
             L == 1..x
             dist == Distances(g, q, w)
             start == LowestLayerEntry(g, q, w)
             found == EfSearch(g, start, x, 0, dist)
             K == {i \in DOMAIN found : ~g.del[found[i]]}
             live == LiveNodes(g, found)
             nodes == Truncate(live, x)
  <2>0. hnsw_search(g, q, Len(g.ids), w) = ResultsOf(g, nodes, q, w)
    BY <1>2 DEF hnsw_search, search_layer_weighted
  <2>1. x \in Nat /\ x # 0 /\ Vectors(g, x) /\ DOMAIN g.ids = L
    <3>1. IsSeq(g.ids)
      BY SoundFields, SeqIsSeq
    <3> QED
      BY <1>2, <3>1, NotEmpty, SoundFields
  <2>2. start \in L
    BY <2>1, LowestEntryIsNode
  <2>3. PICK lev : Levelled(g, lev)
    BY DEF Sound
  <2>4. Layer(g, lev, 0) = L
    BY <2>1, <2>3 DEF Levelled, Layer
  <2>5. ClosedOn(g, 0, L)
    <3>1. 0 \in Nat
      OBVIOUS
    <3> QED
      BY <2>3, <2>4, <3>1, LayerClosed
  <2>6. Measured(dist, L, L)
    <3>1. L \in SUBSET L
      OBVIOUS
    <3> QED
      BY <2>1, <3>1, DistancesMeasured
  <2>7. AllLinked(g.edges, 0, L) /\ \A n \in L : ~g.del[n]
    BY DEF Sound, SmallMeshed
  <2>8. IsFiniteSet(L) /\ Cardinality(L) = x /\ Cardinality(L) <= x
    BY <2>1, CountTo
  <2>9. Lists(found, L)
    <3>1. Len(g.ids) \in Nat /\ L \in SUBSET (1..Len(g.ids)) /\ x \in Nat
      BY <2>1
    <3> HIDE DEF L, dist, start, x
    <3> QED
      BY <2>2, <2>5, <2>6, <2>7, <2>8, <3>1, EfSearchFindsAll
  <2> HIDE DEF dist, start
  <2>10. live = Fixed([k \in DOMAIN Sorted(K) |-> found[Sorted(K)[k]]])
    BY DEF LiveNodes, KeepIndices
  <2> HIDE DEF found, live, L, x
  <2>11. IsSeq(found) /\ ToSet(found) = L /\ Len(found) = x /\ DOMAIN found = 1..x
    <3>1. IsSeq(found) /\ ToSet(found) = L /\ Len(found) = x
      BY <2>8, <2>9, ListsAll DEF Lists
    <3> QED
      BY <3>1, IsSeqFacts
  <2>12. K = 1..x
    <3>1. \A i \in DOMAIN found : found[i] \in L
      BY <2>11 DEF ToSet
    <3> QED
      BY <2>7, <2>11, <3>1
  <2>13. PickedFrom(live, found, K)
    <3>1. K \in SUBSET (DOMAIN found)
      OBVIOUS
    <3> HIDE DEF K
    <3> QED
      BY <2>10, <2>11, <3>1, KeptPicked
  <2> HIDE DEF K
  <2>14. /\ IsSeq(live) /\ Len(live) = x
         /\ \A a \in 1..Len(live) : \E i \in 1..x : live[a] = found[i]
         /\ \A i \in 1..x : \E a \in 1..Len(live) : live[a] = found[i]
    <3>1. Cardinality(1..x) = x
      BY <2>1, CountTo
    <3> QED
      BY <2>12, <2>13, <3>1 DEF PickedFrom
  <2>15. nodes = live
    <3>1. Len(live) <= x
      BY <2>1, <2>14
    <3> QED
      BY <2>1, <2>14, <3>1, TruncateAll
  <2> HIDE DEF nodes
  <2>16. \A a \in 1..x : live[a] \in L
    BY <2>11, <2>14 DEF ToSet
  <2>17. \A n \in L : \E a \in 1..x : live[a] = n
    <3> SUFFICES ASSUME NEW n \in L PROVE \E a \in 1..x : live[a] = n
      OBVIOUS
    <3>1. PICK i \in 1..x : found[i] = n
      BY <2>11 DEF ToSet
    <3> QED
      BY <2>14, <3>1
  <2>18. IdsOf(ResultsOf(g, nodes, q, w)) = {g.ids[live[i]] : i \in 1..x}
    <3>1. IdsFrom(ResultsOf(g, live, q, w), g, live)
      BY <2>14, ResultIds
    <3> QED
      BY <2>14, <2>15, <3>1 DEF IdsFrom
  <2>19. ToSet(g.ids) = {g.ids[n] : n \in L}
    BY <2>1 DEF ToSet
  <2>20. {g.ids[live[i]] : i \in 1..x} = {g.ids[n] : n \in L}
    BY <2>16, <2>17
  <2> QED
    BY <2>0, <2>18, <2>19, <2>20
<1> QED
  BY <1>1, <1>2

\* For any index the engine can have, before and after reopening: as long as no
\* list was shrunk and nothing is tombstoned, search with room for all of it
\* finds all of it, for any query and mask.
THEOREM SmallGraphAlwaysComplete == Spec => []SmallGraphComplete
<1>1. Init => TypeInv
  BY TypeInit
<1>2. TypeInv /\ [Next]_vars => TypeInv'
  BY TypeStep
<1>3. TypeInv => SmallGraphComplete
  <2> SUFFICES ASSUME TypeInv, Len(graph.ids) <= config.m_max0 + 1, Len(graph.ids) <= config.ef_construction + 1,
                      \A n \in NodesOf(graph) : ~graph.del[n],
                      NEW q \in Points, NEW w \in Weights \cup {1}
               PROVE  IdsOf(hnsw_search(graph, q, Len(graph.ids), w)) = ToSet(graph.ids)
    BY DEF SmallGraphComplete
  <2>1. config \in Configs /\ Sound(graph)
    BY DEF TypeInv
  <2>2. w \in Int
    BY WeightsFit
  <2>3. Roomy(Len(graph.ids))
    BY DEF Roomy
  <2>4. \A n \in 1..Len(graph.ids) : ~graph.del[n]
    BY <2>1, SoundFields
  <2> QED
    BY <2>1, <2>2, <2>3, <2>4, SmallFindsAll
<1> QED
  BY <1>1, <1>2, <1>3, PTL DEF Spec

=============================================================================
