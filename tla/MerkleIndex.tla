----------------------------- MODULE MerkleIndex -----------------------------
(***************************************************************************)
(* The progressive Merkle tree over cluster centroids and the hot buffer   *)
(* in front of it (tesseract-index/src/merkle/).                           *)
(*                                                                         *)
(* A centroid is the exact fraction num / den of its one coordinate.  Of   *)
(* the tree above the leaves only the root's count and hash are kept:      *)
(* every operation works on the leaves in their order.  A hash is modelled *)
(* by what was hashed (blake3 as an injection).                            *)
(***************************************************************************)
EXTENDS Ranking, Integers, SequencesExt

CONSTANTS Capacity,   \* MerkleConfig.hot_buffer_capacity
          MaxCluster  \* MerkleConfig.max_cluster_size
ASSUME CapacitiesAssumption == Capacity \in Nat /\ MaxCluster \in Nat \ {0}

VARIABLES buffer,  \* HotBuffer.vectors: a sequence of [id, vec]
          tree     \* MerkleTree: leaves by cluster id, the root, next_cluster_id

leaf_hash(l) == <<l.num, l.den, l.count, l.id>>
recompute_hash(l) == [l EXCEPT !.hash = leaf_hash(l)]

NewLeaf(id, num, den, count) ==
  recompute_hash([id |-> id, num |-> num, den |-> den, count |-> count, hash |-> <<>>])

\* centroid_distance: cosine in one dimension, 1 when a norm is 0.
Sign(x) == IF x > 0 THEN 1 ELSE IF x < 0 THEN -1 ELSE 0
centroid_distance(l, q) == 1 - Sign(l.num) * Sign(q)

\* build_tree: neighbours are paired level by level; an odd last node, and so the
\* root, is promoted as it is.
Parents(nodes) ==
  Fixed([k \in 1..(Len(nodes) + 1) \div 2 |->
           IF 2 * k > Len(nodes) THEN nodes[2 * k - 1]
           ELSE [count |-> nodes[2 * k - 1].count + nodes[2 * k].count,
                 hash |-> <<nodes[2 * k - 1].hash, nodes[2 * k].hash>>]])

build_root(leaves) ==
  LET Level[k \in 0..Len(leaves)] ==
        IF k = 0 THEN Fixed([i \in DOMAIN leaves |-> [count |-> leaves[i].count, hash |-> leaves[i].hash]])
        ELSE Parents(Level[k - 1])
  IN  Level[Len(leaves)]

ById(a, b) == a.id < b.id

build_sorted(sorted, next) == [leaves |-> sorted, root |-> build_root(sorted), next |-> next]

\* Mutant of build_tree: the leaves stay where splitting left them.
build_tree_Unsorted(leaves, next) == build_sorted(leaves, next)

build_tree(leaves, next) == build_sorted(StableSort(leaves, ById), next)

EmptyTree == [leaves |-> <<>>, root |-> <<>>, next |-> 1]

-----------------------------------------------------------------------------
\* min_by keeps the first of equal minima.
find_nearest_in_leaves(leaves, v) ==
  CHOOSE i \in DOMAIN leaves :
    \A j \in DOMAIN leaves :
      LET di == centroid_distance(leaves[i], v)
          dj == centroid_distance(leaves[j], v)
      IN  di < dj \/ (di = dj /\ i <= j)

SumOf(vectors) ==
  LET Add(acc, bv) == acc + bv.vec IN Fold(Add, 0, vectors)

\* The vectors of a cluster move its centroid to the weighted average.
Absorb(l, mine) ==
  IF mine = <<>> THEN l
  ELSE [l EXCEPT !.num = l.num * l.count + SumOf(mine) * l.den,
                 !.den = l.den * (l.count + Len(mine)),
                 !.count = l.count + Len(mine)]

\* Phases 1 to 3 on a tree that has leaves: every vector goes to a leaf.  The
\* leaves do not move in between.
UpdateLeaves(leaves, vectors) ==
  LET Mine(i) == KeepIndices(vectors, LAMBDA j : find_nearest_in_leaves(leaves, vectors[j].vec) = i)
  IN  Fixed([i \in DOMAIN leaves |-> recompute_hash(Absorb(leaves[i], Mine(i)))])

\* On an empty tree every vector is a leaf of its own.
FirstLeaves(vectors, next) ==
  Fixed([i \in DOMAIN vectors |-> NewLeaf(next + i - 1, vectors[i].vec, 1, 1)])

\* split_centroid moves the centroid by epsilon = 1/100 both ways.
SplitLeaf(l, next) ==
  << NewLeaf(next, l.num * 100 + l.den, l.den * 100, l.count \div 2),
     NewLeaf(next + 1, l.num * 100 - l.den, l.den * 100, l.count - l.count \div 2) >>

\* One pass of phase 4 over the leaves.
SplitPass(state) ==
  LET One(acc, l) ==
        IF l.count <= MaxCluster
        THEN [acc EXCEPT !.leaves = Append(@, l)]
        ELSE [leaves |-> acc.leaves \o SplitLeaf(l, acc.next), next |-> acc.next + 2]
  IN  Fold(One, [leaves |-> <<>>, next |-> state.next], state.leaves)

\* Passes until no leaf is too large: a leaf of c vectors needs fewer than c.
SplitAll(leaves, next) ==
  LET Largest == CHOOSE c \in {leaves[i].count : i \in DOMAIN leaves} :
                   \A i \in DOMAIN leaves : leaves[i].count <= c
      Pass[k \in 0..Largest] ==
        IF k = 0 THEN [leaves |-> leaves, next |-> next] ELSE SplitPass(Pass[k - 1])
  IN  Pass[Largest]

insert_batch(t, vectors) ==
  IF vectors = <<>> THEN t
  ELSE LET grown == IF t.leaves = <<>> THEN FirstLeaves(vectors, t.next)
                    ELSE UpdateLeaves(t.leaves, vectors)
           next == IF t.leaves = <<>> THEN t.next + Len(vectors) ELSE t.next
           Build(split) == build_tree(split.leaves, split.next)
       IN  Build(SplitAll(grown, next))

\* MerkleTree::search: a result carries a cluster id.
tree_search(t, q, k) ==
  LET all == Fixed([i \in DOMAIN t.leaves |->
                      [id |-> t.leaves[i].id, score |-> centroid_distance(t.leaves[i], q)]])
  IN  Truncate(StableSort(all, Ascending), k)

-----------------------------------------------------------------------------
\* HotBuffer::search: the distance is 1 - dot, whatever the index's metric.
buffer_search(b, q, k) ==
  LET all == Fixed([i \in DOMAIN b |-> [id |-> b[i].id, score |-> 1 - b[i].vec * q]])
  IN  Truncate(StableSort(all, Ascending), k)

\* Mutant of BufferInsert: the merge starts one vector too late.
BufferInsert_Late(id, v) ==
  LET filled == Append(buffer, [id |-> id, vec |-> v])
  IN  IF Len(filled) > Capacity
      THEN buffer' = <<>> /\ tree' = insert_batch(tree, filled)
      ELSE buffer' = filled /\ tree' = tree

\* The buffer part of StorageEngine::insert: the lock is held over the merge, so
\* the merging flag is never found set.
BufferInsert(id, v) ==
  LET filled == Append(buffer, [id |-> id, vec |-> v])
  IN  IF Len(filled) >= Capacity
      THEN buffer' = <<>> /\ tree' = insert_batch(tree, filled)
      ELSE buffer' = filled /\ tree' = tree

\* Mutant of DrainBuffer: the vectors are copied, not taken.
DrainBuffer_Copy == buffer' = buffer /\ tree' = insert_batch(tree, buffer)

DrainBuffer == buffer' = <<>> /\ tree' = insert_batch(tree, buffer)

-----------------------------------------------------------------------------
(* Properties *)

TotalCount(t) == LET Add(acc, l) == acc + l.count IN Fold(Add, 0, t.leaves)

\* Cluster ids are unique and below next_cluster_id, no cluster is empty or above
\* its bound, every leaf's hash is the hash of its content, and the root sums and
\* hashes the leaves it stands for (insert_batch, split loop and build_tree).
TreeSound(t) ==
  /\ \A i, j \in DOMAIN t.leaves : i < j => t.leaves[i].id < t.leaves[j].id
  /\ \A i \in DOMAIN t.leaves :
       /\ t.leaves[i].id < t.next
       /\ t.leaves[i].count \in 1..MaxCluster
       /\ t.leaves[i].hash = leaf_hash(t.leaves[i])
  /\ t.leaves # <<>> => t.root = build_root(t.leaves) /\ t.root[1].count = TotalCount(t)
=============================================================================
