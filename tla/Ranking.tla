------------------------------ MODULE Ranking ------------------------------
(***************************************************************************)
(* What the Rust code does to lists of scored results: sort_by (a stable   *)
(* sort), retain with a HashSet of the ids seen, dedup_by (neighbours      *)
(* only) and truncate.  A result is a record with at least the fields id   *)
(* and score.                                                              *)
(***************************************************************************)
EXTENDS Naturals, Sequences, FiniteSets

\* s itself; TLC computes its elements here, once, and not at every use.
Fixed(s) == SubSeq(s, 1, Len(s))

\* The number of elements that stand before s[i] after a stable sort by Before.
SortRank(s, Before(_, _), i) ==
  1 + Cardinality({j \in DOMAIN s :
        \/ Before(s[j], s[i])
        \/ j < i /\ ~Before(s[i], s[j])})

\* slice::sort_by: equal elements keep their order.
StableSort(s, Before(_, _)) ==
  LET rank == Fixed([i \in DOMAIN s |-> SortRank(s, Before, i)])
  IN  Fixed([k \in DOMAIN s |-> s[CHOOSE i \in DOMAIN s : rank[i] = k]])

Ascending(a, b) == a.score < b.score
Descending(a, b) == a.score > b.score

\* The numbers of a finite set in ascending order.
Sorted(S) ==
  [k \in 1..Cardinality(S) |-> CHOOSE i \in S : Cardinality({j \in S : j <= i}) = k]

\* The elements of s whose index satisfies Keep, in their order.
KeepIndices(s, Keep(_)) ==
  LET kept == Sorted({i \in DOMAIN s : Keep(i)})
  IN  Fixed([k \in DOMAIN kept |-> s[kept[k]]])

\* retain(|r| seen.insert(r.id)): the first result of every id.
DedupById(s) ==
  LET First(i) == \A j \in DOMAIN s : j < i => s[j].id # s[i].id
  IN  KeepIndices(s, First)

\* dedup_by(|a, b| a.id == b.id): only neighbours with one id are merged.
DedupNeighbours(s) ==
  LET Starts(i) == i = 1 \/ s[i - 1].id # s[i].id
  IN  KeepIndices(s, Starts)

Truncate(s, k) == SubSeq(s, 1, IF Len(s) < k THEN Len(s) ELSE k)

Skip(s, k) == SubSeq(s, k + 1, Len(s))

\* The result of Op over the elements of s in their order, from base on.
Fold(Op(_, _), base, s) ==
  LET upTo[i \in 0..Len(s)] == IF i = 0 THEN base ELSE Op(upTo[i - 1], s[i])
  IN  upTo[Len(s)]

IdsOf(s) == {s[i].id : i \in DOMAIN s}
=============================================================================
