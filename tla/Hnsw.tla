-------------------------------- MODULE Hnsw --------------------------------
(***************************************************************************)
(* The HNSW graph of tesseract-index (hnsw.rs, distance.rs,                *)
(* topological_index.rs).                                                  *)
(*                                                                         *)
(* Vectors have one dimension and integer coordinates, so that distances   *)
(* are exact; Misfit is a vector of another dimension.  Nodes are numbered *)
(* from 1 in the order of their insertion.  edges[n][l + 1] is the list of *)
(* neighbours of n on layer l, and its order matters: it decides which     *)
(* neighbour a search meets first.  insert and remove take &mut self, so   *)
(* each is one step.                                                       *)
(***************************************************************************)
EXTENDS Ranking, Integers, SequencesExt

CONSTANTS Ids,             \* VectorIds
          Points,          \* coordinates of vectors that fit the index
          Misfit,          \* a vector of another dimension
          Weights,         \* weights a mask may give the dimension
          Configs,         \* HnswConfig values: metric, m, m_max0, ef_construction
          MaxLayer         \* MAX_LAYER
ASSUME PointsFit == Points \subseteq Int /\ Misfit \notin Points
ASSUME WeightsFit == Weights \subseteq Int
ASSUME ConfigsAssumption ==
  /\ MaxLayer \in Nat
  /\ Configs \subseteq [metric : {"cosine", "euclidean"}, m : Nat \ {0}, m_max0 : Nat \ {0},
                         ef_construction : Nat \ {0}]

VARIABLES config,  \* the configuration; its metric picks the variant of AnyIndex
          graph    \* the fields of HnswIndex that change

EmptyGraph == [ids |-> <<>>, vec |-> <<>>, edges |-> <<>>, del |-> <<>>, entry |-> 0, top |-> 0]

\* dot and sqrt of squares in one dimension; a mask multiplies the coordinate.
cosine_weighted(a, b, w) == 1 - w * w * a * b
euclidean_weighted(a, b, w) == LET d == w * (a - b) IN IF d < 0 THEN -d ELSE d

distance_weighted(a, b, w) ==
  IF config.metric = "cosine" THEN cosine_weighted(a, b, w) ELSE euclidean_weighted(a, b, w)

NodesOf(g) == DOMAIN g.ids
LevelOf(g, n) == Len(g.edges[n]) - 1
NodeOf(g, id) == CHOOSE n \in NodesOf(g) : g.ids[n] = id
MaxConn(layer) == IF layer = 0 THEN config.m_max0 ELSE config.m

\* The distance of every node to a query.
Distances(g, q, w) == Fixed([n \in NodesOf(g) |-> distance_weighted(g.vec[n], q, w)])

\* The binary heaps order nodes by distance, then by number.
Nearer(dist, a, b) == dist[a] < dist[b] \/ (dist[a] = dist[b] /\ a < b)
Farthest(dist, S) == CHOOSE a \in S : \A b \in S \ {a} : Nearer(dist, b, a)
Nearest(dist, S) == CHOOSE a \in S : \A b \in S \ {a} : Nearer(dist, a, b)

\* into_sorted_vec: a set of nodes, nearest first.
NearestFirst(dist, S) ==
  Fixed([k \in 1..Cardinality(S) |->
           CHOOSE a \in S : Cardinality({b \in S : Nearer(dist, b, a)}) = k - 1])

-----------------------------------------------------------------------------
\* One pass over the edges of a node: the nearest live one, or the node itself.
NearestNeighbour(g, layer, dist, from) ==
  LET Closer(best, n) == IF ~g.del[n] /\ dist[n] < dist[best] THEN n ELSE best
  IN  Fold(Closer, from, g.edges[from][layer + 1])

\* Passes are repeated until one finds nothing nearer; every pass but the last
\* lowers the distance.
GreedyWalk(g, start, layer, dist) ==
  LET Walk[i \in 0..Len(g.ids)] ==
        IF i = 0 THEN start ELSE NearestNeighbour(g, layer, dist, Walk[i - 1])
  IN  Walk[Len(g.ids)]

greedy_search_layer_weighted(g, start, q, layer, w) == GreedyWalk(g, start, layer, Distances(g, q, w))

greedy_search_layer(g, start, q, layer) == greedy_search_layer_weighted(g, start, q, layer, 1)

\* A neighbour n is met: it joins the results while there is room or it is nearer
\* than the farthest of them, which then leaves.
Meet(st, n, ef, dist) ==
  LET Trim(S) == IF Cardinality(S) > ef THEN S \ {Farthest(dist, S)} ELSE S
  IN  IF Cardinality(st.results) < ef \/ dist[n] < dist[Farthest(dist, st.results)]
      THEN [visited |-> st.visited \cup {n}, candidates |-> st.candidates \cup {n},
            results |-> Trim(st.results \cup {n})]
      ELSE [st EXCEPT !.visited = @ \cup {n}]

\* A tombstoned neighbour, or one met before, is passed over.
Visit(g, st, n, ef, dist) == IF n \in st.visited \/ g.del[n] THEN st ELSE Meet(st, n, ef, dist)

\* The nearest candidate n is expanded, unless it is behind a full set of results.
Expand(g, st, n, ef, layer, dist) ==
  LET Next(acc, e) == Visit(g, acc, e, ef, dist)
  IN  IF dist[n] > dist[Farthest(dist, st.results)] /\ Cardinality(st.results) >= ef
      THEN [st EXCEPT !.candidates = {}]
      ELSE Fold(Next, [st EXCEPT !.candidates = @ \ {n}], g.edges[n][layer + 1])

SearchStep(g, st, ef, layer, dist) ==
  IF st.candidates = {} THEN st ELSE Expand(g, st, Nearest(dist, st.candidates), ef, layer, dist)

\* The candidates and the results of an ef-search.  The start is among the
\* results even when it is tombstoned; tombstoned neighbours are not expanded.
\* Every node is a candidate at most once.
EfSearch(g, start, ef, layer, dist) ==
  LET Loop[i \in 0..Len(g.ids)] ==
        IF i = 0 THEN [visited |-> {start}, candidates |-> {start}, results |-> {start}]
        ELSE SearchStep(g, Loop[i - 1], ef, layer, dist)
  IN  NearestFirst(dist, Loop[Len(g.ids)].results)

search_layer_weighted(g, start, q, ef, layer, w) == EfSearch(g, start, ef, layer, Distances(g, q, w))

search_layer(g, start, q, ef, layer) == search_layer_weighted(g, start, q, ef, layer, 1)

LiveNodes(g, found) == LET Live(i) == ~g.del[found[i]] IN KeepIndices(found, Live)

ResultsOf(g, nodes, q, w) ==
  Fixed([k \in DOMAIN nodes |->
           [id |-> g.ids[nodes[k]], score |-> distance_weighted(g.vec[nodes[k]], q, w)]])

\* search, first part: greedy from the top layer down to layer 1.
LowestLayerEntry(g, q, w) ==
  LET Descend[l \in 0..g.top] ==     \* the node on which layer l is entered
        IF l = g.top THEN g.entry
        ELSE greedy_search_layer_weighted(g, Descend[l + 1], q, l + 1, w)
  IN  Descend[0]

\* search: the ef-search on layer 0; without a mask w is 1.
hnsw_search(g, q, ef, w) ==
  IF g.ids = <<>> THEN <<>>
  ELSE ResultsOf(g, Truncate(LiveNodes(g, search_layer_weighted(g, LowestLayerEntry(g, q, w), q, ef, 0, w)), ef), q, w)

-----------------------------------------------------------------------------
select_neighbors(candidates, m) == Truncate(candidates, m)

\* The closest MaxConn(layer) of a list that has grown beyond it.
shrink_connections(g, n, layer, list) ==
  LET Closer(a, b) == distance_weighted(g.vec[n], g.vec[a], 1) < distance_weighted(g.vec[n], g.vec[b], 1)
  IN  IF Len(list) <= MaxConn(layer) THEN list ELSE Truncate(StableSort(list, Closer), MaxConn(layer))

\* The logarithm of the number of nodes, rounded up: the powers of 2 below it.
max_allowed_level(n) ==
  LET log2 == Cardinality({k \in 0..n - 1 : 2^k < n})
  IN  IF n = 0 THEN 0 ELSE IF log2 < 1 THEN 1 ELSE log2

\* What random_level may draw for the next node.
random_level(g) ==
  LET cap == max_allowed_level(Len(g.ids))
  IN  0..(IF cap < MaxLayer THEN cap ELSE MaxLayer)

\* The nodes a new node x is linked with on a layer.
Candidates(g, x, curr, layer) ==
  select_neighbors(search_layer(g, curr, g.vec[x], config.ef_construction, layer), MaxConn(layer))

\* The new node x is linked both ways with the nearest nodes of a layer.
LinkBothWays(g, x, layer, nearest) ==
  LET NewList(n) ==
        IF n = x THEN nearest
        ELSE shrink_connections(g, n, layer, Append(g.edges[n][layer + 1], x))
  IN  [g EXCEPT !.edges =
         Fixed([n \in DOMAIN @ |-> IF n = x \/ n \in ToSet(nearest)
                                   THEN [@[n] EXCEPT ![layer + 1] = NewList(n)] ELSE @[n]])]

\* Mutant of Relink: only the new node learns of the link.
Relink_OneWay(g, x, curr, layer, nearest) ==
  [g |-> [g EXCEPT !.edges[x][layer + 1] = nearest],
   curr |-> IF nearest = <<>> THEN curr ELSE nearest[1]]

Relink(g, x, curr, layer, nearest) ==
  [g |-> LinkBothWays(g, x, layer, nearest), curr |-> IF nearest = <<>> THEN curr ELSE nearest[1]]

Connect(at, x, layer) == Relink(at.g, x, at.curr, layer, Candidates(at.g, x, at.curr, layer))

\* Mutant of RaiseEntry: the top layer grows and the entry point stays.
RaiseEntry_Stay(g, x, level) == [g EXCEPT !.top = IF level > @ THEN level ELSE @]

\* A node above the top layer becomes the entry point.
RaiseEntry(g, x, level) ==
  IF level > g.top THEN [g EXCEPT !.top = level, !.entry = x] ELSE g

\* Phase 1 of an insertion: from the entry point down to the layer above level.
\* added is g with the new node x.
DescendTo(g, added, x, level) ==
  LET highest == IF g.top < LevelOf(g, g.entry) THEN g.top ELSE LevelOf(g, g.entry)
      Down(above, l) ==
        IF l > LevelOf(g, above) THEN above ELSE greedy_search_layer(added, above, added.vec[x], l)
      Descend[l \in level..MaxLayer] ==     \* the node from which layer l + 1 was left
        IF l >= highest THEN g.entry ELSE Down(Descend[l + 1], l + 1)
  IN  Descend[level]

\* Phase 2, from layer first down to 0.
LinkLayers(added, x, first, curr) ==
  LET Linked[l \in 0..first + 1] ==
        IF l = first + 1 THEN [g |-> added, curr |-> curr] ELSE Connect(Linked[l + 1], x, l)
  IN  Linked[0].g

LinkNode(g, added, x, level) ==
  IF x = 1 THEN [added EXCEPT !.entry = 1, !.top = level]
  ELSE RaiseEntry(LinkLayers(added, x, IF level < g.top THEN level ELSE g.top,
                             DescendTo(g, added, x, level)), x, level)

\* The graph g with a node for id that has no edges yet.
AddNode(g, id, v, level) ==
  [g EXCEPT !.ids = Append(@, id), !.vec = Append(@, v), !.del = Append(@, FALSE),
            !.edges = Append(@, Fixed([l \in 1..level + 1 |-> <<>>]))]

\* Mutant of hnsw_insert: an id that is there keeps its vector.
hnsw_insert_Keep(g, id, v, level) ==
  IF id \in ToSet(g.ids) THEN g ELSE LinkNode(g, AddNode(g, id, v, level), Len(g.ids) + 1, level)

\* insert: an id that is there, tombstoned or not, only gets the new vector.
hnsw_insert(g, id, v, level) ==
  IF id \in ToSet(g.ids) THEN [g EXCEPT !.vec[NodeOf(g, id)] = v]
  ELSE LinkNode(g, AddNode(g, id, v, level), Len(g.ids) + 1, level)

\* remove: a tombstone; the node and its edges stay.
hnsw_remove(g, id) == [g EXCEPT !.del[NodeOf(g, id)] = TRUE]

-----------------------------------------------------------------------------
(* Properties of a graph *)

\* No traversal leaves the edge lists: every edge stays on its layer, and the
\* entry point is on the top layer, from which search starts to descend
\* (hnsw.rs indexes edges[layer] without a check).
Navigable(g) ==
  /\ \A n \in NodesOf(g) : \A l \in 0..LevelOf(g, n) :
       \A e \in ToSet(g.edges[n][l + 1]) : e \in NodesOf(g) \ {n} /\ l <= LevelOf(g, e)
  /\ g.ids # <<>> => LevelOf(g, g.entry) = g.top
  /\ \A n \in NodesOf(g) : LevelOf(g, n) <= g.top

\* The lists stay within the degree bounds and hold no neighbour twice.
Bounded(g) ==
  \A n \in NodesOf(g) : \A l \in 0..LevelOf(g, n) :
    LET list == g.edges[n][l + 1]
    IN  Len(list) <= MaxConn(l) /\ Cardinality(ToSet(list)) = Len(list)
=============================================================================
