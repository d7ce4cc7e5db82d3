--------------------------- MODULE QueryExecutor ---------------------------
(***************************************************************************)
(* The evaluation of a plan (tesseract-vql/src/executor.rs) against the    *)
(* index of the storage engine.  Each AnnScan is a step of its own (module *)
(* QueryService), the nodes above it run without an await.  Results carry  *)
(* no metadata: AnnScan sets it to None.                                   *)
(***************************************************************************)
EXTENDS QueryPlanner, TopologicalBias, EpisodicMemory, Ranking

CONSTANTS Ids
ASSUME IdsAssumption == Ids \subseteq Nat /\ IsFiniteSet(Ids)

VARIABLE index      \* id -> <<>> or <<the indexed vector>>

NodesOf(plan, kind) == {i \in DOMAIN plan.nodes : plan.nodes[i].node = kind}
Has(plan, kind) == NodesOf(plan, kind) # {}
Node(plan, kind) == plan.nodes[CHOOSE i \in NodesOf(plan, kind) : TRUE]
Personal(plan) == Has(plan, "Bias") /\ Node(plan, "Bias").scoring_fn[1] = "personal"

abs(x) == IF x < 0 THEN -x ELSE x

\* StorageEngine::search over the index: nearest first, at most k.
storage_search(x, k, weight) ==
  LET held == {i \in Ids : index[i] # <<>>}
      Score(i) == weight * abs(x - index[i][1] * VectorScale)
      byId == Sorted(held)
  IN  Truncate(StableSort([n \in DOMAIN byId |-> [id |-> byId[n], score |-> Score(byId[n])]],
                          Ascending), k)

\* StorageEngine::apply_topological_bias: the query as it is when tracking is off.
engine_bias(query, filters, alpha, topological) ==
  IF topological THEN apply_topological_bias(query, filters, alpha) ELSE query

\* The AnnScan arm, below a personal Bias if there is one: that applies the
\* footprint, and AnnScan applies it again.
ann_scan(plan, query, user, topological) ==
  LET scan == plan.nodes[1]
      q == IF Personal(plan) THEN personalise(query, user) ELSE query
      s == personalise(q, user)
      x == engine_bias(s, scan.bias_filters, scan.alpha, topological)
  IN  storage_search(x, scan.ef_search, scan.weight_mask)

\* The Merge arm: farthest first, as scores are distances.
merge(results, limit) == Truncate(DedupNeighbours(StableSort(results, Descending)), limit)

\* sort_results: an unknown function sorts by descending score whatever was asked.
sort_results(results, order) ==
  IF order[1] \in {"score", "similarity"} /\ ~order[2]
  THEN StableSort(results, Ascending) ELSE StableSort(results, Descending)

\* Mutant of paginate: the page is cut before it is skipped to.
paginate_TakeFirst(results, limit, offset) == Skip(Truncate(results, limit), offset)

\* The Limit arm.
paginate(results, limit, offset) == Truncate(Skip(results, offset), limit)

\* One node over the results of its child.  late: <<>> if the deadline was met,
\* else <<how many results the elapsed time leaves>>, at least one.
execute_node(results, n, late) ==
  CASE n.node = "Filter" ->
         LET Matches(i) == evaluate_predicate(n.predicate, <<>>) IN KeepIndices(results, Matches)
    [] n.node = "Merge" -> merge(results, n.limit)
    [] n.node = "Sort" -> sort_results(results, n.order[1])
    [] n.node = "Limit" -> paginate(results, n.limit, n.offset)
    [] n.node = "Deadline" /\ late # <<>> -> Truncate(results, late[1])
    [] OTHER -> results

\* apply_bias refuses a scoring function it does not know.
KnownBias == {"personal", "recency", "popularity", "relevance_clicks"}
BiasUnknown(plan) == Has(plan, "Bias") /\ Node(plan, "Bias").scoring_fn[1] \notin KnownBias

\* execute_plan above the scans; scanned is the concatenation of their results.
execute_plan(plan, scanned, late) ==
  LET upTo[n \in 0..Len(plan.nodes)] ==
        IF n = 0 THEN scanned ELSE execute_node(upTo[n - 1], plan.nodes[n], late)
  IN  upTo[Len(plan.nodes)]
=============================================================================
