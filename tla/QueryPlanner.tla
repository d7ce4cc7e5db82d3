---------------------------- MODULE QueryPlanner ----------------------------
(***************************************************************************)
(* QueryPlanner (tesseract-vql/src/planner.rs).  The plan is a chain, so a *)
(* tree is the sequence of its nodes in execution order; the two children  *)
(* of Merge are copies of one AnnScan, the first node.  Costs are in       *)
(* thousandths of a millisecond, fractions in hundredths.                  *)
(***************************************************************************)
EXTENDS Vql

CONSTANTS default_ef_search,
          DistanceCost,        \* dim * 2 * ln(estimated_vector_count) * cost_per_distance_ms
          cost_buffer,         \* in hundredths
          topological_alpha    \* in hundredths
ASSUME PlannerConfig ==
  /\ default_ef_search \in Nat \ {0} /\ DistanceCost \in Nat
  /\ cost_buffer \in Nat /\ topological_alpha \in 0..100

PlanError == [planned |-> FALSE]

clamp(x, low, high) == IF x < low THEN low ELSE IF x > high THEN high ELSE x

\* compute_ef_search: LIMIT and OFFSET are not looked at.
compute_ef_search(within) ==
  IF within = <<>> THEN default_ef_search
  ELSE clamp((default_ef_search * within[1]) \div 100, 10, 200)

\* estimate_cost has the buffer in it; the test in plan_to_tree adds it again.
estimate_cost(ef) == (ef * DistanceCost * (100 + cost_buffer)) \div 100
OverBudget(ef, millis) == (estimate_cost(ef) * (100 + cost_buffer)) \div 100 > millis * 1000

\* The single comparison of a WHERE list: And, In, Between and Like are skipped
\* by the mask and by the bias alike.
SingleComparison(where) ==
  where # <<>> /\ Len(where[1]) = 1 /\ where[1][1].pred = "Comparison"

\* derive_weight_mask, in tenths; field_to_dim maps every field to the one
\* dimension there is.
derive_weight_mask(where) ==
  IF ~SingleComparison(where) THEN 10
  ELSE CASE where[1][1].op = "Eq" -> 10 [] where[1][1].op = "Neq" -> 8 [] OTHER -> 5

\* BiasFilter: a category value, or a number with its comparison.
BiasFilter(field, kind, value, op) == [field |-> field, kind |-> kind, value |-> value, op |-> op]

\* extract_bias_filters: at most one filter, as the list holds one predicate.
extract_bias_filters(where) ==
  IF ~SingleComparison(where) THEN <<>>
  ELSE LET p == where[1][1]
           val == p.values[1]
       IN  CASE p.op = "Eq" /\ val.lit = "String" ->
                  <<BiasFilter(p.field, "Category", val.v, "Eq")>>
             [] p.op # "Neq" /\ val.lit \in NumericLits ->
                  <<BiasFilter(p.field, "Numerical", val.v, p.op)>>
             [] OTHER -> <<>>

\* The predicate rebuilt from a filter: a number comes back as a Float, so an
\* Integer comparison is never found covered.
topological_predicate(f) ==
  Comparison(f.field, f.op, [lit |-> IF f.kind = "Category" THEN "String" ELSE "Float",
                             v |-> f.value])
AlreadyCovered(where) ==
  LET filters == extract_bias_filters(where)
  IN  filters # <<>> /\ topological_predicate(filters[1]) = where[1][1]

\* clamp(budget / 100, 0, 1) of the configured strength.
AlphaFor(within) ==
  IF within = <<>> THEN topological_alpha
  ELSE (topological_alpha * clamp(within[1], 0, 100)) \div 100

When(cond, node) == IF cond THEN <<node>> ELSE <<>>

\* plan_to_tree.  A parsed query always has its similarity expression.
plan_to_tree(q, merkle_enabled) ==
  LET limit == IF q.limit = <<>> THEN 10 ELSE q.limit[1]
      offset == IF q.offset = <<>> THEN 0 ELSE q.offset[1]
      ef == compute_ef_search(q.within)
  IN  IF \/ q.bias # <<>> /\ q.order_by # <<>>
         \/ q.within # <<>> /\ OverBudget(ef, q.within[1])
      THEN PlanError
      ELSE [planned |-> TRUE, nodes |->
              <<[node |-> "AnnScan", ef_search |-> ef,
                 weight_mask |-> derive_weight_mask(q.metadata_where),
                 bias_filters |-> extract_bias_filters(q.metadata_where),
                 alpha |-> AlphaFor(q.within)]>>
              \o When(merkle_enabled, [node |-> "Merge", limit |-> limit])
              \o When(q.metadata_where # <<>> /\ ~AlreadyCovered(q.metadata_where),
                      [node |-> "Filter", predicate |-> IF q.metadata_where = <<>> THEN <<>>
                                                        ELSE q.metadata_where[1]])
              \o When(q.bias # <<>>, [node |-> "Bias", scoring_fn |-> q.bias])
              \o When(q.order_by # <<>>, [node |-> "Sort", order |-> q.order_by])
              \o <<[node |-> "Limit", limit |-> limit, offset |-> offset]>>
              \o When(q.within # <<>>, [node |-> "Deadline", millis |-> q.within])]
=============================================================================
