-------------------------- MODULE TopologicalBias --------------------------
(***************************************************************************)
(* The metadata statistics of the storage engine and the shift of a query  *)
(* vector they give (tesseract-core/src/topological.rs).                   *)
(*                                                                         *)
(* Every loop over the dimensions treats them alike: the module follows    *)
(* one of them, and a vector is its length and its number there.  An       *)
(* insert may bring any length: the trackers come before the index, which  *)
(* is the first to compare it with the configured one.  Sums are exact.    *)
(* Welford's means, M2 and cross terms are kept times the number of        *)
(* observations, where they are whole numbers (rounded down after a vector *)
(* that lacks the dimension); a shifted query is kept times VectorScale.   *)
(***************************************************************************)
EXTENDS Vql, FiniteSetsExt

CONSTANTS CategoryValues,      \* the strings used as categories
          categorical_fields, numerical_fields,
          numerical_buckets,   \* bucketed field -> sorted boundaries
          dim,                 \* config.index.dim
          Followed             \* the dimension that is followed
ASSUME DimensionAssumption == dim \in Nat /\ Followed \in 1..dim
\* register_field refuses an empty list; its documentation asks for sorted split
\* points, which nothing checks.
ASSUME BucketsAssumption ==
  \A f \in DOMAIN numerical_buckets :
    LET bs == numerical_buckets[f]
    IN  /\ Len(bs) \in Nat \ {0} /\ DOMAIN bs = 1..Len(bs)
        /\ \A i, j \in DOMAIN bs : bs[i] \in Int /\ (i <= j => bs[i] <= bs[j])

VARIABLES centroids, correlations, buckets,
          poisoned    \* which of their locks a panic has poisoned

VectorScale == 1200

\* The number of an entry's vector in the followed dimension; without one it
\* adds nothing to a sum, and is counted.
Reaches(e) == e.length >= Followed
Component(e) == IF Reaches(e) THEN e.vector ELSE 0

Stat == [sum |-> 0, count |-> 0]
add(stat, vector) == [sum |-> stat.sum + vector, count |-> stat.count + 1]

NewCentroids ==
  [global |-> Stat, categories |-> [f \in categorical_fields |-> [c \in CategoryValues |-> Stat]]]
\* dims: the length of dim_means; dim_mean is 0 while it has not the dimension.
NewStats == [count |-> 0, field_mean |-> 0, field_m2 |-> 0, dims |-> dim,
             dim_mean |-> 0, dim_m2 |-> 0, dim_cross |-> 0]
NewCorrelations == [f \in numerical_fields |-> NewStats]
NewBuckets ==
  [global |-> Stat, fields |-> [f \in DOMAIN numerical_buckets |->
                                  [i \in DOMAIN numerical_buckets[f] |-> Stat]]]

BiasInit ==
  /\ centroids = NewCentroids
  /\ correlations = NewCorrelations
  /\ buckets = NewBuckets
  /\ poisoned = {}

\* A literal of a metadata record that as_f64 or Value::String accepts.
HasString(metadata, f) == metadata[f] # <<>> /\ metadata[f][1].lit = "String"
HasNumber(metadata, f) == metadata[f] # <<>> /\ metadata[f][1].lit \in NumericLits

-----------------------------------------------------------------------------
\* CentroidTracker::update.
update_centroids(c, e) ==
  [global |-> add(c.global, Component(e)),
   categories |-> [f \in categorical_fields |-> [cat \in CategoryValues |->
      IF HasString(e.metadata, f) /\ e.metadata[f][1].v = cat
      THEN add(c.categories[f][cat], Component(e)) ELSE c.categories[f][cat]]]]

\* Mutant of stats_update: the cross term takes the distance to the new field mean.
stats_update_NewMean(s, value, e) ==
  IF s.count = 0
  THEN [s EXCEPT !.count = 1, !.field_mean = value, !.dims = e.length, !.dim_mean = Component(e)]
  ELSE LET n == s.count
           df == n * value - s.field_mean
           dd == IF Reaches(e) /\ s.dims >= Followed THEN n * e.vector - s.dim_mean ELSE 0
           Plus(x, d) == ((n + 1) * x + d) \div n
       IN  [count |-> n + 1, field_mean |-> Plus(s.field_mean, df), field_m2 |-> Plus(s.field_m2, df * df),
            dims |-> s.dims, dim_mean |-> Plus(s.dim_mean, dd), dim_m2 |-> Plus(s.dim_m2, dd * dd),
            dim_cross |-> Plus(s.dim_cross, (df * dd * n) \div (n + 1))]

\* NumericalStats::update: the first vector sets the dimensions, later ones move
\* those they have in common with it by Welford's step from the old means.  df and
\* dd are delta_f and delta_d times n; x + d / (n + 1), with x and d kept times n
\* and the result times n + 1, is Plus(x, d).
stats_update(s, value, e) ==
  IF s.count = 0
  THEN [s EXCEPT !.count = 1, !.field_mean = value, !.dims = e.length, !.dim_mean = Component(e)]
  ELSE LET n == s.count
           df == n * value - s.field_mean
           dd == IF Reaches(e) /\ s.dims >= Followed THEN n * e.vector - s.dim_mean ELSE 0
           Plus(x, d) == ((n + 1) * x + d) \div n
       IN  [count |-> n + 1, field_mean |-> Plus(s.field_mean, df), field_m2 |-> Plus(s.field_m2, df * df),
            dims |-> s.dims, dim_mean |-> Plus(s.dim_mean, dd), dim_m2 |-> Plus(s.dim_m2, dd * dd),
            dim_cross |-> Plus(s.dim_cross, df * dd)]

\* dim_m2 and dim_cross keep the configured length: the step indexes past their
\* end when the first vector and this one are both longer.
Panics(s, e) == s.count > 0 /\ s.dims > dim /\ e.length > dim

\* CorrelationTracker::update for every numerical field the entry has.
update_correlations(c, e) ==
  [f \in numerical_fields |->
     IF HasNumber(e.metadata, f) THEN stats_update(c[f], e.metadata[f][1].v, e) ELSE c[f]]

\* bucket_index, counting from 1: a value below the first boundary shares the
\* first bucket.
bucket_index(boundaries, value) ==
  LET above == {i \in DOMAIN boundaries : i > 1 /\ value < boundaries[i]}
  IN  IF above = {} THEN Len(boundaries) ELSE Min(above) - 1

\* NumericalBucketTracker::update: the global centroid grows once per field.
update_buckets(b, e) ==
  LET given == {f \in DOMAIN numerical_buckets : HasNumber(e.metadata, f)}
  IN  [global |-> [sum |-> b.global.sum + Cardinality(given) * Component(e),
                   count |-> b.global.count + Cardinality(given)],
       fields |-> [f \in DOMAIN numerical_buckets |->
          IF f \notin given THEN b.fields[f]
          ELSE [b.fields[f] EXCEPT
                  ![bucket_index(numerical_buckets[f], e.metadata[f][1].v)] = add(@, Component(e))]]]

UpdateCentroids(e) == centroids' = update_centroids(centroids, e)
UpdateBuckets(e) == buckets' = update_buckets(buckets, e)

\* The lock is poisoned when the update panics; nobody reads the statistics then.
CorrelationsPanic(e) ==
  \E f \in numerical_fields : HasNumber(e.metadata, f) /\ Panics(correlations[f], e)
UpdateCorrelations(e) ==
  /\ correlations' = IF CorrelationsPanic(e) THEN correlations ELSE update_correlations(correlations, e)
  /\ poisoned' = IF CorrelationsPanic(e) THEN poisoned \cup {"correlations"} ELSE poisoned

-----------------------------------------------------------------------------
\* alpha (in hundredths) times the difference of two means, times VectorScale.
ShiftTo(alpha, region, global) ==
  (alpha * 12 * region.sum) \div region.count - (alpha * 12 * global.sum) \div global.count

\* CentroidTracker::delta; no data, no shift.
category_shift(f, alpha) ==
  IF f.field \notin categorical_fields THEN 0
  ELSE LET cat == centroids.categories[f.field][f.value]
       IN  IF cat.count = 0 THEN 0 ELSE ShiftTo(alpha, cat, centroids.global)

\* NumericalBucketTracker::delta: the non-empty buckets the operator selects.
relevant_buckets(f) ==
  LET bs == buckets.fields[f.field]
      at == bucket_index(numerical_buckets[f.field], f.value)
  IN  {i \in DOMAIN bs : /\ bs[i].count > 0
                         /\ \/ f.op = "Eq" /\ i = at
                            \/ f.op \in {"Gt", "Gte"} /\ i >= at
                            \/ f.op \in {"Lt", "Lte"} /\ i <= at}
bucket_shift(f, alpha) ==
  LET used == relevant_buckets(f)
  IN  FoldSet(LAMBDA i, acc : acc + ShiftTo(alpha, buckets.fields[f.field][i], buckets.global),
                            0, used) \div Cardinality(used)

\* The largest r with r * r <= x.
isqrt(x, bound) == Max({r \in 0..bound : r * r <= x})

\* CorrelationTracker::correlations: Pearson's r in tenths, 0 without
\* variance or with one observation.
correlation(s) ==
  IF s.count < 2 \/ s.field_m2 <= 0 \/ s.dim_m2 <= 0 THEN 0
  ELSE LET r == isqrt((100 * s.dim_cross * s.dim_cross) \div (s.field_m2 * s.dim_m2), 10)
       IN  IF s.dim_cross < 0 THEN -r ELSE r
correlation_shift(f, alpha) ==
  IF f.field \notin numerical_fields \/ correlations[f.field].count = 0 THEN 0
  ELSE LET s == correlations[f.field]
       IN  (alpha * correlation(s) * 12 * (f.value * s.count - s.field_mean)) \div (10 * s.count)

\* apply_topological_bias: buckets first, correlation when they have nothing.
apply_topological_bias(query, filters, alpha) ==
  IF filters = <<>> THEN query
  ELSE LET f == filters[1]
       IN  query + CASE f.kind = "Category" -> category_shift(f, alpha)
                     [] f.kind = "Numerical" /\ f.field \in DOMAIN numerical_buckets
                          /\ relevant_buckets(f) # {} -> bucket_shift(f, alpha)
                     [] OTHER -> correlation_shift(f, alpha)

-----------------------------------------------------------------------------
\* What the trackers should hold after the entries at a set of positions, from
\* the sums over all of them; f and v are sequences, the value and the vector at
\* each position.  Cross is n times the sum of the products of the deviations.
SumOver(S, v) ==
  LET upTo[i \in 0..Len(v)] == IF i = 0 THEN 0 ELSE upTo[i - 1] + (IF i \in S THEN v[i] ELSE 0)
  IN  upTo[Len(v)]
StatOver(S, v) == [sum |-> SumOver(S, v), count |-> Cardinality(S)]
Cross(S, x, y) ==
  Cardinality(S) * SumOver(S, [i \in DOMAIN x |-> x[i] * y[i]]) - SumOver(S, x) * SumOver(S, y)
StatsOver(S, f, v) ==
  [count |-> Cardinality(S), field_mean |-> SumOver(S, f), field_m2 |-> Cross(S, f, f),
   dim_mean |-> SumOver(S, v), dim_m2 |-> Cross(S, v, v), dim_cross |-> Cross(S, f, v)]
=============================================================================
