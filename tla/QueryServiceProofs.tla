------------------------- MODULE QueryServiceProofs -------------------------
(***************************************************************************)
(* Proofs about QueryService, for every number of clients, requests,       *)
(* query texts, retries and addresses.                                     *)
(***************************************************************************)
EXTENDS QueryService, RankingProofs

-----------------------------------------------------------------------------
(* Plans: the numbers in them are natural, whatever the text *)

\* Plan nodes carry natural numbers; plans are lists of them.
NodeOK(n) ==
    /\ n.node = "Merge" => n.limit \in Nat
    /\ n.node = "Limit" => n.limit \in Nat /\ n.offset \in Nat

NodesOK(s) == IsSeq(s) /\ \A i \in 1..Len(s) : NodeOK(s[i])

PlanOK(p) == NodesOK(p.nodes) /\ p.nodes[1].ef_search \in Nat

\* Concatenating lists of plan nodes keeps the nodes in order and the first one first.
LEMMA NodesConcat ==
    ASSUME NEW s, NEW t, NodesOK(s), NodesOK(t)
    PROVE  /\ NodesOK(s \o t)
           /\ Len(s) >= 1 => Len(s \o t) >= 1 /\ (s \o t)[1] = s[1]
<1>1. IsSeq(s \o t) /\ Len(s) \in Nat /\ Len(t) \in Nat
  BY ConcatIsSeq, IsSeqFacts DEF NodesOK
<1> DEFINE X == {s[i] : i \in DOMAIN s} \cup {t[i] : i \in DOMAIN t}
<1>2. s \in Seq(X) /\ t \in Seq(X)
  BY DEF NodesOK, IsSeq
<1>3. /\ Len(s \o t) = Len(s) + Len(t)
      /\ \A i \in 1..Len(s) : (s \o t)[i] = s[i]
      /\ \A i \in (Len(s) + 1)..(Len(s) + Len(t)) : (s \o t)[i] = t[i - Len(s)]
  <2> HIDE DEF X
  <2> QED
    BY <1>2
<1>4. \A i \in 1..Len(s \o t) : NodeOK((s \o t)[i])
  <2> SUFFICES ASSUME NEW i \in 1..Len(s \o t) PROVE NodeOK((s \o t)[i])
    OBVIOUS
  <2>1. CASE i \in 1..Len(s)
    BY <2>1, <1>3 DEF NodesOK
  <2>2. CASE i \in (Len(s) + 1)..(Len(s) + Len(t))
    <3>1. i - Len(s) \in 1..Len(t)
      BY <2>2, <1>1
    <3> QED
      BY <2>2, <3>1, <1>3 DEF NodesOK
  <2> QED
    BY <2>1, <2>2, <1>1, <1>3
<1> QED
  BY <1>1, <1>3, <1>4 DEF NodesOK

\* An optional part of a plan is a list of nodes.
LEMMA NodesWhen ==
    ASSUME NEW n, NodeOK(n), NEW cond
    PROVE  NodesOK(When(cond, n)) /\ NodesOK(<<n>>) /\ Len(<<n>>) = 1 /\ <<n>>[1] = n
<1>1. <<n>> \in Seq({n}) /\ <<>> \in Seq({n}) /\ Len(<<n>>) = 1 /\ <<n>>[1] = n /\ Len(<<>>) = 0
  OBVIOUS
<1>2. IsSeq(<<n>>) /\ IsSeq(<<>>)
  BY <1>1, SeqIsSeq
<1>3. NodesOK(<<n>>) /\ NodesOK(<<>>)
  BY <1>1, <1>2 DEF NodesOK
<1> QED
  BY <1>1, <1>3 DEF When

\* A query the parser accepts has natural numbers where it has any.
QueryOK(q) ==
    /\ q.limit = <<>> \/ q.limit[1] \in Nat
    /\ q.offset = <<>> \/ q.offset[1] \in Nat
    /\ q.within = <<>> \/ q.within[1] \in Nat

\* ef_search of a plan is a natural number.
LEMMA EfNatural ==
    ASSUME NEW q, QueryOK(q)
    PROVE  compute_ef_search(q.within) \in Nat
<1>1. CASE q.within = <<>>
  BY <1>1, PlannerConfig DEF compute_ef_search
<1>2. CASE q.within[1] \in Nat
  <2>1. default_ef_search * q.within[1] \in Nat
    BY <1>2, PlannerConfig
  <2>2. (default_ef_search * q.within[1]) \div 100 \in Nat
    BY <2>1
  <2> QED
    BY <2>2, PlannerConfig DEF compute_ef_search, clamp
<1> QED
  BY <1>1, <1>2 DEF QueryOK

\* plan_to_tree: every plan it makes is well formed and starts with its scan.
LEMMA PlanNodes ==
    ASSUME NEW q, QueryOK(q), NEW merkle, plan_to_tree(q, merkle).planned
    PROVE  PlanOK(plan_to_tree(q, merkle))
<1> DEFINE limit == IF q.limit = <<>> THEN 10 ELSE q.limit[1]
           offset == IF q.offset = <<>> THEN 0 ELSE q.offset[1]
           ef == compute_ef_search(q.within)
           scan == [node |-> "AnnScan", ef_search |-> ef,
                    weight_mask |-> derive_weight_mask(q.metadata_where),
                    bias_filters |-> extract_bias_filters(q.metadata_where),
                    alpha |-> AlphaFor(q.within)]
           n2 == [node |-> "Merge", limit |-> limit]
           n3 == [node |-> "Filter", predicate |-> IF q.metadata_where = <<>> THEN <<>>
                                                   ELSE q.metadata_where[1]]
           n4 == [node |-> "Bias", scoring_fn |-> q.bias]
           n5 == [node |-> "Sort", order |-> q.order_by]
           n6 == [node |-> "Limit", limit |-> limit, offset |-> offset]
           n7 == [node |-> "Deadline", millis |-> q.within]
           w2 == When(merkle, n2)
           w3 == When(q.metadata_where # <<>> /\ ~AlreadyCovered(q.metadata_where), n3)
           w4 == When(q.bias # <<>>, n4)
           w5 == When(q.order_by # <<>>, n5)
           w7 == When(q.within # <<>>, n7)
           nodes == <<scan>> \o w2 \o w3 \o w4 \o w5 \o <<n6>> \o w7
<1>1. limit \in Nat /\ offset \in Nat /\ ef \in Nat
  BY EfNatural DEF QueryOK
<1>2. /\ NodeOK(scan) /\ NodeOK(n2) /\ NodeOK(n3) /\ NodeOK(n4)
      /\ NodeOK(n5) /\ NodeOK(n6) /\ NodeOK(n7) /\ scan.ef_search = ef
  <2> HIDE DEF limit, offset, ef
  <2> QED
    BY <1>1 DEF NodeOK
<1>3. /\ NodesOK(<<scan>>) /\ Len(<<scan>>) = 1 /\ <<scan>>[1] = scan
      /\ NodesOK(w2) /\ NodesOK(w3) /\ NodesOK(w4) /\ NodesOK(w5) /\ NodesOK(<<n6>>) /\ NodesOK(w7)
  <2> HIDE DEF scan, n2, n3, n4, n5, n6, n7
  <2> QED
    BY <1>2, NodesWhen
<1>4. NodesOK(nodes) /\ nodes[1] = scan
  <2> HIDE DEF scan, n6, w2, w3, w4, w5, w7
  <2> DEFINE s2 == <<scan>> \o w2
             s3 == s2 \o w3
             s4 == s3 \o w4
             s5 == s4 \o w5
             s6 == s5 \o <<n6>>
  <2>2. NodesOK(s2) /\ Len(s2) >= 1 /\ s2[1] = scan
    BY <1>3, NodesConcat
  <2>3. NodesOK(s3) /\ Len(s3) >= 1 /\ s3[1] = scan
    <3> HIDE DEF s2
    <3> QED
      BY <2>2, <1>3, NodesConcat
  <2>4. NodesOK(s4) /\ Len(s4) >= 1 /\ s4[1] = scan
    <3> HIDE DEF s3
    <3> QED
      BY <2>3, <1>3, NodesConcat
  <2>5. NodesOK(s5) /\ Len(s5) >= 1 /\ s5[1] = scan
    <3> HIDE DEF s4
    <3> QED
      BY <2>4, <1>3, NodesConcat
  <2>6. NodesOK(s6) /\ Len(s6) >= 1 /\ s6[1] = scan
    <3> HIDE DEF s5
    <3> QED
      BY <2>5, <1>3, NodesConcat
  <2>7. NodesOK(s6 \o w7) /\ (s6 \o w7)[1] = scan
    <3> HIDE DEF s6
    <3> QED
      BY <2>6, <1>3, NodesConcat
  <2> QED
    BY <2>7
<1>5. plan_to_tree(q, merkle) = [planned |-> TRUE, nodes |-> nodes]
  <2>1. ~PlanError.planned
    BY DEF PlanError
  <2> QED
    BY <2>1, Zenon DEF plan_to_tree
<1>6. plan_to_tree(q, merkle).nodes = nodes
  <2> HIDE DEF nodes
  <2> QED
    BY <1>5
<1> HIDE DEF nodes, scan
<1> QED
  BY <1>1, <1>2, <1>4, <1>6 DEF PlanOK

\* parse: the numbers of a parsed query are natural numbers.
LEMMA ParsedQuery ==
    ASSUME NEW t \in DOMAIN Texts, parse(Texts[t]).parsed
    PROVE  QueryOK(parse(Texts[t]))
<1> DEFINE text == Texts[t]
           given == [i \in DOMAIN text.clauses |-> ClauseOf(text.clauses[i].keyword)]
           Places(c) == {i \in DOMAIN given : given[i] = c}
           Arg(c) == IF Places(c) = {} THEN <<>>
                     ELSE <<text.clauses[CHOOSE i \in Places(c) : TRUE].arg>>
<1>1. \A c \in {"LIMIT", "OFFSET", "WITHIN"} : Arg(c) = <<>> \/ Arg(c)[1] \in Nat
  <2> SUFFICES ASSUME NEW c \in {"LIMIT", "OFFSET", "WITHIN"}, Places(c) # {}
               PROVE  Arg(c)[1] \in Nat
    OBVIOUS
  <2>1. PICK i \in Places(c) : i = CHOOSE j \in Places(c) : TRUE
    OBVIOUS
  <2>2. i \in DOMAIN text.clauses /\ ClauseOf(text.clauses[i].keyword) = c
    OBVIOUS
  <2>3. text.clauses[i].arg \in Nat
    BY <2>2, TextsAssumption
  <2> HIDE DEF Places
  <2> QED
    BY <2>1, <2>3
<1> DEFINE q == [parsed |-> TRUE, source |-> text.source, vector |-> text.vector,
                 metadata_where |-> Arg("WITH METADATA WHERE"), bias |-> Arg("BIAS"),
                 order_by |-> Arg("ORDER BY"), limit |-> Arg("LIMIT"),
                 offset |-> Arg("OFFSET"), within |-> Arg("WITHIN")]
<1>2. parse(Texts[t]) = q
  <2>1. ~ParseError.parsed
    BY DEF ParseError
  <2> QED
    BY <2>1, Zenon DEF parse
<1>3. QueryOK(q)
  <2> HIDE DEF Arg
  <2>1. q.limit = Arg("LIMIT") /\ q.offset = Arg("OFFSET") /\ q.within = Arg("WITHIN")
    OBVIOUS
  <2> QED
    BY <2>1, <1>1 DEF QueryOK
<1> QED
  BY <1>2, <1>3

\* The lists of plans, at a text.
LEMMA PlansAt ==
    ASSUME NEW t \in DOMAIN Texts
    PROVE  /\ Parsed[t] = parse(Texts[t])
           /\ Plan(t) = PlanFor(t, config.merkle_enabled) \/ Plan(t) \in {PlanFor(t, TRUE), PlanFor(t, FALSE)}
<1>0. Len(Texts) \in Nat /\ DOMAIN Texts = 1..Len(Texts)
  BY TextsAssumption
<1> DEFINE f == [u \in DOMAIN Texts |-> parse(Texts[u])]
           g == [u \in DOMAIN Texts |-> PlanFor(u, FALSE)]
           h == [u \in DOMAIN Texts |-> PlanFor(u, TRUE)]
<1>1. f = [u \in 1..Len(Texts) |-> f[u]] /\ g = [u \in 1..Len(Texts) |-> g[u]]
      /\ h = [u \in 1..Len(Texts) |-> h[u]]
  BY <1>0
<1>2. f[t] = parse(Texts[t]) /\ g[t] = PlanFor(t, FALSE) /\ h[t] = PlanFor(t, TRUE)
  OBVIOUS
<1>3. Parsed = Fixed(f) /\ Plans = Fixed(g) /\ MergePlans = Fixed(h)
  BY DEF Parsed, Plans, MergePlans
<1>4. Parsed = f /\ Plans = g /\ MergePlans = h
  <2> HIDE DEF f, g, h
  <2> QED
    BY <1>0, <1>1, <1>3, FixedIsSeq
<1> HIDE DEF f, g, h
<1> QED
  BY <1>2, <1>4 DEF Plan

\* The plans without Merge.
LEMMA PlainPlans ==
    DOMAIN Plans = DOMAIN Texts /\ \A t \in DOMAIN Texts : Plans[t] = PlanFor(t, FALSE)
<1> DEFINE g == [u \in DOMAIN Texts |-> PlanFor(u, FALSE)]
<1>0. Len(Texts) \in Nat /\ DOMAIN Texts = 1..Len(Texts)
  BY TextsAssumption
<1>1. g = [u \in 1..Len(Texts) |-> g[u]] /\ Plans = Fixed(g)
  BY <1>0 DEF Plans
<1>2. Plans = g
  <2> HIDE DEF g
  <2> QED
    BY <1>0, <1>1, FixedIsSeq
<1> QED
  BY <1>2

\* Every text that plans has a well-formed plan, with Merge and without.
LEMMA PlansOK ==
    ASSUME NEW t \in DOMAIN Texts, Plan(t).planned
    PROVE  PlanOK(Plan(t))
<1>1. PICK m : Plan(t) = PlanFor(t, m)
  BY PlansAt
<1>2. Parsed[t].parsed /\ Plan(t) = plan_to_tree(Parsed[t], m)
  <2>1. ~PlanError.planned
    BY DEF PlanError
  <2> QED
    BY <1>1, <2>1 DEF PlanFor
<1>3. QueryOK(Parsed[t])
  BY <1>2, PlansAt, ParsedQuery
<1> QED
  BY <1>2, <1>3, PlanNodes

-----------------------------------------------------------------------------
(* Execution returns lists *)

\* A deadline that passes cuts a natural number of results.
LEMMA LateNatural == \A late \in Lateness : late # <<>> => late[1] \in Nat
<1>1. Cardinality(Ids) \in Nat
  BY IdsAssumption, FS_CardinalityType
<1> QED
  BY <1>1 DEF Lateness

\* ann_scan returns a list.
LEMMA ScanIsSeq ==
    ASSUME NEW plan, PlanOK(plan), NEW query, NEW user, NEW topological
    PROVE  IsSeq(ann_scan(plan, query, user, topological))
<1>1. \A x, w : IsSeq(storage_search(x, plan.nodes[1].ef_search, w))
  <2> SUFFICES ASSUME NEW x, NEW w
               PROVE  IsSeq(storage_search(x, plan.nodes[1].ef_search, w))
    OBVIOUS
  <2> DEFINE held == {i \in Ids : index[i] # <<>>}
             byId == Sorted(held)
             Score(i) == w * abs(x - index[i][1] * VectorScale)
             s == [n \in DOMAIN byId |-> [id |-> byId[n], score |-> Score(byId[n])]]
  <2>1. Cardinality(held) \in Nat
    BY IdsAssumption, FS_Subset, FS_CardinalityType
  <2>2. DOMAIN byId = 1..Cardinality(held)
    BY DEF Sorted
  <2>3. s = [n \in 1..Cardinality(held) |-> s[n]]
    <3> HIDE DEF held, byId, Score
    <3> QED
      BY <2>2
  <2>4. IsSeq(s)
    <3> HIDE DEF s
    <3> QED
      BY <2>1, <2>3, FunctionIsSeq
  <2>5. IsSeq(Truncate(StableSort(s, Ascending), plan.nodes[1].ef_search))
    <3> HIDE DEF s
    <3> QED
      BY <2>4, SortIsSeq, TruncateIsSeq DEF PlanOK
  <2>6. storage_search(x, plan.nodes[1].ef_search, w)
          = Truncate(StableSort(s, Ascending), plan.nodes[1].ef_search)
    BY DEF storage_search
  <2> QED
    BY <2>5, <2>6
<1> QED
  BY <1>1 DEF ann_scan

\* Every plan node makes a list of a list.
LEMMA NodeIsSeq ==
    ASSUME NEW rs, IsSeq(rs), NEW n, NodeOK(n), NEW late \in Lateness
    PROVE  IsSeq(execute_node(rs, n, late))
<1>1. CASE n.node = "Filter"
  <2> DEFINE K == {i \in DOMAIN rs : evaluate_predicate(n.predicate, <<>>)}
  <2>1. execute_node(rs, n, late) = Fixed([k \in DOMAIN Sorted(K) |-> rs[Sorted(K)[k]]])
    BY <1>1 DEF execute_node, KeepIndices
  <2>2. K \in SUBSET (DOMAIN rs)
    OBVIOUS
  <2> HIDE DEF K
  <2> QED
    BY <2>1, <2>2, KeptIsSeq
<1>2. CASE n.node = "Merge"
  <2>1. execute_node(rs, n, late) = merge(rs, n.limit) /\ n.limit \in Nat
    BY <1>2 DEF execute_node, NodeOK
  <2> QED
    BY <2>1, SortIsSeq, DedupIsSeq, TruncateIsSeq DEF merge
<1>3. CASE n.node = "Sort"
  <2>1. execute_node(rs, n, late) = sort_results(rs, n.order[1])
    BY <1>3 DEF execute_node
  <2> QED
    BY <2>1, SortIsSeq DEF sort_results
<1>4. CASE n.node = "Limit"
  <2>1. execute_node(rs, n, late) = paginate(rs, n.limit, n.offset) /\ n.limit \in Nat /\ n.offset \in Nat
    BY <1>4 DEF execute_node, NodeOK
  <2> QED
    BY <2>1, SkipIsSeq, TruncateIsSeq DEF paginate
<1>5. CASE n.node = "Deadline" /\ late # <<>>
  <2>1. execute_node(rs, n, late) = Truncate(rs, late[1]) /\ late[1] \in Nat
    BY <1>5, LateNatural DEF execute_node
  <2> QED
    BY <2>1, TruncateIsSeq
<1>6. CASE n.node \notin {"Filter", "Merge", "Sort", "Limit"} /\ ~(n.node = "Deadline" /\ late # <<>>)
  <2>1. execute_node(rs, n, late) = rs
    BY <1>6 DEF execute_node
  <2> QED
    BY <2>1
<1> QED
  BY <1>1, <1>2, <1>3, <1>4, <1>5, <1>6

\* F is the function execute_plan defines, on 0..n.
ExecFcn(F, plan, scanned, late, n) ==
    F = [i \in 0..n |-> IF i = 0 THEN scanned
                        ELSE execute_node(F[i - 1], plan.nodes[i], late)]

\* The recursion of execute_plan defines a function on the prefixes of a plan.
LEMMA ExecDefined ==
    ASSUME NEW plan, Len(plan.nodes) \in Nat, NEW scanned, NEW late
    PROVE  \E F : /\ ExecFcn(F, plan, scanned, late, Len(plan.nodes))
                  /\ execute_plan(plan, scanned, late) = F[Len(plan.nodes)]
<1> DEFINE N == Len(plan.nodes)
           S == {n \in Nat : \E F : ExecFcn(F, plan, scanned, late, n)}
<1>1. 0 \in S
  <2> DEFINE G == [i \in 0..0 |-> scanned]
  <2>1. ExecFcn(G, plan, scanned, late, 0)
    BY DEF ExecFcn
  <2> QED
    BY <2>1
<1>2. \A n \in 0..(N - 1) : n \in S => n + 1 \in S
  <2> SUFFICES ASSUME NEW n \in 0..(N - 1), NEW F, ExecFcn(F, plan, scanned, late, n)
               PROVE  \E G : ExecFcn(G, plan, scanned, late, n + 1)
    OBVIOUS
  <2> DEFINE last == execute_node(F[n], plan.nodes[n + 1], late)
             G == [i \in 0..(n + 1) |-> IF i = n + 1 THEN last ELSE F[i]]
  <2>1. (\A i \in 0..n : G[i] = F[i]) /\ G[n + 1] = execute_node(F[n], plan.nodes[n + 1], late)
    <3> HIDE DEF last
    <3>1. (\A i \in 0..n : G[i] = F[i]) /\ G[n + 1] = last
      OBVIOUS
    <3> QED
      BY <3>1 DEF last
  <2>2. G[n + 1] = execute_node(G[n], plan.nodes[n + 1], late)
    <3> HIDE DEF G
    <3> QED
      BY <2>1
  <2>3. \A i \in 0..n : F[i] = IF i = 0 THEN scanned
                               ELSE execute_node(F[i - 1], plan.nodes[i], late)
    BY DEF ExecFcn
  <2>4. \A i \in 0..(n + 1) : G[i] = IF i = 0 THEN scanned
                               ELSE execute_node(G[i - 1], plan.nodes[i], late)
    <3> SUFFICES ASSUME NEW i \in 0..(n + 1)
                 PROVE  G[i] = IF i = 0 THEN scanned
                               ELSE execute_node(G[i - 1], plan.nodes[i], late)
      OBVIOUS
    <3> HIDE DEF G
    <3>1. CASE i = n + 1
      BY <3>1, <2>2
    <3>2. CASE i \in 1..n
      <4>1. i - 1 \in 0..n /\ i \in 0..n
        BY <3>2
      <4> QED
        BY <3>2, <4>1, <2>1, <2>3
    <3>3. CASE i = 0
      BY <3>3, <2>1, <2>3
    <3> QED
      BY <3>1, <3>2, <3>3
  <2>5. ExecFcn(G, plan, scanned, late, n + 1)
    BY <2>4 DEF ExecFcn
  <2> QED
    BY <2>5
<1>3. \A k \in 0..N : k \in S
  <2> HIDE DEF S
  <2> QED
    BY <1>1, <1>2, InductionUpTo
<1>4. \E F : ExecFcn(F, plan, scanned, late, N)
  BY <1>3
<1> DEFINE H == CHOOSE F : ExecFcn(F, plan, scanned, late, N)
<1>5. ExecFcn(H, plan, scanned, late, N)
  BY <1>4
<1>6. execute_plan(plan, scanned, late) = H[N]
  BY DEF execute_plan, ExecFcn
<1> QED
  BY <1>5, <1>6

\* execute_plan returns a list: Merge, Filter, Sort, Limit and Deadline do.
LEMMA ExecuteIsSeq ==
    ASSUME NEW plan, PlanOK(plan), NEW scanned, IsSeq(scanned), NEW late \in Lateness
    PROVE  IsSeq(execute_plan(plan, scanned, late))
<1> DEFINE N == Len(plan.nodes)
<1>1. N \in Nat
  BY IsSeqFacts DEF PlanOK, NodesOK
<1>2. PICK F : ExecFcn(F, plan, scanned, late, N) /\ execute_plan(plan, scanned, late) = F[N]
  BY <1>1, ExecDefined
<1>3. \A i \in 0..N : F[i] = IF i = 0 THEN scanned
                             ELSE execute_node(F[i - 1], plan.nodes[i], late)
  BY <1>2 DEF ExecFcn
<1> DEFINE S == {n \in 0..N : IsSeq(F[n])}
<1>4. 0 \in S
  BY <1>1, <1>3
<1>5. \A n \in 0..(N - 1) : n \in S => n + 1 \in S
  <2> SUFFICES ASSUME NEW n \in 0..(N - 1), IsSeq(F[n])
               PROVE  IsSeq(F[n + 1]) /\ n + 1 \in 0..N
    OBVIOUS
  <2>1. n + 1 \in 1..N /\ n + 1 \in 0..N /\ n + 1 # 0 /\ (n + 1) - 1 = n
    BY <1>1
  <2>2. F[n + 1] = execute_node(F[n], plan.nodes[n + 1], late)
    BY <2>1, <1>3
  <2>3. NodeOK(plan.nodes[n + 1])
    BY <2>1 DEF PlanOK, NodesOK
  <2> QED
    BY <2>1, <2>2, <2>3, NodeIsSeq
<1>6. \A k \in 0..N : k \in S
  <2> HIDE DEF S, N
  <2> QED
    BY <1>1, <1>4, <1>5, InductionUpTo
<1> QED
  BY <1>1, <1>2, <1>6

-----------------------------------------------------------------------------
(* Pages *)

\* p is the page of at most l elements of s after the first o.
IsPage(p, s, l, o) ==
  /\ IsSeq(p)
  /\ Len(p) = IF Len(s) <= o THEN 0 ELSE IF Len(s) - o < l THEN Len(s) - o ELSE l
  /\ \A i \in 1..Len(p) : p[i] = s[o + i]

\* The Limit arm returns a page.
LEMMA PaginatePage ==
    ASSUME NEW s, IsSeq(s), NEW l \in Nat, NEW o \in Nat
    PROVE  IsPage(paginate(s, l, o), s, l, o)
<1> DEFINE n == Len(s)
           u == Skip(s, o)
           m == IF Len(u) < l THEN Len(u) ELSE l
           p == SubSeq(u, 1, m)
           Y == {s[i] : i \in DOMAIN s}
           Z == {u[i] : i \in DOMAIN u}
<1>1. n \in Nat /\ s \in Seq(Y) /\ IsSeq(u)
  BY IsSeqFacts, SkipIsSeq DEF IsSeq
<1>2. paginate(s, l, o) = p
  BY DEF paginate, Truncate
<1>3. u = SubSeq(s, o + 1, n)
  BY DEF Skip
<1> HIDE DEF Y, n
<1>4. Len(u) = IF n <= o THEN 0 ELSE n - o
  BY <1>1, <1>3 DEF n
<1>5. \A i \in 1..Len(u) : u[i] = s[o + i]
  <2> HIDE DEF u
  <2>1. n <= o => 1..Len(u) = {}
    BY <1>1, <1>4
  <2>2. CASE n > o
    <3>1. \A i \in 1..(n - o) : SubSeq(s, o + 1, n)[i] = s[i + (o + 1) - 1]
      BY <1>1, <2>2 DEF n
    <3>2. \A i \in 1..(n - o) : i + (o + 1) - 1 = o + i
      BY <1>1, <2>2
    <3>3. Len(u) = n - o
      BY <1>1, <1>4, <2>2
    <3> QED
      BY <1>3, <3>1, <3>2, <3>3
  <2> QED
    BY <1>1, <2>1, <2>2
<1> HIDE DEF u
<1>6. p = Truncate(u, l) /\ Len(u) \in Nat /\ u \in Seq(Z)
  BY <1>1, IsSeqFacts DEF Truncate, IsSeq
<1> HIDE DEF Z
<1>7. m \in Nat /\ m <= Len(u) /\ m <= l
  BY <1>6
<1>8. Len(p) = m
  <2> HIDE DEF m
  <2> QED
    BY <1>6, <1>7
<1>9. IsSeq(p) /\ \A i \in 1..Len(p) : p[i] = u[i]
  <2> HIDE DEF p, m
  <2>1. p = Truncate(u, l)
    BY <1>6
  <2> QED
    BY <1>1, <2>1, TruncateFacts
<1> HIDE DEF p
<1>10. \A i \in 1..Len(p) : p[i] = s[o + i]
  BY <1>5, <1>6, <1>7, <1>8, <1>9
<1> QED
  BY <1>1, <1>2, <1>4, <1>8, <1>9, <1>10 DEF IsPage, n

\* Two pages that touch are one longer page.
Joined(s, l, m, o) == paginate(s, l, o) \o paginate(s, m, o + l) = paginate(s, l + m, o)

\* Two consecutive pages of paginate make the page of their joint length.
LEMMA PagesJoin ==
    ASSUME NEW s, IsSeq(s), NEW l \in Nat, NEW m \in Nat, NEW o \in Nat
    PROVE  Joined(s, l, m, o)
<1> DEFINE n == Len(s)
           p == paginate(s, l, o)
           q == paginate(s, m, o + l)
           r == paginate(s, l + m, o)
           Y == {p[i] : i \in DOMAIN p} \cup {q[i] : i \in DOMAIN q}
<1>0. o + l \in Nat /\ l + m \in Nat /\ n \in Nat
  BY IsSeqFacts
<1>1. IsPage(p, s, l, o) /\ IsPage(q, s, m, o + l) /\ IsPage(r, s, l + m, o)
  BY <1>0, PaginatePage
<1> HIDE DEF p, q, r
<1>2. /\ IsSeq(p) /\ Len(p) = (IF n <= o THEN 0 ELSE IF n - o < l THEN n - o ELSE l)
      /\ \A i \in 1..Len(p) : p[i] = s[o + i]
  BY <1>1 DEF IsPage
<1>3. /\ IsSeq(q) /\ Len(q) = (IF n <= o + l THEN 0 ELSE IF n - (o + l) < m THEN n - (o + l) ELSE m)
      /\ \A i \in 1..Len(q) : q[i] = s[(o + l) + i]
  BY <1>1 DEF IsPage
<1>4. /\ IsSeq(r) /\ Len(r) = (IF n <= o THEN 0 ELSE IF n - o < l + m THEN n - o ELSE l + m)
      /\ \A i \in 1..Len(r) : r[i] = s[o + i]
  BY <1>1 DEF IsPage
<1> HIDE DEF n
<1>5. p \in Seq(Y) /\ q \in Seq(Y) /\ IsSeq(p \o q)
  <2>1. p \in Seq(Y) /\ q \in Seq(Y)
    BY <1>2, <1>3 DEF IsSeq
  <2>2. IsSeq(p \o q)
    BY <1>2, <1>3, ConcatIsSeq
  <2> QED
    BY <2>1, <2>2
<1> HIDE DEF Y
<1>6. /\ Len(p) \in Nat /\ Len(q) \in Nat /\ Len(p \o q) = Len(p) + Len(q)
      /\ \A i \in 1..Len(p) : (p \o q)[i] = p[i]
      /\ \A i \in (Len(p) + 1)..(Len(p) + Len(q)) : (p \o q)[i] = q[i - Len(p)]
  BY <1>5
<1> DEFINE a == Len(p)
           b == Len(q)
           c == Len(r)
           t == p \o q
<1>7. a + b = c /\ (b # 0 => a = l)
  <2>1. a = (IF n <= o THEN 0 ELSE IF n - o < l THEN n - o ELSE l)
    BY <1>2
  <2>2. b = (IF n <= o + l THEN 0 ELSE IF n - (o + l) < m THEN n - (o + l) ELSE m)
    BY <1>3
  <2>3. c = (IF n <= o THEN 0 ELSE IF n - o < l + m THEN n - o ELSE l + m)
    BY <1>4
  <2> HIDE DEF a, b, c
  <2> QED
    BY <1>0, <2>1, <2>2, <2>3
<1>8. ASSUME NEW i \in 1..c PROVE t[i] = r[i]
  <2>1. r[i] = s[o + i]
    BY <1>4
  <2>2. CASE i <= a
    <3>1. i \in 1..Len(p)
      BY <1>6, <1>7, <2>2
    <3> QED
      BY <1>2, <1>6, <2>1, <3>1
  <2>3. CASE ~(i <= a)
    <3>1. b # 0 /\ a = l /\ i \in (Len(p) + 1)..(Len(p) + Len(q)) /\ i - Len(p) \in 1..Len(q)
      BY <1>6, <1>7, <2>3
    <3>2. t[i] = q[i - Len(p)]
      BY <1>6, <3>1
    <3>3. q[i - Len(p)] = s[(o + l) + (i - Len(p))]
      BY <1>3, <3>1
    <3>4. (o + l) + (i - Len(p)) = o + i
      BY <1>6, <1>7, <3>1
    <3> QED
      BY <2>1, <3>2, <3>3, <3>4
  <2> QED
    BY <2>2, <2>3
<1>9. t = [i \in 1..Len(t) |-> t[i]] /\ r = [i \in 1..Len(r) |-> r[i]] /\ Len(t) = Len(r)
  BY <1>4, <1>5, <1>6, <1>7, IsSeqFacts
<1> HIDE DEF t, c
<1>10. t = r
  BY <1>8, <1>9 DEF c
<1> QED
  BY <1>10 DEF Joined, t, p, q, r

\* The part of a plan after its page is cut: a deadline or nothing.
IsDeadline(w) == w = <<>> \/ \E d : w = <<d>> /\ d.node = "Deadline"

\* nodes is P, then lim, then a deadline or nothing.
EndsWith(nodes, P, lim) ==
  /\ Len(nodes) \in Nat
  /\ \A i \in 1..Len(P) : nodes[i] = P[i]
  /\ nodes[Len(P) + 1] = lim
  /\ \/ Len(nodes) = Len(P) + 1
     \/ Len(nodes) = Len(P) + 2 /\ nodes[Len(P) + 2].node = "Deadline"

\* A plan ends with its limit, and perhaps a deadline behind it.
LEMMA EndOfPlan ==
    ASSUME NEW P, IsSeq(P), NEW lim, NEW w, IsDeadline(w)
    PROVE  EndsWith((P \o <<lim>>) \o w, P, lim)
<1> DEFINE n == Len(P)
           s == P \o <<lim>>
           t == s \o w
           X == {P[i] : i \in DOMAIN P} \cup {lim}
<1>1. P \in Seq(X) /\ <<lim>> \in Seq(X) /\ Len(<<lim>>) = 1 /\ <<lim>>[1] = lim
  BY DEF IsSeq
<1>2. n \in Nat
  BY IsSeqFacts
<1> HIDE DEF X
<1>3. s \in Seq(X) /\ Len(s) = n + 1 /\ (\A i \in 1..n : s[i] = P[i]) /\ s[n + 1] = lim
  BY <1>1, <1>2
<1> HIDE DEF s
<1>4. CASE w = <<>>
  <2>1. t = s
    BY <1>3, <1>4
  <2> QED
    BY <1>2, <1>3, <2>1 DEF EndsWith, s
<1>5. CASE w # <<>>
  <2>1. PICK d : w = <<d>> /\ d.node = "Deadline"
    BY <1>5 DEF IsDeadline
  <2>2. IsSeq(s)
    BY <1>3, SeqIsSeq
  <2> DEFINE Z == X \cup {d}
  <2>3. s \in Seq(Z) /\ <<d>> \in Seq(Z) /\ Len(<<d>>) = 1 /\ <<d>>[1] = d
    BY <1>3
  <2> HIDE DEF Z
  <2>4. /\ Len(t) = (n + 1) + 1 /\ (\A i \in 1..(n + 1) : t[i] = s[i]) /\ t[(n + 1) + 1] = d
    BY <1>2, <1>3, <2>1, <2>3
  <2> HIDE DEF t
  <2>5. Len(t) = n + 2 /\ Len(t) \in Nat /\ t[n + 2] = d /\ t[n + 1] = lim /\ \A i \in 1..n : t[i] = P[i]
    <3>1. n + 1 \in 1..(n + 1) /\ (\A i \in 1..n : i \in 1..(n + 1)) /\ (n + 1) + 1 = n + 2 /\ n + 2 \in Nat
      BY <1>2
    <3> QED
      BY <1>3, <2>4, <3>1
  <2> QED
    BY <2>1, <2>5 DEF EndsWith, t, s
<1> QED
  BY <1>4, <1>5

\* What a plan returns is a page of what its part before Limit returns, when
\* the deadline is met.
LEMMA PageOfPlan ==
    ASSUME NEW plan, NEW P, IsSeq(P), NEW lim, lim.node = "Limit",
           EndsWith(plan.nodes, P, lim), NEW scanned
    PROVE  execute_plan(plan, scanned, <<>>)
             = paginate(execute_plan([nodes |-> P], scanned, <<>>), lim.limit, lim.offset)
<1> DEFINE n == Len(P)
           N == Len(plan.nodes)
           part == [nodes |-> P]
           nodes == plan.nodes
<1>1. n \in Nat /\ N \in Nat /\ part.nodes = P
  BY IsSeqFacts DEF EndsWith
<1>2. PICK F : ExecFcn(F, plan, scanned, <<>>, N) /\ execute_plan(plan, scanned, <<>>) = F[N]
  BY <1>1, ExecDefined
<1>3. PICK G : ExecFcn(G, part, scanned, <<>>, n) /\ execute_plan(part, scanned, <<>>) = G[n]
  <2> HIDE DEF part
  <2>1. Len(part.nodes) \in Nat
    BY <1>1
  <2>2. PICK G : ExecFcn(G, part, scanned, <<>>, Len(part.nodes)) /\ execute_plan(part, scanned, <<>>) = G[Len(part.nodes)]
    BY <2>1, ExecDefined
  <2> QED
    BY <1>1, <2>2
<1>4. \A i \in 0..N : F[i] = IF i = 0 THEN scanned ELSE execute_node(F[i - 1], nodes[i], <<>>)
  BY <1>2 DEF ExecFcn
<1>5. \A i \in 0..n : G[i] = IF i = 0 THEN scanned ELSE execute_node(G[i - 1], P[i], <<>>)
  BY <1>1, <1>3 DEF ExecFcn
<1>6. /\ \A i \in 1..n : nodes[i] = P[i]
      /\ nodes[n + 1] = lim
      /\ N = n + 1 \/ (N = n + 2 /\ nodes[n + 2].node = "Deadline")
  BY DEF EndsWith
<1> HIDE DEF n, N, part, nodes
<1> DEFINE S == {k \in 0..n : F[k] = G[k]}
<1>7. 0 \in S
  <2>1. 0 \in 0..n /\ 0 \in 0..N
    BY <1>1
  <2> QED
    BY <1>4, <1>5, <2>1
<1>8. \A k \in 0..(n - 1) : k \in S => k + 1 \in S
  <2> SUFFICES ASSUME NEW k \in 0..(n - 1), F[k] = G[k] PROVE k + 1 \in 0..n /\ F[k + 1] = G[k + 1]
    OBVIOUS
  <2>1. k + 1 \in 0..n /\ k + 1 \in 0..N /\ k + 1 \in 1..n /\ k + 1 # 0 /\ (k + 1) - 1 = k
    BY <1>1, <1>6
  <2>2. F[k + 1] = execute_node(F[k], nodes[k + 1], <<>>)
    BY <1>4, <2>1
  <2>3. G[k + 1] = execute_node(G[k], P[k + 1], <<>>)
    BY <1>5, <2>1
  <2> QED
    BY <1>6, <2>1, <2>2, <2>3
<1>9. F[n] = G[n]
  <2>1. \A k \in 0..n : k \in S
    <3> HIDE DEF S
    <3> QED
      BY <1>1, <1>7, <1>8, InductionUpTo
  <2>2. n \in 0..n
    BY <1>1
  <2> QED
    BY <2>1, <2>2
<1>10. F[n + 1] = paginate(F[n], lim.limit, lim.offset)
  <2>1. n + 1 \in 0..N /\ n + 1 # 0 /\ (n + 1) - 1 = n
    BY <1>1, <1>6
  <2>2. F[n + 1] = execute_node(F[n], lim, <<>>)
    BY <1>4, <1>6, <2>1
  <2>3. execute_node(F[n], lim, <<>>) = paginate(F[n], lim.limit, lim.offset)
    BY DEF execute_node
  <2> QED
    BY <2>2, <2>3
<1>11. F[N] = F[n + 1]
  <2>1. CASE N = n + 1
    BY <2>1
  <2>2. CASE N = n + 2 /\ nodes[n + 2].node = "Deadline"
    <3>1. n + 2 \in 0..N /\ n + 2 # 0 /\ (n + 2) - 1 = n + 1
      BY <1>1, <2>2
    <3>2. F[n + 2] = execute_node(F[n + 1], nodes[n + 2], <<>>)
      BY <1>4, <3>1
    <3>3. execute_node(F[n + 1], nodes[n + 2], <<>>) = F[n + 1]
      BY <2>2 DEF execute_node
    <3> QED
      BY <2>2, <3>2, <3>3
  <2> QED
    BY <1>6, <2>1, <2>2
<1> QED
  BY <1>2, <1>3, <1>9, <1>10, <1>11 DEF part

\* The nodes of a plan without Merge before its page is cut.
BeforeLimit(q) ==
  <<[node |-> "AnnScan", ef_search |-> compute_ef_search(q.within),
     weight_mask |-> derive_weight_mask(q.metadata_where),
     bias_filters |-> extract_bias_filters(q.metadata_where),
     alpha |-> AlphaFor(q.within)]>>
  \o <<>>
  \o When(q.metadata_where # <<>> /\ ~AlreadyCovered(q.metadata_where),
          [node |-> "Filter", predicate |-> IF q.metadata_where = <<>> THEN <<>> ELSE q.metadata_where[1]])
  \o When(q.bias # <<>>, [node |-> "Bias", scoring_fn |-> q.bias])
  \o When(q.order_by # <<>>, [node |-> "Sort", order |-> q.order_by])

\* They are a plan of their own.
LEMMA BeforeLimitOK ==
    ASSUME NEW q, QueryOK(q)
    PROVE  NodesOK(BeforeLimit(q)) /\ BeforeLimit(q)[1].ef_search \in Nat
<1> DEFINE ef == compute_ef_search(q.within)
           scan == [node |-> "AnnScan", ef_search |-> ef,
                    weight_mask |-> derive_weight_mask(q.metadata_where),
                    bias_filters |-> extract_bias_filters(q.metadata_where),
                    alpha |-> AlphaFor(q.within)]
           n3 == [node |-> "Filter", predicate |-> IF q.metadata_where = <<>> THEN <<>>
                                                   ELSE q.metadata_where[1]]
           n4 == [node |-> "Bias", scoring_fn |-> q.bias]
           n5 == [node |-> "Sort", order |-> q.order_by]
           w3 == When(q.metadata_where # <<>> /\ ~AlreadyCovered(q.metadata_where), n3)
           w4 == When(q.bias # <<>>, n4)
           w5 == When(q.order_by # <<>>, n5)
           s2 == <<scan>> \o <<>>
           s3 == s2 \o w3
           s4 == s3 \o w4
           s5 == s4 \o w5
<1>1. ef \in Nat
  BY EfNatural
<1>2. NodeOK(scan) /\ NodeOK(n3) /\ NodeOK(n4) /\ NodeOK(n5) /\ scan.ef_search = ef
  <2> HIDE DEF ef
  <2> QED
    BY DEF NodeOK
<1>3. /\ NodesOK(<<scan>>) /\ Len(<<scan>>) = 1 /\ <<scan>>[1] = scan
      /\ NodesOK(w3) /\ NodesOK(w4) /\ NodesOK(w5)
  <2> HIDE DEF scan, n3, n4, n5
  <2> QED
    BY <1>2, NodesWhen
<1>4. BeforeLimit(q) = s5
  BY DEF BeforeLimit
<1> HIDE DEF scan, w3, w4, w5
<1>5. NodesOK(s2) /\ Len(s2) >= 1 /\ s2[1] = scan
  <2>1. s2 = <<scan>>
    OBVIOUS
  <2> QED
    BY <1>3, <2>1
<1>6. NodesOK(s3) /\ Len(s3) >= 1 /\ s3[1] = scan
  <2> HIDE DEF s2
  <2> QED
    BY <1>3, <1>5, NodesConcat
<1>7. NodesOK(s4) /\ Len(s4) >= 1 /\ s4[1] = scan
  <2> HIDE DEF s3
  <2> QED
    BY <1>3, <1>6, NodesConcat
<1>8. NodesOK(s5) /\ s5[1] = scan
  <2> HIDE DEF s4
  <2> QED
    BY <1>3, <1>7, NodesConcat
<1> HIDE DEF s5
<1> QED
  BY <1>1, <1>2, <1>4, <1>8

\* p asks for the page l, o of the query q.
AsksPage(p, q, l, o) ==
  /\ p.within = q.within /\ p.metadata_where = q.metadata_where /\ p.bias = q.bias
  /\ p.order_by = q.order_by /\ p.limit = <<l>> /\ p.offset = <<o>>

\* plan cuts that page.
CutsPage(plan, q, l, o) ==
  plan.nodes = (BeforeLimit(q) \o <<[node |-> "Limit", limit |-> l, offset |-> o]>>)
                 \o When(q.within # <<>>, [node |-> "Deadline", millis |-> q.within])

\* What a query plans to does not depend on its page, but for the Limit node.
LEMMA PlanOfPage ==
    ASSUME NEW q, NEW p, NEW l, NEW o, AsksPage(p, q, l, o), plan_to_tree(q, FALSE).planned
    PROVE  CutsPage(plan_to_tree(p, FALSE), q, l, o)
<1> DEFINE lim == [node |-> "Limit", limit |-> l, offset |-> o]
           w == When(q.within # <<>>, [node |-> "Deadline", millis |-> q.within])
           ef == compute_ef_search(q.within)
           nodes == (BeforeLimit(q) \o <<lim>>) \o w
<1>0. /\ p.within = q.within /\ p.metadata_where = q.metadata_where /\ p.bias = q.bias
      /\ p.order_by = q.order_by /\ p.limit = <<l>> /\ p.offset = <<o>>
  BY DEF AsksPage
<1>1. ~(q.bias # <<>> /\ q.order_by # <<>>) /\ ~(q.within # <<>> /\ OverBudget(ef, q.within[1]))
  <2>1. ~PlanError.planned
    BY DEF PlanError
  <2> QED
    BY <2>1, Zenon DEF plan_to_tree
<1>2. p.limit # <<>> /\ p.limit[1] = l /\ p.offset # <<>> /\ p.offset[1] = o
  BY <1>0
<1>4. plan_to_tree(p, FALSE) = [planned |-> TRUE, nodes |-> nodes]
  <2>1. ~(p.bias # <<>> /\ p.order_by # <<>>) /\ ~(p.within # <<>> /\ OverBudget(compute_ef_search(p.within), p.within[1]))
    BY <1>0, <1>1
  <2> DEFINE pl == IF p.limit = <<>> THEN 10 ELSE p.limit[1]
             po == IF p.offset = <<>> THEN 0 ELSE p.offset[1]
             merge2 == When(FALSE, [node |-> "Merge", limit |-> pl])
             scan == [node |-> "AnnScan", ef_search |-> compute_ef_search(p.within),
                      weight_mask |-> derive_weight_mask(p.metadata_where),
                      bias_filters |-> extract_bias_filters(p.metadata_where),
                      alpha |-> AlphaFor(p.within)]
             w3 == When(p.metadata_where # <<>> /\ ~AlreadyCovered(p.metadata_where),
                        [node |-> "Filter", predicate |-> IF p.metadata_where = <<>> THEN <<>>
                                                          ELSE p.metadata_where[1]])
             w4 == When(p.bias # <<>>, [node |-> "Bias", scoring_fn |-> p.bias])
             w5 == When(p.order_by # <<>>, [node |-> "Sort", order |-> p.order_by])
             page == [node |-> "Limit", limit |-> pl, offset |-> po]
             w7 == When(p.within # <<>>, [node |-> "Deadline", millis |-> p.within])
  <2>2. pl = l /\ po = o
    BY <1>2
  <2>3. plan_to_tree(p, FALSE)
          = [planned |-> TRUE, nodes |-> <<scan>> \o merge2 \o w3 \o w4 \o w5 \o <<page>> \o w7]
    BY <2>1, Zenon DEF plan_to_tree
  <2>4. merge2 = <<>>
    <3> DEFINE unused == [node |-> "Merge", limit |-> pl]
    <3>1. merge2 = When(FALSE, unused)
      OBVIOUS
    <3> HIDE DEF unused, merge2
    <3> QED
      BY ONLY <3>1 DEF When
  <2>5. BeforeLimit(p) = <<scan>> \o <<>> \o w3 \o w4 \o w5
    BY DEF BeforeLimit
  <2>6. BeforeLimit(p) = BeforeLimit(q)
    BY <1>0 DEF BeforeLimit
  <2>7. page = lim
    <3> HIDE DEF pl, po
    <3> QED
      BY <2>2
  <2>8. w7 = w
    BY <1>0
  <2> HIDE DEF scan, merge2, w3, w4, w5, page, w7, lim, w
  <2>9. <<scan>> \o merge2 \o w3 \o w4 \o w5 = BeforeLimit(q)
    BY <2>4, <2>5, <2>6
  <2> DEFINE before == <<scan>> \o merge2 \o w3 \o w4 \o w5
  <2>10. plan_to_tree(p, FALSE) = [planned |-> TRUE, nodes |-> before \o <<page>> \o w7]
    BY <2>3
  <2>11. before = BeforeLimit(q)
    BY <2>9
  <2> HIDE DEF before
  <2>12. before \o <<page>> \o w7 = (BeforeLimit(q) \o <<lim>>) \o w
    BY <2>7, <2>8, <2>11
  <2> QED
    BY ONLY <2>10, <2>12
<1>5. plan_to_tree(p, FALSE).nodes = nodes
  <2> DEFINE plan == plan_to_tree(p, FALSE)
  <2>1. plan = [planned |-> TRUE, nodes |-> nodes]
    BY <1>4
  <2> HIDE DEF plan, nodes
  <2>2. plan.nodes = nodes
    BY <2>1
  <2> QED
    BY <2>2 DEF plan
<1> QED
  BY <1>5 DEF CutsPage

\* A parsed query has these fields.
QueryRecord(q) ==
  q = [parsed |-> q.parsed, source |-> q.source, vector |-> q.vector, metadata_where |-> q.metadata_where,
       bias |-> q.bias, order_by |-> q.order_by, limit |-> q.limit, offset |-> q.offset, within |-> q.within]

\* A text that parses gives a query record.
LEMMA ParsedRecord ==
    ASSUME NEW t \in DOMAIN Texts, parse(Texts[t]).parsed
    PROVE  QueryRecord(parse(Texts[t]))
<1> DEFINE text == Texts[t]
           given == [i \in DOMAIN text.clauses |-> ClauseOf(text.clauses[i].keyword)]
           Places(c) == {i \in DOMAIN given : given[i] = c}
           Arg(c) == IF Places(c) = {} THEN <<>>
                     ELSE <<text.clauses[CHOOSE i \in Places(c) : TRUE].arg>>
           q == [parsed |-> TRUE, source |-> text.source, vector |-> text.vector,
                 metadata_where |-> Arg("WITH METADATA WHERE"), bias |-> Arg("BIAS"),
                 order_by |-> Arg("ORDER BY"), limit |-> Arg("LIMIT"),
                 offset |-> Arg("OFFSET"), within |-> Arg("WITHIN")]
<1>1. parse(Texts[t]) = q
  <2>1. ~ParseError.parsed
    BY DEF ParseError
  <2> QED
    BY <2>1, Zenon DEF parse
<1> HIDE DEF Arg
<1>2. QueryRecord(q)
  BY DEF QueryRecord
<1> HIDE DEF q
<1> QED
  BY <1>1, <1>2

\* The query of a page is the query but for the page.
LEMMA PageQuery ==
    ASSUME NEW q, QueryRecord(q), NEW l, NEW o, NEW p, p = [q EXCEPT !.limit = <<l>>, !.offset = <<o>>]
    PROVE  AsksPage(p, q, l, o)
BY DEF QueryRecord, AsksPage

\* The plan of a page, in the table of plans.
LEMMA PagePlanAt ==
    ASSUME NEW t \in DOMAIN Texts, Parsed[t].parsed, NEW l \in 1..4, NEW o \in 1..3
    PROVE  PagePlans[t][l][o] = plan_to_tree([Parsed[t] EXCEPT !.limit = <<l>>, !.offset = <<o - 1>>], FALSE)
<1> DEFINE Entry(u, m, k) ==
             IF Parsed[u].parsed
             THEN plan_to_tree([Parsed[u] EXCEPT !.limit = <<m>>, !.offset = <<k - 1>>], FALSE)
             ELSE PlanError
           Row(u, m) == [k \in 1..3 |-> Entry(u, m, k)]
           Table(u) == [m \in 1..4 |-> Fixed(Row(u, m))]
           All == [u \in DOMAIN Texts |-> Fixed(Table(u))]
<1>0. Len(Texts) \in Nat /\ DOMAIN Texts = 1..Len(Texts) /\ 3 \in Nat /\ 4 \in Nat
  BY TextsAssumption
<1>1. PagePlans = Fixed(All)
  BY DEF PagePlans
<1>2. Entry(t, l, o) = plan_to_tree([Parsed[t] EXCEPT !.limit = <<l>>, !.offset = <<o - 1>>], FALSE)
  BY Zenon
<1> HIDE DEF Entry
<1>3. ASSUME NEW u, NEW m PROVE Fixed(Row(u, m)) = Row(u, m)
  <2> DEFINE f == Row(u, m)
  <2>1. f = [k \in 1..3 |-> f[k]]
    OBVIOUS
  <2> HIDE DEF f
  <2>2. Fixed(f) = f
    BY <1>0, <2>1, FixedIsSeq
  <2> QED
    BY <2>2 DEF f
<1>4. Row(t, l)[o] = Entry(t, l, o)
  OBVIOUS
<1> HIDE DEF Row
<1>5. ASSUME NEW u PROVE Fixed(Table(u)) = Table(u)
  <2> DEFINE f == Table(u)
  <2>1. f = [m \in 1..4 |-> f[m]]
    OBVIOUS
  <2> HIDE DEF f
  <2>2. Fixed(f) = f
    BY <1>0, <2>1, FixedIsSeq
  <2> QED
    BY <2>2 DEF f
<1>6. Table(t)[l] = Row(t, l)
  BY <1>3
<1> HIDE DEF Table
<1>7. Fixed(All) = All
  <2>1. All = [u \in 1..Len(Texts) |-> All[u]]
    BY <1>0
  <2> HIDE DEF All
  <2> QED
    BY <1>0, <2>1, FixedIsSeq
<1>8. All[t] = Table(t)
  BY <1>5
<1> HIDE DEF All
<1> QED
  BY <1>1, <1>2, <1>4, <1>6, <1>7, <1>8

\* A page of a query is a page of what the nodes before Limit return.
LEMMA PageResult ==
    ASSUME NEW t \in DOMAIN Texts, Parsed[t].parsed, plan_to_tree(Parsed[t], FALSE).planned,
           NEW l \in 1..4, NEW o \in 0..2, NEW found
    PROVE  execute_plan(PagePlans[t][l][o + 1], found, <<>>)
             = paginate(execute_plan([nodes |-> BeforeLimit(Parsed[t])], found, <<>>), l, o)
<1> DEFINE q == Parsed[t]
           p == [q EXCEPT !.limit = <<l>>, !.offset = <<o>>]
           plan == plan_to_tree(p, FALSE)
           lim == [node |-> "Limit", limit |-> l, offset |-> o]
           w == When(q.within # <<>>, [node |-> "Deadline", millis |-> q.within])
           P == BeforeLimit(q)
<1>0. o + 1 \in 1..3 /\ (o + 1) - 1 = o
  OBVIOUS
<1>1. q = parse(Texts[t])
  BY PlansAt
<1>2. QueryRecord(q) /\ QueryOK(q)
  BY <1>1, ParsedRecord, ParsedQuery
<1>3. PagePlans[t][l][o + 1] = plan
  <2>1. PagePlans[t][l][o + 1] = plan_to_tree([Parsed[t] EXCEPT !.limit = <<l>>, !.offset = <<(o + 1) - 1>>], FALSE)
    BY <1>0, PagePlanAt
  <2> QED
    BY <1>0, <2>1
<1> HIDE DEF q
<1>4. AsksPage(p, q, l, o)
  <2> HIDE DEF p
  <2>1. p = [q EXCEPT !.limit = <<l>>, !.offset = <<o>>]
    BY DEF p
  <2> QED
    BY <1>2, <2>1, PageQuery
<1> HIDE DEF p
<1>5. plan_to_tree(q, FALSE).planned
  BY DEF q
<1>6. plan.nodes = (P \o <<lim>>) \o w
  <2>1. CutsPage(plan, q, l, o)
    BY <1>4, <1>5, PlanOfPage
  <2> HIDE DEF plan
  <2> QED
    BY <2>1 DEF CutsPage
<1>7. IsSeq(P)
  BY <1>2, BeforeLimitOK DEF NodesOK
<1>8. IsDeadline(w)
  <2>1. [node |-> "Deadline", millis |-> q.within].node = "Deadline"
    OBVIOUS
  <2> QED
    BY <2>1 DEF When, IsDeadline
<1>9. lim.node = "Limit" /\ lim.limit = l /\ lim.offset = o
  OBVIOUS
<1> HIDE DEF P, lim, w, plan
<1>10. EndsWith(plan.nodes, P, lim)
  BY <1>6, <1>7, <1>8, EndOfPlan
<1>11. execute_plan(plan, found, <<>>) = paginate(execute_plan([nodes |-> P], found, <<>>), lim.limit, lim.offset)
  BY <1>7, <1>9, <1>10, PageOfPlan
<1> QED
  BY <1>3, <1>9, <1>11 DEF P, q

-----------------------------------------------------------------------------
(* The rate limiter *)

\* The number of ages that the limiter tells apart within a window.
Span == window_duration + 1

\* The arithmetic of ages and window lengths.
LEMMA Durations == Span \in Nat /\ Ages = 0..(Span - 1) /\ Span - 1 \in Nat /\ Span >= 2 /\ 0..window_duration + 1 = 0..Span
BY LimitsAssumption DEF Span, Ages

\* F is the function Below defines, on 0..n.
SumFcn(F, f, n) == F = [i \in 0..n |-> IF i = 0 THEN 0 ELSE F[i - 1] + f[i - 1]]

\* Below(f) is the sum it is meant to be.
LEMMA BelowDefined ==
    ASSUME NEW f \in [Ages -> Nat]
    PROVE  /\ Below(f) \in [0..Span -> Nat]
           /\ Below(f)[0] = 0
           /\ \A n \in Ages : Below(f)[n + 1] = Below(f)[n] + f[n]
<1>0. Span \in Nat /\ Ages = 0..(Span - 1) /\ 0..window_duration + 1 = 0..Span
  BY Durations
<1> DEFINE S == {n \in Nat : \E F \in [0..n -> Nat] : SumFcn(F, f, n)}
<1>1. 0 \in S
  <2> DEFINE G == [i \in 0..0 |-> 0]
  <2>1. G \in [0..0 -> Nat] /\ SumFcn(G, f, 0)
    BY DEF SumFcn
  <2> QED
    BY <2>1
<1>2. \A n \in 0..(Span - 1) : n \in S => n + 1 \in S
  <2> HIDE DEF S
  <2> SUFFICES ASSUME NEW n \in 0..(Span - 1), n \in S PROVE n + 1 \in S
    OBVIOUS
  <2> USE DEF S
  <2>a. PICK F \in [0..n -> Nat] : SumFcn(F, f, n)
    OBVIOUS
  <2> HIDE DEF S
  <2> DEFINE G == [i \in 0..(n + 1) |-> IF i = n + 1 THEN F[n] + f[n] ELSE F[i]]
  <2>0. f[n] \in Nat /\ F[n] \in Nat
    BY <1>0
  <2>1. \A i \in 0..n : G[i] = F[i]
    OBVIOUS
  <2>2. G[n + 1] = G[n] + f[n]
    BY <2>1
  <2>3. \A i \in 0..n : F[i] = IF i = 0 THEN 0 ELSE F[i - 1] + f[i - 1]
    BY <2>a DEF SumFcn
  <2>4. \A i \in 0..(n + 1) : G[i] = IF i = 0 THEN 0 ELSE G[i - 1] + f[i - 1]
    <3> SUFFICES ASSUME NEW i \in 0..(n + 1)
                 PROVE  G[i] = IF i = 0 THEN 0 ELSE G[i - 1] + f[i - 1]
      OBVIOUS
    <3> HIDE DEF G
    <3>1. CASE i = n + 1
      BY <3>1, <2>2
    <3>2. CASE i \in 1..n
      <4>1. i - 1 \in 0..n /\ i \in 0..n
        BY <3>2
      <4> QED
        BY <3>2, <4>1, <2>1, <2>3
    <3>3. CASE i = 0
      BY <3>3, <2>1, <2>3
    <3> QED
      BY <3>1, <3>2, <3>3
  <2>5. SumFcn(G, f, n + 1)
    BY <2>4 DEF SumFcn
  <2>6. G \in [0..(n + 1) -> Nat]
    BY <2>0
  <2> HIDE DEF G
  <2>7. n + 1 \in Nat
    BY <1>0
  <2> QED
    BY <2>5, <2>6, <2>7 DEF S
<1>3. \A k \in 0..Span : k \in S
  <2> HIDE DEF S
  <2> QED
    BY <1>0, <1>1, <1>2, InductionUpTo
<1>31. Span \in S
  <2> HIDE DEF S
  <2>1. Span \in 0..Span
    BY <1>0
  <2> QED
    BY <2>1, <1>3
<1>4. PICK F \in [0..Span -> Nat] : SumFcn(F, f, Span)
  BY <1>31
<1> DEFINE H == CHOOSE G : SumFcn(G, f, Span)
<1>5. SumFcn(H, f, Span)
  BY <1>4
<1>6. Below(f) = H
  BY <1>0 DEF Below, SumFcn
<1>7. \A i \in 0..Span : Below(f)[i] = IF i = 0 THEN 0 ELSE Below(f)[i - 1] + f[i - 1]
  <2> HIDE DEF H
  <2> QED
    BY <1>5, <1>6 DEF SumFcn
<1>8. \A n \in Ages : n + 1 \in 0..Span /\ n + 1 # 0 /\ (n + 1) - 1 = n
  BY <1>0
<1>9. /\ Below(f)[0] = 0
      /\ \A n \in Ages : Below(f)[n + 1] = Below(f)[n] + f[n]
  BY <1>0, <1>7, <1>8
<1> DEFINE N == {n \in 0..Span : Below(f)[n] \in Nat}
<1>10. 0 \in N
  BY <1>0, <1>9
<1>11. \A n \in 0..(Span - 1) : n \in N => n + 1 \in N
  <2> SUFFICES ASSUME NEW n \in 0..(Span - 1), Below(f)[n] \in Nat
               PROVE  n + 1 \in 0..Span /\ Below(f)[n + 1] \in Nat
    OBVIOUS
  <2>1. Below(f)[n + 1] = Below(f)[n] + f[n] /\ f[n] \in Nat
    BY <1>0, <1>9
  <2> QED
    BY <2>1, <1>0
<1>12. \A n \in 0..Span : n \in N
  <2> HIDE DEF N
  <2> QED
    BY <1>0, <1>10, <1>11, InductionUpTo
<1>13. Below(f) = [i \in 0..Span |-> Below(f)[i]]
  <2> HIDE DEF H
  <2> QED
    BY <1>5, <1>6 DEF SumFcn
<1> QED
  BY <1>9, <1>12, <1>13

\* Below(f) grows with the ages summed.
LEMMA BelowMonotone ==
    ASSUME NEW f \in [Ages -> Nat], NEW m \in 0..Span, NEW n \in 0..Span, m <= n
    PROVE  Below(f)[m] <= Below(f)[n]
<1>0. Span \in Nat /\ Ages = 0..(Span - 1)
  BY Durations
<1>1. /\ Below(f) \in [0..Span -> Nat]
      /\ \A k \in Ages : Below(f)[k + 1] = Below(f)[k] + f[k]
  BY BelowDefined
<1> DEFINE S == {k \in 0..Span : k < m \/ Below(f)[m] <= Below(f)[k]}
<1>2. 0 \in S
  BY <1>0, <1>1
<1>3. \A k \in 0..(Span - 1) : k \in S => k + 1 \in S
  <2> SUFFICES ASSUME NEW k \in 0..(Span - 1), k \in S PROVE k + 1 \in S
    OBVIOUS
  <2>1. /\ k + 1 \in 0..Span /\ Below(f)[k + 1] = Below(f)[k] + f[k] /\ f[k] \in Nat
        /\ Below(f)[k] \in Nat /\ Below(f)[m] \in Nat /\ Below(f)[k + 1] \in Nat
    BY <1>0, <1>1
  <2>2. CASE k < m
    BY <2>1, <2>2
  <2>3. CASE Below(f)[m] <= Below(f)[k]
    BY <2>1, <2>3
  <2> QED
    BY <2>2, <2>3
<1>4. n \in S
  <2> HIDE DEF S
  <2> QED
    BY <1>0, <1>2, <1>3, InductionUpTo
<1> QED
  BY <1>0, <1>4

\* One more request now.
LEMMA BelowBump ==
    ASSUME NEW f \in [Ages -> Nat]
    PROVE  /\ [f EXCEPT ![0] = @ + 1] \in [Ages -> Nat]
           /\ \A n \in 1..Span : Below([f EXCEPT ![0] = @ + 1])[n] = Below(f)[n] + 1
<1>0. Span \in Nat /\ Ages = 0..(Span - 1) /\ Span >= 2 /\ 0 \in Ages
  BY Durations
<1> DEFINE g == [f EXCEPT ![0] = @ + 1]
<1>1. g \in [Ages -> Nat] /\ g[0] = f[0] + 1 /\ \A a \in Ages : a # 0 => g[a] = f[a]
  BY <1>0
<1> HIDE DEF g
<1>2. /\ Below(f) \in [0..Span -> Nat] /\ Below(f)[0] = 0
      /\ \A n \in Ages : Below(f)[n + 1] = Below(f)[n] + f[n]
  BY BelowDefined
<1>3. /\ Below(g) \in [0..Span -> Nat] /\ Below(g)[0] = 0
      /\ \A n \in Ages : Below(g)[n + 1] = Below(g)[n] + g[n]
  BY <1>1, BelowDefined
<1> DEFINE S == {n \in 0..Span : n = 0 \/ Below(g)[n] = Below(f)[n] + 1}
<1>4. 0 \in S
  BY <1>0
<1>5. \A n \in 0..(Span - 1) : n \in S => n + 1 \in S
  <2> SUFFICES ASSUME NEW n \in 0..(Span - 1), n \in S PROVE n + 1 \in S
    OBVIOUS
  <2>1. /\ n + 1 \in 0..Span /\ n \in Ages /\ n \in 0..Span
    BY <1>0
  <2>4. Below(f)[n + 1] = Below(f)[n] + f[n] /\ Below(g)[n + 1] = Below(g)[n] + g[n]
    BY <2>1, <1>2, <1>3
  <2>5. f[n] \in Nat /\ g[n] \in Nat /\ Below(f)[n] \in Nat /\ Below(g)[n] \in Nat
    BY <2>1, <1>1, <1>2, <1>3
  <2>2. CASE n = 0
    BY <2>1, <2>2, <2>4, <2>5, <1>1, <1>2, <1>3
  <2>3. CASE n # 0
    <3>1. Below(g)[n] = Below(f)[n] + 1 /\ g[n] = f[n]
      BY <2>1, <2>3, <1>1
    <3> QED
      BY <3>1, <2>1, <2>4, <2>5
  <2> QED
    BY <2>2, <2>3
<1>6. \A n \in 0..Span : n \in S
  <2> HIDE DEF S
  <2> QED
    BY <1>0, <1>4, <1>5, InductionUpTo
<1>7. \A n \in 1..Span : Below(g)[n] = Below(f)[n] + 1
  BY <1>0, <1>6
<1> QED
  BY <1>1, <1>7 DEF g

\* Every request one tick older.
LEMMA BelowShift ==
    ASSUME NEW f \in [Ages -> Nat]
    PROVE  /\ [a \in Ages |-> IF a = 0 THEN 0 ELSE f[a - 1]] \in [Ages -> Nat]
           /\ \A n \in Ages :
                Below([a \in Ages |-> IF a = 0 THEN 0 ELSE f[a - 1]])[n + 1] = Below(f)[n]
<1>0. Span \in Nat /\ Ages = 0..(Span - 1) /\ Span >= 2 /\ 0 \in Ages
  BY Durations
<1> DEFINE g == [a \in Ages |-> IF a = 0 THEN 0 ELSE f[a - 1]]
<1>1. g \in [Ages -> Nat] /\ g[0] = 0 /\ \A a \in Ages : a # 0 => g[a] = f[a - 1]
  BY <1>0
<1> HIDE DEF g
<1>2. /\ Below(f) \in [0..Span -> Nat] /\ Below(f)[0] = 0
      /\ \A n \in Ages : Below(f)[n + 1] = Below(f)[n] + f[n]
  BY BelowDefined
<1>3. /\ Below(g) \in [0..Span -> Nat] /\ Below(g)[0] = 0
      /\ \A n \in Ages : Below(g)[n + 1] = Below(g)[n] + g[n]
  BY <1>1, BelowDefined
<1> DEFINE S == {n \in 0..(Span - 1) : Below(g)[n + 1] = Below(f)[n]}
<1>4. 0 \in S
  BY <1>0, <1>1, <1>2, <1>3
<1>5. \A n \in 0..((Span - 1) - 1) : n \in S => n + 1 \in S
  <2> SUFFICES ASSUME NEW n \in 0..((Span - 1) - 1), Below(g)[n + 1] = Below(f)[n]
               PROVE  n + 1 \in 0..(Span - 1) /\ Below(g)[(n + 1) + 1] = Below(f)[n + 1]
    OBVIOUS
  <2>1. n \in Ages /\ n + 1 \in Ages /\ n + 1 # 0 /\ (n + 1) - 1 = n
    BY <1>0
  <2>2. Below(g)[(n + 1) + 1] = Below(g)[n + 1] + f[n]
    BY <2>1, <1>1, <1>3
  <2>3. Below(f)[n + 1] = Below(f)[n] + f[n]
    BY <2>1, <1>2
  <2> QED
    BY <2>1, <2>2, <2>3, <1>0
<1>6. \A n \in 0..(Span - 1) : n \in S
  <2> HIDE DEF S
  <2>1. Span - 1 \in Nat
    BY <1>0
  <2> QED
    BY <2>1, <1>4, <1>5, InductionUpTo
<1> QED
  BY <1>0, <1>1, <1>6 DEF g

Window == [age : 0..Span, count : Nat]

\* While a window lasts, what was admitted since it began is counted in it, and
\* what was admitted before is at most one window's worth.  Once it has passed,
\* everything recent belongs to it, and nothing was admitted in this tick.
WindowOK(v, f) ==
    \/ /\ v.age <= window_duration
       /\ Below(f)[v.age + 1] <= v.count
       /\ Below(f)[v.age + 1] <= max_requests
       /\ Below(f)[Span] - Below(f)[v.age + 1] <= max_requests
    \/ /\ v.age > window_duration
       /\ f[0] = 0
       /\ Below(f)[Span] <= max_requests

\* The window and the admissions of one address.
LimiterOK(w, f) ==
    \/ w = <<>> /\ Below(f)[Span] = 0
    \/ \E v \in Window : w = <<v>> /\ WindowOK(v, f)

\* The limiter as a whole.
LimiterInv ==
    /\ DOMAIN windows = Ips
    /\ windows = [ip \in Ips |-> windows[ip]]
    /\ admitted \in [Ips -> [Ages -> Nat]]
    /\ \A ip \in Ips : LimiterOK(windows[ip], admitted[ip])

\* The limiter starts in order.
LEMMA LimiterStart == LimiterInit => LimiterInv
<1> SUFFICES ASSUME LimiterInit PROVE LimiterInv
  OBVIOUS
<1> DEFINE zero == [a \in Ages |-> 0]
<1>1. zero \in [Ages -> Nat] /\ \A a \in Ages : zero[a] = 0
  OBVIOUS
<1> HIDE DEF zero
<1>2. /\ Below(zero)[0] = 0 /\ Below(zero) \in [0..Span -> Nat]
      /\ \A n \in Ages : Below(zero)[n + 1] = Below(zero)[n] + zero[n]
  BY <1>1, BelowDefined
<1>3. Span \in Nat /\ Ages = 0..(Span - 1)
  BY Durations
<1> DEFINE S == {n \in 0..Span : Below(zero)[n] = 0}
<1>4. 0 \in S /\ \A n \in 0..(Span - 1) : n \in S => n + 1 \in S
  BY <1>1, <1>2, <1>3
<1>5. Span \in S
  <2> HIDE DEF S
  <2>1. Span \in 0..Span
    BY <1>3
  <2> QED
    BY <2>1, <1>3, <1>4, InductionUpTo
<1>6. Below(zero)[Span] = 0
  BY <1>5
<1>7. LimiterOK(<<>>, zero)
  BY <1>6 DEF LimiterOK
<1>8. windows = [ip \in Ips |-> <<>>] /\ admitted = [ip \in Ips |-> zero]
  BY DEF LimiterInit, zero
<1> QED
  BY <1>1, <1>7, <1>8 DEF LimiterInv

\* A request within the limit, or above it, in the window v or a new one.
LEMMA WindowCheck ==
    ASSUME NEW f \in [Ages -> Nat], NEW v \in Window, WindowOK(v, f)
    PROVE  /\ v.age > window_duration => WindowOK(Started, f) /\ Started \in Window
           /\ v.age > window_duration /\ 1 <= max_requests
                => WindowOK(Started, [f EXCEPT ![0] = @ + 1])
           /\ v.age <= window_duration =>
                /\ [v EXCEPT !.count = @ + 1] \in Window
                /\ [v EXCEPT !.count = @ + 1].count = v.count + 1
                /\ WindowOK([v EXCEPT !.count = @ + 1], f)
           /\ v.age <= window_duration /\ v.count + 1 <= max_requests
                => WindowOK([v EXCEPT !.count = @ + 1], [f EXCEPT ![0] = @ + 1])
<1>0. /\ Span \in Nat /\ Ages = 0..(Span - 1) /\ Span >= 2 /\ 0 \in Ages /\ window_duration = Span - 1
      /\ max_requests \in Nat
  BY Durations, LimitsAssumption DEF Span
<1>1. v.age \in 0..Span /\ v.count \in Nat
  BY DEF Window
<1> DEFINE g == [f EXCEPT ![0] = @ + 1]
           u == [v EXCEPT !.count = @ + 1]
<1>2. u \in Window /\ u.age = v.age /\ u.count = v.count + 1
  BY <1>1 DEF Window
<1>3. Started \in Window /\ Started.age = 0 /\ Started.count = 1
  BY <1>0 DEF Window, Started
<1>4. \A n \in 1..Span : Below(g)[n] = Below(f)[n] + 1
  BY BelowBump
<1>5. Below(f) \in [0..Span -> Nat] /\ Below(f)[0] = 0 /\ Below(f)[0 + 1] = Below(f)[0] + f[0]
  BY <1>0, BelowDefined
<1> HIDE DEF g, u, Span, Window
<1>6. CASE v.age > window_duration
  <2>1. f[0] = 0 /\ Below(f)[Span] <= max_requests
    BY <1>6, <1>0, <1>1 DEF WindowOK
  <2>2. Below(f)[0 + 1] = 0 /\ Below(f)[Span] \in Nat
    BY <2>1, <1>5, <1>0
  <2>3. WindowOK(Started, f)
    BY <2>1, <2>2, <1>3, <1>0 DEF WindowOK
  <2>4. Below(g)[0 + 1] = 1 /\ Below(g)[Span] = Below(f)[Span] + 1
    BY <2>2, <1>4, <1>0
  <2>5. 1 <= max_requests => WindowOK(Started, g)
    BY <2>1, <2>2, <2>4, <1>3, <1>0 DEF WindowOK
  <2> QED
    BY <1>6, <1>0, <1>1, <1>3, <2>3, <2>5 DEF g
<1>7. CASE v.age <= window_duration
  <2>1. /\ Below(f)[v.age + 1] <= v.count /\ Below(f)[v.age + 1] <= max_requests
        /\ Below(f)[Span] - Below(f)[v.age + 1] <= max_requests
    BY <1>7, <1>0, <1>1 DEF WindowOK
  <2>2. v.age + 1 \in 1..Span /\ Span \in 1..Span /\ v.age + 1 \in 0..Span /\ Span \in 0..Span
    BY <1>7, <1>0, <1>1
  <2>3. Below(f)[v.age + 1] \in Nat /\ Below(f)[Span] \in Nat
    BY <2>2, <1>5
  <2>4. Below(g)[v.age + 1] = Below(f)[v.age + 1] + 1 /\ Below(g)[Span] = Below(f)[Span] + 1
    BY <2>2, <1>4
  <2>5. WindowOK(u, f)
    BY <1>7, <2>1, <2>3, <1>0, <1>1, <1>2 DEF WindowOK
  <2>6. ASSUME v.count + 1 <= max_requests PROVE WindowOK(u, g)
    <3>1. Below(g)[u.age + 1] = Below(f)[v.age + 1] + 1
      BY <2>4, <1>2
    <3>2. /\ Below(f)[v.age + 1] + 1 <= v.count + 1
          /\ Below(f)[v.age + 1] + 1 <= max_requests
          /\ (Below(f)[Span] + 1) - (Below(f)[v.age + 1] + 1) <= max_requests
      <4> DEFINE p == Below(f)[v.age + 1]
                 d == Below(f)[Span]
      <4>1. p \in Nat /\ d \in Nat /\ p <= v.count /\ d - p <= max_requests
        BY <2>1, <2>3
      <4> HIDE DEF p, d
      <4>2. p + 1 <= v.count + 1 /\ p + 1 <= max_requests /\ (d + 1) - (p + 1) <= max_requests
        BY <4>1, <2>6, <1>0, <1>1
      <4> QED
        BY <4>2 DEF p, d
    <3>3. /\ Below(g)[u.age + 1] <= u.count
          /\ Below(g)[u.age + 1] <= max_requests
          /\ Below(g)[Span] - Below(g)[u.age + 1] <= max_requests
          /\ u.age <= window_duration
      BY <3>1, <3>2, <2>4, <1>2, <1>7
    <3> QED
      BY <3>3 DEF WindowOK
  <2> QED
    BY <1>7, <1>0, <1>1, <1>2, <2>5, <2>6 DEF g, u
<1> QED
  BY <1>6, <1>7, <1>0, <1>1

\* Every window one tick older.
LEMMA WindowTick ==
    ASSUME NEW f \in [Ages -> Nat], NEW v \in Window, WindowOK(v, f), NEW g,
           g = [a \in Ages |-> IF a = 0 THEN 0 ELSE f[a - 1]], NEW u,
           u = [v EXCEPT !.age = IF @ > window_duration THEN @ ELSE @ + 1]
    PROVE  u \in Window /\ WindowOK(u, g)
<1>0. /\ Span \in Nat /\ Ages = 0..(Span - 1) /\ Span >= 2 /\ 0 \in Ages /\ window_duration = Span - 1
      /\ max_requests \in Nat
  BY Durations, LimitsAssumption DEF Span
<1>1. v.age \in 0..Span /\ v.count \in Nat
  BY DEF Window
<1>2. \A n \in Ages : Below(g)[n + 1] = Below(f)[n]
  BY BelowShift
<1>3. g[0] = 0
  BY <1>0
<1>4. Below(f) \in [0..Span -> Nat]
  BY BelowDefined
<1>5. Span - 1 \in Ages /\ Span - 1 \in 0..Span /\ Span \in 0..Span /\ (Span - 1) + 1 = Span /\ Span - 1 <= Span
  BY <1>0
<1>6. Below(f)[Span - 1] <= Below(f)[Span] /\ Below(f)[Span - 1] \in Nat /\ Below(f)[Span] \in Nat
  BY <1>4, <1>5, BelowMonotone
<1>7. Below(g)[Span] = Below(f)[Span - 1]
  BY <1>2, <1>5
<1>8. u = [age |-> IF v.age > window_duration THEN v.age ELSE v.age + 1, count |-> v.count]
  BY DEF Window
<1>9. u.age = (IF v.age > window_duration THEN v.age ELSE v.age + 1) /\ u.count = v.count
  BY <1>8
<1>10. u \in Window
  BY <1>0, <1>1, <1>8 DEF Window
<1> HIDE DEF Span, Window
<1>11. CASE v.age > window_duration
  <2>1. Below(f)[Span] <= max_requests
    BY <1>11, <1>0, <1>1 DEF WindowOK
  <2>2. Below(g)[Span] <= max_requests
    BY <2>1, <1>6, <1>7, <1>0
  <2>3. u.age > window_duration
    BY <1>11, <1>9
  <2> QED
    BY <2>2, <2>3, <1>3, <1>10 DEF WindowOK
<1>12. CASE v.age = window_duration
  <2>1. Below(f)[v.age + 1] <= max_requests
    BY <1>12, <1>0, <1>1 DEF WindowOK
  <2>2. Below(f)[Span] <= max_requests
    <3>1. v.age + 1 = Span
      BY <1>12, <1>0
    <3> QED
      BY <2>1, <3>1
  <2>3. Below(g)[Span] <= max_requests
    BY <2>2, <1>6, <1>7, <1>0
  <2>4. u.age > window_duration
    BY <1>12, <1>9, <1>0
  <2> QED
    BY <2>3, <2>4, <1>3, <1>10 DEF WindowOK
<1>13. CASE v.age < window_duration
  <2>1. /\ Below(f)[v.age + 1] <= v.count /\ Below(f)[v.age + 1] <= max_requests
        /\ Below(f)[Span] - Below(f)[v.age + 1] <= max_requests
    BY <1>13, <1>0, <1>1 DEF WindowOK
  <2>2. u.age = v.age + 1 /\ u.age <= window_duration /\ v.age + 1 \in Ages /\ v.age + 1 \in 0..Span
    BY <1>13, <1>9, <1>0, <1>1
  <2>3. Below(g)[u.age + 1] = Below(f)[v.age + 1] /\ Below(f)[v.age + 1] \in Nat
    BY <2>2, <1>2, <1>4
  <2>4. Below(f)[Span - 1] - Below(f)[v.age + 1] <= max_requests
    BY <2>1, <2>3, <1>6, <1>0
  <2>5. /\ Below(g)[u.age + 1] <= u.count /\ Below(g)[u.age + 1] <= max_requests
        /\ Below(g)[Span] - Below(g)[u.age + 1] <= max_requests
    BY <2>1, <2>3, <2>4, <1>7, <1>9
  <2> QED
    BY <2>2, <2>5, <1>10 DEF WindowOK
<1> QED
  BY <1>11, <1>12, <1>13, <1>0, <1>1

\* check and the clock keep the limiter in order (rate_limiter.rs).
LEMMA LimiterStep ==
    ASSUME LimiterInv, (\E ip \in Ips : check(ip)) \/ Tick \/ UNCHANGED limiter
    PROVE  LimiterInv'
<1>0. /\ Span \in Nat /\ Ages = 0..(Span - 1) /\ Span >= 2 /\ 0 \in Ages /\ window_duration = Span - 1
      /\ max_requests \in Nat
  BY Durations, LimitsAssumption DEF Span
<1>1. CASE UNCHANGED limiter
  BY <1>1 DEF limiter, LimiterInv
<1>2. ASSUME NEW ip \in Ips, check(ip) PROVE LimiterInv'
  <2> DEFINE f == admitted[ip]
             w == windows[ip]
             g == IF Allowed(ip) THEN [f EXCEPT ![0] = @ + 1] ELSE f
  <2>1. f \in [Ages -> Nat] /\ LimiterOK(w, f)
    BY DEF LimiterInv
  <2>2. windows' = [windows EXCEPT ![ip] = <<window_after(ip)>>]
    BY <1>2 DEF check
  <2>3. admitted' = [admitted EXCEPT ![ip] = g]
    <3>1. CASE Allowed(ip)
      BY <1>2, <3>1 DEF check
    <3>2. CASE ~Allowed(ip)
      BY <1>2, <3>2 DEF check, LimiterInv
    <3> QED
      BY <3>1, <3>2
  <2>4. g \in [Ages -> Nat]
    BY <2>1, BelowBump
  <2>5. window_after(ip) \in Window /\ WindowOK(window_after(ip), g)
    <3>1. CASE w = <<>>
      <4>1. window_after(ip) = Started /\ (Allowed(ip) <=> 1 <= max_requests)
        BY <3>1 DEF window_after, Allowed, Started
      <4>2. Below(f)[Span] = 0
        BY <3>1, <2>1 DEF LimiterOK
      <4>3. /\ Below(f) \in [0..Span -> Nat] /\ Below(f)[0] = 0 /\ Below(f)[0 + 1] = Below(f)[0] + f[0]
        BY <2>1, <1>0, BelowDefined
      <4>31. 0 + 1 \in 0..Span /\ Span \in 0..Span /\ 0 + 1 <= Span
        BY <1>0
      <4>4. Below(f)[0 + 1] <= Below(f)[Span] /\ Below(f)[0 + 1] \in Nat
        <5> HIDE DEF f
        <5> QED
          BY <2>1, <4>3, <4>31, BelowMonotone
      <4>5. f[0] = 0 /\ f[0] \in Nat
        BY <2>1, <1>0, <4>2, <4>3, <4>4
      <4> DEFINE v == [age |-> Span, count |-> 0]
      <4>6. v \in Window /\ WindowOK(v, f) /\ v.age > window_duration
        BY <4>2, <4>5, <1>0 DEF Window, WindowOK
      <4> HIDE DEF v, f
      <4>7. /\ WindowOK(Started, f) /\ Started \in Window
            /\ 1 <= max_requests => WindowOK(Started, [f EXCEPT ![0] = @ + 1])
        BY <4>6, <2>1, WindowCheck
      <4> QED
        BY <4>1, <4>7
    <3>2. CASE w # <<>>
      <4>1. PICK v \in Window : w = <<v>> /\ WindowOK(v, f)
        BY <3>2, <2>1 DEF LimiterOK
      <4>2. w[1] = v /\ v.age \in 0..Span /\ v.count \in Nat
        BY <4>1 DEF Window
      <4>3. CASE v.age > window_duration
        <5>1. window_after(ip) = Started /\ (Allowed(ip) <=> 1 <= max_requests)
          BY <3>2, <4>2, <4>3 DEF window_after, Allowed, Started
        <5>2. /\ WindowOK(Started, f) /\ Started \in Window
              /\ 1 <= max_requests => WindowOK(Started, [f EXCEPT ![0] = @ + 1])
          BY <4>1, <4>3, <2>1, WindowCheck
        <5> QED
          BY <5>1, <5>2
      <4>4. CASE ~(v.age > window_duration)
        <5> DEFINE u == [v EXCEPT !.count = @ + 1]
        <5>0. v.age <= window_duration
          BY <4>2, <4>4, <1>0
        <5>1. window_after(ip) = u
          BY <3>2, <4>2, <4>4 DEF window_after
        <5>2. /\ u \in Window /\ u.count = v.count + 1 /\ WindowOK(u, f)
              /\ v.count + 1 <= max_requests => WindowOK(u, [f EXCEPT ![0] = @ + 1])
          BY <4>1, <5>0, <2>1, WindowCheck
        <5> HIDE DEF u
        <5>3. Allowed(ip) <=> v.count + 1 <= max_requests
          BY <5>1, <5>2 DEF Allowed
        <5> QED
          BY <5>1, <5>2, <5>3
      <4> QED
        BY <4>3, <4>4
    <3> QED
      BY <3>1, <3>2
  <2> HIDE DEF g
  <2>6. LimiterOK(<<window_after(ip)>>, g)
    BY <2>5 DEF LimiterOK
  <2>7. \A p \in Ips : LimiterOK(windows'[p], admitted'[p])
    <3> SUFFICES ASSUME NEW p \in Ips PROVE LimiterOK(windows'[p], admitted'[p])
      OBVIOUS
    <3>1. CASE p = ip
      <4>1. windows'[p] = <<window_after(ip)>> /\ admitted'[p] = g
        BY <3>1, <2>2, <2>3 DEF LimiterInv
      <4> QED
        BY <4>1, <2>6
    <3>2. CASE p # ip
      <4>1. windows'[p] = windows[p] /\ admitted'[p] = admitted[p]
        BY <3>2, <2>2, <2>3 DEF LimiterInv
      <4> QED
        BY <4>1 DEF LimiterInv
    <3> QED
      BY <3>1, <3>2
  <2>8. admitted' \in [Ips -> [Ages -> Nat]]
    BY <2>3, <2>4 DEF LimiterInv
  <2>9. DOMAIN windows' = Ips /\ windows' = [p \in Ips |-> windows'[p]]
    BY <2>2 DEF LimiterInv
  <2> QED
    BY <2>7, <2>8, <2>9 DEF LimiterInv
<1>3. CASE Tick
  <2>1. windows' = [ip \in Ips |-> IF windows[ip] = <<>> THEN <<>>
                   ELSE <<[windows[ip][1] EXCEPT !.age = IF @ > window_duration THEN @ ELSE @ + 1]>>]
    BY <1>3 DEF Tick
  <2>2. admitted' = [ip \in Ips |-> [a \in Ages |-> IF a = 0 THEN 0 ELSE admitted[ip][a - 1]]]
    BY <1>3 DEF Tick
  <2>3. \A ip \in Ips : admitted'[ip] \in [Ages -> Nat] /\ LimiterOK(windows'[ip], admitted'[ip])
    <3> SUFFICES ASSUME NEW ip \in Ips
                 PROVE  admitted'[ip] \in [Ages -> Nat] /\ LimiterOK(windows'[ip], admitted'[ip])
      OBVIOUS
    <3> DEFINE f == admitted[ip]
               g == [a \in Ages |-> IF a = 0 THEN 0 ELSE f[a - 1]]
    <3>1. admitted'[ip] = g
      BY <2>2
    <3>2. f \in [Ages -> Nat] /\ LimiterOK(windows[ip], f)
      BY DEF LimiterInv
    <3>3. g \in [Ages -> Nat] /\ \A n \in Ages : Below(g)[n + 1] = Below(f)[n]
      BY <3>2, BelowShift
    <3>4. CASE windows[ip] = <<>>
      <4>1. Below(f)[Span] = 0 /\ windows'[ip] = <<>>
        BY <3>4, <3>2, <2>1 DEF LimiterOK
      <4>2. Span - 1 \in Ages /\ Span - 1 \in 0..Span /\ Span \in 0..Span /\ (Span - 1) + 1 = Span /\ Span - 1 <= Span
        BY <1>0
      <4>3. Below(f) \in [0..Span -> Nat]
        BY <3>2, BelowDefined
      <4>4. Below(f)[Span - 1] <= Below(f)[Span] /\ Below(f)[Span - 1] \in Nat
        BY <3>2, <4>2, <4>3, BelowMonotone
      <4>41. Below(f)[Span - 1] = 0
        BY <4>1, <4>4
      <4>5. Below(f)[Span - 1] = 0 /\ Below(g)[(Span - 1) + 1] = Below(f)[Span - 1]
        <5> HIDE DEF g, f
        <5> QED
          BY <4>41, <4>2, <3>3
      <4>6. Below(g)[Span] = 0
        BY <4>2, <4>5
      <4> HIDE DEF g
      <4> QED
        BY <3>1, <3>3, <4>1, <4>6 DEF LimiterOK
    <3>5. CASE windows[ip] # <<>>
      <4>1. PICK v \in Window : windows[ip] = <<v>> /\ WindowOK(v, f)
        BY <3>5, <3>2 DEF LimiterOK
      <4> DEFINE u == [v EXCEPT !.age = IF @ > window_duration THEN @ ELSE @ + 1]
      <4>2. windows[ip][1] = v
        BY <4>1
      <4>3. windows'[ip] = <<u>>
        BY <3>5, <2>1, <4>2
      <4>4. u \in Window /\ WindowOK(u, g)
        BY <3>2, <4>1, WindowTick
      <4> HIDE DEF u, g
      <4> QED
        BY <3>1, <3>3, <4>3, <4>4 DEF LimiterOK
    <3> QED
      BY <3>4, <3>5
  <2>4. admitted' \in [Ips -> [Ages -> Nat]]
    BY <2>2, <2>3
  <2>5. DOMAIN windows' = Ips /\ windows' = [p \in Ips |-> windows'[p]]
    BY <2>1
  <2> QED
    BY <2>3, <2>4, <2>5 DEF LimiterInv
<1> QED
  BY <1>1, <1>2, <1>3

\* The limiter's invariant gives the bound on admitted requests.
LEMMA LimiterBounds ==
    ASSUME LimiterInv
    PROVE  /\ WindowBounded
           /\ \A ip \in Ips : windows[ip] = <<>> \/ windows[ip][1].age \in 0..window_duration + 1
<1>0. Span \in Nat /\ window_duration = Span - 1 /\ max_requests \in Nat /\ window_duration + 1 = Span
  BY Durations, LimitsAssumption DEF Span
<1> SUFFICES ASSUME NEW ip \in Ips
             PROVE  /\ Recent(ip) <= 2 * max_requests
                    /\ windows[ip] = <<>> \/ windows[ip][1].age \in 0..window_duration + 1
  BY DEF WindowBounded
<1>1. Below(admitted[ip]) \in [0..Span -> Nat]
  BY BelowDefined DEF LimiterInv
<1>2. Recent(ip) = Below(admitted[ip])[Span]
  BY <1>0 DEF Recent
<1>3. CASE windows[ip] = <<>>
  <2>1. Below(admitted[ip])[Span] = 0
    <3>1. LimiterOK(windows[ip], admitted[ip])
      BY DEF LimiterInv
    <3>2. \A v : <<v>> # <<>>
      OBVIOUS
    <3> QED
      BY <1>3, <3>1, <3>2 DEF LimiterOK
  <2> QED
    BY <1>0, <1>2, <1>3, <2>1
<1>4. CASE windows[ip] # <<>>
  <2>1. PICK v \in Window : windows[ip] = <<v>> /\ WindowOK(v, admitted[ip])
    BY <1>4 DEF LimiterInv, LimiterOK
  <2>2. windows[ip][1] = v /\ v.age \in 0..Span
    BY <2>1 DEF Window
  <2>3. Below(admitted[ip])[Span] <= 2 * max_requests
    <3>1. CASE v.age > window_duration
      <4>1. Below(admitted[ip])[Span] <= max_requests /\ Below(admitted[ip])[Span] \in Nat
        BY <2>1, <2>2, <3>1, <1>0, <1>1 DEF WindowOK
      <4> QED
        BY <4>1, <1>0
    <3>2. CASE v.age <= window_duration
      <4>1. v.age + 1 \in 0..Span /\ Span \in 0..Span
        BY <2>2, <3>2, <1>0
      <4>2. Below(admitted[ip])[v.age + 1] \in Nat /\ Below(admitted[ip])[Span] \in Nat
        BY <4>1, <1>1
      <4>3. /\ Below(admitted[ip])[v.age + 1] <= max_requests
            /\ Below(admitted[ip])[Span] - Below(admitted[ip])[v.age + 1] <= max_requests
        BY <2>1, <2>2, <3>2, <1>0 DEF WindowOK
      <4> QED
        BY <4>2, <4>3, <1>0
    <3> QED
      BY <3>1, <3>2, <2>2, <1>0
  <2> QED
    BY <1>0, <1>2, <2>2, <2>3
<1> QED
  BY <1>3, <1>4

-----------------------------------------------------------------------------
(* Footprints *)

\* A user has no footprint or one within [-1, 1].
FootprintsInv ==
    /\ footprints = [u \in Users |-> footprints[u]]
    /\ \A u \in Users : footprints[u] = <<>> \/ \E x \in -100..100 : footprints[u] = <<x>>

\* The blend of update_footprint stays within [-1, 1].
LEMMA BlendBounds ==
    ASSUME NEW old \in -100..100, NEW c \in -1..1, NEW q \in -1..1
    PROVE  blend(old, c, q) \in -100..100
<1>1. (7 * old) \div 10 \in -70..70
  OBVIOUS
<1>2. 30 * c * q \in -30..30
  <2>1. c \in {-1, 0, 1} /\ q \in {-1, 0, 1}
    OBVIOUS
  <2> QED
    BY <2>1
<1> QED
  BY <1>1, <1>2 DEF blend

\* update_footprint keeps the footprints within their bounds (episodic.rs).
LEMMA FootprintsClick ==
    ASSUME FootprintsInv, NEW u \in Users, NEW k \in Clicks, UpdateFootprint(u, k.clicked, k.query)
    PROVE  FootprintsInv'
<1> DEFINE old == IF footprints[u] = <<>> THEN 100 * k.clicked ELSE footprints[u][1]
           new == blend(old, k.clicked, k.query)
<1>1. k.clicked \in -1..1 /\ k.query \in -1..1
  BY ClicksAssumption
<1>2. old \in -100..100
  <2>1. CASE footprints[u] = <<>>
    <3>1. old = 100 * k.clicked
      BY <2>1
    <3>2. 100 * k.clicked \in -100..100
      BY <1>1
    <3> QED
      BY <3>1, <3>2
  <2>2. CASE footprints[u] # <<>>
    <3>1. PICK x \in -100..100 : footprints[u] = <<x>>
      BY <2>2 DEF FootprintsInv
    <3> QED
      BY <2>2, <3>1
  <2> QED
    BY <2>1, <2>2
<1>3. new \in -100..100
  <2> HIDE DEF old
  <2> QED
    BY <1>1, <1>2, BlendBounds
<1>4. footprints' = [footprints EXCEPT ![u] = <<new>>]
  BY DEF UpdateFootprint
<1> HIDE DEF new
<1>5. footprints' = [v \in Users |-> footprints'[v]]
  BY <1>4 DEF FootprintsInv
<1>6. ASSUME NEW v \in Users
      PROVE  footprints'[v] = <<>> \/ \E x \in -100..100 : footprints'[v] = <<x>>
  <2>1. CASE v = u
    <3>1. footprints'[v] = <<new>>
      BY <2>1, <1>4 DEF FootprintsInv
    <3> QED
      BY <3>1, <1>3
  <2>2. CASE v # u
    <3>1. footprints'[v] = footprints[v]
      BY <2>2, <1>4 DEF FootprintsInv
    <3> QED
      BY <3>1 DEF FootprintsInv
  <2> QED
    BY <2>1, <2>2
<1> QED
  BY <1>5, <1>6 DEF FootprintsInv

-----------------------------------------------------------------------------
(* Authentication *)

\* Whoever a provider lets in has credentials the mode accepts: a missing or a
\* wrong credential is never good enough, in no mode.
LEMMA AuthSound ==
    ASSUME NEW mode, NEW h \in HeaderSets, authenticate(mode, h) = Ok
    PROVE  Entitled(mode, h)
<1>0. /\ h.key = <<>> \/ h.key = <<h.key[1]>>
      /\ h.token = <<>> \/ h.token = <<h.token[1]>>
  BY HeadersAssumption
<1>1. Ok # MissingCredentials /\ Ok # InvalidCredentials
  BY DEF Ok, MissingCredentials, InvalidCredentials
<1>2. api_key_auth(h) = Ok => \E k \in ApiKeys : h.key = <<k>>
  BY <1>0, <1>1 DEF api_key_auth
<1>3. jwt_auth(h) = Ok => h.token = <<"valid">>
  BY <1>0, <1>1 DEF jwt_auth
<1>4. CASE mode = "api-key"
  BY <1>2, <1>4 DEF authenticate, Entitled
<1>5. CASE mode = "jwt"
  BY <1>3, <1>5 DEF authenticate, Entitled
<1>6. CASE mode = "both"
  <2>1. multi_auth(h) = Ok
    BY <1>6 DEF authenticate
  <2>2. api_key_auth(h) = Ok \/ jwt_auth(h) = Ok
    BY <2>1 DEF multi_auth
  <2> QED
    BY <1>2, <1>3, <1>6, <2>2 DEF Entitled
<1> QED
  BY <1>4, <1>5, <1>6 DEF Entitled

-----------------------------------------------------------------------------
(* One request *)

Stages == {"idle", "body", "log", "hot", "stream"} \cup Executing \cup Tracking
Fields == {"stage", "entitled", "entry", "pos", "text", "user", "vector", "calls", "answer",
           "scans", "results", "out", "channel", "received", "gone"}

\* The calls made so far: none before the query starts, an answer that is waited
\* for is one of them, and a back-off has a call left and an answer to retry.
CallsOK(r) ==
    /\ r.calls \in 0..max_retries + 1
    /\ r.stage = "body" => r.calls = 0
    /\ r.stage = "embed" => r.calls >= 1
    /\ r.stage = "backoff" => r.calls \in 1..max_retries /\ r.answer \in Retryable

\* The lists a request carries.
ListsOK(r) ==
    /\ IsSeq(r.out) /\ IsSeq(r.channel) /\ IsSeq(r.received)
    /\ Len(r.channel) <= ChannelCapacity
    /\ IsSeq(r.scans) /\ \A i \in 1..Len(r.scans) : IsSeq(r.scans[i])

\* A query that is executed has a plan; the records sent are the results.
PlannedOK(r) == r.stage \in Executing => r.text \in DOMAIN Texts /\ Plan(r.text).planned
StreamOK(r) == r.stage = "stream" /\ ~r.gone => r.received \o r.channel \o r.out = r.results

\* A request its handler can be in.
ConnOK(r) ==
    /\ r = [f \in Fields |-> r[f]]
    /\ r.stage \in Stages
    /\ r.entitled
    /\ CallsOK(r) /\ ListsOK(r) /\ PlannedOK(r) /\ StreamOK(r)
    /\ Len(r.scans) <= ScansNeeded

\* What a step may do to a request besides keeping it in order.
MoveOK(old, new) ==
    ConnOK(new) /\ (new.calls > old.calls => old.calls = 0 \/ old.answer \in Retryable)

\* Facts about the empty list.
LEMMA EmptyIsSeq == IsSeq(<<>>) /\ Len(<<>>) = 0 /\ <<>> \o <<>> = <<>>
<1>1. <<>> \in Seq({}) /\ Len(<<>>) = 0 /\ <<>> \o <<>> = <<>>
  OBVIOUS
<1> QED
  BY <1>1, SeqIsSeq

\* A client without a request is in order.
LEMMA IdleOK ==
    ConnOK(IdleConn) /\ IdleConn.calls = 0 /\ IdleConn.pos = 0 /\ IdleConn.stage = "idle"
<1>1. /\ IdleConn = [f \in Fields |-> IdleConn[f]]
      /\ IdleConn.stage = "idle" /\ IdleConn.calls = 0 /\ IdleConn.pos = 0
      /\ IdleConn.scans = <<>> /\ IdleConn.out = <<>> /\ IdleConn.channel = <<>>
      /\ IdleConn.received = <<>>
  BY DEF IdleConn, Fields
<1>2. IdleConn.entitled
  BY DEF IdleConn
<1>3. CallsOK(IdleConn)
  BY <1>1, RetriesAssumption DEF CallsOK
<1>4. ListsOK(IdleConn)
  BY <1>1, EmptyIsSeq, ChannelAssumption DEF ListsOK
<1>5. PlannedOK(IdleConn) /\ StreamOK(IdleConn) /\ IdleConn.stage \in Stages
  BY <1>1 DEF PlannedOK, StreamOK, Executing, Stages
<1>6. Len(IdleConn.scans) <= ScansNeeded
  BY <1>1, EmptyIsSeq DEF ScansNeeded
<1> QED
  BY <1>1, <1>2, <1>3, <1>4, <1>5, <1>6 DEF ConnOK

\* A step that leaves the lists alone and does not start the stream.
LEMMA MoveStage ==
    ASSUME NEW r, ConnOK(r), NEW n, n = [f \in Fields |-> n[f]],
           n.stage \in Stages, n.stage # "stream",
           n.entitled = r.entitled, n.out = r.out, n.channel = r.channel,
           n.received = r.received, n.scans = r.scans,
           CallsOK(n), PlannedOK(n),
           n.calls > r.calls => r.calls = 0 \/ r.answer \in Retryable
    PROVE  MoveOK(r, n)
<1>1. ListsOK(n) /\ Len(n.scans) <= ScansNeeded
  BY DEF ConnOK, ListsOK
<1>2. StreamOK(n)
  BY DEF StreamOK
<1>3. n.entitled
  BY DEF ConnOK
<1> QED
  BY <1>1, <1>2, <1>3 DEF MoveOK, ConnOK

\* The end of a request.
LEMMA MoveIdle ==
    ASSUME NEW r, ConnOK(r)
    PROVE  MoveOK(r, IdleConn)
<1>1. r.calls \in Nat
  BY RetriesAssumption DEF ConnOK, CallsOK
<1> QED
  BY <1>1, IdleOK DEF MoveOK

\* A request that passes its middlewares is in order and entitled.
LEMMA MoveAccepted ==
    ASSUME NEW r, ConnOK(r), NEW h \in HeaderSets, authenticate(config.auth, h) = Ok
    PROVE  MoveOK(r, Accepted(h))
<1> DEFINE n == Accepted(h)
<1>1. /\ n = [f \in Fields |-> n[f]] /\ n.stage = "body" /\ n.calls = 0
      /\ n.out = <<>> /\ n.channel = <<>> /\ n.received = <<>> /\ n.scans = <<>>
  BY DEF Accepted, IdleConn, Fields
<1>2. n.entitled
  <2>1. Entitled(config.auth, h)
    BY AuthSound
  <2>2. n.entitled = Entitled(config.auth, h)
    BY Zenon DEF Accepted, IdleConn
  <2> QED
    BY <2>1, <2>2
<1> HIDE DEF n
<1>3. CallsOK(n)
  BY <1>1, RetriesAssumption DEF CallsOK
<1>4. ListsOK(n)
  BY <1>1, EmptyIsSeq, ChannelAssumption DEF ListsOK
<1>5. PlannedOK(n) /\ StreamOK(n) /\ n.stage \in Stages
  BY <1>1 DEF PlannedOK, StreamOK, Executing, Stages
<1>6. Len(n.scans) <= ScansNeeded
  BY <1>1, EmptyIsSeq DEF ScansNeeded
<1>7. ConnOK(n)
  BY <1>1, <1>2, <1>3, <1>4, <1>5, <1>6 DEF ConnOK
<1>8. ~(n.calls > r.calls)
  BY <1>1, RetriesAssumption DEF ConnOK, CallsOK
<1> QED
  BY <1>7, <1>8 DEF MoveOK, n

\* The steps of an insert.
LEMMA MoveInsert ==
    ASSUME NEW r, ConnOK(r), NEW s \in {"log", "hot"} \cup Tracking, NEW e, NEW p
    PROVE  /\ MoveOK(r, [r EXCEPT !.stage = s, !.entry = e])
           /\ MoveOK(r, [r EXCEPT !.stage = s, !.pos = p])
           /\ MoveOK(r, [r EXCEPT !.stage = s])
<1>1. \A n : /\ n = [f \in Fields |-> n[f]] /\ n.stage = s
             /\ n.entitled = r.entitled /\ n.out = r.out /\ n.channel = r.channel
             /\ n.received = r.received /\ n.scans = r.scans /\ n.calls = r.calls
             => MoveOK(r, n)
  <2> SUFFICES ASSUME NEW n, n = [f \in Fields |-> n[f]], n.stage = s,
                      n.entitled = r.entitled, n.out = r.out, n.channel = r.channel,
                      n.received = r.received, n.scans = r.scans, n.calls = r.calls
               PROVE  MoveOK(r, n)
    OBVIOUS
  <2>1. /\ n.stage \in Stages /\ n.stage # "stream" /\ n.stage \notin Executing
        /\ n.stage # "body" /\ n.stage # "embed" /\ n.stage # "backoff"
    BY DEF Stages, Executing, Tracking
  <2>2. CallsOK(n) /\ PlannedOK(n)
    BY <2>1 DEF ConnOK, CallsOK, PlannedOK
  <2>3. ~(n.calls > r.calls)
    BY RetriesAssumption DEF ConnOK, CallsOK
  <2> QED
    BY <2>1, <2>2, <2>3, MoveStage
<1>2. r = [f \in Fields |-> r[f]]
  BY DEF ConnOK
<1> DEFINE n1 == [r EXCEPT !.stage = s, !.entry = e]
           n2 == [r EXCEPT !.stage = s, !.pos = p]
           n3 == [r EXCEPT !.stage = s]
<1>3. /\ n1 = [f \in Fields |-> n1[f]] /\ n1.stage = s /\ n1.entitled = r.entitled
      /\ n1.out = r.out /\ n1.channel = r.channel /\ n1.received = r.received
      /\ n1.scans = r.scans /\ n1.calls = r.calls
  BY <1>2 DEF Fields
<1>4. /\ n2 = [f \in Fields |-> n2[f]] /\ n2.stage = s /\ n2.entitled = r.entitled
      /\ n2.out = r.out /\ n2.channel = r.channel /\ n2.received = r.received
      /\ n2.scans = r.scans /\ n2.calls = r.calls
  BY <1>2 DEF Fields
<1>5. /\ n3 = [f \in Fields |-> n3[f]] /\ n3.stage = s /\ n3.entitled = r.entitled
      /\ n3.out = r.out /\ n3.channel = r.channel /\ n3.received = r.received
      /\ n3.scans = r.scans /\ n3.calls = r.calls
  BY <1>2 DEF Fields
<1> HIDE DEF n1, n2, n3
<1>6. MoveOK(r, n1) /\ MoveOK(r, n2) /\ MoveOK(r, n3)
  BY <1>1, <1>3, <1>4, <1>5
<1> QED
  BY <1>6 DEF n1, n2, n3

\* execute up to its first await.
LEMMA MoveQuery ==
    ASSUME NEW r, ConnOK(r), r.stage = "body", NEW t \in DOMAIN Texts, Plan(t).planned,
           NEW u, NEW v
    PROVE  /\ MoveOK(r, [[r EXCEPT !.text = t, !.user = u] EXCEPT !.stage = "embed", !.calls = 1])
           /\ MoveOK(r, [[r EXCEPT !.text = t, !.user = u] EXCEPT !.stage = "scan", !.vector = v])
<1>1. r = [f \in Fields |-> r[f]]
  BY DEF ConnOK
<1> DEFINE s == [r EXCEPT !.text = t, !.user = u]
           n1 == [s EXCEPT !.stage = "embed", !.calls = 1]
           n2 == [s EXCEPT !.stage = "scan", !.vector = v]
<1>2. /\ n1 = [f \in Fields |-> n1[f]] /\ n1.stage = "embed" /\ n1.entitled = r.entitled
      /\ n1.out = r.out /\ n1.channel = r.channel /\ n1.received = r.received
      /\ n1.scans = r.scans /\ n1.calls = 1 /\ n1.text = t
  BY <1>1 DEF Fields
<1>3. /\ n2 = [f \in Fields |-> n2[f]] /\ n2.stage = "scan" /\ n2.entitled = r.entitled
      /\ n2.out = r.out /\ n2.channel = r.channel /\ n2.received = r.received
      /\ n2.scans = r.scans /\ n2.calls = r.calls /\ n2.text = t
  BY <1>1 DEF Fields
<1> HIDE DEF s, n1, n2
<1>4. CallsOK(n1) /\ CallsOK(n2)
  BY <1>2, <1>3, RetriesAssumption DEF CallsOK, ConnOK
<1>5. PlannedOK(n1) /\ PlannedOK(n2)
  BY <1>2, <1>3 DEF PlannedOK
<1>6. n1.stage \in Stages /\ n1.stage # "stream" /\ n2.stage \in Stages /\ n2.stage # "stream"
  BY <1>2, <1>3 DEF Stages, Executing
<1>9. r.calls = 0
  BY DEF ConnOK, CallsOK
<1>7. MoveOK(r, n1)
  BY <1>2, <1>4, <1>5, <1>6, <1>9, MoveStage
<1>8. MoveOK(r, n2)
  BY <1>3, <1>4, <1>5, <1>6, <1>9, MoveStage
<1> QED
  BY <1>7, <1>8 DEF s, n1, n2

\* An answer of the embedding service, or the end of a back-off.
LEMMA MoveEmbed ==
    ASSUME NEW r, ConnOK(r), NEW v, NEW o
    PROVE  /\ r.stage = "embed" => MoveOK(r, [r EXCEPT !.stage = "scan", !.vector = v])
           /\ r.stage = "embed" /\ r.calls - 1 < max_retries /\ o \in Retryable
                => MoveOK(r, [r EXCEPT !.stage = "backoff", !.answer = o])
           /\ r.stage = "backoff"
                => MoveOK(r, [r EXCEPT !.stage = "embed", !.calls = @ + 1, !.answer = "none"])
<1>1. r = [f \in Fields |-> r[f]] /\ CallsOK(r) /\ PlannedOK(r)
  BY DEF ConnOK
<1> DEFINE n1 == [r EXCEPT !.stage = "scan", !.vector = v]
           n2 == [r EXCEPT !.stage = "backoff", !.answer = o]
           n3 == [r EXCEPT !.stage = "embed", !.calls = @ + 1, !.answer = "none"]
<1>2. /\ n1 = [f \in Fields |-> n1[f]] /\ n1.stage = "scan" /\ n1.entitled = r.entitled
      /\ n1.out = r.out /\ n1.channel = r.channel /\ n1.received = r.received
      /\ n1.scans = r.scans /\ n1.calls = r.calls /\ n1.text = r.text
  BY <1>1 DEF Fields
<1>3. /\ n2 = [f \in Fields |-> n2[f]] /\ n2.stage = "backoff" /\ n2.answer = o /\ n2.entitled = r.entitled
      /\ n2.out = r.out /\ n2.channel = r.channel /\ n2.received = r.received
      /\ n2.scans = r.scans /\ n2.calls = r.calls /\ n2.text = r.text
  BY <1>1 DEF Fields
<1>4. /\ n3 = [f \in Fields |-> n3[f]] /\ n3.stage = "embed" /\ n3.entitled = r.entitled
      /\ n3.out = r.out /\ n3.channel = r.channel /\ n3.received = r.received
      /\ n3.scans = r.scans /\ n3.calls = r.calls + 1 /\ n3.text = r.text
  BY <1>1 DEF Fields
<1> HIDE DEF n1, n2, n3
<1>5. r.calls \in 0..max_retries + 1 /\ max_retries \in Nat
  BY <1>1, RetriesAssumption DEF CallsOK
<1>6. /\ n1.stage \in Stages /\ n2.stage \in Stages /\ n3.stage \in Stages
      /\ n1.stage # "stream" /\ n2.stage # "stream" /\ n3.stage # "stream"
  BY <1>2, <1>3, <1>4 DEF Stages, Executing
<1>7. ASSUME r.stage = "embed" PROVE MoveOK(r, n1)
  <2>1. CallsOK(n1)
    BY <1>2, <1>5 DEF CallsOK
  <2>2. PlannedOK(n1)
    BY <1>1, <1>2, <1>7 DEF PlannedOK, Executing
  <2>3. ~(n1.calls > r.calls)
    BY <1>2, <1>5
  <2> QED
    BY <1>2, <1>6, <2>1, <2>2, <2>3, MoveStage
<1>8. ASSUME r.stage = "embed", r.calls - 1 < max_retries, o \in Retryable PROVE MoveOK(r, n2)
  <2>1. r.calls >= 1 /\ r.calls \in 1..max_retries
    BY <1>1, <1>5, <1>8 DEF CallsOK
  <2>2. CallsOK(n2)
    BY <2>1, <1>3, <1>5, <1>8 DEF CallsOK
  <2>3. PlannedOK(n2)
    BY <1>1, <1>3, <1>8 DEF PlannedOK, Executing
  <2>4. ~(n2.calls > r.calls)
    BY <1>3, <1>5
  <2> QED
    BY <1>3, <1>6, <2>2, <2>3, <2>4, MoveStage
<1>9. ASSUME r.stage = "backoff" PROVE MoveOK(r, n3)
  <2>1. r.calls \in 1..max_retries /\ r.answer \in Retryable
    BY <1>1, <1>9 DEF CallsOK
  <2>2. CallsOK(n3)
    BY <2>1, <1>4, <1>5 DEF CallsOK
  <2>3. PlannedOK(n3)
    BY <1>1, <1>4, <1>9 DEF PlannedOK, Executing
  <2> QED
    BY <1>4, <1>6, <2>1, <2>2, <2>3, MoveStage
<1> QED
  BY <1>7, <1>8, <1>9 DEF n1, n2, n3

\* One more scan.
LEMMA MoveScan ==
    ASSUME NEW r, ConnOK(r), r.stage = "scan", Len(r.scans) < ScansNeeded, NEW found, IsSeq(found)
    PROVE  MoveOK(r, [r EXCEPT !.scans = Append(@, found)])
<1>1. r = [f \in Fields |-> r[f]] /\ CallsOK(r) /\ PlannedOK(r) /\ ListsOK(r)
  BY DEF ConnOK
<1> DEFINE n == [r EXCEPT !.scans = Append(@, found)]
<1>2. /\ n = [f \in Fields |-> n[f]] /\ n.stage = r.stage /\ n.entitled = r.entitled
      /\ n.out = r.out /\ n.channel = r.channel /\ n.received = r.received
      /\ n.scans = Append(r.scans, found) /\ n.calls = r.calls /\ n.answer = r.answer
      /\ n.text = r.text
  BY <1>1 DEF Fields
<1> HIDE DEF n
<1>3. Len(r.scans) \in Nat /\ IsSeq(r.scans)
  BY <1>1, IsSeqFacts DEF ListsOK
<1>4. /\ IsSeq(n.scans) /\ Len(n.scans) = Len(r.scans) + 1 /\ n.scans[Len(r.scans) + 1] = found
      /\ \A i \in 1..Len(r.scans) : n.scans[i] = r.scans[i]
  <2> DEFINE s == r.scans
  <2>1. IsSeq(s)
    BY <1>3
  <2> HIDE DEF s
  <2>2. /\ IsSeq(Append(s, found)) /\ Len(Append(s, found)) = Len(s) + 1
        /\ Append(s, found)[Len(s) + 1] = found
        /\ \A i \in 1..Len(s) : Append(s, found)[i] = s[i]
    BY <2>1, AppendIsSeq
  <2>3. n.scans = Append(s, found)
    BY <1>2 DEF s
  <2>4. /\ IsSeq(n.scans) /\ Len(n.scans) = Len(s) + 1 /\ n.scans[Len(s) + 1] = found
        /\ \A i \in 1..Len(s) : n.scans[i] = s[i]
    BY ONLY <2>2, <2>3, Zenon
  <2> QED
    BY ONLY <2>4, Zenon DEF s
<1>5. \A i \in 1..Len(n.scans) : IsSeq(n.scans[i])
  <2> SUFFICES ASSUME NEW i \in 1..Len(n.scans) PROVE IsSeq(n.scans[i])
    OBVIOUS
  <2>1. CASE i = Len(r.scans) + 1
    BY <2>1, <1>4
  <2>2. CASE i # Len(r.scans) + 1
    <3>1. i \in 1..Len(r.scans)
      BY <2>2, <1>3, <1>4
    <3>2. n.scans[i] = r.scans[i]
      BY <3>1, <1>4
    <3> QED
      BY <3>1, <3>2, <1>1 DEF ListsOK
  <2> QED
    BY <2>1, <2>2
<1>6. ListsOK(n)
  BY <1>1, <1>2, <1>4, <1>5 DEF ListsOK
<1>7. Len(n.scans) <= ScansNeeded
  <2>1. ScansNeeded \in Nat
    BY DEF ScansNeeded
  <2> QED
    BY <2>1, <1>3, <1>4
<1>8. CallsOK(n) /\ PlannedOK(n) /\ StreamOK(n) /\ n.stage \in Stages
  BY <1>1, <1>2 DEF CallsOK, PlannedOK, StreamOK, ConnOK
<1>9. n.entitled
  BY <1>2 DEF ConnOK
<1>10. ~(n.calls > r.calls)
  BY <1>1, <1>2, RetriesAssumption DEF CallsOK
<1> QED
  BY <1>2, <1>6, <1>7, <1>8, <1>9, <1>10 DEF MoveOK, ConnOK, n

\* The stream begins with all results still to be sent.
LEMMA MoveStream ==
    ASSUME NEW r, ConnOK(r), NEW rs, IsSeq(rs)
    PROVE  MoveOK(r, [IdleConn EXCEPT !.stage = "stream", !.results = rs, !.out = rs,
                                      !.gone = r.gone, !.entitled = r.entitled])
<1> DEFINE n == [IdleConn EXCEPT !.stage = "stream", !.results = rs, !.out = rs,
                                 !.gone = r.gone, !.entitled = r.entitled]
<1>1. /\ n = [f \in Fields |-> n[f]] /\ n.stage = "stream" /\ n.entitled = r.entitled
      /\ n.out = rs /\ n.results = rs /\ n.channel = <<>> /\ n.received = <<>>
      /\ n.scans = <<>> /\ n.calls = 0
  BY DEF IdleConn, Fields
<1> HIDE DEF n
<1>2. (<<>> \o <<>>) \o rs = rs
  <2> DEFINE X == {rs[i] : i \in DOMAIN rs}
  <2>1. rs \in Seq(X)
    BY DEF IsSeq
  <2>2. <<>> \o rs = rs
    <3> HIDE DEF X
    <3> QED
      BY <2>1
  <2> QED
    BY <2>2, EmptyIsSeq
<1>3. StreamOK(n)
  BY <1>1, <1>2 DEF StreamOK
<1>4. CallsOK(n) /\ PlannedOK(n) /\ n.stage \in Stages
  BY <1>1, RetriesAssumption DEF CallsOK, PlannedOK, Executing, Stages
<1>5. ListsOK(n)
  BY <1>1, EmptyIsSeq, ChannelAssumption DEF ListsOK
<1>6. Len(n.scans) <= ScansNeeded
  BY <1>1, EmptyIsSeq DEF ScansNeeded
<1>7. n.entitled
  BY <1>1 DEF ConnOK
<1>8. ~(n.calls > r.calls)
  BY <1>1, RetriesAssumption DEF ConnOK, CallsOK
<1> QED
  BY <1>1, <1>3, <1>4, <1>5, <1>6, <1>7, <1>8 DEF MoveOK, ConnOK, n

\* A record moves from one list to the next: the order of all stays.
LEMMA Passing ==
    ASSUME NEW a, NEW b, NEW c, IsSeq(a), IsSeq(b), IsSeq(c), c # <<>>
    PROVE  /\ IsSeq(Append(b, Head(c))) /\ IsSeq(Tail(c))
           /\ Len(Append(b, Head(c))) = Len(b) + 1 /\ Len(Tail(c)) = Len(c) - 1
           /\ (a \o Append(b, Head(c))) \o Tail(c) = (a \o b) \o c
           /\ (Append(a, Head(c)) \o Tail(c)) \o b = (a \o c) \o b
<1> DEFINE X == {a[i] : i \in DOMAIN a} \cup {b[i] : i \in DOMAIN b} \cup {c[i] : i \in DOMAIN c}
<1>1. a \in Seq(X) /\ b \in Seq(X) /\ c \in Seq(X)
  BY DEF IsSeq
<1> HIDE DEF X
<1>2. Head(c) \in X /\ Tail(c) \in Seq(X) /\ Len(Tail(c)) = Len(c) - 1
  BY <1>1
<1>3. Append(b, Head(c)) \in Seq(X) /\ Len(Append(b, Head(c))) = Len(b) + 1
  BY <1>1, <1>2
<1>41. <<Head(c)>> \in Seq(X) /\ Len(<<Head(c)>>) = 1 /\ <<Head(c)>>[1] = c[1]
  BY <1>1, <1>2
<1>42. <<Head(c)>> \o Tail(c) \in Seq(X) /\ Len(<<Head(c)>> \o Tail(c)) = Len(c)
  BY <1>1, <1>2, <1>41
<1>43. \A i \in 1..Len(c) : (<<Head(c)>> \o Tail(c))[i] = c[i]
  BY <1>1, <1>2, <1>41
<1>4. <<Head(c)>> \in Seq(X) /\ c = <<Head(c)>> \o Tail(c)
  BY <1>1, <1>41, <1>42, <1>43
<1>5. Append(b, Head(c)) = b \o <<Head(c)>> /\ Append(a, Head(c)) = a \o <<Head(c)>>
  BY <1>1, <1>2, AppendIsConcat
<1>6. a \o b \in Seq(X)
  BY <1>1
<1>7. (a \o (b \o <<Head(c)>>)) \o Tail(c) = (a \o b) \o (<<Head(c)>> \o Tail(c))
  <2>1. a \o (b \o <<Head(c)>>) = (a \o b) \o <<Head(c)>>
    BY <1>1, <1>4, ConcatAssociative
  <2>2. ((a \o b) \o <<Head(c)>>) \o Tail(c) = (a \o b) \o (<<Head(c)>> \o Tail(c))
    <3> DEFINE ab == a \o b
               h == <<Head(c)>>
               t == Tail(c)
    <3>1. ab \in Seq(X) /\ h \in Seq(X) /\ t \in Seq(X)
      BY <1>2, <1>41, <1>6
    <3> HIDE DEF ab, h, t
    <3>2. (ab \o h) \o t = ab \o (h \o t)
      BY <3>1, ConcatAssociative
    <3> QED
      BY <3>2 DEF ab, h, t
  <2> QED
    BY <2>1, <2>2
<1>8. (a \o <<Head(c)>>) \o Tail(c) = a \o (<<Head(c)>> \o Tail(c))
  BY <1>1, <1>2, <1>4, ConcatAssociative
<1>9. IsSeq(Append(b, Head(c))) /\ IsSeq(Tail(c))
  BY <1>2, <1>3, SeqIsSeq
<1>10. (a \o Append(b, Head(c))) \o Tail(c) = (a \o b) \o c
  BY ONLY <1>4, <1>5, <1>7, Zenon
<1>11. (Append(a, Head(c)) \o Tail(c)) \o b = (a \o c) \o b
  BY ONLY <1>4, <1>5, <1>8, Zenon
<1> QED
  BY <1>2, <1>3, <1>9, <1>10, <1>11

\* The task puts a record into the channel.
LEMMA MoveSent ==
    ASSUME NEW r, ConnOK(r), r.stage = "stream", r.out # <<>>
    PROVE  MoveOK(r, Sent(r))
<1>1. r = [f \in Fields |-> r[f]] /\ CallsOK(r) /\ ListsOK(r) /\ StreamOK(r)
  BY DEF ConnOK
<1>0. ~(r.calls > r.calls)
  BY <1>1, RetriesAssumption DEF CallsOK
<1>2. CASE ~(Len(r.channel) < ChannelCapacity)
  <2>1. Sent(r) = r
    BY <1>2 DEF Sent
  <2> QED
    BY <2>1, <1>0 DEF MoveOK
<1>3. CASE Len(r.channel) < ChannelCapacity
  <2> DEFINE n == [r EXCEPT !.out = Tail(@), !.channel = Append(@, Head(r.out))]
  <2>1. Sent(r) = n
    BY <1>3 DEF Sent
  <2>2. /\ n = [f \in Fields |-> n[f]] /\ n.stage = "stream" /\ n.entitled = r.entitled
        /\ n.out = Tail(r.out) /\ n.channel = Append(r.channel, Head(r.out))
        /\ n.received = r.received /\ n.results = r.results /\ n.gone = r.gone
        /\ n.scans = r.scans /\ n.calls = r.calls
    BY <1>1 DEF Fields
  <2> HIDE DEF n
  <2>3. /\ IsSeq(n.channel) /\ IsSeq(n.out) /\ Len(n.channel) = Len(r.channel) + 1
        /\ (n.received \o n.channel) \o n.out = (r.received \o r.channel) \o r.out
    <3> DEFINE a == r.received
               b == r.channel
               c == r.out
    <3>1. IsSeq(a) /\ IsSeq(b) /\ IsSeq(c) /\ c # <<>>
      BY <1>1 DEF ListsOK
    <3>2. n.received = a /\ n.channel = Append(b, Head(c)) /\ n.out = Tail(c)
      BY <2>2
    <3> HIDE DEF a, b, c
    <3>3. /\ IsSeq(Append(b, Head(c))) /\ IsSeq(Tail(c)) /\ Len(Append(b, Head(c))) = Len(b) + 1
          /\ (a \o Append(b, Head(c))) \o Tail(c) = (a \o b) \o c
      <4>1. IsSeq(Append(b, Head(c))) /\ IsSeq(Tail(c))
        BY <3>1, Passing
      <4>2. Len(Append(b, Head(c))) = Len(b) + 1
        BY <3>1, AppendIsSeq
      <4>3. (a \o Append(b, Head(c))) \o Tail(c) = (a \o b) \o c
        BY <3>1, Passing
      <4> QED
        BY <4>1, <4>2, <4>3
    <3>4. /\ IsSeq(n.channel) /\ IsSeq(n.out) /\ Len(n.channel) = Len(b) + 1
          /\ (n.received \o n.channel) \o n.out = (a \o b) \o c
      BY ONLY <3>2, <3>3, Zenon
    <3> QED
      BY ONLY <3>4, Zenon DEF a, b, c
  <2>4. Len(r.channel) \in Nat
    BY <1>1, IsSeqFacts DEF ListsOK
  <2>5. Len(n.channel) <= ChannelCapacity
    BY <2>3, <2>4, <1>3, ChannelAssumption
  <2>6. ListsOK(n)
    BY <1>1, <2>2, <2>3, <2>5 DEF ListsOK
  <2>7. StreamOK(n)
    BY <1>1, <2>2, <2>3 DEF StreamOK
  <2>8. CallsOK(n) /\ PlannedOK(n) /\ n.stage \in Stages
    BY <1>1, <2>2 DEF CallsOK, PlannedOK, Executing, Stages
  <2>9. n.entitled /\ Len(n.scans) <= ScansNeeded
    BY <2>2 DEF ConnOK
  <2>10. ConnOK(n)
    BY <2>2, <2>6, <2>7, <2>8, <2>9 DEF ConnOK
  <2> QED
    BY <2>1, <2>2, <2>10, <1>0 DEF MoveOK
<1> QED
  BY <1>2, <1>3

\* The client takes a record from the channel.
LEMMA MoveRead ==
    ASSUME NEW r, ConnOK(r), r.stage = "stream", r.channel # <<>>
    PROVE  MoveOK(r, [r EXCEPT !.channel = Tail(@), !.received = Append(@, Head(r.channel))])
<1>1. r = [f \in Fields |-> r[f]] /\ CallsOK(r) /\ ListsOK(r) /\ StreamOK(r)
  BY DEF ConnOK
<1>0. ~(r.calls > r.calls)
  BY <1>1, RetriesAssumption DEF CallsOK
<1> DEFINE n == [r EXCEPT !.channel = Tail(@), !.received = Append(@, Head(r.channel))]
<1>2. /\ n = [f \in Fields |-> n[f]] /\ n.stage = "stream" /\ n.entitled = r.entitled
      /\ n.received = Append(r.received, Head(r.channel)) /\ n.channel = Tail(r.channel)
      /\ n.out = r.out /\ n.results = r.results /\ n.gone = r.gone
      /\ n.scans = r.scans /\ n.calls = r.calls
  BY <1>1 DEF Fields
<1> HIDE DEF n
<1>3. /\ IsSeq(n.received) /\ IsSeq(n.channel) /\ Len(n.channel) = Len(r.channel) - 1
      /\ (n.received \o n.channel) \o n.out = (r.received \o r.channel) \o r.out
  <2> DEFINE a == r.received
             b == r.out
             c == r.channel
  <2>1. IsSeq(a) /\ IsSeq(b) /\ IsSeq(c) /\ c # <<>>
    BY <1>1 DEF ListsOK
  <2>2. n.received = Append(a, Head(c)) /\ n.channel = Tail(c) /\ n.out = b
    BY <1>2
  <2> HIDE DEF a, b, c
  <2>3. /\ IsSeq(Append(a, Head(c))) /\ IsSeq(Tail(c)) /\ Len(Tail(c)) = Len(c) - 1
        /\ (Append(a, Head(c)) \o Tail(c)) \o b = (a \o c) \o b
    BY <2>1, Passing, AppendIsSeq
  <2>4. /\ IsSeq(n.received) /\ IsSeq(n.channel) /\ Len(n.channel) = Len(c) - 1
        /\ (n.received \o n.channel) \o n.out = (a \o c) \o b
    BY ONLY <2>2, <2>3, Zenon
  <2> QED
    BY ONLY <2>4, Zenon DEF a, b, c
<1>4. Len(r.channel) \in Nat
  BY <1>1, IsSeqFacts DEF ListsOK
<1>5. Len(n.channel) <= ChannelCapacity
  BY <1>1, <1>3, <1>4, ChannelAssumption DEF ListsOK
<1>6. ListsOK(n)
  BY <1>1, <1>2, <1>3, <1>5 DEF ListsOK
<1>7. StreamOK(n)
  BY <1>1, <1>2, <1>3 DEF StreamOK
<1>8. CallsOK(n) /\ PlannedOK(n) /\ n.stage \in Stages
  BY <1>1, <1>2 DEF CallsOK, PlannedOK, Executing, Stages
<1>9. n.entitled /\ Len(n.scans) <= ScansNeeded
  BY <1>2 DEF ConnOK
<1>10. ConnOK(n)
  BY <1>2, <1>6, <1>7, <1>8, <1>9 DEF ConnOK
<1> QED
  BY <1>2, <1>10, <1>0 DEF MoveOK, n

\* The client of a spawned query leaves, and the receiving end is dropped.
LEMMA MoveGone ==
    ASSUME NEW r, ConnOK(r), NEW yes, yes
    PROVE  MoveOK(r, [r EXCEPT !.gone = yes, !.channel = <<>>])
<1>1. r = [f \in Fields |-> r[f]] /\ CallsOK(r) /\ ListsOK(r) /\ PlannedOK(r)
  BY DEF ConnOK
<1>0. ~(r.calls > r.calls)
  BY <1>1, RetriesAssumption DEF CallsOK
<1> DEFINE n == [r EXCEPT !.gone = yes, !.channel = <<>>]
<1>2. /\ n = [f \in Fields |-> n[f]] /\ n.stage = r.stage /\ n.entitled = r.entitled
      /\ n.received = r.received /\ n.channel = <<>> /\ n.text = r.text
      /\ n.out = r.out /\ n.scans = r.scans /\ n.calls = r.calls /\ n.answer = r.answer
  BY <1>1 DEF Fields
<1>3. n.gone = yes
  BY <1>1 DEF Fields
<1> HIDE DEF n
<1>4. ListsOK(n)
  <2>1. IsSeq(n.channel) /\ Len(n.channel) <= ChannelCapacity
    BY <1>2, EmptyIsSeq, ChannelAssumption
  <2>2. IsSeq(n.out) /\ IsSeq(n.received) /\ IsSeq(n.scans)
    BY <1>1, <1>2 DEF ListsOK
  <2>3. \A i \in 1..Len(n.scans) : IsSeq(n.scans[i])
    BY <1>1, <1>2 DEF ListsOK
  <2> QED
    BY <2>1, <2>2, <2>3 DEF ListsOK
<1>5. StreamOK(n)
  BY <1>3 DEF StreamOK
<1>6. CallsOK(n) /\ PlannedOK(n) /\ n.stage \in Stages
  BY <1>1, <1>2 DEF CallsOK, PlannedOK, ConnOK
<1>7. n.entitled /\ Len(n.scans) <= ScansNeeded
  BY <1>2 DEF ConnOK
<1>8. ConnOK(n)
  BY <1>2, <1>4, <1>5, <1>6, <1>7 DEF ConnOK
<1> QED
  BY <1>2, <1>8, <1>0 DEF MoveOK, n

-----------------------------------------------------------------------------
(* The inductive invariant *)

\* An entry of the log.
LogOK(x) ==
    /\ x = [f \in {"entry", "entitled", "counted"} |-> x[f]]
    /\ x.entry \in DOMAIN Entries
    /\ x.entitled
    /\ x.counted \in 0..3

\* The trackers that have counted an entry before a stage.
CountedBefore(stage) == CASE stage = "centroids" -> 0 [] stage = "correlations" -> 1 [] OTHER -> 2

\* The entry of an insert is at its position of the log, counted by the trackers
\* before the insert's stage.
InsertAt(l, n) == l[n.pos].counted = CountedBefore(n.stage) /\ l[n.pos].entry = n.entry

\* An insert between its log entry and the hot store has a log position of its
\* own.
InsertInv ==
    /\ IsSeq(log) /\ \A i \in 1..Len(log) : LogOK(log[i])
    /\ \A c \in Clients :
         /\ conn[c].pos \in 0..Len(log)
         /\ conn[c].stage \in {"log", "hot"} \cup Tracking => conn[c].entry \in DOMAIN Entries
         /\ conn[c].stage \in Tracking =>
              conn[c].pos >= 1 /\ InsertAt(log, conn[c])
    /\ \A c, d \in Clients :
         c # d /\ conn[c].stage \in Tracking /\ conn[d].stage \in Tracking
           => conn[c].pos # conn[d].pos

\* Every client's request is in order.
ConnInv ==
    /\ conn = [c \in Clients |-> conn[c]]
    /\ \A c \in Clients : ConnOK(conn[c])

\* The inductive invariant.
ServiceInv ==
    /\ config \in Configs /\ phase \in {"serving", "draining", "stopped"}
    /\ ConnInv /\ InsertInv /\ LimiterInv /\ FootprintsInv
    /\ poisoned \subseteq {"correlations"}

\* The initial states satisfy the invariant.
LEMMA ServiceStart == Init => ServiceInv
<1> SUFFICES ASSUME Init PROVE ServiceInv
  OBVIOUS
<1>1. config \in Configs /\ phase \in {"serving", "draining", "stopped"}
  BY DEF Init
<1>2. conn = [c \in Clients |-> IdleConn]
  BY DEF Init
<1>3. ConnInv
  BY <1>2, IdleOK DEF ConnInv
<1>4. log = <<>>
  BY DEF Init
<1>5. InsertInv
  <2>1. \A c \in Clients : conn[c].stage = "idle" /\ conn[c].pos = 0
    BY <1>2, IdleOK
  <2> QED
    BY <1>4, <2>1, EmptyIsSeq DEF InsertInv, Tracking
<1>6. LimiterInv
  BY LimiterStart DEF Init
<1>7. FootprintsInv
  BY DEF Init, EpisodicInit, FootprintsInv
<1>8. poisoned \subseteq {"correlations"}
  BY DEF Init, BiasInit
<1> QED
  BY <1>1, <1>3, <1>5, <1>6, <1>7, <1>8 DEF ServiceInv

\* A step that moves one request legally moves them all legally.
LEMMA PutMoves ==
    ASSUME ConnInv, NEW c \in Clients, NEW n, Put(c, n), MoveOK(conn[c], n)
    PROVE  /\ conn' = [d \in Clients |-> conn'[d]]
           /\ \A d \in Clients : MoveOK(conn[d], conn'[d])
<1>1. conn' = [conn EXCEPT ![c] = n] /\ conn = [d \in Clients |-> conn[d]]
  BY DEF Put, ConnInv
<1>2. conn'[c] = n /\ \A d \in Clients : d # c => conn'[d] = conn[d]
  BY <1>1
<1>3. \A d \in Clients : MoveOK(conn[d], conn[d])
  <2>1. \A d \in Clients : ~(conn[d].calls > conn[d].calls)
    BY RetriesAssumption DEF ConnInv, ConnOK, CallsOK
  <2> QED
    BY <2>1 DEF ConnInv, MoveOK
<1>4. \A d \in Clients : MoveOK(conn[d], conn'[d])
  <2> SUFFICES ASSUME NEW d \in Clients PROVE MoveOK(conn[d], conn'[d])
    OBVIOUS
  <2>1. CASE d = c
    BY <1>2, <2>1
  <2>2. CASE d # c
    <3>1. conn'[d] = conn[d]
      BY <1>2, <2>2
    <3> QED
      BY <3>1, <1>3
  <2> QED
    BY <2>1, <2>2
<1> QED
  BY <1>1, <1>4

\* The connections after any step, the configuration before it.
LEMMA ConnFrame ==
    ASSUME config' = config, conn' = [d \in Clients |-> conn'[d]],
           \A d \in Clients : MoveOK(conn[d], conn'[d])
    PROVE  ConnInv'
<1>1. \A d \in Clients : ConnOK(conn'[d])
  BY DEF MoveOK
<1>2. ASSUME NEW d \in Clients PROVE ConnOK(conn[d])'
  <2>1. ConnOK(conn'[d])
    BY <1>1
  <2> QED
    BY <2>1 DEF ConnOK, PlannedOK, ScansNeeded, Plan, CallsOK, ListsOK, StreamOK
<1> QED
  BY <1>2 DEF ConnInv

\* What every step does to the requests.
LEMMA ConnStep ==
    ASSUME ServiceInv, [Next]_vars
    PROVE  /\ conn' = [d \in Clients |-> conn'[d]]
           /\ \A d \in Clients : MoveOK(conn[d], conn'[d])
           /\ config' = config
<1> DEFINE Goal == /\ conn' = [d \in Clients |-> conn'[d]]
                   /\ \A d \in Clients : MoveOK(conn[d], conn'[d])
<1>0. ConnInv
  BY DEF ServiceInv
<1>1. \A c \in Clients : ConnOK(conn[c]) /\ MoveOK(conn[c], IdleConn)
  BY <1>0, MoveIdle DEF ConnInv
<1>2. ASSUME NEW c \in Clients, NEW n, Put(c, n), MoveOK(conn[c], n) PROVE Goal
  BY <1>0, <1>2, PutMoves
<1>3. ASSUME conn' = conn PROVE Goal
  <2>1. \A d \in Clients : ~(conn[d].calls > conn[d].calls)
    BY <1>0, RetriesAssumption DEF ConnInv, ConnOK, CallsOK
  <2> QED
    BY <1>0, <1>1, <1>3, <2>1 DEF ConnInv, MoveOK
<1>4. ASSUME NEW c \in HttpClients, NEW f, NEW h \in HeaderSets, NEW p, HttpRequest(c, f, h, p)
      PROVE  Goal
  <2> DEFINE n == IF Allowed(ip_of(f)) /\ p /\ authenticate(config.auth, h) = Ok
                  THEN Accepted(h) ELSE IdleConn
  <2>1. Put(c, n) /\ c \in Clients
    BY <1>4 DEF HttpRequest, Clients
  <2>2. MoveOK(conn[c], n)
    BY <2>1, <1>1, MoveAccepted
  <2> HIDE DEF n
  <2> QED
    BY <2>1, <2>2, <1>2
<1>5. ASSUME NEW c \in GrpcClients, NEW h \in HeaderSets, GrpcRequest(c, h)
      PROVE  Goal
  <2> DEFINE n == IF authenticate(config.auth, h) = Ok THEN Accepted(h) ELSE IdleConn
  <2>1. Put(c, n) /\ c \in Clients
    BY <1>5 DEF GrpcRequest, Clients
  <2>2. MoveOK(conn[c], n)
    BY <2>1, <1>1, MoveAccepted
  <2> HIDE DEF n
  <2> QED
    BY <2>1, <2>2, <1>2
<1>6. ASSUME NEW c \in Clients, NEW e \in DOMAIN Entries, StartInsert(c, e) PROVE Goal
  <2> DEFINE n == [conn[c] EXCEPT !.stage = "log", !.entry = e]
  <2>1. Put(c, n)
    BY <1>6 DEF StartInsert
  <2>2. MoveOK(conn[c], n)
    BY <1>1, MoveInsert
  <2> HIDE DEF n
  <2> QED
    BY <2>1, <2>2, <1>2
<1>7. ASSUME NEW c \in Clients, LogEntry(c) PROVE Goal
  <2> DEFINE s == IF config.topological THEN "centroids" ELSE "hot"
             n == [conn[c] EXCEPT !.stage = s, !.pos = Len(log) + 1]
  <2>1. Put(c, n)
    BY <1>7 DEF LogEntry
  <2>2. s \in {"log", "hot"} \cup Tracking
    BY DEF Tracking
  <2>3. MoveOK(conn[c], n)
    <3> HIDE DEF s
    <3> QED
      BY <1>1, <2>2, MoveInsert
  <2> HIDE DEF n
  <2> QED
    BY <2>1, <2>3, <1>2
<1>8. ASSUME NEW c \in Clients, Track(c) PROVE Goal
  <2>1. PICK s \in {"correlations", "buckets", "hot"} : Put(c, [conn[c] EXCEPT !.stage = s])
    BY <1>8 DEF Track
  <2> DEFINE n == [conn[c] EXCEPT !.stage = s]
  <2>2. MoveOK(conn[c], n)
    <3>1. s \in {"log", "hot"} \cup Tracking
      BY DEF Tracking
    <3> QED
      BY <1>1, <3>1, MoveInsert
  <2>3. Put(c, n)
    BY <2>1
  <2> HIDE DEF n
  <2> QED
    BY <2>2, <2>3, <1>2
<1>9. ASSUME NEW c \in Clients, \/ Apply(c) \/ TrackPanics(c) \/ InsertFails(c) \/ BadBody(c)
                                 \/ QueryTimeout(c) \/ EndStream(c)
      PROVE  Goal
  <2>1. Put(c, IdleConn)
    BY <1>9 DEF Apply, TrackPanics, InsertFails, BadBody, QueryTimeout, EndStream
  <2> QED
    BY <2>1, <1>1, <1>2
<1>10. ASSUME NEW c \in Clients, NEW t \in DOMAIN Texts, NEW u, StartQuery(c, t, u) PROVE Goal
  <2> DEFINE started == [conn[c] EXCEPT !.text = t, !.user = UserOf(c, u)]
             bad == \/ ~Parsed[t].parsed
                    \/ ~Plan(t).planned
                    \/ Parsed[t].source = "text" /\ ~Embeds(config.embedder)
             n1 == [started EXCEPT !.stage = "embed", !.calls = 1]
             n2 == [started EXCEPT !.stage = "scan", !.vector = Parsed[t].vector * VectorScale]
             n == IF bad THEN IdleConn ELSE IF Parsed[t].source = "text" THEN n1 ELSE n2
  <2>1. Put(c, n) /\ conn[c].stage = "body"
    BY <1>10 DEF StartQuery, At
  <2>2. Plan(t).planned => MoveOK(conn[c], n1) /\ MoveOK(conn[c], n2)
    BY <2>1, <1>1, MoveQuery
  <2>3. MoveOK(conn[c], n)
    <3> HIDE DEF n1, n2
    <3> QED
      BY <2>2, <1>1
  <2> HIDE DEF n
  <2> QED
    BY <2>1, <2>3, <1>2
<1>11. ASSUME NEW c \in Clients, NEW o \in Outcomes, EmbedReply(c, o) PROVE Goal
  <2> DEFINE next == embed_next(conn[c].calls - 1, o)
             n1 == [conn[c] EXCEPT !.stage = "scan", !.vector = EmbeddedVector * VectorScale]
             n2 == [conn[c] EXCEPT !.stage = "backoff", !.answer = o]
             n == CASE next = "done" -> n1 [] next = "backoff" -> n2 [] OTHER -> IdleConn
  <2>1. Put(c, n) /\ conn[c].stage = "embed"
    BY <1>11 DEF EmbedReply, At
  <2>2. next = "backoff" => conn[c].calls - 1 < max_retries /\ o \in Retryable
    BY DEF embed_next
  <2>3. MoveOK(conn[c], n1) /\ (next = "backoff" => MoveOK(conn[c], n2))
    BY <2>1, <2>2, <1>1, MoveEmbed
  <2>4. MoveOK(conn[c], n)
    <3> HIDE DEF next, n1, n2
    <3> QED
      BY <2>3, <1>1
  <2> HIDE DEF n
  <2> QED
    BY <2>1, <2>4, <1>2
<1>12. ASSUME NEW c \in Clients, EmbedRetry(c) PROVE Goal
  <2> DEFINE n == [conn[c] EXCEPT !.stage = "embed", !.calls = @ + 1, !.answer = "none"]
  <2>1. Put(c, n) /\ conn[c].stage = "backoff"
    BY <1>12 DEF EmbedRetry, At
  <2>2. MoveOK(conn[c], n)
    BY <2>1, <1>1, MoveEmbed
  <2> HIDE DEF n
  <2> QED
    BY <2>1, <2>2, <1>2
<1>13. ASSUME NEW c \in Clients, Scan(c) PROVE Goal
  <2> DEFINE found == ann_scan(PlanOf(c), conn[c].vector, conn[c].user, config.topological)
             n == [conn[c] EXCEPT !.scans = Append(@, found)]
  <2>1. (Put(c, n) \/ Put(c, IdleConn)) /\ conn[c].stage = "scan" /\ Len(conn[c].scans) < ScansNeeded
    BY <1>13 DEF Scan, At
  <2>2. conn[c].text \in DOMAIN Texts /\ Plan(conn[c].text).planned
    BY <2>1, <1>1 DEF ConnOK, PlannedOK, Executing
  <2>3. PlanOK(PlanOf(c))
    BY <2>2, PlansOK DEF PlanOf
  <2>4. IsSeq(found)
    BY <2>3, ScanIsSeq
  <2>5. MoveOK(conn[c], n)
    <3> HIDE DEF found
    <3> QED
      BY <2>1, <2>4, <1>1, MoveScan
  <2> HIDE DEF n
  <2> QED
    BY <2>1, <2>5, <1>1, <1>2
<1>14. ASSUME NEW c \in Clients, NEW late \in Lateness, Finish(c, late) PROVE Goal
  <2> DEFINE scans == conn[c].scans
             scanned == IF config.merkle_enabled THEN scans[1] \o scans[2] ELSE scans[1]
             rs == execute_plan(PlanOf(c), scanned, late)
             n1 == [IdleConn EXCEPT !.stage = "stream", !.results = rs, !.out = rs,
                                    !.gone = conn[c].gone, !.entitled = conn[c].entitled]
             n == CASE BiasUnknown(PlanOf(c)) -> IdleConn
                    [] c \in HttpClients -> IdleConn
                    [] OTHER -> n1
  <2>1. Put(c, n) /\ conn[c].stage = "scan" /\ Len(scans) = ScansNeeded
    BY <1>14 DEF Finish, At
  <2>2. conn[c].text \in DOMAIN Texts /\ Plan(conn[c].text).planned
    BY <2>1, <1>1 DEF ConnOK, PlannedOK, Executing
  <2>3. PlanOK(PlanOf(c))
    BY <2>2, PlansOK DEF PlanOf
  <2>4. \A i \in 1..ScansNeeded : IsSeq(scans[i])
    BY <2>1, <1>1 DEF ConnOK, ListsOK
  <2>5. IsSeq(scanned)
    <3>1. IsSeq(scans[1]) /\ (config.merkle_enabled => IsSeq(scans[2]))
      BY <2>4 DEF ScansNeeded
    <3> HIDE DEF scans
    <3> QED
      BY <3>1, ConcatIsSeq
  <2>6. IsSeq(rs)
    <3> HIDE DEF scanned
    <3> QED
      BY <2>3, <2>5, ExecuteIsSeq
  <2>7. MoveOK(conn[c], n1)
    <3> HIDE DEF rs
    <3> QED
      BY <2>6, <1>1, MoveStream
  <2>8. MoveOK(conn[c], n)
    <3> HIDE DEF n1
    <3> QED
      BY <2>7, <1>1
  <2> HIDE DEF n
  <2> QED
    BY <2>1, <2>8, <1>2
<1>15. ASSUME NEW c \in Clients, SendRecord(c) PROVE Goal
  <2>1. conn[c].stage = "stream" /\ conn[c].out # <<>> /\ (Put(c, IdleConn) \/ Put(c, Sent(conn[c])))
    BY <1>15 DEF SendRecord, At
  <2>2. MoveOK(conn[c], Sent(conn[c]))
    BY <2>1, <1>1, MoveSent
  <2> QED
    BY <2>1, <2>2, <1>1, <1>2
<1>16. ASSUME NEW c \in Clients, ReadRecord(c) PROVE Goal
  <2> DEFINE n == [conn[c] EXCEPT !.channel = Tail(@), !.received = Append(@, Head(conn[c].channel))]
  <2>1. Put(c, n) /\ conn[c].stage = "stream" /\ conn[c].channel # <<>>
    BY <1>16 DEF ReadRecord, At
  <2>2. MoveOK(conn[c], n)
    BY <2>1, <1>1, MoveRead
  <2> HIDE DEF n
  <2> QED
    BY <2>1, <2>2, <1>2
<1>17. ASSUME NEW c \in Clients, ClientLeaves(c) PROVE Goal
  <2> DEFINE n == [conn[c] EXCEPT !.gone = TRUE, !.channel = <<>>]
  <2>1. Put(c, n) \/ Put(c, IdleConn)
    BY <1>17 DEF ClientLeaves
  <2>2. MoveOK(conn[c], n)
    BY <1>1, MoveGone
  <2> HIDE DEF n
  <2> QED
    BY <2>1, <2>2, <1>1, <1>2
<1>18. ASSUME Exit PROVE Goal
  <2>1. conn' = [c \in Clients |-> IdleConn]
    BY <1>18 DEF Exit
  <2>2. \A d \in Clients : conn'[d] = IdleConn
    BY <2>1
  <2> QED
    BY <2>1, <2>2, <1>1
<1>19. ASSUME (\E u \in Users, k \in Clicks : Click(u, k)) \/ ShutdownSignal \/ TimePasses \/ UNCHANGED vars
       PROVE  Goal
  BY <1>3, <1>19 DEF Click, ShutdownSignal, TimePasses, vars
<1>20. Goal
  <2> HIDE DEF Goal
  <2>1. ASSUME NEW c \in Clients, ReadBody(c) PROVE Goal
    BY <2>1, <1>6, <1>9, <1>10 DEF ReadBody
  <2>2. ASSUME NEW c \in Clients, Progress(c) PROVE Goal
    BY <2>2, <1>7, <1>8, <1>9, <1>12, <1>13, <1>14, <1>15 DEF Progress
  <2>3. CASE Next
    BY <2>1, <2>2, <2>3, <1>4, <1>5, <1>9, <1>11, <1>16, <1>17, <1>18, <1>19 DEF Next
  <2> QED
    BY <2>3, <1>19
<1>21. config' = config
  <2>1. CASE UNCHANGED vars
    BY <2>1 DEF vars
  <2>2. CASE Next
    <3>1. ASSUME NEW c \in Clients, ReadBody(c) PROVE config' = config
      BY <3>1 DEF ReadBody, StartInsert, StartQuery, BadBody
    <3>2. ASSUME NEW c \in Clients, Progress(c) PROVE config' = config
      BY <3>2 DEF Progress, Track, TrackPanics, LogEntry, Apply, EmbedRetry, Scan, Finish, SendRecord, EndStream
    <3>3. ASSUME NEW c \in Clients,
                 \/ InsertFails(c) \/ QueryTimeout(c) \/ ReadRecord(c) \/ ClientLeaves(c)
                 \/ \E o \in Outcomes : EmbedReply(c, o)
          PROVE  config' = config
      BY <3>3 DEF InsertFails, QueryTimeout, ReadRecord, ClientLeaves, EmbedReply
    <3>4. ASSUME NEW c, NEW f, NEW h, NEW p, HttpRequest(c, f, h, p) \/ GrpcRequest(c, h)
          PROVE  config' = config
      BY <3>4 DEF HttpRequest, GrpcRequest
    <3>5. ASSUME \/ \E u \in Users, k \in Clicks : Click(u, k)
                 \/ ShutdownSignal \/ Exit \/ TimePasses
          PROVE  config' = config
      BY <3>5 DEF Click, ShutdownSignal, Exit, TimePasses
    <3> QED
      BY <2>2, <3>1, <3>2, <3>3, <3>4, <3>5 DEF Next
  <2> QED
    BY <2>1, <2>2
<1> QED
  BY <1>20, <1>21

\* A step that leaves the log alone and takes no insert past the log.
LEMMA InsertPut ==
    ASSUME ConnInv, InsertInv, NEW c \in Clients, NEW n, Put(c, n), log' = log,
           n.pos = 0 \/ n.pos = conn[c].pos, n.stage \notin Tracking,
           n.stage \in {"log", "hot"} => n.entry \in DOMAIN Entries
    PROVE  InsertInv'
<1>1. conn' = [conn EXCEPT ![c] = n] /\ conn = [d \in Clients |-> conn[d]]
  BY DEF Put, ConnInv
<1>2. conn'[c] = n /\ \A d \in Clients : d # c => conn'[d] = conn[d]
  BY <1>1
<1>3. Len(log) \in Nat /\ \A d \in Clients : conn[d].pos \in 0..Len(log)
  BY IsSeqFacts DEF InsertInv
<1>4. ASSUME NEW d \in Clients
      PROVE  /\ conn'[d].pos \in 0..Len(log)
             /\ conn'[d].stage \in {"log", "hot"} \cup Tracking => conn'[d].entry \in DOMAIN Entries
             /\ conn'[d].stage \in Tracking =>
                  conn'[d].pos >= 1 /\ InsertAt(log, conn'[d])
  <2>1. CASE d = c
    BY <2>1, <1>2, <1>3
  <2>2. CASE d # c
    <3>1. conn'[d] = conn[d]
      BY <2>2, <1>2
    <3> QED
      BY <3>1 DEF InsertInv
  <2> QED
    BY <2>1, <2>2
<1>5. ASSUME NEW d \in Clients, NEW e \in Clients, d # e,
             conn'[d].stage \in Tracking, conn'[e].stage \in Tracking
      PROVE  conn'[d].pos # conn'[e].pos
  <2>1. d # c /\ e # c
    BY <1>2, <1>5
  <2> QED
    BY <1>2, <1>5, <2>1 DEF InsertInv
<1>6. IsSeq(log) /\ \A i \in 1..Len(log) : LogOK(log[i])
  BY DEF InsertInv
<1>7. (IsSeq(log) /\ \A i \in 1..Len(log) : LogOK(log[i]))'
  <2>1. IsSeq(log') /\ \A i \in 1..Len(log') : LogOK(log'[i])
    BY <1>6, log' = log
  <2> QED
    BY <2>1 DEF IsSeq, LogOK
<1>8. /\ \A d \in Clients :
           /\ conn'[d].pos \in 0..Len(log')
           /\ conn'[d].stage \in {"log", "hot"} \cup Tracking => conn'[d].entry \in DOMAIN Entries
           /\ conn'[d].stage \in Tracking =>
                conn'[d].pos >= 1 /\ InsertAt(log', conn'[d])
  BY <1>4
<1> QED
  BY <1>5, <1>7, <1>8 DEF InsertInv, InsertAt, CountedBefore, Tracking

\* wal.append: the entry gets the position behind all others.
LEMMA InsertLog ==
    ASSUME ConnInv, InsertInv, NEW c \in Clients, LogEntry(c)
    PROVE  InsertInv'
<1> DEFINE x == [entry |-> conn[c].entry, entitled |-> conn[c].entitled, counted |-> 0]
           s == IF config.topological THEN "centroids" ELSE "hot"
           n == [conn[c] EXCEPT !.stage = s, !.pos = Len(log) + 1]
<1>1. conn' = [conn EXCEPT ![c] = n] /\ conn = [d \in Clients |-> conn[d]]
      /\ log' = Append(log, x) /\ conn[c].stage = "log"
  BY DEF LogEntry, Put, ConnInv, At
<1>2. conn[c] = [f \in Fields |-> conn[c][f]] /\ conn[c].entitled
  BY DEF ConnInv, ConnOK
<1>3. n.stage = s /\ n.pos = Len(log) + 1 /\ n.entry = conn[c].entry
  BY <1>2 DEF Fields
<1>4. conn[c].entry \in DOMAIN Entries
  BY <1>1 DEF InsertInv
<1>5. x = [f \in {"entry", "entitled", "counted"} |-> x[f]] /\ x.entry = conn[c].entry
      /\ x.counted = 0
  OBVIOUS
<1>6. x.entitled
  <2>1. x.entitled = conn[c].entitled
    BY Zenon
  <2> QED
    BY <1>2, <2>1
<1>7. s \in {"centroids", "hot"}
  OBVIOUS
<1> HIDE DEF x, n, s
<1>8. LogOK(x)
  BY <1>4, <1>5, <1>6 DEF LogOK
<1>9. Len(log) \in Nat /\ IsSeq(log)
  BY IsSeqFacts DEF InsertInv
<1>10. /\ IsSeq(Append(log, x)) /\ Len(Append(log, x)) = Len(log) + 1
       /\ Append(log, x)[Len(log) + 1] = x
       /\ \A i \in 1..Len(log) : Append(log, x)[i] = log[i]
  BY <1>9, AppendIsSeq
<1>11. /\ IsSeq(log') /\ Len(log') = Len(log) + 1 /\ log'[Len(log) + 1] = x
       /\ \A i \in 1..Len(log) : log'[i] = log[i]
  BY ONLY <1>1, <1>10, Zenon
<1>12. \A i \in 1..Len(log') : LogOK(log'[i])
  <2> SUFFICES ASSUME NEW i \in 1..Len(log') PROVE LogOK(log'[i])
    OBVIOUS
  <2>1. CASE i = Len(log) + 1
    BY <2>1, <1>8, <1>11
  <2>2. CASE i # Len(log) + 1
    <3>1. i \in 1..Len(log)
      BY <2>2, <1>9, <1>11
    <3>2. log'[i] = log[i]
      BY <3>1, <1>11
    <3> QED
      BY <3>1, <3>2 DEF InsertInv
  <2> QED
    BY <2>1, <2>2
<1>13. conn'[c] = n /\ \A d \in Clients : d # c => conn'[d] = conn[d]
  BY <1>1
<1>14. ASSUME NEW d \in Clients
       PROVE  /\ conn'[d].pos \in 0..Len(log')
              /\ conn'[d].stage \in {"log", "hot"} \cup Tracking => conn'[d].entry \in DOMAIN Entries
              /\ conn'[d].stage \in Tracking =>
                   conn'[d].pos >= 1 /\ InsertAt(log', conn'[d])
  <2>1. CASE d = c
    <3>1. conn'[d].pos = Len(log) + 1 /\ conn'[d].entry \in DOMAIN Entries /\ conn'[d].stage = s
      BY <2>1, <1>3, <1>4, <1>13
    <3>2. Len(log) + 1 \in 0..Len(log') /\ Len(log) + 1 >= 1
      BY <1>9, <1>11
    <3>3. log'[conn'[d].pos].counted = 0 /\ log'[conn'[d].pos].entry = conn'[d].entry
      BY <2>1, <3>1, <1>3, <1>5, <1>11, <1>13
    <3>4. s \in Tracking => CountedBefore(s) = 0
      BY <1>7 DEF Tracking, CountedBefore
    <3> QED
      BY <3>1, <3>2, <3>3, <3>4 DEF InsertAt
  <2>2. CASE d # c
    <3>1. conn'[d] = conn[d]
      BY <2>2, <1>13
    <3>2. conn[d].pos \in 0..Len(log)
      BY DEF InsertInv
    <3>3. conn'[d].pos \in 0..Len(log')
      BY <3>1, <3>2, <1>9, <1>11
    <3>4. ASSUME conn[d].stage \in Tracking
          PROVE  conn[d].pos >= 1 /\ InsertAt(log', conn[d])
      <4>1. conn[d].pos >= 1 /\ InsertAt(log, conn[d])
        BY <3>4 DEF InsertInv
      <4>2. conn[d].pos \in 1..Len(log)
        BY <4>1, <3>2, <1>9
      <4> QED
        BY <4>1, <4>2, <1>11 DEF InsertAt
    <3>5. conn[d].stage \in {"log", "hot"} \cup Tracking => conn[d].entry \in DOMAIN Entries
      BY DEF InsertInv
    <3> QED
      BY <3>1, <3>3, <3>4, <3>5
  <2> QED
    BY <2>1, <2>2
<1>15. ASSUME NEW d \in Clients, NEW e \in Clients, d # e,
              conn'[d].stage \in Tracking, conn'[e].stage \in Tracking
       PROVE  conn'[d].pos # conn'[e].pos
  <2>1. \A b \in Clients : conn[b].pos # Len(log) + 1
    BY <1>9 DEF InsertInv
  <2>2. CASE d = c
    BY <2>1, <2>2, <1>3, <1>13, <1>15
  <2>3. CASE e = c
    BY <2>1, <2>3, <1>3, <1>13, <1>15
  <2>4. CASE d # c /\ e # c
    BY <2>4, <1>13, <1>15 DEF InsertInv
  <2> QED
    BY <2>2, <2>3, <2>4
<1>16. (IsSeq(log) /\ \A i \in 1..Len(log) : LogOK(log[i]))'
  BY <1>11, <1>12 DEF IsSeq, LogOK
<1> QED
  BY <1>14, <1>15, <1>16 DEF InsertInv, InsertAt, CountedBefore, Tracking

\* A tracker counts the entry of one insert, and of no other.
LEMMA InsertTrack ==
    ASSUME ConnInv, InsertInv, NEW c \in Clients, Track(c)
    PROVE  InsertInv'
<1> DEFINE p == conn[c].pos
           k == CountedBefore(conn[c].stage)
<1>1. conn[c].stage \in Tracking /\ log' = [log EXCEPT ![p].counted = @ + 1]
  BY DEF Track
<1>2. PICK s \in {"correlations", "buckets", "hot"} :
        /\ Put(c, [conn[c] EXCEPT !.stage = s])
        /\ s \in Tracking => CountedBefore(s) = k + 1
  BY DEF Track, At, CountedBefore, Tracking
<1>3. k \in 0..2
  BY DEF CountedBefore
<1> DEFINE n == [conn[c] EXCEPT !.stage = s]
<1>4. conn' = [conn EXCEPT ![c] = n] /\ conn = [d \in Clients |-> conn[d]]
  BY <1>2 DEF Put, ConnInv
<1>5. conn[c] = [f \in Fields |-> conn[c][f]]
  BY DEF ConnInv, ConnOK
<1>6. n.stage = s /\ n.pos = p /\ n.entry = conn[c].entry
  BY <1>5 DEF Fields
<1>7. Len(log) \in Nat /\ IsSeq(log) /\ log = [i \in 1..Len(log) |-> log[i]] /\ DOMAIN log = 1..Len(log)
  BY IsSeqFacts DEF InsertInv
<1>8. /\ p \in 1..Len(log) /\ log[p].counted = k /\ conn[c].entry \in DOMAIN Entries
      /\ log[p].entry = conn[c].entry
  BY <1>1, <1>7 DEF InsertInv, InsertAt
<1> HIDE DEF n, k, p
<1> DEFINE x == [log[p] EXCEPT !.counted = @ + 1]
<1>9. LogOK(log[p])
  BY <1>8 DEF InsertInv
<1>10. log' = [log EXCEPT ![p] = x]
  BY <1>1
<1>11. /\ x = [f \in {"entry", "entitled", "counted"} |-> x[f]] /\ x.entry = log[p].entry
       /\ x.counted = k + 1 /\ x.entitled = log[p].entitled
  BY <1>8, <1>9 DEF LogOK
<1> HIDE DEF x
<1>12. LogOK(x)
  <2>1. x.entitled
    BY <1>9, <1>11 DEF LogOK
  <2> QED
    BY <2>1, <1>3, <1>9, <1>11 DEF LogOK
<1>13. /\ log' = [i \in 1..Len(log) |-> log'[i]] /\ log'[p] = x
       /\ \A i \in 1..Len(log) : i # p => log'[i] = log[i]
  BY <1>7, <1>8, <1>10
<1>14. IsSeq(log') /\ Len(log') = Len(log)
  BY <1>7, <1>13, FunctionIsSeq
<1>15. \A i \in 1..Len(log') : LogOK(log'[i])
  <2> SUFFICES ASSUME NEW i \in 1..Len(log) PROVE LogOK(log'[i])
    BY <1>14
  <2>1. CASE i = p
    BY <2>1, <1>12, <1>13
  <2>2. CASE i # p
    <3>1. log'[i] = log[i]
      BY <2>2, <1>13
    <3> QED
      BY <3>1 DEF InsertInv
  <2> QED
    BY <2>1, <2>2
<1>16. conn'[c] = n /\ \A d \in Clients : d # c => conn'[d] = conn[d]
  BY <1>4
<1>17. ASSUME NEW d \in Clients
       PROVE  /\ conn'[d].pos \in 0..Len(log')
              /\ conn'[d].stage \in {"log", "hot"} \cup Tracking => conn'[d].entry \in DOMAIN Entries
              /\ conn'[d].stage \in Tracking =>
                   conn'[d].pos >= 1 /\ InsertAt(log', conn'[d])
  <2>1. CASE d = c
    <3>1. conn'[d].pos = p /\ conn'[d].entry \in DOMAIN Entries /\ conn'[d].stage = s
      BY <2>1, <1>6, <1>8, <1>16
    <3>2. p \in 0..Len(log') /\ p >= 1
      BY <1>7, <1>8, <1>14
    <3>3. log'[conn'[d].pos].counted = k + 1 /\ log'[conn'[d].pos].entry = conn'[d].entry
      BY <2>1, <3>1, <1>6, <1>8, <1>11, <1>13, <1>16
    <3> QED
      BY <3>1, <3>2, <3>3, <1>2 DEF InsertAt
  <2>2. CASE d # c
    <3>1. conn'[d] = conn[d]
      BY <2>2, <1>16
    <3>2. conn[d].pos \in 0..Len(log)
      BY DEF InsertInv
    <3>3. conn'[d].pos \in 0..Len(log')
      BY <3>1, <3>2, <1>14
    <3>4. ASSUME conn[d].stage \in Tracking
          PROVE  conn[d].pos >= 1 /\ InsertAt(log', conn[d])
      <4>1. conn[d].pos >= 1 /\ InsertAt(log, conn[d])
        BY <3>4 DEF InsertInv
      <4>2. conn[d].pos \in 1..Len(log)
        BY <4>1, <3>2, <1>7
      <4>3. conn[d].pos # p
        BY <2>2, <3>4, <1>1 DEF InsertInv, p
      <4> QED
        BY <4>1, <4>2, <4>3, <1>13 DEF InsertAt
    <3>5. conn[d].stage \in {"log", "hot"} \cup Tracking => conn[d].entry \in DOMAIN Entries
      BY DEF InsertInv
    <3> QED
      BY <3>1, <3>3, <3>4, <3>5
  <2> QED
    BY <2>1, <2>2
<1>18. ASSUME NEW d \in Clients, NEW e \in Clients, d # e,
              conn'[d].stage \in Tracking, conn'[e].stage \in Tracking
       PROVE  conn'[d].pos # conn'[e].pos
  <2>1. \A b \in Clients : /\ conn'[b].pos = conn[b].pos
                           /\ conn'[b].stage \in Tracking => conn[b].stage \in Tracking
    <3> SUFFICES ASSUME NEW b \in Clients
                 PROVE  /\ conn'[b].pos = conn[b].pos
                        /\ conn'[b].stage \in Tracking => conn[b].stage \in Tracking
      OBVIOUS
    <3>1. CASE b = c
      BY <3>1, <1>1, <1>6, <1>16 DEF p
    <3>2. CASE b # c
      BY <3>2, <1>16
    <3> QED
      BY <3>1, <3>2
  <2> QED
    BY <2>1, <1>18 DEF InsertInv
<1>19. (IsSeq(log) /\ \A i \in 1..Len(log) : LogOK(log[i]))'
  BY <1>14, <1>15 DEF IsSeq, LogOK
<1> QED
  BY <1>17, <1>18, <1>19 DEF InsertInv, InsertAt, CountedBefore, Tracking

\* What the steps of queries, and the ends of requests, do to log and position.
LEMMA InsertStep ==
    ASSUME ServiceInv, [Next]_vars
    PROVE  InsertInv'
<1>0. ConnInv /\ InsertInv
  BY DEF ServiceInv
<1>1. \A c \in Clients : conn[c] = [f \in Fields |-> conn[c][f]]
  BY <1>0 DEF ConnInv, ConnOK
<1> DEFINE Still(c, n) == /\ n.pos = 0 \/ n.pos = conn[c].pos
                          /\ n.stage \notin {"log", "hot"} \cup Tracking
<1>2. ASSUME NEW c \in Clients, NEW n, Put(c, n), log' = log, Still(c, n) PROVE InsertInv'
  BY <1>0, <1>2, InsertPut
<1>3. \A c \in Clients : Still(c, IdleConn)
  BY IdleOK DEF Tracking
<1>4. \A c \in Clients : \A h : Still(c, Accepted(h))
  BY DEF Accepted, IdleConn, Tracking
<1>5. ASSUME log' = log, conn' = conn PROVE InsertInv'
  BY <1>0, <1>5 DEF InsertInv, InsertAt, IsSeq, LogOK, CountedBefore, Tracking
<1>6. ASSUME NEW c \in HttpClients, NEW f, NEW h \in HeaderSets, NEW p, HttpRequest(c, f, h, p)
      PROVE  InsertInv'
  <2>1. log' = log /\ c \in Clients /\ (Put(c, Accepted(h)) \/ Put(c, IdleConn))
    BY <1>6 DEF HttpRequest, Clients, storage
  <2> HIDE DEF Still
  <2> QED
    BY <2>1, <1>2, <1>3, <1>4
<1>7. ASSUME NEW c \in GrpcClients, NEW h \in HeaderSets, GrpcRequest(c, h)
      PROVE  InsertInv'
  <2>1. log' = log /\ c \in Clients /\ (Put(c, Accepted(h)) \/ Put(c, IdleConn))
    BY <1>7 DEF GrpcRequest, Clients, storage
  <2> HIDE DEF Still
  <2> QED
    BY <2>1, <1>2, <1>3, <1>4
<1>8. ASSUME NEW c \in Clients, NEW e \in DOMAIN Entries, StartInsert(c, e) PROVE InsertInv'
  <2> DEFINE n == [conn[c] EXCEPT !.stage = "log", !.entry = e]
  <2>1. Put(c, n) /\ log' = log
    BY <1>8 DEF StartInsert, storage
  <2>2. n.pos = conn[c].pos /\ n.stage = "log" /\ n.entry = e
    BY <1>1 DEF Fields
  <2> HIDE DEF n
  <2> QED
    BY <2>1, <2>2, <1>0, InsertPut DEF Tracking
<1>9. ASSUME NEW c \in Clients, \/ Apply(c) \/ TrackPanics(c) \/ InsertFails(c) \/ BadBody(c)
                                 \/ QueryTimeout(c) \/ EndStream(c)
      PROVE  InsertInv'
  <2>1. Put(c, IdleConn) /\ log' = log
    BY <1>9 DEF Apply, TrackPanics, InsertFails, BadBody, QueryTimeout, EndStream, storage
  <2> QED
    BY <2>1, <1>2, <1>3
<1>10. ASSUME NEW c \in Clients, NEW t \in DOMAIN Texts, NEW u, StartQuery(c, t, u) PROVE InsertInv'
  <2> DEFINE started == [conn[c] EXCEPT !.text = t, !.user = UserOf(c, u)]
             n1 == [started EXCEPT !.stage = "embed", !.calls = 1]
             n2 == [started EXCEPT !.stage = "scan", !.vector = Parsed[t].vector * VectorScale]
  <2>1. log' = log /\ (Put(c, IdleConn) \/ Put(c, n1) \/ Put(c, n2))
    BY <1>10 DEF StartQuery, storage
  <2>2. Still(c, n1) /\ Still(c, n2)
    BY <1>1 DEF Fields, Tracking
  <2> HIDE DEF n1, n2, Still
  <2> QED
    BY <2>1, <2>2, <1>2, <1>3
<1>11. ASSUME NEW c \in Clients, NEW o \in Outcomes, EmbedReply(c, o) PROVE InsertInv'
  <2> DEFINE n1 == [conn[c] EXCEPT !.stage = "scan", !.vector = EmbeddedVector * VectorScale]
             n2 == [conn[c] EXCEPT !.stage = "backoff", !.answer = o]
  <2>1. log' = log /\ (Put(c, IdleConn) \/ Put(c, n1) \/ Put(c, n2))
    BY <1>11 DEF EmbedReply, storage
  <2>2. Still(c, n1) /\ Still(c, n2)
    BY <1>1 DEF Fields, Tracking
  <2> HIDE DEF n1, n2, Still
  <2> QED
    BY <2>1, <2>2, <1>2, <1>3
<1>12. ASSUME NEW c \in Clients, EmbedRetry(c) PROVE InsertInv'
  <2> DEFINE n == [conn[c] EXCEPT !.stage = "embed", !.calls = @ + 1, !.answer = "none"]
  <2>1. log' = log /\ Put(c, n)
    BY <1>12 DEF EmbedRetry, storage
  <2>2. Still(c, n)
    BY <1>1 DEF Fields, Tracking
  <2> HIDE DEF n, Still
  <2> QED
    BY <2>1, <2>2, <1>2
<1>13. ASSUME NEW c \in Clients, Scan(c) PROVE InsertInv'
  <2> DEFINE found == ann_scan(PlanOf(c), conn[c].vector, conn[c].user, config.topological)
             n == [conn[c] EXCEPT !.scans = Append(@, found)]
  <2>1. log' = log /\ (Put(c, n) \/ Put(c, IdleConn)) /\ conn[c].stage = "scan"
    BY <1>13 DEF Scan, storage, At
  <2>2. Still(c, n)
    <3> HIDE DEF found
    <3> QED
      BY <2>1, <1>1 DEF Fields, Tracking
  <2> HIDE DEF n, Still
  <2> QED
    BY <2>1, <2>2, <1>2, <1>3
<1>14. ASSUME NEW c \in Clients, NEW late \in Lateness, Finish(c, late) PROVE InsertInv'
  <2>1. PICK rs : \/ Put(c, IdleConn)
                  \/ Put(c, [IdleConn EXCEPT !.stage = "stream", !.results = rs, !.out = rs,
                                !.gone = conn[c].gone, !.entitled = conn[c].entitled])
    BY <1>14 DEF Finish
  <2> DEFINE n == [IdleConn EXCEPT !.stage = "stream", !.results = rs, !.out = rs,
                                !.gone = conn[c].gone, !.entitled = conn[c].entitled]
  <2>2. log' = log /\ (Put(c, IdleConn) \/ Put(c, n))
    BY <1>14, <2>1 DEF Finish, storage
  <2>3. Still(c, n)
    BY DEF IdleConn, Tracking
  <2> HIDE DEF n, Still
  <2> QED
    BY <2>2, <2>3, <1>2, <1>3
<1>15. ASSUME NEW c \in Clients, SendRecord(c) PROVE InsertInv'
  <2> DEFINE n == [conn[c] EXCEPT !.out = Tail(@), !.channel = Append(@, Head(conn[c].out))]
  <2>1. /\ conn[c].stage = "stream" /\ log' = log
        /\ Put(c, IdleConn) \/ Put(c, n) \/ Put(c, conn[c])
    BY <1>15 DEF SendRecord, At, storage, Sent
  <2>2. Still(c, n) /\ Still(c, conn[c])
    BY <2>1, <1>1 DEF Fields, Tracking
  <2> HIDE DEF n, Still
  <2> QED
    BY <2>1, <2>2, <1>2, <1>3
<1>16. ASSUME NEW c \in Clients, ReadRecord(c) PROVE InsertInv'
  <2> DEFINE n == [conn[c] EXCEPT !.channel = Tail(@), !.received = Append(@, Head(conn[c].channel))]
  <2>1. Put(c, n) /\ conn[c].stage = "stream" /\ log' = log
    BY <1>16 DEF ReadRecord, At, storage
  <2>2. Still(c, n)
    BY <2>1, <1>1 DEF Fields, Tracking
  <2> HIDE DEF n, Still
  <2> QED
    BY <2>1, <2>2, <1>2
<1>17. ASSUME NEW c \in Clients, ClientLeaves(c) PROVE InsertInv'
  <2> DEFINE n == [conn[c] EXCEPT !.gone = TRUE, !.channel = <<>>]
  <2>1. log' = log /\ (Put(c, IdleConn) \/ (Put(c, n) /\ conn[c].stage \in Executing \cup {"stream"}))
    BY <1>17 DEF ClientLeaves, storage
  <2>2. conn[c].stage \in Executing \cup {"stream"} => Still(c, n)
    <3>1. n.stage = conn[c].stage /\ n.pos = conn[c].pos
      BY <1>1 DEF Fields
    <3> QED
      BY <3>1 DEF Tracking, Executing
  <2> HIDE DEF n, Still
  <2> QED
    BY <2>1, <2>2, <1>2, <1>3
<1>18. ASSUME Exit PROVE InsertInv'
  <2>1. conn' = [c \in Clients |-> IdleConn] /\ log' = log
    BY <1>18 DEF Exit, storage
  <2>2. \A d \in Clients : conn'[d].pos = 0 /\ conn'[d].stage = "idle"
    BY <2>1, IdleOK
  <2>3. Len(log) \in Nat
    BY <1>0, IsSeqFacts DEF InsertInv
  <2> QED
    BY <1>0, <2>1, <2>2, <2>3 DEF InsertInv, InsertAt, IsSeq, LogOK, CountedBefore, Tracking
<1>19. ASSUME (\E u \in Users, k \in Clicks : Click(u, k)) \/ ShutdownSignal \/ TimePasses \/ UNCHANGED vars
       PROVE  InsertInv'
  BY <1>5, <1>19 DEF Click, ShutdownSignal, TimePasses, vars, storage
<1>20. ASSUME NEW c \in Clients, LogEntry(c) \/ Track(c) PROVE InsertInv'
  BY <1>0, <1>20, InsertLog, InsertTrack
<1>21. ASSUME NEW c \in Clients, ReadBody(c) PROVE InsertInv'
  BY <1>21, <1>8, <1>9, <1>10 DEF ReadBody
<1>22. ASSUME NEW c \in Clients, Progress(c) PROVE InsertInv'
  BY <1>22, <1>9, <1>12, <1>13, <1>14, <1>15, <1>20 DEF Progress
<1>23. CASE Next
  BY <1>23, <1>6, <1>7, <1>9, <1>11, <1>16, <1>17, <1>18, <1>19, <1>21, <1>22 DEF Next
<1> QED
  BY <1>19, <1>23

\* What a step does to the limiter, the footprints and the phase.
LEMMA FrameStep ==
    ASSUME [Next]_vars
    PROVE  /\ (\E ip \in Ips : check(ip)) \/ Tick \/ UNCHANGED limiter
           /\ (\E u \in Users, k \in Clicks : UpdateFootprint(u, k.clicked, k.query))
                \/ UNCHANGED footprints
           /\ phase' \in {phase, "draining", "stopped"}
<1> DEFINE Goal == /\ (\E ip \in Ips : check(ip)) \/ Tick \/ UNCHANGED limiter
                   /\ (\E u \in Users, k \in Clicks : UpdateFootprint(u, k.clicked, k.query))
                        \/ UNCHANGED footprints
                   /\ phase' \in {phase, "draining", "stopped"}
<1>1. ASSUME NEW c, NEW f \in {<<>>} \cup {<<ip>> : ip \in Ips}, NEW h, NEW p, HttpRequest(c, f, h, p)
      PROVE  Goal
  <2>1. ip_of(f) \in Ips
    BY LimitsAssumption DEF ip_of
  <2>2. check(ip_of(f)) /\ UNCHANGED footprints /\ phase' = phase
    BY <1>1 DEF HttpRequest
  <2> QED
    BY <2>1, <2>2
<1>2. ASSUME UNCHANGED <<limiter, footprints, phase>> PROVE Goal
  BY <1>2
<1>3. ASSUME NEW c, NEW h, GrpcRequest(c, h) PROVE Goal
  BY <1>2, <1>3 DEF GrpcRequest
<1>4. ASSUME NEW c, ReadBody(c) PROVE Goal
  BY <1>2, <1>4 DEF ReadBody, StartInsert, StartQuery, BadBody
<1>5. ASSUME NEW c, Progress(c) PROVE Goal
  BY <1>2, <1>5 DEF Progress, Track, TrackPanics, LogEntry, Apply, EmbedRetry, Scan, Finish, SendRecord, EndStream
<1>6. ASSUME NEW c, InsertFails(c) \/ QueryTimeout(c) \/ ReadRecord(c) \/ ClientLeaves(c)
                      \/ \E o \in Outcomes : EmbedReply(c, o)
      PROVE  Goal
  BY <1>2, <1>6 DEF InsertFails, QueryTimeout, ReadRecord, ClientLeaves, EmbedReply
<1>7. ASSUME NEW u \in Users, NEW k \in Clicks, Click(u, k) PROVE Goal
  <2>1. UpdateFootprint(u, k.clicked, k.query) /\ UNCHANGED limiter /\ phase' = phase
    BY <1>7 DEF Click
  <2> QED
    BY <2>1
<1>8. ASSUME ShutdownSignal \/ Exit PROVE Goal
  BY <1>8 DEF ShutdownSignal, Exit
<1>9. ASSUME TimePasses PROVE Goal
  BY <1>9 DEF TimePasses
<1>10. ASSUME UNCHANGED vars PROVE Goal
  BY <1>10, <1>2 DEF vars
<1> HIDE DEF Goal
<1>11. ASSUME Next PROVE Goal
  BY <1>11, <1>1, <1>3, <1>4, <1>5, <1>6, <1>7, <1>8, <1>9 DEF Next
<1>12. Goal
  BY <1>10, <1>11
<1> QED
  BY <1>12 DEF Goal

\* Only the correlation tracker panics.
LEMMA PoisonStep ==
    ASSUME [Next]_vars
    PROVE  poisoned' \subseteq poisoned \cup {"correlations"}
<1> DEFINE Goal == poisoned' \subseteq poisoned \cup {"correlations"}
<1>1. ASSUME poisoned' = poisoned PROVE Goal
  BY <1>1
<1>2. ASSUME NEW e, UpdateCorrelations(e) PROVE Goal
  BY <1>2 DEF UpdateCorrelations
<1>3. ASSUME NEW c, NEW f, NEW h, NEW p, HttpRequest(c, f, h, p) \/ GrpcRequest(c, h) PROVE Goal
  BY <1>1, <1>3 DEF HttpRequest, GrpcRequest, storage
<1>4. ASSUME NEW c, ReadBody(c) PROVE Goal
  BY <1>1, <1>4 DEF ReadBody, StartInsert, StartQuery, BadBody, storage
<1>5. ASSUME NEW c, Track(c) \/ TrackPanics(c) PROVE Goal
  <2>1. poisoned' = poisoned \/ UpdateCorrelations(Entries[conn[c].entry])
    BY <1>5 DEF Track, TrackPanics
  <2> QED
    BY <2>1, <1>1, <1>2
<1>6. ASSUME NEW c, Progress(c) PROVE Goal
  BY <1>1, <1>5, <1>6 DEF Progress, LogEntry, Apply, EmbedRetry, Scan, Finish, SendRecord, EndStream, storage
<1>7. ASSUME NEW c, InsertFails(c) \/ QueryTimeout(c) \/ ReadRecord(c) \/ ClientLeaves(c)
                      \/ \E o \in Outcomes : EmbedReply(c, o)
      PROVE  Goal
  BY <1>1, <1>7 DEF InsertFails, QueryTimeout, ReadRecord, ClientLeaves, EmbedReply, storage
<1>8. ASSUME \/ \E u \in Users, k \in Clicks : Click(u, k)
             \/ ShutdownSignal \/ Exit \/ TimePasses \/ UNCHANGED vars
      PROVE  Goal
  BY <1>1, <1>8 DEF Click, ShutdownSignal, Exit, TimePasses, vars, storage
<1> HIDE DEF Goal
<1>9. Goal
  BY <1>3, <1>4, <1>6, <1>7, <1>8 DEF Next
<1> QED
  BY <1>9 DEF Goal

\* Every step keeps the invariant.
LEMMA ServiceStep ==
    ASSUME ServiceInv, [Next]_vars
    PROVE  ServiceInv'
<1>1. ConnInv' /\ config' = config
  BY ConnStep, ConnFrame
<1>2. InsertInv'
  BY InsertStep
<1>3. LimiterInv'
  BY FrameStep, LimiterStep DEF ServiceInv
<1>4. FootprintsInv'
  <2>1. FootprintsInv
    BY DEF ServiceInv
  <2>2. CASE UNCHANGED footprints
    BY <2>1, <2>2 DEF FootprintsInv
  <2>3. ASSUME NEW u \in Users, NEW k \in Clicks, UpdateFootprint(u, k.clicked, k.query)
        PROVE  FootprintsInv'
    BY <2>1, <2>3, FootprintsClick
  <2> QED
    BY <2>2, <2>3, FrameStep
<1>5. phase' \in {"serving", "draining", "stopped"}
  BY FrameStep DEF ServiceInv
<1>6. poisoned' \subseteq {"correlations"}
  BY PoisonStep DEF ServiceInv
<1> QED
  BY <1>1, <1>2, <1>3, <1>4, <1>5, <1>6 DEF ServiceInv

\* The inductive invariant of the server, for any clients, credentials, texts,
\* entries and bounds: every request is in a state its handler can be in
\* (http.rs, grpc.rs), inserts own the log positions they count, and the windows
\* and footprints agree with what was admitted and clicked.
THEOREM ServiceInvariant == Spec => []ServiceInv
<1>1. Init => ServiceInv
  BY ServiceStart
<1>2. ServiceInv /\ [Next]_vars => ServiceInv'
  BY ServiceStep
<1> QED
  BY <1>1, <1>2, PTL DEF Spec

\* The invariant gives the types and the four safety properties.
LEMMA ServiceImplies ==
    ASSUME ServiceInv
    PROVE  TypeOK /\ WindowBounded /\ OnlyEntitled /\ StreamFaithful
<1>1. /\ config \in Configs /\ phase \in {"serving", "draining", "stopped"}
      /\ \A c \in Clients : ConnOK(conn[c])
      /\ InsertInv /\ LimiterInv /\ FootprintsInv /\ poisoned \subseteq {"correlations"}
  BY DEF ServiceInv, ConnInv
<1>2. DOMAIN log = 1..Len(log) /\ \A i \in 1..Len(log) : LogOK(log[i])
  BY <1>1, IsSeqFacts DEF InsertInv
<1>3. WindowBounded /\ \A ip \in Ips : windows[ip] = <<>> \/ windows[ip][1].age \in 0..window_duration + 1
  BY <1>1, LimiterBounds
<1>4. \A c \in Clients : /\ conn[c].stage \in Stages
                         /\ Len(conn[c].channel) <= ChannelCapacity
                         /\ conn[c].pos \in 0..Len(log) /\ Len(conn[c].scans) <= ScansNeeded
  BY <1>1 DEF ConnOK, ListsOK, InsertInv
<1>5. \A u \in Users : footprints[u] = <<>> \/ footprints[u][1] \in -100..100
  <2> SUFFICES ASSUME NEW u \in Users, footprints[u] # <<>> PROVE footprints[u][1] \in -100..100
    OBVIOUS
  <2>1. PICK x \in -100..100 : footprints[u] = <<x>>
    BY <1>1 DEF FootprintsInv
  <2> QED
    BY <2>1
<1>6. \A i \in DOMAIN log : log[i].entry \in DOMAIN Entries /\ log[i].counted \in 0..3 /\ log[i].entitled
  BY <1>2 DEF LogOK
<1>7. TypeOK
  BY <1>1, <1>3, <1>4, <1>5, <1>6 DEF TypeOK, Stages
<1>8. OnlyEntitled
  BY <1>1, <1>6 DEF OnlyEntitled, ConnOK
<1>9. StreamFaithful
  BY <1>1 DEF StreamFaithful, ConnOK, StreamOK, Clients
<1> QED
  BY <1>3, <1>7, <1>8, <1>9

\* The state of the server keeps its types: no result waits beyond the
\* channel's capacity (grpc.rs), no plan is scanned twice, no log entry is
\* counted more than once by a tracker, footprints stay in [-1, 1].
THEOREM ServiceTypes == Spec => []TypeOK
<1>1. ServiceInv => TypeOK
  BY ServiceImplies
<1> QED
  BY <1>1, ServiceInvariant, PTL

\* RateLimiter::check lets an address through at most twice max_requests times
\* in any period of one window length, for every limit and every length.
THEOREM ServiceWindowBounded == Spec => []WindowBounded
<1>1. ServiceInv => WindowBounded
  BY ServiceImplies
<1> QED
  BY <1>1, ServiceInvariant, PTL

\* auth_middleware, check_auth and MultiAuth: what reached the log, the
\* executor or a stream was asked for with credentials the mode accepts.
THEOREM ServiceOnlyEntitled == Spec => []OnlyEntitled
<1>1. ServiceInv => OnlyEntitled
  BY ServiceImplies
<1> QED
  BY <1>1, ServiceInvariant, PTL

\* TesseractQueryService::query: a gRPC client reads the results of its query
\* in order and without loss, whatever the channel holds and however slowly it
\* reads.
THEOREM ServiceStreamFaithful == Spec => []StreamFaithful
<1>1. ServiceInv => StreamFaithful
  BY ServiceImplies
<1> QED
  BY <1>1, ServiceInvariant, PTL

\* embed: a request costs at most max_retries + 1 calls of the embedding
\* service, and another call follows only an answer that may be retried.
THEOREM ServiceCallsBounded == Spec => CallsBounded
<1> DEFINE A == \A c \in Clients :
                  /\ conn'[c].calls <= max_retries + 1
                  /\ conn'[c].calls > conn[c].calls =>
                       conn[c].calls = 0 \/ conn[c].answer \in {"rate_limited", "server_error"}
<1>1. ServiceInv /\ [Next]_vars => [A]_vars
  <2> SUFFICES ASSUME ServiceInv, [Next]_vars PROVE A
    OBVIOUS
  <2>1. \A d \in Clients : MoveOK(conn[d], conn'[d])
    BY ConnStep
  <2>2. \A d \in Clients : conn'[d].calls \in 0..max_retries + 1
    BY <2>1 DEF MoveOK, ConnOK, CallsOK
  <2>3. \A d \in Clients : conn'[d].calls <= max_retries + 1
    BY <2>2, RetriesAssumption
  <2> QED
    BY <2>1, <2>3 DEF MoveOK, Retryable
<1> QED
  BY <1>1, ServiceInvariant, PTL DEF Spec, CallsBounded

\* plan_to_tree and execute_plan, for every text, index and statistics: without
\* Merge two pages that touch are the longer page, so no result is skipped or
\* returned twice between them.
THEOREM ServicePagesTile == Spec => []PagesTile
<1>1. PagesTile
  <2> SUFFICES ASSUME NEW t \in DOMAIN Plans, Plans[t].planned
               PROVE  LET found == ann_scan(Plans[t], Parsed[t].vector * VectorScale, NoUser, config.topological)
                          Page(l, o) == execute_plan(PagePlans[t][l][o + 1], found, <<>>)
                      IN  /\ Page(1, 0) \o Page(1, 1) = Page(2, 0)
                          /\ Page(2, 0) \o Page(2, 2) = Page(4, 0)
    BY DEF PagesTile
  <2> DEFINE found == ann_scan(Plans[t], Parsed[t].vector * VectorScale, NoUser, config.topological)
             Page(l, o) == execute_plan(PagePlans[t][l][o + 1], found, <<>>)
             part == [nodes |-> BeforeLimit(Parsed[t])]
             R == execute_plan(part, found, <<>>)
  <2>1. t \in DOMAIN Texts /\ Plans[t] = PlanFor(t, FALSE)
    BY PlainPlans
  <2>2. Parsed[t].parsed /\ Plans[t] = plan_to_tree(Parsed[t], FALSE)
    <3>1. ~PlanError.planned
      BY DEF PlanError
    <3> QED
      BY <2>1, <3>1 DEF PlanFor
  <2>3. QueryOK(Parsed[t])
    BY <2>1, <2>2, PlansAt, ParsedQuery
  <2>4. PlanOK(Plans[t])
    BY <2>2, <2>3, PlanNodes
  <2>5. IsSeq(found)
    BY <2>4, ScanIsSeq
  <2>6. PlanOK(part)
    <3>1. part.nodes = BeforeLimit(Parsed[t])
      OBVIOUS
    <3> HIDE DEF part
    <3> QED
      BY <2>3, <3>1, BeforeLimitOK DEF PlanOK
  <2> HIDE DEF found
  <2>7. \A l \in 1..4, o \in 0..2 : Page(l, o) = paginate(R, l, o)
    BY <2>1, <2>2, PageResult
  <2> HIDE DEF part, Page
  <2>8. IsSeq(R)
    <3>1. <<>> \in Lateness
      BY DEF Lateness
    <3> QED
      BY <2>5, <2>6, <3>1, ExecuteIsSeq
  <2> HIDE DEF R
  <2>9. paginate(R, 1, 0) \o paginate(R, 1, 1) = paginate(R, 2, 0)
    <3>1. 1 \in Nat /\ 0 \in Nat /\ 0 + 1 = 1 /\ 1 + 1 = 2
      OBVIOUS
    <3>2. Joined(R, 1, 1, 0)
      BY <2>8, <3>1, PagesJoin
    <3> QED
      BY <3>1, <3>2 DEF Joined
  <2>10. paginate(R, 2, 0) \o paginate(R, 2, 2) = paginate(R, 4, 0)
    <3>1. 2 \in Nat /\ 0 \in Nat /\ 0 + 2 = 2 /\ 2 + 2 = 4
      OBVIOUS
    <3>2. Joined(R, 2, 2, 0)
      BY <2>8, <3>1, PagesJoin
    <3> QED
      BY <3>1, <3>2 DEF Joined
  <2>11. /\ Page(1, 0) = paginate(R, 1, 0) /\ Page(1, 1) = paginate(R, 1, 1) /\ Page(2, 0) = paginate(R, 2, 0)
         /\ Page(2, 2) = paginate(R, 2, 2) /\ Page(4, 0) = paginate(R, 4, 0)
    BY <2>7
  <2>12. Page(1, 0) \o Page(1, 1) = Page(2, 0) /\ Page(2, 0) \o Page(2, 2) = Page(4, 0)
    BY <2>9, <2>10, <2>11
  <2> QED
    BY <2>12 DEF Page, found
<1> QED
  BY <1>1, PTL

-----------------------------------------------------------------------------
(* Trackers *)

\* F has the sums of the elements of v at the positions of S, prefix by prefix.
SumsOver(F, S, v) ==
  /\ F \in [0..Len(v) -> Int] /\ F[0] = 0
  /\ \A i \in 1..Len(v) : F[i] = F[i - 1] + (IF i \in S THEN v[i] ELSE 0)

\* A list of integers.
IntList(v) == IsSeq(v) /\ \A i \in 1..Len(v) : v[i] \in Int

\* SumOver is the last of the sums.
LEMMA SumOverSums ==
    ASSUME NEW S, NEW v, IntList(v)
    PROVE  \E F : SumsOver(F, S, v) /\ F[Len(v)] = SumOver(S, v)
<1> DEFINE n == Len(v)
           E(y, i) == y + (IF i \in S THEN v[i] ELSE 0)
           X == [i \in 0..n |-> Int]
           T == [i \in 1..n |-> [y \in Int |-> E(y, i)]]
           H == CHOOSE h : h = [i \in 0..n |-> IF i = 0 THEN 0 ELSE E(h[i - 1], i)]
<1>2. SumOver(S, v) = H[n]
  BY DEF SumOver
<1>3. n \in Nat /\ \A i \in 1..n : v[i] \in Int
  BY IsSeqFacts DEF IntList
<1> HIDE DEF n
<1>a. 0 \in Int /\ \A i \in 1..n : \A y \in Int : E(y, i) \in Int
  BY <1>3
<1>b. \A y, i : E(y, i) = y + (IF i \in S THEN v[i] ELSE 0)
  OBVIOUS
<1> HIDE DEF E
<1>4. 0 \in X[0] /\ \A i \in 1..n : \A y \in X[i - 1] : T[i][y] = E(y, i) /\ E(y, i) \in X[i]
  <2>1. X[0] = Int /\ \A i \in 1..n : X[i - 1] = Int /\ X[i] = Int
    BY <1>3
  <2>2. \A i \in 1..n : \A y \in Int : T[i][y] = E(y, i)
    OBVIOUS
  <2> HIDE DEF X, T
  <2> QED
    BY <1>a, <2>1, <2>2
<1> HIDE DEF X, T, H
<1>5. StepsUp(n, X, 0, T)
  BY <1>4 DEF StepsUp
<1>6. PICK f : RunsUp(f, n, X, 0, T)
  BY <1>3, <1>5, RecursionUp
<1>7. f = [i \in 0..n |-> IF i = 0 THEN 0 ELSE E(f[i - 1], i)]
  <2>1. /\ f = [i \in 0..n |-> f[i]] /\ f[0] = 0 /\ \A i \in 1..n : f[i] = T[i][f[i - 1]]
        /\ \A i \in 0..n : f[i] \in X[i]
    BY <1>6 DEF RunsUp
  <2>2. ASSUME NEW i \in 1..n PROVE f[i] = E(f[i - 1], i)
    <3>1. i - 1 \in 0..n
      BY <1>3
    <3> QED
      BY <1>4, <2>1, <3>1
  <2>3. ASSUME NEW i \in 0..n PROVE f[i] = IF i = 0 THEN 0 ELSE E(f[i - 1], i)
    <3>1. i = 0 \/ (i \in 1..n /\ i # 0)
      BY <1>3
    <3> QED
      BY <2>1, <2>2, <3>1
  <2> QED
    BY <2>1, <2>3
<1>8. H = [i \in 0..n |-> IF i = 0 THEN 0 ELSE E(H[i - 1], i)]
  BY <1>7 DEF H
<1>9. H[0] = 0 /\ \A i \in 1..n : H[i] = E(H[i - 1], i)
  BY <1>3, <1>8
<1>10. \A i \in 0..n : H[i] \in X[i]
  <2>1. H[0] \in X[0]
    BY <1>4, <1>9
  <2>2. \A i \in 1..n : H[i - 1] \in X[i - 1] => H[i] \in X[i]
    BY <1>4, <1>9
  <2> QED
    BY <1>3, <2>1, <2>2, StaysUp
<1>11. \A i \in 0..n : X[i] = Int
  BY DEF X
<1>12. H \in [0..n -> Int]
  BY <1>8, <1>10, <1>11
<1>13. SumsOver(H, S, v)
  BY <1>9, <1>12, <1>b DEF SumsOver, n
<1> QED
  BY <1>2, <1>13 DEF n

\* A position more.
LEMMA SumOverAdd ==
    ASSUME NEW S, NEW v, IntList(v), NEW p \in 1..Len(v), p \notin S
    PROVE  SumOver(S \cup {p}, v) = SumOver(S, v) + v[p]
<1>1. PICK F : SumsOver(F, S, v) /\ F[Len(v)] = SumOver(S, v)
  BY SumOverSums
<1>2. PICK G : SumsOver(G, S \cup {p}, v) /\ G[Len(v)] = SumOver(S \cup {p}, v)
  BY SumOverSums
<1> DEFINE n == Len(v)
           D(i) == IF i >= p THEN v[p] ELSE 0
           K == {i \in 0..n : G[i] = F[i] + D(i)}
<1>3. n \in Nat /\ p \in 1..n /\ \A i \in 1..n : v[i] \in Int
  BY IsSeqFacts DEF IntList
<1>4. /\ F \in [0..n -> Int] /\ F[0] = 0 /\ G \in [0..n -> Int] /\ G[0] = 0
      /\ \A i \in 1..n : F[i] = F[i - 1] + (IF i \in S THEN v[i] ELSE 0)
      /\ \A i \in 1..n : G[i] = G[i - 1] + (IF i \in S \cup {p} THEN v[i] ELSE 0)
  BY <1>1, <1>2 DEF SumsOver
<1> HIDE DEF n
<1>5. 0 \in K
  BY <1>3, <1>4
<1>6. \A k \in 0..(n - 1) : k \in K => k + 1 \in K
  <2> SUFFICES ASSUME NEW k \in 0..(n - 1), G[k] = F[k] + D(k) PROVE G[k + 1] = F[k + 1] + D(k + 1)
    BY <1>3
  <2>1. k + 1 \in 1..n /\ (k + 1) - 1 = k /\ k \in 0..n
    BY <1>3
  <2>2. F[k] \in Int /\ v[k + 1] \in Int /\ v[p] \in Int
    BY <2>1, <1>3, <1>4
  <2>3. CASE k + 1 = p
    <3>1. G[k + 1] = G[k] + v[p] /\ F[k + 1] = F[k] + 0
      BY <2>1, <2>3, <1>4
    <3>2. D(k) = 0 /\ D(k + 1) = v[p]
      BY <2>3, <2>1, <1>3
    <3> QED
      BY <3>1, <3>2, <2>2
  <2>4. CASE k + 1 # p
    <3> DEFINE x == IF k + 1 \in S THEN v[k + 1] ELSE 0
    <3>1. G[k + 1] = G[k] + x /\ F[k + 1] = F[k] + x /\ x \in Int
      BY <2>1, <2>2, <2>4, <1>4
    <3>2. D(k) = D(k + 1) /\ D(k) \in Int
      BY <2>1, <2>2, <2>4, <1>3
    <3> HIDE DEF x, D
    <3> QED
      BY <3>1, <3>2, <2>2
  <2> QED
    BY <2>3, <2>4
<1> HIDE DEF K
<1>7. \A k \in 0..n : k \in K
  BY <1>3, <1>5, <1>6, InductionUpTo
<1>8. G[n] = F[n] + v[p]
  <2>1. n \in K /\ n >= p
    BY <1>3, <1>7
  <2> QED
    BY <2>1 DEF K
<1> QED
  BY <1>1, <1>2, <1>8 DEF n

\* What follows the positions of S does not count.
LEMMA SumOverLonger ==
    ASSUME NEW S, NEW v, NEW w, IntList(v), IntList(w), Len(w) = Len(v) + 1, Len(w) \notin S,
           \A i \in 1..Len(v) : w[i] = v[i]
    PROVE  SumOver(S, w) = SumOver(S, v)
<1>1. PICK F : SumsOver(F, S, v) /\ F[Len(v)] = SumOver(S, v)
  BY SumOverSums
<1>2. PICK G : SumsOver(G, S, w) /\ G[Len(w)] = SumOver(S, w)
  BY SumOverSums
<1> DEFINE n == Len(v)
           K == {i \in 0..n : G[i] = F[i]}
<1>3. n \in Nat /\ Len(w) = n + 1
  BY IsSeqFacts DEF IntList
<1>4. /\ F \in [0..n -> Int] /\ F[0] = 0 /\ G \in [0..n + 1 -> Int] /\ G[0] = 0
      /\ \A i \in 1..n : F[i] = F[i - 1] + (IF i \in S THEN v[i] ELSE 0)
      /\ \A i \in 1..n + 1 : G[i] = G[i - 1] + (IF i \in S THEN w[i] ELSE 0)
  BY <1>1, <1>2, <1>3 DEF SumsOver
<1>5. \A i \in 1..n : w[i] = v[i]
  OBVIOUS
<1> HIDE DEF n
<1>6. 0 \in K
  BY <1>3, <1>4
<1>7. \A k \in 0..(n - 1) : k \in K => k + 1 \in K
  <2> SUFFICES ASSUME NEW k \in 0..(n - 1), G[k] = F[k] PROVE G[k + 1] = F[k + 1]
    BY <1>3
  <2>1. k + 1 \in 1..n /\ (k + 1) - 1 = k /\ k + 1 \in 1..n + 1
    BY <1>3
  <2> QED
    BY <2>1, <1>4, <1>5
<1> HIDE DEF K
<1>8. \A k \in 0..n : k \in K
  BY <1>3, <1>6, <1>7, InductionUpTo
<1>9. G[n] = F[n] /\ G[n] \in Int
  BY <1>3, <1>4, <1>8 DEF K
<1>10. G[n + 1] = G[n] + 0
  <2>1. n + 1 \in 1..n + 1 /\ (n + 1) - 1 = n /\ n + 1 \notin S
    BY <1>3
  <2> QED
    BY <2>1, <1>4
<1> QED
  BY <1>1, <1>2, <1>3, <1>9, <1>10 DEF n

\* A log, and what g gives of its entries.
LogList(l) == IsSeq(l) /\ \A i \in 1..Len(l) : LogOK(l[i])
ListOf(l, g) == [i \in DOMAIN l |-> g[l[i].entry]]

\* The positions that the n-th tracker has counted and that hold one of the
\* entries B, and the sum over them.
Chosen(l, n, B) == {i \in DOMAIN l : l[i].counted >= n /\ l[i].entry \in B}
SumOf(l, n, B, g) == SumOver(Chosen(l, n, B), ListOf(l, g))

\* What is summed: a number for each entry.
NumberMaps == [DOMAIN Entries -> Int]

\* The numbers that the entries of a log carry are a list of integers.
LEMMA ListIsInts ==
    ASSUME NEW l, LogList(l), NEW g \in NumberMaps
    PROVE  /\ IntList(ListOf(l, g)) /\ Len(ListOf(l, g)) = Len(l)
           /\ \A i \in 1..Len(l) : ListOf(l, g)[i] = g[l[i].entry]
<1> DEFINE v == ListOf(l, g)
<1>1. Len(l) \in Nat /\ DOMAIN l = 1..Len(l) /\ \A i \in 1..Len(l) : LogOK(l[i])
  BY IsSeqFacts DEF LogList
<1>2. v = [i \in 1..Len(l) |-> v[i]] /\ \A i \in 1..Len(l) : v[i] = g[l[i].entry]
  BY <1>1 DEF ListOf
<1>3. \A i \in 1..Len(l) : g[l[i].entry] \in Int
  BY <1>1 DEF LogOK, NumberMaps
<1> HIDE DEF v
<1>4. IsSeq(v) /\ Len(v) = Len(l)
  BY <1>1, <1>2, FunctionIsSeq
<1>5. IntList(v)
  BY <1>2, <1>3, <1>4 DEF IntList
<1> QED
  BY <1>2, <1>4, <1>5 DEF v

\* The positions of a log that one tracker has counted are finitely many.
LEMMA ChosenFinite ==
    ASSUME NEW l, LogList(l), NEW n, NEW B
    PROVE  /\ IsFiniteSet(Chosen(l, n, B)) /\ Chosen(l, n, B) \subseteq 1..Len(l)
           /\ Cardinality(Chosen(l, n, B)) \in Nat
<1>1. Len(l) \in Nat /\ DOMAIN l = 1..Len(l)
  BY IsSeqFacts DEF LogList
<1>2. Chosen(l, n, B) \subseteq 1..Len(l)
  BY <1>1 DEF Chosen
<1>3. IsFiniteSet(1..Len(l))
  BY <1>1, FS_Interval
<1>4. IsFiniteSet(Chosen(l, n, B))
  BY <1>2, <1>3, FS_Subset
<1> QED
  BY <1>2, <1>4, FS_CardinalityType

\* What a tracker sums up is an integer.
LEMMA SumIsInt ==
    ASSUME NEW l, LogList(l), NEW n, NEW B, NEW g \in NumberMaps
    PROVE  SumOf(l, n, B, g) \in Int
<1> DEFINE v == ListOf(l, g)
           S == Chosen(l, n, B)
<1>1. IntList(v)
  BY ListIsInts
<1> HIDE DEF v, S
<1>2. Len(v) \in Nat
  BY <1>1, IsSeqFacts DEF IntList
<1>3. PICK F : SumsOver(F, S, v) /\ F[Len(v)] = SumOver(S, v)
  BY <1>1, SumOverSums
<1>4. SumOver(S, v) \in Int
  BY <1>2, <1>3 DEF SumsOver
<1> QED
  BY <1>4 DEF SumOf, S, v

\* l2 is l after one more tracker, the k + 1st, has counted its position p.
Tracked(l, l2, p, k) ==
  /\ p \in 1..Len(l) /\ k \in 0..2 /\ Len(l2) = Len(l)
  /\ l[p].counted = k /\ l2[p].counted = k + 1 /\ l2[p].entry = l[p].entry
  /\ \A i \in 1..Len(l) : i # p => l2[i] = l[i]

\* A tracker's step chooses one position more.
LEMMA ChosenTracked ==
    ASSUME NEW l, NEW l2, LogList(l), LogList(l2), NEW p, NEW k, Tracked(l, l2, p, k),
           NEW n \in 1..3, NEW B
    PROVE  IF n = k + 1 /\ l[p].entry \in B
           THEN Chosen(l2, n, B) = Chosen(l, n, B) \cup {p} /\ p \notin Chosen(l, n, B)
           ELSE Chosen(l2, n, B) = Chosen(l, n, B)
<1>1. /\ Len(l) \in Nat /\ DOMAIN l = 1..Len(l) /\ Len(l2) = Len(l) /\ DOMAIN l2 = 1..Len(l)
      /\ p \in 1..Len(l) /\ k \in 0..2
      /\ l[p].counted = k /\ l2[p].counted = k + 1 /\ l2[p].entry = l[p].entry
      /\ \A i \in 1..Len(l) : i # p => l2[i] = l[i]
  BY IsSeqFacts DEF LogList, Tracked
<1>2. CASE n = k + 1 /\ l[p].entry \in B
  <2>1. p \notin Chosen(l, n, B)
    BY <1>1, <1>2 DEF Chosen
  <2>2. Chosen(l2, n, B) = Chosen(l, n, B) \cup {p}
    BY <1>1, <1>2 DEF Chosen
  <2> QED
    BY <2>1, <2>2, <1>2
<1>3. CASE ~(n = k + 1 /\ l[p].entry \in B)
  <2>1. \A i \in 1..Len(l) : (l2[i].counted >= n /\ l2[i].entry \in B) <=> (l[i].counted >= n /\ l[i].entry \in B)
    <3> SUFFICES ASSUME NEW i \in 1..Len(l)
                 PROVE  (l2[i].counted >= n /\ l2[i].entry \in B) <=> (l[i].counted >= n /\ l[i].entry \in B)
      OBVIOUS
    <3>1. CASE i = p
      <4>1. CASE n = k + 1
        BY <4>1, <3>1, <1>1, <1>3
      <4>2. CASE n # k + 1
        BY <4>2, <3>1, <1>1
      <4> QED
        BY <4>1, <4>2
    <3>2. CASE i # p
      BY <3>2, <1>1
    <3> QED
      BY <3>1, <3>2
  <2>2. Chosen(l2, n, B) = Chosen(l, n, B)
    BY <2>1, <1>1 DEF Chosen
  <2> QED
    BY <2>2, <1>3
<1> QED
  BY <1>2, <1>3

\* Counting an entry raises the count of its tracker by one where the entry belongs, and no other.
LEMMA CountTracked ==
    ASSUME NEW l, NEW l2, LogList(l), LogList(l2), NEW p, NEW k, Tracked(l, l2, p, k),
           NEW n \in 1..3, NEW B
    PROVE  Cardinality(Chosen(l2, n, B)) =
             IF n = k + 1 /\ l[p].entry \in B THEN Cardinality(Chosen(l, n, B)) + 1
             ELSE Cardinality(Chosen(l, n, B))
<1> DEFINE S == Chosen(l, n, B)
           S2 == Chosen(l2, n, B)
<1>1. IF n = k + 1 /\ l[p].entry \in B THEN S2 = S \cup {p} /\ p \notin S ELSE S2 = S
  BY ChosenTracked
<1>2. IsFiniteSet(S)
  BY ChosenFinite
<1> HIDE DEF S, S2
<1>3. S2 = S \cup {p} /\ p \notin S => Cardinality(S2) = Cardinality(S) + 1
  BY <1>2, FS_AddElement
<1>4. Cardinality(S2) = IF n = k + 1 /\ l[p].entry \in B THEN Cardinality(S) + 1 ELSE Cardinality(S)
  BY <1>1, <1>3
<1> QED
  BY <1>4 DEF S, S2

\* A tracker's step adds one number to the sums it belongs to.
LEMMA SumTracked ==
    ASSUME NEW l, NEW l2, LogList(l), LogList(l2), NEW p, NEW k, Tracked(l, l2, p, k),
           NEW n \in 1..3, NEW B, NEW g \in NumberMaps
    PROVE  SumOf(l2, n, B, g) = IF n = k + 1 /\ l[p].entry \in B
                                THEN SumOf(l, n, B, g) + g[l[p].entry]
                                ELSE SumOf(l, n, B, g)
<1> DEFINE v == ListOf(l, g)
           S == Chosen(l, n, B)
           S2 == Chosen(l2, n, B)
<1>1. /\ DOMAIN l = 1..Len(l) /\ DOMAIN l2 = 1..Len(l) /\ p \in 1..Len(l)
      /\ l2[p].entry = l[p].entry /\ \A i \in 1..Len(l) : i # p => l2[i] = l[i]
  BY IsSeqFacts DEF LogList, Tracked
<1>2. ListOf(l2, g) = v
  <2>1. \A i \in 1..Len(l) : l2[i].entry = l[i].entry
    BY <1>1
  <2> QED
    BY <1>1, <2>1 DEF ListOf
<1>3. IntList(v) /\ Len(v) = Len(l) /\ v[p] = g[l[p].entry]
  BY <1>1, ListIsInts
<1>4. SumOf(l2, n, B, g) = SumOver(S2, v) /\ SumOf(l, n, B, g) = SumOver(S, v)
  BY <1>2 DEF SumOf
<1>5. IF n = k + 1 /\ l[p].entry \in B THEN S2 = S \cup {p} /\ p \notin S ELSE S2 = S
  BY ChosenTracked
<1> HIDE DEF S, S2, v
<1>6. S2 = S \cup {p} /\ p \notin S => SumOver(S2, v) = SumOver(S, v) + v[p]
  BY <1>1, <1>3, SumOverAdd
<1> QED
  BY <1>3, <1>4, <1>5, <1>6

\* l2 is l and one entry that no tracker has counted.
Logged(l, l2) ==
  Len(l2) = Len(l) + 1 /\ (\A i \in 1..Len(l) : l2[i] = l[i]) /\ l2[Len(l2)].counted = 0

\* A new entry of the log counts nowhere yet.
LEMMA SumLogged ==
    ASSUME NEW l, NEW l2, LogList(l), LogList(l2), Logged(l, l2), NEW n \in 1..3, NEW B
    PROVE  /\ Chosen(l2, n, B) = Chosen(l, n, B)
           /\ \A g \in NumberMaps : SumOf(l2, n, B, g) = SumOf(l, n, B, g)
<1>1. /\ Len(l) \in Nat /\ DOMAIN l = 1..Len(l) /\ DOMAIN l2 = 1..Len(l) + 1
      /\ Len(l2) = Len(l) + 1 /\ (\A i \in 1..Len(l) : l2[i] = l[i]) /\ l2[Len(l) + 1].counted = 0
  BY IsSeqFacts DEF LogList, Logged
<1>2. Chosen(l2, n, B) = Chosen(l, n, B)
  <2>1. ASSUME NEW i \in 1..Len(l) + 1, l2[i].counted >= n PROVE i \in 1..Len(l)
    BY <1>1, <2>1
  <2> QED
    BY <1>1, <2>1 DEF Chosen
<1>3. ASSUME NEW g \in NumberMaps PROVE SumOf(l2, n, B, g) = SumOf(l, n, B, g)
  <2> DEFINE v == ListOf(l, g)
             w == ListOf(l2, g)
             S == Chosen(l, n, B)
  <2>1. /\ IntList(v) /\ Len(v) = Len(l) /\ IntList(w) /\ Len(w) = Len(l) + 1
        /\ \A i \in 1..Len(l) : v[i] = g[l[i].entry]
        /\ \A i \in 1..Len(l) + 1 : w[i] = g[l2[i].entry]
    BY <1>1, ListIsInts
  <2>2. \A i \in 1..Len(l) : w[i] = v[i]
    BY <1>1, <2>1
  <2>3. Len(l) + 1 \notin S
    BY <1>1 DEF Chosen
  <2> HIDE DEF v, w, S
  <2>4. SumOver(S, w) = SumOver(S, v)
    BY <2>1, <2>2, <2>3, SumOverLonger
  <2> QED
    BY <2>4, <1>2 DEF SumOf, S, v, w
<1> QED
  BY <1>2, <1>3

\* A tracker that has counted nothing has sum zero.
LEMMA SumEmpty ==
    ASSUME NEW l, LogList(l), NEW n, NEW B, NEW g \in NumberMaps, Chosen(l, n, B) = {}
    PROVE  SumOf(l, n, B, g) = 0
<1> DEFINE v == ListOf(l, g)
<1>1. IntList(v)
  BY ListIsInts
<1> HIDE DEF v
<1>2. Len(v) \in Nat
  BY <1>1, IsSeqFacts DEF IntList
<1>3. PICK F : SumsOver(F, {}, v) /\ F[Len(v)] = SumOver({}, v)
  BY <1>1, SumOverSums
<1>4. F[0] = 0 /\ F \in [0..Len(v) -> Int] /\ \A i \in 1..Len(v) : F[i] = F[i - 1] + 0
  BY <1>3 DEF SumsOver
<1> DEFINE K == {i \in 0..Len(v) : F[i] = 0}
<1>5. 0 \in K
  BY <1>2, <1>4
<1>6. \A i \in 0..(Len(v) - 1) : i \in K => i + 1 \in K
  <2> SUFFICES ASSUME NEW i \in 0..(Len(v) - 1), F[i] = 0 PROVE F[i + 1] = 0
    BY <1>2
  <2>1. i + 1 \in 1..Len(v) /\ (i + 1) - 1 = i
    BY <1>2
  <2> QED
    BY <2>1, <1>4
<1> HIDE DEF K
<1>7. \A i \in 0..Len(v) : i \in K
  BY <1>2, <1>5, <1>6, InductionUpTo
<1>8. SumOver({}, v) = 0
  BY <1>2, <1>3, <1>7 DEF K
<1> QED
  BY <1>8 DEF SumOf, v

\* The vector of an entry, and the statistics of vectors.
VectorNumber == [e \in DOMAIN Entries |-> Component(Entries[e])]
StatOf(l, n, B) == [sum |-> SumOf(l, n, B, VectorNumber), count |-> Cardinality(Chosen(l, n, B))]

\* The vectors of the entries are numbers, by EntriesAssumption.
LEMMA VectorsAreNumbers == VectorNumber \in NumberMaps
BY EntriesAssumption DEF VectorNumber, NumberMaps, Component

\* Counting an entry adds its vector to the statistics it belongs to, and to no other.
LEMMA StatTracked ==
    ASSUME NEW l, NEW l2, LogList(l), LogList(l2), NEW p, NEW k, Tracked(l, l2, p, k),
           NEW n \in 1..3, NEW B
    PROVE  StatOf(l2, n, B) = IF n = k + 1 /\ l[p].entry \in B
                              THEN add(StatOf(l, n, B), Component(Entries[l[p].entry]))
                              ELSE StatOf(l, n, B)
<1>1. VectorNumber[l[p].entry] = Component(Entries[l[p].entry])
  <2>1. LogOK(l[p])
    BY DEF LogList, Tracked
  <2> QED
    BY <2>1 DEF LogOK, VectorNumber
<1> DEFINE a == SumOf(l, n, B, VectorNumber)
           a2 == SumOf(l2, n, B, VectorNumber)
           m == Cardinality(Chosen(l, n, B))
           m2 == Cardinality(Chosen(l2, n, B))
           hit == n = k + 1 /\ l[p].entry \in B
<1>2. a2 = IF hit THEN a + Component(Entries[l[p].entry]) ELSE a
  BY <1>1, SumTracked, VectorsAreNumbers
<1>3. m2 = IF hit THEN m + 1 ELSE m
  BY CountTracked
<1>4. StatOf(l2, n, B) = [sum |-> a2, count |-> m2] /\ StatOf(l, n, B) = [sum |-> a, count |-> m]
  BY DEF StatOf
<1> HIDE DEF a, a2, m, m2, hit
<1>5. StatOf(l2, n, B) = IF hit THEN add(StatOf(l, n, B), Component(Entries[l[p].entry])) ELSE StatOf(l, n, B)
  BY <1>2, <1>3, <1>4 DEF add
<1> QED
  BY <1>5 DEF hit

\* An entry that is logged and not counted yet changes no statistics.
LEMMA StatLogged ==
    ASSUME NEW l, NEW l2, LogList(l), LogList(l2), Logged(l, l2), NEW n \in 1..3, NEW B
    PROVE  StatOf(l2, n, B) = StatOf(l, n, B)
BY SumLogged, VectorsAreNumbers DEF StatOf

\* The bucket of a value is the one it lies within.
Within(bs, b, x) == (b = 1 \/ x >= bs[b]) /\ (b = Len(bs) \/ x < bs[b + 1])

\* bucket_index finds the one bucket whose boundaries enclose the number.
LEMMA BucketIndex ==
    ASSUME NEW f \in DOMAIN numerical_buckets, NEW x \in Int, NEW bs, bs = numerical_buckets[f]
    PROVE  /\ bucket_index(bs, x) \in 1..Len(bs)
           /\ \A b \in 1..Len(bs) : Within(bs, b, x) <=> b = bucket_index(bs, x)
<1> DEFINE above == {i \in DOMAIN bs : i > 1 /\ x < bs[i]}
           m == bucket_index(bs, x)
           n == Len(bs)
<1>1. /\ n \in Nat \ {0} /\ DOMAIN bs = 1..n
      /\ \A i, j \in 1..n : bs[i] \in Int /\ (i <= j => bs[i] <= bs[j])
  BY BucketsAssumption
<1>2. m = IF above = {} THEN n ELSE Min(above) - 1
  BY DEF bucket_index
<1>3. above # {} => Min(above) \in above /\ \A i \in above : Min(above) <= i
  <2> SUFFICES ASSUME above # {} PROVE Min(above) \in above /\ \A i \in above : Min(above) <= i
    OBVIOUS
  <2>1. above \in SUBSET Nat
    BY <1>1
  <2>2. \E i \in above : \A j \in above : i <= j
    BY <2>1, LeastElement
  <2> QED
    BY <2>2 DEF Min
<1> HIDE DEF m, n
<1>4. m \in 1..n
  BY <1>1, <1>2, <1>3
<1>5. ASSUME NEW b \in 1..n PROVE Within(bs, b, x) <=> b = m
  <2>1. CASE above = {}
    <3>1. m = n /\ \A i \in 1..n : i > 1 => bs[i] <= x
      BY <1>1, <1>2, <2>1
    <3>2. Within(bs, n, x)
      BY <3>1, <1>1 DEF Within, n
    <3>3. b # n => ~Within(bs, b, x)
      <4> SUFFICES ASSUME b # n PROVE ~(x < bs[b + 1])
        BY DEF Within, n
      <4>1. b + 1 \in 1..n /\ b + 1 > 1
        BY <1>1
      <4> QED
        BY <4>1, <3>1, <1>1
    <3> QED
      BY <3>1, <3>2, <3>3
  <2>2. CASE above # {}
    <3> DEFINE q == Min(above)
    <3>1. q \in 1..n /\ q > 1 /\ x < bs[q] /\ m = q - 1 /\ \A i \in 1..n : i > 1 /\ x < bs[i] => q <= i
      BY <1>1, <1>2, <1>3, <2>2
    <3> HIDE DEF q
    <3>2. CASE b = m
      <4>1. b + 1 = q /\ b # n
        BY <3>1, <3>2, <1>1
      <4>2. b = 1 \/ x >= bs[b]
        BY <3>1, <3>2, <1>1
      <4> QED
        BY <4>1, <4>2, <3>1, <3>2 DEF Within
    <3>3. CASE b > m
      <4>1. b >= q /\ b # 1
        BY <3>1, <3>3, <1>1
      <4>2. bs[q] <= bs[b] /\ bs[q] \in Int /\ bs[b] \in Int
        BY <4>1, <3>1, <1>1
      <4> QED
        BY <4>1, <4>2, <3>1, <3>3, <1>4 DEF Within
    <3>4. CASE b < m
      <4>1. b + 1 \in 1..n /\ b + 1 > 1 /\ b + 1 < q /\ b # n
        BY <3>1, <3>4, <1>1
      <4>2. ~(x < bs[b + 1])
        BY <4>1, <3>1, <1>1
      <4> QED
        BY <4>1, <4>2, <3>4, <1>4 DEF Within, n
    <3> QED
      BY <3>2, <3>3, <3>4, <1>4
  <2> QED
    BY <2>1, <2>2
<1> QED
  BY <1>4, <1>5 DEF m, n

\* The entries of a category and of a bucket.
OfCategory(f, cat) ==
  {e \in DOMAIN Entries : HasString(Entries[e].metadata, f) /\ Entries[e].metadata[f][1].v = cat}
OfBucket(f, b) ==
  {e \in DOMAIN Entries : HasNumber(Entries[e].metadata, f)
                          /\ Within(numerical_buckets[f], b, Entries[e].metadata[f][1].v)}

\* CentroidsExact, of a log and the trackers' contents.
TrackersFit(l, c, bk) ==
  /\ c.global = StatOf(l, 1, DOMAIN Entries)
  /\ \A f \in categorical_fields, cat \in CategoryValues :
       c.categories[f][cat] = StatOf(l, 1, OfCategory(f, cat))
  /\ \A f \in DOMAIN numerical_buckets : \A b \in DOMAIN numerical_buckets[f] :
       bk.fields[f][b] = StatOf(l, 3, OfBucket(f, b))

\* No bucket comes or goes.
BucketsKept ==
  \A f \in DOMAIN numerical_buckets : DOMAIN buckets.fields[f] = DOMAIN numerical_buckets[f]

\* The sets that CentroidsExact names are the chosen ones.
ChosenAll(l) == {i \in DOMAIN l : l[i].counted >= 1}
ChosenCategory(l, f, cat) ==
  {i \in {i \in DOMAIN l : l[i].counted >= 1} :
     HasString(Entries[l[i].entry].metadata, f) /\ Entries[l[i].entry].metadata[f][1].v = cat}
ChosenBucket(l, f, b) ==
  {i \in {i \in {i \in DOMAIN l : l[i].counted >= 3} : HasNumber(Entries[l[i].entry].metadata, f)} :
     /\ b = 1 \/ Entries[l[i].entry].metadata[f][1].v >= numerical_buckets[f][b]
     /\ b = Len(numerical_buckets[f]) \/ Entries[l[i].entry].metadata[f][1].v < numerical_buckets[f][b + 1]}

\* The sets that CentroidsExact names are the ones these lemmas reason about.
LEMMA ChosenSets ==
    ASSUME NEW l, LogList(l)
    PROVE  /\ ChosenAll(l) = Chosen(l, 1, DOMAIN Entries)
           /\ \A f, cat : ChosenCategory(l, f, cat) = Chosen(l, 1, OfCategory(f, cat))
           /\ \A f, b : ChosenBucket(l, f, b) = Chosen(l, 3, OfBucket(f, b))
<1>1. \A i \in DOMAIN l : l[i].entry \in DOMAIN Entries
  BY IsSeqFacts DEF LogList, LogOK
<1>2. ChosenAll(l) = Chosen(l, 1, DOMAIN Entries)
  BY <1>1 DEF ChosenAll, Chosen
<1>3. \A f, cat : ChosenCategory(l, f, cat) = Chosen(l, 1, OfCategory(f, cat))
  BY <1>1 DEF ChosenCategory, Chosen, OfCategory
<1>4. \A f, b : ChosenBucket(l, f, b) = Chosen(l, 3, OfBucket(f, b))
  BY <1>1 DEF ChosenBucket, Chosen, OfBucket, Within
<1> QED
  BY <1>2, <1>3, <1>4

\* CentroidsExact in this module's terms, for the state before a step.
LEMMA TrackersNow ==
    ASSUME LogList(log)
    PROVE  CentroidsExact <=> TrackersFit(log, centroids, buckets)
<1>0. VectorsLogged = ListOf(log, VectorNumber)
  <2>1. \A i \in DOMAIN log : VectorNumber[log[i].entry] = Component(Entries[log[i].entry])
    BY IsSeqFacts DEF LogList, LogOK, VectorNumber
  <2> QED
    BY <2>1 DEF VectorsLogged, EntryAt, ListOf
<1>1. /\ Counted(1) = ChosenAll(log)
      /\ \A f, cat : InCategory(f, cat) = ChosenCategory(log, f, cat)
      /\ \A f, b : InBucket(f, b) = ChosenBucket(log, f, b)
  BY DEF Counted, ChosenAll, EntryAt, InCategory, ChosenCategory,
         InBucket, ChosenBucket, GivenNumber
<1> QED
  BY <1>0, <1>1, ChosenSets DEF CentroidsExact, TrackersFit, StatOf, SumOf, StatOver

\* CentroidsExact in this module's terms, for the state after a step.
LEMMA TrackersNext ==
    ASSUME LogList(log')
    PROVE  CentroidsExact' <=> TrackersFit(log', centroids', buckets')
<1>0. VectorsLogged' = ListOf(log', VectorNumber)
  <2>1. \A i \in DOMAIN log' : VectorNumber[log'[i].entry] = Component(Entries[log'[i].entry])
    BY IsSeqFacts DEF LogList, LogOK, VectorNumber
  <2> QED
    BY <2>1 DEF VectorsLogged, EntryAt, ListOf
<1>1. /\ Counted(1)' = ChosenAll(log')
      /\ \A f, cat : InCategory(f, cat)' = ChosenCategory(log', f, cat)
      /\ \A f, b : InBucket(f, b)' = ChosenBucket(log', f, b)
  BY DEF Counted, ChosenAll, EntryAt, InCategory, ChosenCategory,
         InBucket, ChosenBucket, GivenNumber
<1> QED
  BY <1>0, <1>1, ChosenSets DEF CentroidsExact, TrackersFit, StatOf, SumOf, StatOver

\* A step that logs an entry.
LEMMA LogLogs ==
    ASSUME LogList(log), NEW c, LogEntry(c)
    PROVE  Logged(log, log')
<1> DEFINE x == [entry |-> conn[c].entry, entitled |-> conn[c].entitled, counted |-> 0]
<1>1. log' = Append(log, x) /\ x.counted = 0
  BY DEF LogEntry
<1> HIDE DEF x
<1>2. /\ Len(Append(log, x)) = Len(log) + 1 /\ Append(log, x)[Len(log) + 1] = x
      /\ \A i \in 1..Len(log) : Append(log, x)[i] = log[i]
  BY AppendIsSeq DEF LogList
<1>3. /\ Len(log') = Len(log) + 1 /\ log'[Len(log')].counted = 0
      /\ \A i \in 1..Len(log) : log'[i] = log[i]
  BY <1>1, <1>2
<1> QED
  BY <1>3 DEF Logged

\* Logging an entry leaves the trackers exact: nothing has counted it yet.
LEMMA TrackersLog ==
    ASSUME LogList(log), LogList(log'), TrackersFit(log, centroids, buckets), NEW c, LogEntry(c)
    PROVE  TrackersFit(log', centroids', buckets')
<1>1. centroids' = centroids /\ buckets' = buckets
  BY DEF LogEntry
<1>a. Logged(log, log')
  BY LogLogs
<1>4. \A n \in 1..3 : \A B : StatOf(log', n, B) = StatOf(log, n, B)
  BY <1>a, StatLogged
<1>5. 1 \in 1..3 /\ 3 \in 1..3
  OBVIOUS
<1> QED
  BY <1>1, <1>4, <1>5 DEF TrackersFit

\* A step of a tracker counts the entry of its insert.
LEMMA TrackTracks ==
    ASSUME LogList(log), LogList(log'), InsertInv, NEW c \in Clients, Track(c)
    PROVE  /\ Tracked(log, log', conn[c].pos, CountedBefore(conn[c].stage))
           /\ log[conn[c].pos].entry = conn[c].entry /\ conn[c].entry \in DOMAIN Entries
           /\ conn[c].stage \in Tracking
<1> DEFINE p == conn[c].pos
           k == CountedBefore(conn[c].stage)
           e == conn[c].entry
<1>1. conn[c].stage \in Tracking /\ log' = [log EXCEPT ![p].counted = @ + 1]
  BY DEF Track
<1>2. k \in 0..2
  BY DEF CountedBefore
<1>3. Len(log) \in Nat /\ DOMAIN log = 1..Len(log) /\ log = [i \in 1..Len(log) |-> log[i]]
  BY IsSeqFacts DEF LogList
<1>4. p \in 1..Len(log) /\ log[p].counted = k /\ e \in DOMAIN Entries /\ log[p].entry = e
  BY <1>1, <1>3 DEF InsertInv, InsertAt
<1>5. LogOK(log[p])
  BY <1>4 DEF LogList
<1> HIDE DEF p, k, e
<1> DEFINE x == [log[p] EXCEPT !.counted = @ + 1]
<1>6. log' = [log EXCEPT ![p] = x]
  BY <1>1
<1>7. x.entry = log[p].entry /\ x.counted = k + 1
  BY <1>4, <1>5 DEF LogOK
<1> HIDE DEF x
<1>8. Tracked(log, log', p, k)
  <2>1. log'[p] = x /\ \A i \in 1..Len(log) : i # p => log'[i] = log[i]
    BY <1>3, <1>4, <1>6
  <2>2. DOMAIN log' = 1..Len(log') /\ Len(log') \in Nat
    BY IsSeqFacts DEF LogList
  <2>3. DOMAIN log' = 1..Len(log)
    BY <1>3, <1>6
  <2>4. Len(log) \in 1..Len(log) /\ p \in 1..Len(log')
    BY <2>2, <2>3, <1>3, <1>4
  <2>5. Len(log) \in 1..Len(log') /\ Len(log') \in 1..Len(log)
    BY <2>2, <2>3, <2>4
  <2>6. Len(log') = Len(log)
    <3> DEFINE m == Len(log')
               n == Len(log)
    <3>1. m \in Nat /\ n \in Nat /\ n \in 1..m /\ m \in 1..n
      BY <2>2, <2>5, <1>3
    <3> HIDE DEF m, n
    <3>2. m = n
      BY <3>1
    <3> QED
      BY <3>2 DEF m, n
  <2> QED
    BY <2>1, <2>6, <1>2, <1>4, <1>7 DEF Tracked
<1> QED
  BY <1>1, <1>4, <1>8 DEF p, k, e

\* A step of a tracker.
LEMMA TrackersTrack ==
    ASSUME LogList(log), LogList(log'), InsertInv, TrackersFit(log, centroids, buckets),
           BucketsKept, NEW c \in Clients, Track(c)
    PROVE  TrackersFit(log', centroids', buckets')
<1> DEFINE p == conn[c].pos
           k == CountedBefore(conn[c].stage)
           e == conn[c].entry
<1>1. conn[c].stage \in Tracking
  BY TrackTracks
<1>4. log[p].entry = e /\ e \in DOMAIN Entries
  BY TrackTracks
<1>8. Tracked(log, log', p, k)
  BY TrackTracks
<1> HIDE DEF p, k, e
<1>9. \A n \in 1..3 : \A B : StatOf(log', n, B) = IF n = k + 1 /\ e \in B
                                              THEN add(StatOf(log, n, B), Component(Entries[e]))
                                              ELSE StatOf(log, n, B)
  BY <1>4, <1>8, StatTracked
<1>10. 1 \in 1..3 /\ 3 \in 1..3
  OBVIOUS
<1>11. CASE conn[c].stage = "centroids"
  <2>1. k = 0 /\ buckets' = buckets /\ centroids' = update_centroids(centroids, Entries[e])
    BY <1>11 DEF Track, At, k, e, CountedBefore, UpdateCentroids
  <2>2. \A B : /\ StatOf(log', 1, B) = IF e \in B THEN add(StatOf(log, 1, B), Component(Entries[e]))
                                       ELSE StatOf(log, 1, B)
               /\ StatOf(log', 3, B) = StatOf(log, 3, B)
    BY <2>1, <1>9, <1>10
  <2>3. centroids'.global = StatOf(log', 1, DOMAIN Entries)
    BY <2>1, <2>2, <1>4 DEF update_centroids, TrackersFit
  <2>4. ASSUME NEW f \in categorical_fields, NEW cat \in CategoryValues
        PROVE  centroids'.categories[f][cat] = StatOf(log', 1, OfCategory(f, cat))
    <3>1. e \in OfCategory(f, cat) <=> HasString(Entries[e].metadata, f) /\ Entries[e].metadata[f][1].v = cat
      BY <1>4 DEF OfCategory
    <3>2. centroids'.categories[f][cat] = IF e \in OfCategory(f, cat)
                                          THEN add(centroids.categories[f][cat], Component(Entries[e]))
                                          ELSE centroids.categories[f][cat]
      BY <2>1, <3>1 DEF update_centroids
    <3>3. centroids.categories[f][cat] = StatOf(log, 1, OfCategory(f, cat))
      BY DEF TrackersFit
    <3> QED
      BY <3>2, <3>3, <2>2
  <2> QED
    BY <2>1, <2>2, <2>3, <2>4 DEF TrackersFit
<1>12. CASE conn[c].stage = "correlations"
  <2>1. k = 1 /\ buckets' = buckets /\ centroids' = centroids
    BY <1>12 DEF Track, At, k, CountedBefore
  <2>2. \A B : StatOf(log', 1, B) = StatOf(log, 1, B) /\ StatOf(log', 3, B) = StatOf(log, 3, B)
    BY <2>1, <1>9, <1>10
  <2> QED
    BY <2>1, <2>2 DEF TrackersFit
<1>13. CASE conn[c].stage = "buckets"
  <2>1. k = 2 /\ centroids' = centroids /\ buckets' = update_buckets(buckets, Entries[e])
    BY <1>13 DEF Track, At, k, e, CountedBefore, UpdateBuckets
  <2>2. \A B : /\ StatOf(log', 3, B) = IF e \in B THEN add(StatOf(log, 3, B), Component(Entries[e]))
                                       ELSE StatOf(log, 3, B)
               /\ StatOf(log', 1, B) = StatOf(log, 1, B)
    BY <2>1, <1>9, <1>10
  <2>3. ASSUME NEW f \in DOMAIN numerical_buckets, NEW b \in DOMAIN numerical_buckets[f]
        PROVE  buckets'.fields[f][b] = StatOf(log', 3, OfBucket(f, b))
    <3> DEFINE bs == numerical_buckets[f]
               v == Entries[e].metadata[f][1].v
               q == bucket_index(bs, v)
               has == HasNumber(Entries[e].metadata, f)
    <3>1. e \in OfBucket(f, b) <=> has /\ Within(bs, b, v)
      BY <1>4 DEF OfBucket
    <3>2. buckets'.fields[f] = IF ~has THEN buckets.fields[f]
                               ELSE [buckets.fields[f] EXCEPT ![q] = add(@, Component(Entries[e]))]
      BY <2>1 DEF update_buckets
    <3>3. has => v \in Int
      BY <1>4, EntriesAssumption
    <3>4. b \in 1..Len(bs)
      BY BucketsAssumption
    <3>5. has => (Within(bs, b, v) <=> b = q)
      BY <3>3, <3>4, BucketIndex
    <3>6. buckets.fields[f][b] = StatOf(log, 3, OfBucket(f, b))
      BY DEF TrackersFit
    <3>7. b \in DOMAIN buckets.fields[f]
      BY DEF BucketsKept
    <3> HIDE DEF bs, v, q, has
    <3>8. buckets'.fields[f][b] = IF has /\ b = q THEN add(buckets.fields[f][b], Component(Entries[e]))
                                  ELSE buckets.fields[f][b]
      BY <3>2, <3>7
    <3> QED
      BY <3>1, <3>5, <3>6, <3>8, <2>2
  <2> QED
    BY <2>1, <2>2, <2>3 DEF TrackersFit
<1> QED
  BY <1>1, <1>11, <1>12, <1>13 DEF Tracking

\* What a step does to the log and the trackers.
LEMMA TrackersFrame ==
    ASSUME [Next]_vars
    PROVE  (\E c \in Clients : LogEntry(c) \/ Track(c)) \/ UNCHANGED <<log, centroids, correlations, buckets>>
<1> DEFINE Goal == (\E c \in Clients : LogEntry(c) \/ Track(c)) \/ UNCHANGED <<log, centroids, correlations, buckets>>
<1>1. ASSUME UNCHANGED storage \/ UNCHANGED <<log, centroids, correlations, buckets>> PROVE Goal
  BY <1>1 DEF storage
<1>2. ASSUME NEW c, NEW f, NEW h, NEW p, HttpRequest(c, f, h, p) PROVE Goal
  BY <1>1, <1>2 DEF HttpRequest
<1>3. ASSUME NEW c, NEW h, GrpcRequest(c, h) PROVE Goal
  BY <1>1, <1>3 DEF GrpcRequest
<1>4. ASSUME NEW c, ReadBody(c) PROVE Goal
  BY <1>1, <1>4 DEF ReadBody, StartInsert, StartQuery, BadBody
<1>12. ASSUME NEW c, TrackPanics(c) PROVE Goal
  BY <1>1, <1>12 DEF TrackPanics, UpdateCorrelations
<1>5. ASSUME NEW c \in Clients, Progress(c) PROVE Goal
  BY <1>1, <1>5, <1>12 DEF Progress, Apply, EmbedRetry, Scan, Finish, SendRecord, EndStream
<1>6. ASSUME NEW c, InsertFails(c) \/ QueryTimeout(c) \/ ReadRecord(c) \/ ClientLeaves(c)
                      \/ \E o \in Outcomes : EmbedReply(c, o)
      PROVE  Goal
  BY <1>1, <1>6 DEF InsertFails, QueryTimeout, ReadRecord, ClientLeaves, EmbedReply
<1>7. ASSUME NEW u \in Users, NEW k \in Clicks, Click(u, k) PROVE Goal
  BY <1>1, <1>7 DEF Click
<1>8. ASSUME ShutdownSignal \/ Exit \/ TimePasses PROVE Goal
  BY <1>1, <1>8 DEF ShutdownSignal, Exit, TimePasses
<1>9. ASSUME UNCHANGED vars PROVE Goal
  BY <1>1, <1>9 DEF vars
<1> HIDE DEF Goal
<1>10. ASSUME Next PROVE Goal
  BY <1>10, <1>2, <1>3, <1>4, <1>5, <1>6, <1>7, <1>8 DEF Next
<1>11. Goal
  BY <1>9, <1>10
<1> QED
  BY <1>11 DEF Goal

\* No step changes which fields have buckets, or how many.
LEMMA BucketsStep ==
    ASSUME BucketsKept, [Next]_vars
    PROVE  BucketsKept'
<1>1. CASE buckets' = buckets
  BY <1>1 DEF BucketsKept
<1>2. ASSUME NEW e, buckets' = update_buckets(buckets, e) PROVE BucketsKept'
  <2> SUFFICES ASSUME NEW f \in DOMAIN numerical_buckets
               PROVE  DOMAIN buckets'.fields[f] = DOMAIN numerical_buckets[f]
    BY DEF BucketsKept
  <2>1. DOMAIN buckets'.fields[f] = DOMAIN buckets.fields[f]
    BY <1>2 DEF update_buckets
  <2> QED
    BY <2>1 DEF BucketsKept
<1>3. ASSUME NEW c \in Clients, LogEntry(c) \/ Track(c) PROVE BucketsKept'
  <2>1. buckets' = buckets \/ \E e : buckets' = update_buckets(buckets, e)
    BY <1>3 DEF LogEntry, Track, UpdateBuckets
  <2> QED
    BY <2>1, <1>1, <1>2
<1> QED
  BY <1>1, <1>3, TrackersFrame

\* The trackers start exact, as the log is empty.
LEMMA TrackersStart ==
    ASSUME Init
    PROVE  CentroidsExact /\ BucketsKept
<1>1. log = <<>> /\ centroids = NewCentroids /\ buckets = NewBuckets
  BY DEF Init, BiasInit
<1>2. LogList(log)
  BY <1>1 DEF LogList, IsSeq
<1>3. \A n, B : StatOf(log, n, B) = Stat
  <2> SUFFICES ASSUME NEW n, NEW B PROVE StatOf(log, n, B) = Stat
    OBVIOUS
  <2>1. Chosen(log, n, B) = {}
    BY <1>1 DEF Chosen
  <2>2. SumOf(log, n, B, VectorNumber) = 0
    BY <1>2, <2>1, SumEmpty, VectorsAreNumbers
  <2>3. Cardinality(Chosen(log, n, B)) = 0
    BY <2>1, FS_EmptySet
  <2> QED
    BY <2>2, <2>3 DEF StatOf, Stat
<1>4. TrackersFit(log, centroids, buckets)
  BY <1>1, <1>3 DEF TrackersFit, NewCentroids, NewBuckets
<1>5. BucketsKept
  BY <1>1 DEF BucketsKept, NewBuckets
<1> QED
  BY <1>2, <1>4, <1>5, TrackersNow

\* CentroidTracker::update and NumericalBucketTracker::update, for any clients,
\* entries, fields and boundaries: every centroid is the exact sum and count
\* over the log entries its tracker has counted that belong to it, however
\* inserts interleave, fail or are dropped between the trackers.
THEOREM ServiceCentroidsExact == Spec => []CentroidsExact
<1> DEFINE I == ServiceInv /\ CentroidsExact /\ BucketsKept
<1>1. Init => I
  BY ServiceStart, TrackersStart
<1>2. I /\ [Next]_vars => I'
  <2> SUFFICES ASSUME I, [Next]_vars PROVE I'
    OBVIOUS
  <2>1. ServiceInv'
    BY ServiceStep
  <2>2. InsertInv /\ InsertInv'
    BY <2>1 DEF ServiceInv
  <2>3. LogList(log)
    BY <2>2 DEF InsertInv, LogList
  <2>4. LogList(log')
    BY <2>2 DEF InsertInv, LogList, IsSeq, LogOK
  <2>5. TrackersFit(log, centroids, buckets)
    BY <2>3, TrackersNow
  <2>6. TrackersFit(log', centroids', buckets')
    <3>1. CASE UNCHANGED <<log, centroids, correlations, buckets>>
      BY <3>1, <2>5
    <3>2. ASSUME NEW c \in Clients, LogEntry(c) \/ Track(c)
          PROVE  TrackersFit(log', centroids', buckets')
      BY <3>2, <2>2, <2>3, <2>4, <2>5, TrackersLog, TrackersTrack
    <3> QED
      BY <3>1, <3>2, TrackersFrame
  <2>7. CentroidsExact'
    BY <2>4, <2>6, TrackersNext
  <2>8. BucketsKept'
    BY BucketsStep
  <2> QED
    BY <2>1, <2>7, <2>8
<1> QED
  BY <1>1, <1>2, PTL DEF Spec

-----------------------------------------------------------------------------
(* Welford's recurrences *)

\* A division without remainder.
LEMMA Divides ==
    ASSUME NEW n \in Nat \ {0}, NEW q \in Int, NEW x \in Int, x = n * q
    PROVE  x \div n = q
OBVIOUS

\* Products and squares.
LEMMA NonNegative ==
    ASSUME NEW x \in Int, NEW y \in Int, x >= 0, y >= 0
    PROVE  x * y >= 0
OBVIOUS

\* A square is not negative.
LEMMA SquareNonNegative ==
    ASSUME NEW x \in Int
    PROVE  x * x >= 0 /\ x * x \in Int
OBVIOUS

\* How Welford's cross term grows by a pair of numbers: P is the sum of the
\* products, X and Y are the sums of n pairs.
LEMMA CrossGrows ==
    ASSUME NEW n \in Nat \ {0}, NEW P \in Int, NEW X \in Int, NEW Y \in Int, NEW x \in Int, NEW y \in Int
    PROVE  (n + 1) * (n * P - X * Y) + (n * x - X) * (n * y - Y)
             = n * ((n + 1) * (P + x * y) - (X + x) * (Y + y))
OBVIOUS

\* How a mean, kept times n, grows by a number.
LEMMA MeanGrows ==
    ASSUME NEW n \in Int, NEW X \in Int, NEW x \in Int
    PROVE  (n + 1) * X + (n * x - X) = n * (X + x)
OBVIOUS

\* The terms of the step of the Cauchy-Schwarz inequality.
Expands(m, F, D, C, a, b) ==
  (m * F + a * a) * (m * D + b * b) - (m * C + a * b) * (m * C + a * b)
    = (m * m) * (F * D - C * C) + m * (F * (b * b) + D * (a * a) - 2 * (C * (a * b)))

\* The identity behind the step of the Cauchy-Schwarz inequality.
LEMMA Expansion ==
    ASSUME NEW m \in Int, NEW F \in Int, NEW D \in Int, NEW C \in Int, NEW a \in Int, NEW b \in Int
    PROVE  Expands(m, F, D, C, a, b)
BY DEF Expands

\* A positive factor does not change the sign.
LEMMA Cancel ==
    ASSUME NEW m \in Nat \ {0}, NEW z \in Int, m * z >= 0
    PROVE  z >= 0
OBVIOUS

\* The mixed term in the step of the Cauchy-Schwarz inequality.
LEMMA Mixed ==
    ASSUME NEW F \in Int, NEW D \in Int, NEW C \in Int, NEW a \in Int, NEW b \in Int,
           F >= 0, D >= 0, C * C <= F * D
    PROVE  F * (b * b) + D * (a * a) - 2 * (C * (a * b)) >= 0
<1> DEFINE W == F * (b * b) + D * (a * a) - 2 * (C * (a * b))
<1>1. CASE F = 0
  <2>1. C * C <= 0
    BY <1>1
  <2>2. C = 0
    BY <2>1
  <2>3. W = D * (a * a)
    BY <1>1, <2>2
  <2> QED
    BY <2>3, SquareNonNegative, NonNegative
<1>2. CASE F # 0
  <2> DEFINE u == F * b - C * a
             g == F * D - C * C
  <2>1. F * W = u * u + g * (a * a)
    OBVIOUS
  <2>2. u \in Int /\ g \in Int /\ g >= 0 /\ W \in Int /\ a * a \in Int
    OBVIOUS
  <2> HIDE DEF u, g, W
  <2>3. u * u >= 0 /\ a * a >= 0 /\ u * u \in Int
    BY <2>2, SquareNonNegative
  <2>4. g * (a * a) >= 0 /\ g * (a * a) \in Int
    BY <2>2, <2>3, NonNegative
  <2>5. F * W >= 0
    BY <2>1, <2>3, <2>4
  <2>6. F \in Nat \ {0}
    BY <1>2
  <2>7. W >= 0
    BY <2>2, <2>5, <2>6, Cancel
  <2> QED
    BY <2>7 DEF W
<1> QED
  BY <1>1, <1>2

\* M2 is what a further observation at the distances a and b makes of the term M
\* of n.
Grows(n, M, M2, a, b) == (n + 1) * M + a * b = n * M2

\* The inequality, for the variances F and D and the covariance C.
CauchySchwarz(F, D, C) == F >= 0 /\ D >= 0 /\ C * C <= F * D

\* The Cauchy-Schwarz inequality holds after a step of Welford's recurrences if
\* it holds before.
Grown(n, F, D, C, a, b, F2, D2, C2) ==
  /\ n \in Nat \ {0} /\ F \in Int /\ D \in Int /\ C \in Int /\ a \in Int /\ b \in Int
  /\ F2 \in Int /\ D2 \in Int /\ C2 \in Int
  /\ Grows(n, F, F2, a, a) /\ Grows(n, D, D2, b, b) /\ Grows(n, C, C2, a, b)

\* One observation keeps the inequality between the second moments.
LEMMA CauchySchwarzStep ==
    ASSUME NEW n, NEW F, NEW D, NEW C, NEW a, NEW b, NEW F2, NEW D2, NEW C2,
           Grown(n, F, D, C, a, b, F2, D2, C2), CauchySchwarz(F, D, C)
    PROVE  CauchySchwarz(F2, D2, C2)
<1> USE DEF Grown
<1>0. /\ n * F2 = (n + 1) * F + a * a /\ n * D2 = (n + 1) * D + b * b /\ n * C2 = (n + 1) * C + a * b
      /\ F >= 0 /\ D >= 0 /\ C * C <= F * D
  BY DEF Grows, CauchySchwarz
<1> DEFINE W == F * (b * b) + D * (a * a) - 2 * (C * (a * b))
           g == F * D - C * C
           z == F2 * D2 - C2 * C2
<1>1. W >= 0 /\ W \in Int /\ g >= 0 /\ g \in Int /\ z \in Int
  <2>1. W >= 0
    BY <1>0, Mixed
  <2>2. W \in Int /\ g \in Int /\ z \in Int
    OBVIOUS
  <2>3. g >= 0
    BY <1>0
  <2> QED
    BY <2>1, <2>2, <2>3
<1>2. F2 >= 0 /\ D2 >= 0
  <2>1. a * a >= 0 /\ b * b >= 0 /\ a * a \in Int /\ b * b \in Int
    BY SquareNonNegative
  <2>2. (n + 1) * F >= 0 /\ (n + 1) * D >= 0 /\ (n + 1) * F \in Int /\ (n + 1) * D \in Int
    BY <1>0, NonNegative
  <2>3. n * F2 >= 0 /\ n * D2 >= 0
    BY <2>1, <2>2, <1>0
  <2> QED
    BY <2>3, Cancel
<1>3. (n * n) * z = ((n + 1) * (n + 1)) * g + (n + 1) * W
  <2>1. (n * n) * z = (n * F2) * (n * D2) - (n * C2) * (n * C2)
    OBVIOUS
  <2>2. (n * F2) * (n * D2) - (n * C2) * (n * C2)
         = ((n + 1) * F + a * a) * ((n + 1) * D + b * b) - ((n + 1) * C + a * b) * ((n + 1) * C + a * b)
    BY <1>0
  <2>3. ((n + 1) * F + a * a) * ((n + 1) * D + b * b) - ((n + 1) * C + a * b) * ((n + 1) * C + a * b)
         = ((n + 1) * (n + 1)) * g + (n + 1) * W
    <3> DEFINE m == n + 1
    <3>1. m \in Int
      OBVIOUS
    <3> HIDE DEF m
    <3>2. Expands(m, F, D, C, a, b)
      BY <3>1, Expansion
    <3> QED
      BY ONLY <3>2, Zenon DEF m, Expands, W, g
  <2> QED
    BY <2>1, <2>2, <2>3
<1> HIDE DEF W, g
<1>4. (n * n) * z >= 0
  <2>1. (n + 1) * (n + 1) \in Int /\ (n + 1) * (n + 1) >= 0
    BY SquareNonNegative
  <2>2. ((n + 1) * (n + 1)) * g >= 0 /\ (n + 1) * W >= 0 /\ ((n + 1) * (n + 1)) * g \in Int /\ (n + 1) * W \in Int
    BY <2>1, <1>1, NonNegative
  <2> HIDE DEF z
  <2> QED
    BY ONLY <2>2, <1>3
<1>5. n * n \in Nat \ {0}
  OBVIOUS
<1>6. z >= 0
  <2> HIDE DEF z
  <2> QED
    BY <1>1, <1>4, <1>5, Cancel
<1>7. C2 * C2 \in Int /\ F2 * D2 \in Int
  OBVIOUS
<1> QED
  BY <1>2, <1>6, <1>7 DEF CauchySchwarz

\* The statistics of a field: its own, and those of the dimension that is followed.
FieldPart(s, n, X, F) == s.count = n /\ s.field_mean = X /\ s.field_m2 = F
DimPart(s, Y, D, C) == s.dim_mean = Y /\ s.dim_m2 = D /\ s.dim_cross = C

\* x + d / (n + 1), with x and d kept times n and the result times n + 1.
PlusAt(n, x, d) == ((n + 1) * x + d) \div n

\* The mean, kept times n, becomes the sum with one number more.
LEMMA MeanNext ==
    ASSUME NEW n \in Nat \ {0}, NEW X \in Int, NEW x \in Int
    PROVE  PlusAt(n, X, n * x - X) = X + x
<1> DEFINE df == n * x - X
<1>1. (n + 1) * X + df = n * (X + x)
  BY MeanGrows
<1>2. (n + 1) * X + df \in Int /\ X + x \in Int
  OBVIOUS
<1> HIDE DEF df
<1>3. PlusAt(n, X, df) = X + x
  BY <1>1, <1>2, Divides DEF PlusAt
<1> QED
  BY <1>3 DEF df

\* M2 and cross terms become what they are when n divides them.
LEMMA CrossNext ==
    ASSUME NEW n \in Nat \ {0}, NEW M \in Int, NEW M2 \in Int, NEW a \in Int, NEW b \in Int,
           Grows(n, M, M2, a, b)
    PROVE  PlusAt(n, M, a * b) = M2
<1>1. (n + 1) * M + a * b = n * M2
  BY DEF Grows
<1>2. (n + 1) * M + a * b \in Int
  OBVIOUS
<1> QED
  BY <1>1, <1>2, Divides DEF PlusAt

\* The first observation.
LEMMA UpdateFirst ==
    ASSUME NEW x, NEW e
    PROVE  /\ FieldPart(stats_update(NewStats, x, e), 1, x, 0)
           /\ stats_update(NewStats, x, e).dims = e.length
           /\ DimPart(stats_update(NewStats, x, e), Component(e), 0, 0)
BY DEF stats_update, NewStats, FieldPart, DimPart

\* A further observation: the distances to the old means, and the parts of the
\* new record.
Distance(n, x, X) == n * x - X
DimDistance(s, e) ==
  IF Reaches(e) /\ s.dims >= Followed THEN Distance(s.count, e.vector, s.dim_mean) ELSE 0

\* stats_update, field by field.
LEMMA UpdateParts ==
    ASSUME NEW s, NEW x, NEW e, s.count # 0
    PROVE  LET t == stats_update(s, x, e)
               n == s.count
               df == Distance(n, x, s.field_mean)
               dd == DimDistance(s, e)
           IN  /\ FieldPart(t, n + 1, PlusAt(n, s.field_mean, df), PlusAt(n, s.field_m2, df * df))
               /\ DimPart(t, PlusAt(n, s.dim_mean, dd), PlusAt(n, s.dim_m2, dd * dd), PlusAt(n, s.dim_cross, df * dd))
               /\ t.dims = s.dims
BY DEF stats_update, FieldPart, DimPart, PlusAt, Distance, DimDistance

\* The value of a numerical field of an entry, products of numbers, and the
\* entries that have the field.
FieldNumber(f) ==
  [e \in DOMAIN Entries |-> IF HasNumber(Entries[e].metadata, f) THEN Entries[e].metadata[f][1].v ELSE 0]
Product(g, h) == [e \in DOMAIN Entries |-> g[e] * h[e]]
OfNumber(f) == {e \in DOMAIN Entries : HasNumber(Entries[e].metadata, f)}

\* The statistics that the correlation tracker should hold for a field.
CountOf(l, f) == Cardinality(Chosen(l, 2, OfNumber(f)))
CrossOf(l, f, g, h) ==
  CountOf(l, f) * SumOf(l, 2, OfNumber(f), Product(g, h)) - SumOf(l, 2, OfNumber(f), g) * SumOf(l, 2, OfNumber(f), h)
StatsOf(l, f) ==
  [count |-> CountOf(l, f), field_mean |-> SumOf(l, 2, OfNumber(f), FieldNumber(f)),
   field_m2 |-> CrossOf(l, f, FieldNumber(f), FieldNumber(f)),
   dim_mean |-> SumOf(l, 2, OfNumber(f), VectorNumber), dim_m2 |-> CrossOf(l, f, VectorNumber, VectorNumber),
   dim_cross |-> CrossOf(l, f, FieldNumber(f), VectorNumber)]

\* Every vector counted for the field has the dimension that is followed.
AllReach(l, f) == \A i \in Chosen(l, 2, OfNumber(f)) : Reaches(Entries[l[i].entry])

\* The dimension's part is exact, no correlation exceeds 1, and the first vector
\* had the dimension.
DimFit(l, f, s) ==
  /\ DimPart(s, SumOf(l, 2, OfNumber(f), VectorNumber), CrossOf(l, f, VectorNumber, VectorNumber),
             CrossOf(l, f, FieldNumber(f), VectorNumber))
  /\ CauchySchwarz(s.field_m2, s.dim_m2, s.dim_cross)
  /\ s.count # 0 => s.dims >= Followed

\* WelfordExact, of a log and the statistics of a field, and the record before
\* the first observation.
FieldFit(l, f, s) ==
  /\ FieldPart(s, CountOf(l, f), SumOf(l, 2, OfNumber(f), FieldNumber(f)),
               CrossOf(l, f, FieldNumber(f), FieldNumber(f)))
  /\ s.count = 0 => s = NewStats
  /\ AllReach(l, f) => DimFit(l, f, s)
WelfordFit(l, c) == \A f \in numerical_fields : FieldFit(l, f, c[f])

\* Fields and products are numbers.
LEMMA NumbersAre ==
    /\ \A f \in numerical_fields : FieldNumber(f) \in NumberMaps
    /\ \A g, h \in NumberMaps : Product(g, h) \in NumberMaps
<1>1. \A f \in numerical_fields : FieldNumber(f) \in NumberMaps
  BY EntriesAssumption DEF FieldNumber, NumberMaps
<1>2. \A g, h \in NumberMaps : Product(g, h) \in NumberMaps
  BY DEF Product, NumberMaps
<1> QED
  BY <1>1, <1>2

\* Counts and cross terms are integers.
LEMMA CrossIsInt ==
    ASSUME NEW l, LogList(l), NEW f, NEW g \in NumberMaps, NEW h \in NumberMaps
    PROVE  CountOf(l, f) \in Nat /\ CrossOf(l, f, g, h) \in Int
<1>1. CountOf(l, f) \in Nat
  BY ChosenFinite DEF CountOf
<1>2. /\ SumOf(l, 2, OfNumber(f), Product(g, h)) \in Int
      /\ SumOf(l, 2, OfNumber(f), g) \in Int /\ SumOf(l, 2, OfNumber(f), h) \in Int
  BY SumIsInt, NumbersAre
<1> DEFINE n == CountOf(l, f)
           P == SumOf(l, 2, OfNumber(f), Product(g, h))
           X == SumOf(l, 2, OfNumber(f), g)
           Y == SumOf(l, 2, OfNumber(f), h)
<1> HIDE DEF n, P, X, Y
<1>3. n * P - X * Y \in Int
  BY <1>1, <1>2 DEF n, P, X, Y
<1> QED
  BY <1>1, <1>3 DEF CrossOf, n, P, X, Y

\* l2 is l after the correlation tracker has counted an entry e with the field.
Correlates(l, l2, f, e) ==
  /\ CountOf(l2, f) = CountOf(l, f) + 1
  /\ \A g \in NumberMaps : /\ SumOf(l2, 2, OfNumber(f), g) = SumOf(l, 2, OfNumber(f), g) + g[e]
                           /\ CountOf(l, f) = 0 => SumOf(l, 2, OfNumber(f), g) = 0
  /\ AllReach(l2, f) => AllReach(l, f) /\ Reaches(Entries[e])

\* l2 is l as far as the statistics of the field go.
Unmoved(l, l2, f) ==
  /\ CountOf(l2, f) = CountOf(l, f)
  /\ \A g \in NumberMaps : SumOf(l2, 2, OfNumber(f), g) = SumOf(l, 2, OfNumber(f), g)
  /\ AllReach(l2, f) => AllReach(l, f)

\* Counting an entry in the correlations adds one observation to the fields it has, and to no other.
LEMMA CorrelatesTracked ==
    ASSUME NEW l, NEW l2, LogList(l), LogList(l2), NEW p, NEW k, Tracked(l, l2, p, k),
           NEW f \in numerical_fields
    PROVE  IF k = 1 /\ l[p].entry \in OfNumber(f) THEN Correlates(l, l2, f, l[p].entry)
           ELSE Unmoved(l, l2, f)
<1> DEFINE B == OfNumber(f)
<1>1. 2 \in 1..3 /\ k \in Int /\ (2 = k + 1 <=> k = 1)
  BY DEF Tracked
<1>4. \A i \in Chosen(l, 2, B) : i \in 1..Len(l)
  BY ChosenFinite
<1>5. \A i \in 1..Len(l) : l2[i].entry = l[i].entry
  BY DEF Tracked
<1>2. CASE k = 1 /\ l[p].entry \in B
  <2>1. 2 = k + 1
    BY <1>2
  <2>2. CountOf(l2, f) = CountOf(l, f) + 1
    BY <2>1, <1>1, <1>2, CountTracked DEF CountOf
  <2>3. \A g \in NumberMaps : SumOf(l2, 2, B, g) = SumOf(l, 2, B, g) + g[l[p].entry]
    BY <2>1, <1>1, <1>2, SumTracked
  <2>4. ASSUME CountOf(l, f) = 0, NEW g \in NumberMaps PROVE SumOf(l, 2, B, g) = 0
    <3>1. IsFiniteSet(Chosen(l, 2, B)) /\ Cardinality(Chosen(l, 2, B)) = 0
      BY <2>4, ChosenFinite DEF CountOf
    <3>2. Chosen(l, 2, B) = {}
      BY <3>1, FS_EmptySet
    <3> QED
      BY <3>2, SumEmpty
  <2>5. Chosen(l2, 2, B) = Chosen(l, 2, B) \cup {p}
    BY <2>1, <1>1, <1>2, ChosenTracked
  <2>6. AllReach(l2, f) => AllReach(l, f) /\ Reaches(Entries[l[p].entry])
    BY <2>5, <1>4, <1>5 DEF AllReach, Tracked
  <2> QED
    BY <2>2, <2>3, <2>4, <2>6, <1>2 DEF Correlates
<1>3. CASE ~(k = 1 /\ l[p].entry \in B)
  <2>1. ~(2 = k + 1 /\ l[p].entry \in B)
    BY <1>1, <1>3
  <2>2. CountOf(l2, f) = CountOf(l, f)
    BY <2>1, <1>1, CountTracked DEF CountOf
  <2>3. \A g \in NumberMaps : SumOf(l2, 2, B, g) = SumOf(l, 2, B, g)
    BY <2>1, <1>1, SumTracked
  <2>4. Chosen(l2, 2, B) = Chosen(l, 2, B)
    BY <2>1, <1>1, ChosenTracked
  <2>5. AllReach(l2, f) => AllReach(l, f)
    BY <2>4, <1>4, <1>5 DEF AllReach
  <2> QED
    BY <2>2, <2>3, <2>5, <1>3 DEF Unmoved
<1> QED
  BY <1>2, <1>3

\* What does not move stays exact.
LEMMA FitUnmoved ==
    ASSUME NEW l, NEW l2, NEW f \in numerical_fields, Unmoved(l, l2, f), NEW s, FieldFit(l, f, s)
    PROVE  FieldFit(l2, f, s)
<1>1. FieldNumber(f) \in NumberMaps /\ VectorNumber \in NumberMaps /\ \A g, h \in NumberMaps : Product(g, h) \in NumberMaps
  BY NumbersAre, VectorsAreNumbers
<1>2. \A g, h \in NumberMaps : CrossOf(l2, f, g, h) = CrossOf(l, f, g, h)
  BY <1>1 DEF Unmoved, CrossOf
<1>3. FieldPart(s, CountOf(l2, f), SumOf(l2, 2, OfNumber(f), FieldNumber(f)),
                CrossOf(l2, f, FieldNumber(f), FieldNumber(f)))
  BY <1>1, <1>2 DEF Unmoved, FieldFit
<1>4. AllReach(l2, f) => DimFit(l2, f, s)
  BY <1>1, <1>2 DEF Unmoved, FieldFit, DimFit
<1> QED
  BY <1>3, <1>4 DEF FieldFit

\* How a cross term grows when the tracker counts an entry.
CrossGrown(n, M, M2, a, b) == IF n = 0 THEN M2 = 0 ELSE Grows(n, M, M2, a, b)

\* One more observation makes a cross moment grow by Welford's recurrence.
LEMMA CrossTracked ==
    ASSUME NEW l, NEW l2, LogList(l), LogList(l2), NEW f, NEW e \in DOMAIN Entries, Correlates(l, l2, f, e),
           NEW g \in NumberMaps, NEW h \in NumberMaps
    PROVE  CrossGrown(CountOf(l, f), CrossOf(l, f, g, h), CrossOf(l2, f, g, h),
                      CountOf(l, f) * g[e] - SumOf(l, 2, OfNumber(f), g),
                      CountOf(l, f) * h[e] - SumOf(l, 2, OfNumber(f), h))
<1> DEFINE n == CountOf(l, f)
           P == SumOf(l, 2, OfNumber(f), Product(g, h))
           X == SumOf(l, 2, OfNumber(f), g)
           Y == SumOf(l, 2, OfNumber(f), h)
           x == g[e]
           y == h[e]
<1>1. n \in Nat
  BY CrossIsInt
<1>2. P \in Int /\ X \in Int /\ Y \in Int
  BY SumIsInt, NumbersAre
<1>3. x \in Int /\ y \in Int /\ Product(g, h)[e] = x * y
  BY DEF NumberMaps, Product
<1>4. Product(g, h) \in NumberMaps
  BY NumbersAre
<1>5. /\ CountOf(l2, f) = n + 1 /\ SumOf(l2, 2, OfNumber(f), g) = X + x
      /\ SumOf(l2, 2, OfNumber(f), h) = Y + y /\ SumOf(l2, 2, OfNumber(f), Product(g, h)) = P + x * y
  BY <1>3, <1>4 DEF Correlates
<1>6. n = 0 => P = 0 /\ X = 0 /\ Y = 0
  BY <1>4 DEF Correlates
<1>7. CrossOf(l, f, g, h) = n * P - X * Y /\ CrossOf(l2, f, g, h) = (n + 1) * (P + x * y) - (X + x) * (Y + y)
  BY <1>5 DEF CrossOf
<1> HIDE DEF n, P, X, Y, x, y
<1>8. CrossGrown(n, n * P - X * Y, (n + 1) * (P + x * y) - (X + x) * (Y + y), n * x - X, n * y - Y)
  <2>1. CASE n = 0
    <3>1. (n + 1) * (P + x * y) - (X + x) * (Y + y) = 0
      BY <2>1, <1>3, <1>6
    <3> QED
      BY <2>1, <3>1 DEF CrossGrown
  <2>2. CASE n # 0
    <3>1. n \in Nat \ {0}
      BY <2>2, <1>1
    <3> QED
      BY <3>1, <1>2, <1>3, CrossGrows DEF CrossGrown, Grows
  <2> QED
    BY <2>1, <2>2
<1> QED
  BY <1>7, <1>8 DEF n, X, Y, x, y

\* One more number x for a sum X of n numbers, and the term F of them.
FieldGrows(n, X, F, x, n2, X2, F2) ==
  /\ n \in Nat /\ X \in Int /\ F \in Int /\ x \in Int /\ F2 \in Int
  /\ n2 = n + 1 /\ X2 = X + x
  /\ n = 0 => X = 0 /\ F = 0
  /\ CrossGrown(n, F, F2, Distance(n, x, X), Distance(n, x, X))

\* One more number y for the dimension, and the cross term with the field.
DimGrows(n, X, x, Y, D, C, y, Y2, D2, C2) ==
  /\ Y \in Int /\ D \in Int /\ C \in Int /\ y \in Int /\ D2 \in Int /\ C2 \in Int
  /\ Y2 = Y + y
  /\ n = 0 => Y = 0 /\ D = 0 /\ C = 0
  /\ CrossGrown(n, D, D2, Distance(n, y, Y), Distance(n, y, Y))
  /\ CrossGrown(n, C, C2, Distance(n, x, X), Distance(n, y, Y))

\* From exact statistics of a field stats_update makes exact ones, whatever the
\* length of the vector.
LEMMA UpdateField ==
    ASSUME NEW s, NEW e, NEW n, NEW X, NEW F, NEW x, NEW n2, NEW X2, NEW F2,
           FieldPart(s, n, X, F), n = 0 => s = NewStats, FieldGrows(n, X, F, x, n2, X2, F2)
    PROVE  FieldPart(stats_update(s, x, e), n2, X2, F2)
<1> DEFINE t == stats_update(s, x, e)
           df == Distance(n, x, X)
<1>1. n \in Nat /\ X \in Int /\ F \in Int /\ x \in Int /\ F2 \in Int /\ n2 = n + 1 /\ X2 = X + x
  BY DEF FieldGrows
<1>2. CASE n = 0
  <2>1. s = NewStats /\ F2 = 0 /\ X2 = x /\ n2 = 1
    BY <1>1, <1>2 DEF FieldGrows, CrossGrown
  <2> QED
    BY <2>1, UpdateFirst
<1>3. CASE n # 0
  <2>1. s.count = n /\ s.field_mean = X /\ s.field_m2 = F
    BY DEF FieldPart
  <2>2. FieldPart(t, n + 1, PlusAt(n, X, df), PlusAt(n, F, df * df))
    BY <2>1, <1>3, UpdateParts
  <2>3. n \in Nat \ {0} /\ df \in Int
    BY <1>1, <1>3 DEF Distance
  <2>4. PlusAt(n, X, df) = X2
    BY <1>1, <2>3, MeanNext DEF Distance
  <2>5. Grows(n, F, F2, df, df)
    BY <1>3 DEF FieldGrows, CrossGrown
  <2> HIDE DEF df, t
  <2>6. PlusAt(n, F, df * df) = F2
    BY <1>1, <2>3, <2>5, CrossNext
  <2>7. FieldPart(t, n2, X2, F2)
    BY <1>1, <2>2, <2>4, <2>6
  <2> QED
    BY <2>7 DEF t
<1> QED
  BY <1>2, <1>3

\* With a vector that has the dimension, as the first one had, its statistics
\* stay exact too, and no correlation comes to exceed 1.
LEMMA UpdateDim ==
    ASSUME NEW s, NEW e, NEW n, NEW X, NEW F, NEW x, NEW n2, NEW X2, NEW F2,
           FieldPart(s, n, X, F), n = 0 => s = NewStats, FieldGrows(n, X, F, x, n2, X2, F2),
           NEW Y, NEW D, NEW C, NEW y, NEW Y2, NEW D2, NEW C2,
           DimPart(s, Y, D, C), DimGrows(n, X, x, Y, D, C, y, Y2, D2, C2), CauchySchwarz(F, D, C),
           Reaches(e), y = e.vector, n # 0 => s.dims >= Followed
    PROVE  /\ DimPart(stats_update(s, x, e), Y2, D2, C2) /\ CauchySchwarz(F2, D2, C2)
           /\ stats_update(s, x, e).dims >= Followed
<1> DEFINE t == stats_update(s, x, e)
           df == Distance(n, x, X)
           dd == Distance(n, y, Y)
<1>1. /\ n \in Nat /\ X \in Int /\ F \in Int /\ x \in Int /\ F2 \in Int /\ n2 = n + 1 /\ X2 = X + x
      /\ Y \in Int /\ D \in Int /\ C \in Int /\ y \in Int /\ D2 \in Int /\ C2 \in Int /\ Y2 = Y + y
  BY DEF FieldGrows, DimGrows
<1>2. CASE n = 0
  <2>1. s = NewStats /\ F2 = 0 /\ D2 = 0 /\ C2 = 0 /\ Y2 = y
    BY <1>1, <1>2 DEF FieldGrows, DimGrows, CrossGrown
  <2>2. Component(e) = y
    BY DEF Component
  <2>3. DimPart(t, Y2, D2, C2) /\ t.dims = e.length
    BY <2>1, <2>2, UpdateFirst
  <2>4. CauchySchwarz(F2, D2, C2)
    BY <2>1 DEF CauchySchwarz
  <2> QED
    BY <2>3, <2>4 DEF Reaches
<1>3. CASE n # 0
  <2>1. /\ s.count = n /\ s.field_mean = X /\ s.field_m2 = F
        /\ s.dim_mean = Y /\ s.dim_m2 = D /\ s.dim_cross = C
    BY DEF FieldPart, DimPart
  <2>2. DimDistance(s, e) = dd
    BY <2>1, <1>3 DEF DimDistance
  <2>3. DimPart(t, PlusAt(n, Y, dd), PlusAt(n, D, dd * dd), PlusAt(n, C, df * dd)) /\ t.dims = s.dims
    BY <2>1, <2>2, <1>3, UpdateParts
  <2>4. n \in Nat \ {0} /\ df \in Int /\ dd \in Int
    BY <1>1, <1>3 DEF Distance
  <2>5. PlusAt(n, Y, dd) = Y2
    BY <1>1, <2>4, MeanNext DEF Distance
  <2>6. Grows(n, F, F2, df, df) /\ Grows(n, D, D2, dd, dd) /\ Grows(n, C, C2, df, dd)
    BY <1>3 DEF FieldGrows, DimGrows, CrossGrown
  <2> HIDE DEF df, dd, t
  <2>7. PlusAt(n, D, dd * dd) = D2 /\ PlusAt(n, C, df * dd) = C2
    BY <1>1, <2>4, <2>6, CrossNext
  <2>8. Grown(n, F, D, C, df, dd, F2, D2, C2)
    BY <1>1, <2>4, <2>6 DEF Grown
  <2>9. CauchySchwarz(F2, D2, C2)
    BY <2>8, CauchySchwarzStep
  <2>10. DimPart(t, Y2, D2, C2) /\ t.dims >= Followed
    BY <1>3, <2>3, <2>5, <2>7
  <2> QED
    BY <2>9, <2>10 DEF t
<1> QED
  BY <1>2, <1>3

\* CorrelationTracker::update, when the tracker counts an entry with the field.
LEMMA StatsCorrelate ==
    ASSUME NEW l, NEW l2, LogList(l), LogList(l2), NEW f \in numerical_fields, NEW e \in OfNumber(f),
           Correlates(l, l2, f, e), NEW s, FieldFit(l, f, s)
    PROVE  FieldFit(l2, f, stats_update(s, Entries[e].metadata[f][1].v, Entries[e]))
<1> DEFINE B == OfNumber(f)
           g == FieldNumber(f)
           h == VectorNumber
           n == CountOf(l, f)
           X == SumOf(l, 2, B, g)
           Y == SumOf(l, 2, B, h)
           F == CrossOf(l, f, g, g)
           D == CrossOf(l, f, h, h)
           C == CrossOf(l, f, g, h)
           F2 == CrossOf(l2, f, g, g)
           D2 == CrossOf(l2, f, h, h)
           C2 == CrossOf(l2, f, g, h)
           n2 == CountOf(l2, f)
           X2 == SumOf(l2, 2, B, g)
           Y2 == SumOf(l2, 2, B, h)
           x == g[e]
           y == h[e]
           en == Entries[e]
           t == stats_update(s, x, en)
<1>1. g \in NumberMaps /\ h \in NumberMaps
  BY NumbersAre, VectorsAreNumbers
<1>2. e \in DOMAIN Entries /\ x = en.metadata[f][1].v /\ y = Component(en)
  BY DEF OfNumber, FieldNumber, VectorNumber
<1>3. x \in Int /\ y \in Int
  BY <1>1, <1>2 DEF NumberMaps
<1>4. n \in Nat /\ F \in Int /\ D \in Int /\ C \in Int /\ F2 \in Int /\ D2 \in Int /\ C2 \in Int
  BY <1>1, CrossIsInt
<1>5. X \in Int /\ Y \in Int
  BY <1>1, SumIsInt
<1>6. /\ n2 = n + 1 /\ X2 = X + x /\ Y2 = Y + y
      /\ n = 0 => X = 0 /\ Y = 0
  BY <1>1 DEF Correlates
<1>7. n = 0 => F = 0 /\ D = 0 /\ C = 0
  <2> SUFFICES ASSUME n = 0 PROVE F = 0 /\ D = 0 /\ C = 0
    OBVIOUS
  <2>1. \A i, j \in NumberMaps : CrossOf(l, f, i, j) = 0
    <3> SUFFICES ASSUME NEW i \in NumberMaps, NEW j \in NumberMaps PROVE CrossOf(l, f, i, j) = 0
      OBVIOUS
    <3>1. /\ SumOf(l, 2, B, Product(i, j)) = 0 /\ SumOf(l, 2, B, i) = 0 /\ SumOf(l, 2, B, j) = 0
      BY NumbersAre DEF Correlates
    <3> QED
      BY <3>1 DEF CrossOf
  <2> QED
    BY <1>1, <2>1
<1>8. /\ CrossGrown(n, F, F2, Distance(n, x, X), Distance(n, x, X))
      /\ CrossGrown(n, D, D2, Distance(n, y, Y), Distance(n, y, Y))
      /\ CrossGrown(n, C, C2, Distance(n, x, X), Distance(n, y, Y))
  BY <1>1, <1>2, CrossTracked DEF Distance
<1>9. FieldPart(s, n, X, F) /\ (s.count = 0 => s = NewStats)
  BY DEF FieldFit
<1>10. AllReach(l, f) => DimPart(s, Y, D, C) /\ CauchySchwarz(s.field_m2, s.dim_m2, s.dim_cross)
                        /\ (s.count # 0 => s.dims >= Followed)
  BY DEF FieldFit, DimFit
<1>11. AllReach(l2, f) => AllReach(l, f) /\ Reaches(en)
  BY DEF Correlates
<1>12. /\ FieldPart(t, n2, X2, F2) /\ (t.count = 0 => t = NewStats)
       /\ AllReach(l2, f) => /\ DimPart(t, Y2, D2, C2) /\ CauchySchwarz(t.field_m2, t.dim_m2, t.dim_cross)
                             /\ t.count # 0 => t.dims >= Followed
       => FieldFit(l2, f, t)
  BY DEF FieldFit, DimFit
<1> HIDE DEF B, g, h, n, X, Y, F, D, C, n2, X2, Y2, F2, D2, C2, x, y, en
<1>13. FieldGrows(n, X, F, x, n2, X2, F2)
  BY <1>3, <1>4, <1>5, <1>6, <1>7, <1>8 DEF FieldGrows
<1>14. n = 0 => s = NewStats
  BY <1>9 DEF FieldPart
<1>15. FieldPart(t, n2, X2, F2)
  BY <1>9, <1>13, <1>14, UpdateField
<1>16. t.count = 0 => t = NewStats
  BY <1>4, <1>6, <1>15 DEF FieldPart
<1>17. ASSUME AllReach(l2, f)
       PROVE  /\ DimPart(t, Y2, D2, C2) /\ CauchySchwarz(t.field_m2, t.dim_m2, t.dim_cross)
              /\ t.dims >= Followed
  <2>1. AllReach(l, f) /\ Reaches(en)
    BY <1>11, <1>17
  <2>2. DimPart(s, Y, D, C) /\ CauchySchwarz(F, D, C) /\ (n # 0 => s.dims >= Followed)
    BY <2>1, <1>9, <1>10 DEF FieldPart, DimPart
  <2>3. DimGrows(n, X, x, Y, D, C, y, Y2, D2, C2)
    BY <1>3, <1>4, <1>5, <1>6, <1>7, <1>8 DEF DimGrows
  <2>4. y = en.vector
    BY <2>1, <1>2 DEF Component
  <2>5. DimPart(t, Y2, D2, C2) /\ CauchySchwarz(F2, D2, C2) /\ t.dims >= Followed
    BY ONLY <1>9, <1>13, <1>14, <2>1, <2>2, <2>3, <2>4, UpdateDim
  <2>6. t.field_m2 = F2 /\ t.dim_m2 = D2 /\ t.dim_cross = C2
    BY <1>15, <2>5 DEF FieldPart, DimPart
  <2> HIDE DEF t
  <2> QED
    BY <2>5, <2>6
<1>18. FieldFit(l2, f, t)
  <2> HIDE DEF t
  <2> QED
    BY <1>12, <1>15, <1>16, <1>17
<1> QED
  BY <1>2, <1>18 DEF en

\* The lists and sets that WelfordExact names.
ChosenNumber(l, f) ==
  {i \in {i \in DOMAIN l : l[i].counted >= 2} : HasNumber(Entries[l[i].entry].metadata, f)}
NumberList(l, f) ==
  [i \in DOMAIN l |-> IF HasNumber(Entries[l[i].entry].metadata, f)
                      THEN Entries[l[i].entry].metadata[f][1].v ELSE 0]
VectorList(l) == [i \in DOMAIN l |-> Component(Entries[l[i].entry])]

\* The lists and sets that WelfordExact names are the ones these lemmas reason about.
LEMMA WelfordLists ==
    ASSUME NEW l, LogList(l), NEW f
    PROVE  /\ ChosenNumber(l, f) = Chosen(l, 2, OfNumber(f))
           /\ NumberList(l, f) = ListOf(l, FieldNumber(f)) /\ VectorList(l) = ListOf(l, VectorNumber)
<1>1. \A i \in DOMAIN l : l[i].entry \in DOMAIN Entries
  BY IsSeqFacts DEF LogList, LogOK
<1>2. ChosenNumber(l, f) = Chosen(l, 2, OfNumber(f))
  BY <1>1 DEF ChosenNumber, Chosen, OfNumber
<1>3. NumberList(l, f) = ListOf(l, FieldNumber(f))
  BY <1>1 DEF NumberList, ListOf, FieldNumber
<1>4. VectorList(l) = ListOf(l, VectorNumber)
  BY <1>1 DEF VectorList, ListOf, VectorNumber
<1> QED
  BY <1>2, <1>3, <1>4

\* The products along the log are those of the entries.
LEMMA ProductList ==
    ASSUME NEW l, LogList(l), NEW g, NEW h
    PROVE  [i \in DOMAIN ListOf(l, g) |-> ListOf(l, g)[i] * ListOf(l, h)[i]] = ListOf(l, Product(g, h))
<1>1. \A i \in DOMAIN l : l[i].entry \in DOMAIN Entries
  BY IsSeqFacts DEF LogList, LogOK
<1>2. DOMAIN ListOf(l, g) = DOMAIN l
  BY DEF ListOf
<1>3. \A i \in DOMAIN l : ListOf(l, g)[i] * ListOf(l, h)[i] = Product(g, h)[l[i].entry]
  BY <1>1 DEF ListOf, Product
<1> QED
  BY <1>2, <1>3 DEF ListOf

\* StatsOver, of the log's lists, is what StatsOf says.
LEMMA StatsOverLists ==
    ASSUME NEW l, LogList(l), NEW f
    PROVE  StatsOver(ChosenNumber(l, f), NumberList(l, f), VectorList(l)) = StatsOf(l, f)
<1> DEFINE S == Chosen(l, 2, OfNumber(f))
           g == FieldNumber(f)
           h == VectorNumber
<1>1. \A i, j : Cross(S, ListOf(l, i), ListOf(l, j)) = CrossOf(l, f, i, j)
  BY ProductList DEF Cross, CrossOf, CountOf, SumOf
<1>2. StatsOver(S, ListOf(l, g), ListOf(l, h)) = StatsOf(l, f)
  BY <1>1 DEF StatsOver, StatsOf, CountOf, SumOf
<1> QED
  BY <1>2, WelfordLists

\* WelfordExact follows from this module's form of it.
LEMMA WelfordNow ==
    ASSUME LogList(log), WelfordFit(log, correlations)
    PROVE  WelfordExact
<1>1. /\ VectorsLogged = VectorList(log) /\ \A f : GivenNumber(2, f) = ChosenNumber(log, f)
  BY DEF VectorsLogged, VectorList, EntryAt, GivenNumber, Counted, ChosenNumber
<1>2. \A f : [i \in DOMAIN log |-> IF HasNumber(EntryAt(i).metadata, f) THEN EntryAt(i).metadata[f][1].v ELSE 0]
               = NumberList(log, f)
  BY DEF EntryAt, NumberList
<1>3. \A f : StatsOver(ChosenNumber(log, f), NumberList(log, f), VectorList(log)) = StatsOf(log, f)
  BY StatsOverLists
<1>4. \A f : (\A i \in ChosenNumber(log, f) : Reaches(EntryAt(i))) => AllReach(log, f)
  BY WelfordLists DEF AllReach, EntryAt
<1> SUFFICES ASSUME NEW f \in numerical_fields
             PROVE  LET s == correlations[f]
                        t == StatsOf(log, f)
                    IN  /\ s.count = t.count /\ s.field_mean = t.field_mean /\ s.field_m2 = t.field_m2
                        /\ (\A i \in ChosenNumber(log, f) : Reaches(EntryAt(i))) =>
                             /\ s.dim_mean = t.dim_mean /\ s.dim_m2 = t.dim_m2 /\ s.dim_cross = t.dim_cross
                             /\ s.dim_cross * s.dim_cross <= s.field_m2 * s.dim_m2
  BY <1>1, <1>2, <1>3 DEF WelfordExact
<1>5. FieldFit(log, f, correlations[f])
  BY DEF WelfordFit
<1> QED
  BY <1>4, <1>5 DEF FieldFit, DimFit, FieldPart, DimPart, CauchySchwarz, StatsOf

\* A step that logs an entry, and a step of a tracker.
LEMMA WelfordStep ==
    ASSUME LogList(log), LogList(log'), InsertInv, WelfordFit(log, correlations),
           NEW c \in Clients, LogEntry(c) \/ Track(c)
    PROVE  WelfordFit(log', correlations')
<1>1. CASE LogEntry(c)
  <2>1. correlations' = correlations
    BY <1>1 DEF LogEntry
  <2>2. Logged(log, log') /\ 2 \in 1..3
    BY <1>1, LogLogs
  <2>3. \A f : Chosen(log', 2, OfNumber(f)) = Chosen(log, 2, OfNumber(f))
    BY <2>2, SumLogged
  <2>4. \A f : \A g \in NumberMaps : SumOf(log', 2, OfNumber(f), g) = SumOf(log, 2, OfNumber(f), g)
    BY <2>2, SumLogged
  <2>5. ASSUME NEW f \in numerical_fields PROVE Unmoved(log, log', f)
    <3>1. CountOf(log', f) = CountOf(log, f)
      BY <2>3 DEF CountOf
    <3>2. \A i \in Chosen(log, 2, OfNumber(f)) : log'[i] = log[i]
      BY <2>2, ChosenFinite DEF Logged
    <3>3. AllReach(log', f) => AllReach(log, f)
      BY <2>3, <3>2 DEF AllReach
    <3> QED
      BY <2>4, <3>1, <3>3 DEF Unmoved
  <2> QED
    BY <2>1, <2>5, FitUnmoved DEF WelfordFit
<1>2. CASE Track(c)
  <2> DEFINE p == conn[c].pos
             k == CountedBefore(conn[c].stage)
             e == conn[c].entry
  <2>1. /\ Tracked(log, log', p, k) /\ log[p].entry = e /\ e \in DOMAIN Entries
        /\ conn[c].stage \in Tracking
    BY <1>2, TrackTracks
  <2>2. IF k = 1 THEN correlations' = update_correlations(correlations, Entries[e])
        ELSE correlations' = correlations
    BY <1>2, <2>1 DEF Track, At, CountedBefore, UpdateCorrelations, Tracking
  <2> HIDE DEF p, k, e
  <2>3. ASSUME NEW f \in numerical_fields PROVE FieldFit(log', f, correlations'[f])
    <3>1. FieldFit(log, f, correlations[f])
      BY DEF WelfordFit
    <3>2. IF k = 1 /\ e \in OfNumber(f) THEN Correlates(log, log', f, e) ELSE Unmoved(log, log', f)
      BY <2>1, CorrelatesTracked
    <3>3. e \in OfNumber(f) <=> HasNumber(Entries[e].metadata, f)
      BY <2>1 DEF OfNumber
    <3>4. CASE k = 1 /\ e \in OfNumber(f)
      <4>1. correlations'[f] = stats_update(correlations[f], Entries[e].metadata[f][1].v, Entries[e])
        BY <2>2, <3>3, <3>4 DEF update_correlations
      <4>2. Correlates(log, log', f, e)
        BY <3>2, <3>4
      <4>3. FieldFit(log', f, stats_update(correlations[f], Entries[e].metadata[f][1].v, Entries[e]))
        BY <3>1, <3>4, <4>2, StatsCorrelate
      <4> QED
        BY <4>1, <4>3
    <3>5. CASE ~(k = 1 /\ e \in OfNumber(f))
      <4>1. correlations'[f] = correlations[f]
        BY <2>2, <3>3, <3>5 DEF update_correlations
      <4> QED
        BY <3>1, <3>2, <3>5, <4>1, FitUnmoved
    <3> QED
      BY <3>4, <3>5
  <2> QED
    BY <2>3 DEF WelfordFit
<1> QED
  BY <1>1, <1>2

\* Before the first entry.
LEMMA WelfordStart ==
    ASSUME Init
    PROVE  WelfordFit(log, correlations)
<1>1. log = <<>> /\ correlations = NewCorrelations
  BY DEF Init, BiasInit
<1>2. LogList(log)
  BY <1>1 DEF LogList, IsSeq
<1>3. ASSUME NEW f \in numerical_fields PROVE FieldFit(log, f, NewStats)
  <2>1. Chosen(log, 2, OfNumber(f)) = {}
    BY <1>1 DEF Chosen
  <2>2. CountOf(log, f) = 0
    BY <2>1, FS_EmptySet DEF CountOf
  <2>3. \A g \in NumberMaps : SumOf(log, 2, OfNumber(f), g) = 0
    BY <1>2, <2>1, SumEmpty
  <2>4. FieldNumber(f) \in NumberMaps /\ VectorNumber \in NumberMaps /\ \A g, h \in NumberMaps : Product(g, h) \in NumberMaps
    BY NumbersAre, VectorsAreNumbers
  <2>5. \A g, h \in NumberMaps : CrossOf(log, f, g, h) = 0
    BY <2>2, <2>3, <2>4 DEF CrossOf
  <2>6. FieldPart(NewStats, 0, 0, 0) /\ DimPart(NewStats, 0, 0, 0)
    BY DEF FieldPart, DimPart, NewStats
  <2>7. CauchySchwarz(NewStats.field_m2, NewStats.dim_m2, NewStats.dim_cross) /\ NewStats.count = 0
    BY DEF CauchySchwarz, NewStats
  <2> QED
    BY <2>2, <2>3, <2>4, <2>5, <2>6, <2>7 DEF FieldFit, DimFit
<1> QED
  BY <1>1, <1>3 DEF WelfordFit, NewCorrelations

\* NumericalStats::update and CorrelationTracker::update, for any clients,
\* entries, fields and lengths of vectors and any number of observations: in
\* whatever order inserts count them, Welford's one pass gives the exact count,
\* mean and variance of every field until its lock is poisoned.  In a dimension that
\* all its vectors have it gives the exact mean, variance and covariance as well,
\* and no correlation exceeds 1.
THEOREM ServiceWelfordExact == Spec => []WelfordExact
<1> DEFINE I == ServiceInv /\ WelfordFit(log, correlations)
<1>1. Init => I
  BY ServiceStart, WelfordStart
<1>2. I /\ [Next]_vars => I'
  <2> SUFFICES ASSUME I, [Next]_vars PROVE I'
    OBVIOUS
  <2>1. ServiceInv'
    BY ServiceStep
  <2>2. InsertInv /\ InsertInv'
    BY <2>1 DEF ServiceInv
  <2>3. LogList(log)
    BY <2>2 DEF InsertInv, LogList
  <2>4. LogList(log')
    BY <2>2 DEF InsertInv, LogList, IsSeq, LogOK
  <2>5. WelfordFit(log', correlations')
    <3>1. CASE UNCHANGED <<log, centroids, correlations, buckets>>
      BY <3>1
    <3>2. ASSUME NEW c \in Clients, LogEntry(c) \/ Track(c)
          PROVE  WelfordFit(log', correlations')
      BY <3>2, <2>2, <2>3, <2>4, WelfordStep
    <3> QED
      BY <3>1, <3>2, TrackersFrame
  <2>6. WelfordFit(log, correlations)'
    BY <2>5 DEF WelfordFit, FieldFit, DimFit, FieldPart, DimPart, CauchySchwarz, AllReach, CountOf, CrossOf,
                 SumOf, Chosen, ListOf, SumOver
  <2> QED
    BY <2>1, <2>6
<1>3. I => WelfordExact
  <2> SUFFICES ASSUME I PROVE WelfordExact
    OBVIOUS
  <2>1. LogList(log)
    BY DEF ServiceInv, InsertInv, LogList
  <2> QED
    BY <2>1, WelfordNow
<1> QED
  BY <1>1, <1>2, <1>3, PTL DEF Spec

\* StorageEngine::insert updates three trackers, each under its own lock: for any
\* clients, entries, fields and boundaries each agrees with the entries it has
\* counted, whatever was dropped in between.
THEOREM ServiceTrackersExact == Spec => []TrackersExact
<1>1. CentroidsExact /\ WelfordExact => TrackersExact
  BY DEF TrackersExact
<1> QED
  BY <1>1, ServiceCentroidsExact, ServiceWelfordExact, PTL
=============================================================================
