--------------------------- MODULE MCQueryService ---------------------------
(* One HTTP and one gRPC client, five vectors, eight query texts.             *)
EXTENDS QueryService

CONSTANTS u1, nobody

Str(n) == [lit |-> "String", v |-> n]
IntLit(n) == [lit |-> "Integer", v |-> n]
FloatLit(n) == [lit |-> "Float", v |-> n]
Meta(category, year) == [category |-> category, year |-> year, price |-> year]

\* The index has two dimensions, and the second is followed: entry 4 lacks it and
\* entry 5 has one too many.
MCEntries ==
  <<[id |-> 1, vector |-> 0, length |-> 2, metadata |-> Meta(<<Str(1)>>, <<IntLit(1)>>)],
    [id |-> 2, vector |-> 3, length |-> 2, metadata |-> Meta(<<Str(2)>>, <<FloatLit(4)>>)],
    [id |-> 1, vector |-> 1, length |-> 2, metadata |-> Meta(<<Str(1)>>, <<Str(1)>>)],
    [id |-> 2, vector |-> 5, length |-> 1, metadata |-> Meta(<<Str(2)>>, <<IntLit(2)>>)],
    [id |-> 2, vector |-> 2, length |-> 3, metadata |-> Meta(<<Str(1)>>, <<IntLit(3)>>)]>>

Clause(keyword, arg) == [keyword |-> keyword, arg |-> arg]
Where(preds) == Clause("WITH METADATA WHERE", preds)
Find(clauses) == [source |-> "vector", vector |-> 1, clauses |-> clauses]
MCTexts ==
  <<[source |-> "text", vector |-> 0, clauses |-> <<Clause("BIAS", "personal")>>],
    Find(<<Where(<<Comparison("category", "Eq", Str(1))>>), Clause("EN", 50), Clause("LIMIT", 2)>>),
    Find(<<Clause("ORDER BY", <<"score", TRUE>>)>>),
    Find(<<Clause("BIAS", "recency"), Where(<<Comparison("year", "Gte", FloatLit(2))>>)>>),
    Find(<<Clause("BIAS", "fame"), Where(<<Comparison("price", "Lt", FloatLit(2))>>)>>),
    Find(<<Where(<<Comparison("year", "Neq", IntLit(1)),
                   [pred |-> "Between", field |-> "year", op |-> "", values |-> <<IntLit(1), IntLit(2)>>]>>)>>),
    Find(<<Clause("BIAS", "recency"), Clause("ORDER BY", <<"score", FALSE>>)>>),
    Find(<<Clause("EN", 50), Clause("WITHIN", 60)>>)>>

MCBucketFields == [f \in {"year"} |-> <<0, 2>>]

NoKey == [key |-> <<>>, token |-> <<>>]
MCHeaders == {NoKey, [key |-> <<"k">>, token |-> <<>>],
              [key |-> <<"wrong">>, token |-> <<"valid">>], [key |-> <<"wrong">>, token |-> <<>>]}

MCConfigs ==
  {[merkle_enabled |-> FALSE, topological |-> TRUE, auth |-> "both", embedder |-> "openai"],
   [merkle_enabled |-> TRUE, topological |-> FALSE, auth |-> "none", embedder |-> "noop"]}
MCClicks == {[clicked |-> -1, query |-> 1]}
=============================================================================
