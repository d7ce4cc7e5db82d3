-------------------------------- MODULE Vql --------------------------------
(***************************************************************************)
(* The query language (tesseract-vql/src/grammar.rs, parser.rs, ast.rs).   *)
(*                                                                         *)
(* A text is the source of its FIND expression and the keywords that       *)
(* follow, each with its argument; nom's handling of characters is left    *)
(* out and "?" stands for anything that no clause parser accepts.  Strings *)
(* are numbered, so that every literal is [lit |-> kind, v |-> Int].       *)
(***************************************************************************)
EXTENDS Integers, Sequences, FiniteSets

\* coerce_numeric: the literals, and the JSON values, that compare as numbers.
NumericLits == {"Integer", "Float"}

\* A predicate of the WHERE list; In and Between carry several values.
Comparison(field, op, value) ==
  [pred |-> "Comparison", field |-> field, op |-> op, values |-> <<value>>]

ParseError == [parsed |-> FALSE]

\* find_expr and vector_literal: FIND with a text to embed or a vector.
find_expr(text) == text.source \in {"text", "vector"}

\* EN is the clause WITHIN by another keyword.
ClauseOf(keyword) == IF keyword = "EN" THEN "WITHIN" ELSE keyword

Clauses == {"WITH METADATA WHERE", "PROJECT ON", "BIAS", "ORDER BY", "LIMIT", "OFFSET", "WITHIN"}

\* query: clauses in any order, each at most once, nothing behind them, and
\* OFFSET only with LIMIT.  The loop stops at the first clause it refuses, and
\* what is left is trailing content.  PROJECT ON is parsed and never used.  An
\* optional clause is <<>> or <<its argument>>.
parse(text) ==
  LET given == [i \in DOMAIN text.clauses |-> ClauseOf(text.clauses[i].keyword)]
      Places(c) == {i \in DOMAIN given : given[i] = c}
      Arg(c) == IF Places(c) = {} THEN <<>>
                ELSE <<text.clauses[CHOOSE i \in Places(c) : TRUE].arg>>
  IN  IF \/ ~find_expr(text)
         \/ \E i \in DOMAIN given : given[i] \notin Clauses
         \/ \E c \in Clauses : Cardinality(Places(c)) > 1
         \/ Places("OFFSET") # {} /\ Places("LIMIT") = {}
      THEN ParseError
      ELSE [parsed |-> TRUE, source |-> text.source, vector |-> text.vector,
            metadata_where |-> Arg("WITH METADATA WHERE"), bias |-> Arg("BIAS"),
            order_by |-> Arg("ORDER BY"), limit |-> Arg("LIMIT"),
            offset |-> Arg("OFFSET"), within |-> Arg("WITHIN")]

-----------------------------------------------------------------------------
\* compare_literals: only numbers compare; an Eq of two strings is false.
compare_literals(op, a, b) ==
  /\ a.lit \in NumericLits /\ b.lit \in NumericLits
  /\ \/ op = "Eq" /\ a.v = b.v
     \/ op = "Neq" /\ a.v # b.v
     \/ op = "Lt" /\ a.v < b.v
     \/ op = "Gt" /\ a.v > b.v
     \/ op = "Lte" /\ a.v <= b.v
     \/ op = "Gte" /\ a.v >= b.v

\* values_equal: numbers by value, everything else by its debug text.
values_equal(a, b) ==
  IF a.lit \in NumericLits /\ b.lit \in NumericLits THEN a.v = b.v ELSE a = b

\* extract_field_value: metadata is <<>> (None) or <<the fields of a record>>,
\* and a field is <<>> or <<its literal>>.
extract_field_value(metadata, field) ==
  IF metadata = <<>> THEN <<>> ELSE metadata[1][field]

\* like_match: a pattern is the set of the strings it matches.
like_match(value, pattern) == value \in pattern

\* evaluate_predicate for one predicate.
evaluate_one(p, metadata) ==
  LET found == extract_field_value(metadata, p.field)
  IN  /\ found # <<>>
      /\ \/ p.pred = "Comparison" /\ compare_literals(p.op, found[1], p.values[1])
         \/ p.pred = "In" /\ \E i \in DOMAIN p.values : values_equal(found[1], p.values[i])
         \/ p.pred = "Between" /\ compare_literals("Gte", found[1], p.values[1])
                               /\ compare_literals("Lte", found[1], p.values[2])
         \/ p.pred = "Like" /\ found[1].lit = "String" /\ like_match(found[1].v, p.values[1])

\* evaluate_predicate: a list of several predicates is their And.
evaluate_predicate(where, metadata) ==
  \A i \in DOMAIN where : evaluate_one(where[i], metadata)
=============================================================================
