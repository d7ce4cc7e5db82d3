--------------------------- MODULE MCStorageEngine ---------------------------
(***************************************************************************)
(* Model-checking instances of StorageEngine.  Clients and ids that fit    *)
(* the index are interchangeable, and no property of these runs is a       *)
(* liveness property.                                                      *)
(***************************************************************************)
EXTENDS StorageEngine, TLC

Bound(n, i, y, s, f) == [ids |-> n, inserts |-> i, cycles |-> y, stops |-> s, faults |-> f]

\* A stop and a fault together; a fourth insert, which meets the write of a dropped
\* one or a file that a stop left uncounted; two cycles, demotion and promotion.
MCBounds == {Bound(3, 3, 1, 1, 1), Bound(2, 4, 1, 1, 0), Bound(2, 4, 1, 0, 1), Bound(3, 3, 2, 0, 0)}

\* Clients only.
MCClients == {Bound(2, 4, 0, 0, 0)}

Symmetry == Permutations(Clients) \cup Permutations(Ids \ Misfits)

=============================================================================
