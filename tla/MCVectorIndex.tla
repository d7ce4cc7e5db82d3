---------------------------- MODULE MCVectorIndex ----------------------------
(* A degree bound of 1, which makes the third node shrink a list, or of 2,   *)
(* which keeps a graph of three nodes whole.                                 *)
EXTENDS VectorIndex, TLC
CONSTANTS c1, c2
MCSymmetry == Permutations({c1, c2})
MCPoints == {-1, 2}
MCConfigs ==
  {[metric |-> "euclidean", m |-> 1, m_max0 |-> 1, ef_construction |-> 2],
   [metric |-> "cosine", m |-> 1, m_max0 |-> 2, ef_construction |-> 2]}
=============================================================================
