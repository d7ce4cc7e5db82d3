--------------------------- MODULE EpisodicMemory ---------------------------
(***************************************************************************)
(* Per-user footprints (tesseract-core/src/episodic.rs).  A vector is one  *)
(* number, as in TopologicalBias; footprints are in hundredths, which is   *)
(* exact for two clicks.  Nothing in the server calls update_footprint: it *)
(* stands for an application that embeds the crates.                       *)
(***************************************************************************)
EXTENDS Integers, Sequences

CONSTANTS Users
VARIABLE footprints     \* user -> <<>> or <<the footprint>>

EpisodicInit == footprints = [u \in Users |-> <<>>]

\* Mutant of blend: the new signal is added without fading the old one.
blend_Sum(old, clicked, query) == old + 30 * clicked * query

\* update_footprint: the first click starts from the clicked vector and is
\* blended like every other.
blend(old, clicked, query) == (7 * old) \div 10 + 30 * clicked * query
UpdateFootprint(u, clicked, query) ==
  LET old == IF footprints[u] = <<>> THEN 100 * clicked ELSE footprints[u][1]
  IN  footprints' = [footprints EXCEPT ![u] = <<blend(old, clicked, query)>>]

\* apply_footprint: element-wise product.
apply_footprint(query, footprint) == (query * footprint) \div 100

\* What the executor does with a user's footprint, if there is a user and it has one.
personalise(query, user) ==
  IF user \notin Users THEN query
  ELSE IF footprints[user] = <<>> THEN query ELSE apply_footprint(query, footprints[user][1])
=============================================================================
