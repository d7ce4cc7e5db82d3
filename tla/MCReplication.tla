---------------------------- MODULE MCReplication ----------------------------
(***************************************************************************)
(* Model-checking instances of Replication.  Followers are                 *)
(* interchangeable, and so are writers; no property of these runs is a     *)
(* liveness property.                                                      *)
(***************************************************************************)
EXTENDS Replication, TLC

\* One writer and both followers join; or both writers, and one follower joins,
\* leaves, joins again and restarts.
Memberships ==
  {[writers |-> {w}, members |-> Followers, changes |-> 2, restarts |-> 0] : w \in Writers}
  \cup {[writers |-> Writers, members |-> {f}, changes |-> 3, restarts |-> 1] : f \in Followers}

\* One follower joins.
OneMember == {[writers |-> Writers, members |-> Followers, changes |-> 1, restarts |-> 0]}

Symmetry == Permutations(Followers) \cup Permutations(Writers)

=============================================================================
