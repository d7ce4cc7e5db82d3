--------------------------- MODULE ClusterConfig ---------------------------
(* The parameters every cluster component shares. *)
EXTENDS Naturals, FiniteSets

CONSTANTS Nodes,    \* node ids
          Shards,   \* shard ids
          Self      \* the node whose process is modelled

ASSUME SelfIsNode == Self \in Nodes
ASSUME ShardsAssumption == IsFiniteSet(Shards)
=============================================================================
