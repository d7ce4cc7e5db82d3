----------------------------- MODULE MCCluster -----------------------------
(* This node and one peer, two shards.  The node starts with nothing, or    *)
(* with one shard led by each node: with two versions of vector 1 and peer   *)
(* registered, or without its own storage and without the peer.             *)
EXTENDS Cluster, TLC

CONSTANTS n1, n2, s1, s2

MCTable == (s1 :> <<[leader |-> n2, replicas |-> {n1}]>>) @@ (s2 :> <<[leader |-> n1, replicas |-> {}]>>)
MCPeer == [addr |-> "home", status |-> "Active", fresh |-> TRUE, shards |-> {}]
MCStores == (n1 :> <<1, 2>>) @@ (n2 :> <<2, 0>>)
MCBootstraps ==
  {[table |-> [s \in {s1, s2} |-> <<>>], registry |-> [n \in {n1, n2} |-> <<>>],
    stores |-> [n \in {n1, n2} |-> <<0, 0>>]],
   [table |-> MCTable, registry |-> [n \in {n1, n2} |-> <<>>], stores |-> [MCStores EXCEPT ![n1] = <<>>]],
   [table |-> MCTable, registry |-> (n1 :> <<>>) @@ (n2 :> <<MCPeer>>), stores |-> MCStores]}
MCShardOf == 1 :> s1 @@ 2 :> s2
=============================================================================
