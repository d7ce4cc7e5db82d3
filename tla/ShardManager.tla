---------------------------- MODULE ShardManager ----------------------------
(***************************************************************************)
(* The shard assignment table of one node and its node registry            *)
(* (tesseract-cluster/src/shard_manager.rs, discovery.rs).  Both are maps   *)
(* behind a lock of their own; every method is one critical section.       *)
(***************************************************************************)
EXTENDS ClusterConfig

CONSTANT Addrs   \* addresses a node may register with

VARIABLES assignments,  \* shard -> <<>> (absent) or <<[leader, replicas]>>
          registry      \* node -> <<>> (absent) or <<NodeInfo>>

Assignment == [leader : Nodes, replicas : SUBSET Nodes]
NodeStatus == {"Active", "Suspect", "Dead"}
\* fresh: the last heartbeat is within heartbeat_timeout.
NodeInfo == [addr : Addrs, status : NodeStatus, fresh : BOOLEAN, shards : SUBSET Shards]
Option(S) == {<<>>} \union {<<x>> : x \in S}

ManagerTypeOK ==
  /\ assignments \in [Shards -> Option(Assignment)]
  /\ registry \in [Nodes -> Option(NodeInfo)]

ManagerInit ==
  /\ assignments = [s \in Shards |-> <<>>]
  /\ registry = [n \in Nodes |-> <<>>]

Assigned(s) == assignments[s] # <<>>
LeaderOf(s) == assignments[s][1].leader
AssignedLeaders == {s \in Shards : Assigned(s)}
LedBy(n) == {s \in AssignedLeaders : LeaderOf(s) = n}
HeldBy(n) == {s \in AssignedLeaders : n \in assignments[s][1].replicas}
MyShards == LedBy(Self) \union HeldBy(Self)

\* Mutant: an existing assignment keeps its leader.
AssignShard_KeepLeader(s, l) ==
  assignments' = [assignments EXCEPT ![s] = IF @ = <<>> THEN <<[leader |-> l, replicas |-> {}]>> ELSE @]

\* Replaces the leader and keeps the replicas of an existing assignment.
AssignShard(s, l) ==
  assignments' = [assignments EXCEPT
    ![s] = <<[leader |-> l, replicas |-> IF @ = <<>> THEN {} ELSE @[1].replicas]>>]

\* ShardNotAssigned without a leader; a second call changes nothing.
AddReplica(s, r) ==
  /\ Assigned(s)
  /\ assignments' = [assignments EXCEPT ![s][1].replicas = @ \union {r}]

\* The whole assignment goes when n leads it, its replicas included.
RemoveNode(n) ==
  assignments' = [s \in Shards |->
    IF s \in LedBy(n) THEN <<>>
    ELSE IF s \in HeldBy(n)
         THEN <<[assignments[s][1] EXCEPT !.replicas = @ \ {n}]>>
         ELSE assignments[s]]

\* from_json(to_json) of another node's table: every assignment at once.
LoadAssignments(table) == assignments' = table

-----------------------------------------------------------------------------
\* The registry.

Registered(n) == registry[n] # <<>>
NodeConflict(n, addr) == Registered(n) /\ registry[n][1].addr # addr

Register(n, addr, shards) ==
  /\ ~NodeConflict(n, addr)
  /\ registry' = [registry EXCEPT
       ![n] = <<[addr |-> addr, status |-> "Active", fresh |-> TRUE, shards |-> shards]>>]

\* Active from every status, Dead included.
Heartbeat(n) ==
  /\ Registered(n)
  /\ registry' = [registry EXCEPT ![n][1].status = "Active", ![n][1].fresh = TRUE]

MarkDead(n) ==
  /\ Registered(n)
  /\ registry' = [registry EXCEPT ![n][1].status = "Dead"]

Unregister(n) == registry' = [registry EXCEPT ![n] = <<>>]

\* heartbeat_timeout passes.
NodeAges(n) ==
  /\ Registered(n) /\ registry[n][1].fresh
  /\ registry' = [registry EXCEPT ![n][1].fresh = FALSE]

\* Mutant: dead nodes are not skipped.
TimedOutNodes_Dead ==
  {n \in Nodes : Registered(n) /\ registry[n][1].status # "Suspect" /\ ~registry[n][1].fresh}

TimedOutNodes ==
  {n \in Nodes : Registered(n) /\ registry[n][1].status = "Active" /\ ~registry[n][1].fresh}
CheckHeartbeats ==
  registry' = [n \in Nodes |-> IF n \in TimedOutNodes
                               THEN <<[registry[n][1] EXCEPT !.status = "Suspect"]>>
                               ELSE registry[n]]

ActiveNodes == {n \in Nodes : Registered(n) /\ registry[n][1].status = "Active"}
AllNodes == {n \in Nodes : Registered(n)}
=============================================================================
