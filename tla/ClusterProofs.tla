---------------------------- MODULE ClusterProofs ----------------------------
(***************************************************************************)
(* Proofs about Cluster, for every set of nodes, shards, ids and bootstraps *)
(* and any number of calls: what the two failover tasks leave behind in    *)
(* the election and in the shard table, what a forwarded insert reports,   *)
(* what happens to dead nodes, and that a distributed search keeps the     *)
(* promise of module ScatterGather.                                        *)
(***************************************************************************)
EXTENDS Cluster, RankingProofs, TLAPS

Stores == [Nodes -> [Ids -> Distances \union {0}] \union {<<>>}]

\* Where a forwarded insert is, and what it knows there: nobody has stored the
\* vector before the answer, and a local insert is for this node.
InsertPc == {"idle", "lookup", "local", "resolve", "sent", "done"}
InsertStatus == {0, 201, 400, 500, 502, 503}
MaybeId == Ids \union {0}
MaybeDistance == Distances \union {0}
NodeSet == SUBSET Nodes
InsertState == [pc : InsertPc, id : MaybeId, dist : MaybeDistance, leader : NodeSet,
                status : InsertStatus, at : NodeSet]
InsertInv ==
  /\ insert \in InsertState
  /\ insert.pc \in {"lookup", "local", "resolve", "sent"} =>
       insert.id \in Ids /\ insert.dist \in Distances /\ insert.at = {}
  /\ insert.pc = "local" => insert.leader = {Self}

TInv == TypeOK /\ InsertInv

-----------------------------------------------------------------------------
(* The shard table and the registry *)

\* An entry of the registry whose heartbeat becomes, or ceases to be, fresh.
LEMMA FreshTypes ==
  ASSUME registry \in [Nodes -> Option(NodeInfo)], NEW n \in Nodes, registry[n] # <<>>,
         NEW f \in BOOLEAN
  PROVE  [registry EXCEPT ![n][1].fresh = f] \in [Nodes -> Option(NodeInfo)]
<1> DEFINE B == BOOLEAN
<1>1. NodeInfo = [addr : Addrs, status : NodeStatus, fresh : B, shards : SUBSET Shards] /\ f \in B
  BY DEF NodeInfo
<1> HIDE DEF B
<1> QED
  BY <1>1 DEF Option

\* Every call on the registry keeps its type.
LEMMA RegistryTypes ==
  ASSUME registry \in [Nodes -> Option(NodeInfo)],
         \/ \E n \in Nodes, a \in Addrs, S \in SUBSET Shards : Register(n, a, S)
         \/ \E n \in Nodes : Heartbeat(n) \/ MarkDead(n) \/ Unregister(n) \/ NodeAges(n)
         \/ CheckHeartbeats
  PROVE  registry' \in [Nodes -> Option(NodeInfo)]
<1>1. ASSUME NEW n \in Nodes, NEW a \in Addrs, NEW S \in SUBSET Shards, Register(n, a, S)
      PROVE  registry' \in [Nodes -> Option(NodeInfo)]
  BY <1>1 DEF Register, Option, NodeInfo, NodeStatus
<1>2. ASSUME NEW n \in Nodes, Heartbeat(n) PROVE registry' \in [Nodes -> Option(NodeInfo)]
  BY <1>2 DEF Heartbeat, Registered, Option, NodeInfo, NodeStatus
<1>3. ASSUME NEW n \in Nodes, MarkDead(n) PROVE registry' \in [Nodes -> Option(NodeInfo)]
  BY <1>3 DEF MarkDead, Registered, Option, NodeInfo, NodeStatus
<1>4. ASSUME NEW n \in Nodes, Unregister(n) PROVE registry' \in [Nodes -> Option(NodeInfo)]
  BY <1>4 DEF Unregister, Option
<1>5. ASSUME NEW n \in Nodes, NodeAges(n) PROVE registry' \in [Nodes -> Option(NodeInfo)]
  <2>1. registry[n] # <<>> /\ registry' = [registry EXCEPT ![n][1].fresh = FALSE]
    BY <1>5 DEF NodeAges, Registered
  <2> QED
    BY <2>1, FreshTypes, Zenon
<1>6. CASE CheckHeartbeats
  BY <1>6, SMTT(30) DEF CheckHeartbeats, TimedOutNodes, Registered, Option, NodeInfo, NodeStatus
<1> QED
  BY <1>1, <1>2, <1>3, <1>4, <1>5, <1>6

\* Every call on the shard table keeps its type.
LEMMA AssignmentTypes ==
  ASSUME assignments \in [Shards -> Option(Assignment)],
         \/ \E s \in Shards, n \in Nodes : AssignShard(s, n) \/ AddReplica(s, n)
         \/ \E n \in Nodes : RemoveNode(n)
         \/ \E b \in Bootstraps : LoadAssignments(b.table)
  PROVE  assignments' \in [Shards -> Option(Assignment)]
<1>1. ASSUME NEW s \in Shards, NEW n \in Nodes, AssignShard(s, n)
      PROVE  assignments' \in [Shards -> Option(Assignment)]
  BY <1>1 DEF AssignShard, Option, Assignment
<1>2. ASSUME NEW s \in Shards, NEW n \in Nodes, AddReplica(s, n)
      PROVE  assignments' \in [Shards -> Option(Assignment)]
  BY <1>2 DEF AddReplica, Assigned, Option, Assignment
<1>3. ASSUME NEW n \in Nodes, RemoveNode(n)
      PROVE  assignments' \in [Shards -> Option(Assignment)]
  BY <1>3 DEF RemoveNode, LedBy, HeldBy, AssignedLeaders, Assigned, Option, Assignment
<1>4. ASSUME NEW b \in Bootstraps, LoadAssignments(b.table)
      PROVE  assignments' \in [Shards -> Option(Assignment)]
  BY <1>4, BootstrapsAssumption DEF LoadAssignments
<1> QED
  BY <1>1, <1>2, <1>3, <1>4

\* Every call on an election keeps its type.
LEMMA ElectionTypes ==
  ASSUME ElectionTypeOK, NEW s \in Shards,
         \/ \E l \in Nodes : SetLeader(s, l)
         \/ RecordLeaderHeartbeat(s) \/ HeartbeatAges(s) \/ BecomeCandidate(s)
         \/ WinElection(s) \/ LoseElection(s)
  PROVE  ElectionTypeOK'
<1> USE DEF ElectionTypeOK, ElectionState
<1>1. ASSUME NEW l \in Nodes, SetLeader(s, l) PROVE ElectionTypeOK'
  BY <1>1 DEF SetLeader
<1>2. CASE RecordLeaderHeartbeat(s) \/ HeartbeatAges(s)
  BY <1>2 DEF RecordLeaderHeartbeat, HeartbeatAges
<1>3. CASE BecomeCandidate(s)
  BY <1>3 DEF BecomeCandidate
<1>4. CASE WinElection(s) \/ LoseElection(s)
  BY <1>4 DEF WinElection, LoseElection
<1> QED
  BY <1>1, <1>2, <1>3, <1>4

-----------------------------------------------------------------------------
(* Types *)

\* A new node has the types.
LEMMA TInvInit == Init => TInv
<1> SUFFICES ASSUME Init PROVE TInv
  OBVIOUS
<1>1. ElectionTypeOK /\ ApiElection!ElectionTypeOK
  BY DEF Init, ElectionInit, ElectionTypeOK, ElectionState,
         ApiElection!ElectionInit, ApiElection!ElectionTypeOK, ApiElection!ElectionState,
         ApiElection!NoLeader
<1>2. ManagerTypeOK /\ stored \in Stores
  BY BootstrapsAssumption DEF Init, ManagerTypeOK, Stores
<1>3. FailoverTypeOK
  BY DEF Init, FailoverInit, FailoverTypeOK, TaskState, Idle
<1>4. InsertInv
  BY DEF Init, CoordinatorInit, IdleInsert, InsertInv, InsertState, InsertPc, MaybeId,
         MaybeDistance, NodeSet, InsertStatus
<1>5. running \in BOOLEAN /\ ops \in 0..MaxOps /\ overridden \subseteq Shards
  <2>1. running \in BOOLEAN
    BY Zenon DEF Init
  <2>2. ops \in 0..MaxOps
    BY MaxOpsAssumption DEF Init
  <2> QED
    BY <2>1, <2>2 DEF Init
<1>6. insert.status = 0
  BY DEF Init, CoordinatorInit, IdleInsert
<1> QED
  BY <1>1, <1>2, <1>3, <1>4, <1>5, <1>6 DEF TInv, TypeOK, Stores

\* A call of the failover manager keeps the tasks typed.
LEMMA TaskTypes ==
  ASSUME ElectionTypeOK, FailoverTypeOK, NEW t \in Tasks,
         \/ Tick(t) \/ CheckTimeout(t) \/ EndOfPass(t)
         \/ \E s \in Shards : CallPromote(s) \/ CheckEligible(t, s) \/ Campaign(t, s)
                              \/ Win(t, s) \/ Lose(t, s) \/ Promote(t, s)
  PROVE  FailoverTypeOK'
<1> USE DEF FailoverTypeOK, TaskState, Goto, NextShard, Idle, Tasks
<1>1. CASE Tick(t)
  BY <1>1 DEF Tick, MyFollowerships
<1>2. CASE CheckTimeout(t)
  BY <1>2 DEF CheckTimeout
<1>3. CASE EndOfPass(t)
  BY <1>3 DEF EndOfPass
<1>4. ASSUME NEW s \in Shards, CallPromote(s) PROVE FailoverTypeOK'
  BY <1>4 DEF CallPromote
<1>5. ASSUME NEW s \in Shards, CheckEligible(t, s) PROVE FailoverTypeOK'
  BY <1>5 DEF CheckEligible
<1>6. ASSUME NEW s \in Shards, Campaign(t, s) \/ Win(t, s) PROVE FailoverTypeOK'
  BY <1>6 DEF Campaign, Win
<1>7. ASSUME NEW s \in Shards, Lose(t, s) PROVE FailoverTypeOK'
  BY <1>7 DEF Lose
<1>8. ASSUME NEW s \in Shards, Promote(t, s) PROVE FailoverTypeOK'
  BY <1>8 DEF Promote
<1> QED
  BY <1>1, <1>2, <1>3, <1>4, <1>5, <1>6, <1>7, <1>8


\* Every step of an insert keeps the stores typed and the insert within its
\* steps.
LEMMA InsertTypes ==
  ASSUME TInv,
         \/ \E i \in Ids, d \in Distances : BeginInsert(i, d) \/ InternalInsert(i, d)
         \/ \E i \in Ids, n \in Nodes : InternalReplicate(i, n)
         \/ LookupLeader \/ LocalInsert
         \/ \E n \in Nodes : ResolveLeader(n) \/ PeerInserts(n)
  PROVE  stored' \in Stores /\ InsertInv'
<1>0. /\ stored \in Stores /\ insert \in InsertState /\ Self \in Nodes
      /\ assignments \in [Shards -> Option(Assignment)]
  BY SelfIsNode DEF TInv, TypeOK, InsertInv, Stores, ManagerTypeOK
<1>1. ASSUME NEW n \in Nodes, NEW i \in Ids, NEW d \in Distances \union {0},
             n \in HasStorage, stored' = [stored EXCEPT ![n][i] = d]
      PROVE  stored' \in Stores
  BY <1>0, <1>1 DEF Stores, HasStorage
<1>2. ASSUME NEW st \in InsertStatus, Respond(st)
      PROVE  stored' \in Stores /\ InsertInv'
  <2>1. insert' \in InsertState /\ insert'.pc = "done"
    <3>1. "done" \in InsertPc
      BY DEF InsertPc
    <3> QED
      BY <1>0, <1>2, <3>1 DEF Respond, InsertState
  <2> QED
    BY <1>0, <1>2, <2>1 DEF Respond, InsertInv
<1>3. ASSUME NEW st \in InsertStatus, NEW n \in HasStorage,
             insert.id \in Ids, RespondStored(st, n)
      PROVE  stored' \in Stores /\ InsertInv'
  <2>0. n \in Nodes /\ insert.dist \in Distances \union {0}
    BY <1>0 DEF HasStorage, InsertState, MaybeDistance
  <2>1. insert' \in InsertState /\ insert'.pc = "done"
    <3>1. "done" \in InsertPc /\ {n} \in NodeSet
      BY <2>0 DEF InsertPc, NodeSet
    <3> QED
      BY <1>0, <1>3, <3>1 DEF RespondStored, InsertState
  <2>2. stored' \in Stores
    BY <1>1, <1>3, <2>0 DEF RespondStored
  <2> QED
    BY <2>1, <2>2 DEF InsertInv
<1>4. ASSUME NEW i \in Ids, NEW d \in Distances, BeginInsert(i, d)
      PROVE  stored' \in Stores /\ InsertInv'
  <2>1. insert' = [pc |-> "lookup", id |-> i, dist |-> d, leader |-> {}, status |-> 0, at |-> {}]
    BY <1>4 DEF BeginInsert, IdleInsert
  <2>2. insert' \in InsertState
    <3>1. /\ "lookup" \in InsertPc /\ i \in MaybeId /\ d \in MaybeDistance
          /\ {} \in NodeSet /\ 0 \in InsertStatus
      BY DEF InsertPc, MaybeId, MaybeDistance, NodeSet, InsertStatus
    <3> QED
      BY <2>1, <3>1 DEF InsertState
  <2>3. InsertInv'
    BY <2>1, <2>2 DEF InsertInv
  <2> QED
    BY <1>0, <1>4, <2>3 DEF BeginInsert
<1>5. ASSUME NEW i \in Ids, NEW d \in Distances, InternalInsert(i, d)
      PROVE  stored' \in Stores /\ InsertInv'
  <2>1. InsertInv'
    BY <1>5 DEF TInv, InternalInsert, InsertInv
  <2> QED
    BY <1>0, <1>1, <1>5, <2>1 DEF InternalInsert
<1>6. ASSUME NEW i \in Ids, NEW n \in Nodes, InternalReplicate(i, n)
      PROVE  stored' \in Stores /\ InsertInv'
  <2>1. InsertInv'
    BY <1>6 DEF TInv, InternalReplicate, InsertInv
  <2>2. /\ Self \in HasStorage /\ n \in HasStorage
        /\ stored' = [stored EXCEPT ![Self][i] = stored[n][i]]
    BY <1>6 DEF InternalReplicate
  <2>3. stored[n] \in [Ids -> Distances \union {0}]
    BY <1>0, <2>2 DEF Stores, HasStorage
  <2> QED
    BY <1>0, <1>1, <2>1, <2>2, <2>3
<1>7. CASE LookupLeader
  <2> DEFINE s == ShardOf[insert.id]
  <2>0. s \in Shards /\ insert.pc = "lookup" /\ insert.id \in Ids
    BY <1>7, ShardFunction DEF LookupLeader, TInv, InsertInv
  <2> SUFFICES ASSUME Assigned(s),
                      insert' = [insert EXCEPT !.leader = {LeaderOf(s)},
                                   !.pc = IF LeaderOf(s) = Self THEN "local" ELSE "resolve"],
                      stored' = stored
               PROVE  stored' \in Stores /\ InsertInv'
    BY <1>2, <1>7 DEF LookupLeader, InsertStatus
  <2>1. LeaderOf(s) \in Nodes
    BY <1>0, <2>0 DEF Assigned, LeaderOf, Option, Assignment
  <2> HIDE DEF s
  <2>2. /\ insert'.leader = {LeaderOf(s)} /\ insert'.id = insert.id
        /\ insert'.dist = insert.dist /\ insert'.at = insert.at
        /\ insert'.pc = IF LeaderOf(s) = Self THEN "local" ELSE "resolve"
    BY <1>0 DEF InsertState
  <2>3. insert' \in InsertState
    <3>1. "local" \in InsertPc /\ "resolve" \in InsertPc /\ {LeaderOf(s)} \in NodeSet
      BY <2>1 DEF InsertPc, NodeSet
    <3> QED
      BY <1>0, <3>1 DEF InsertState
  <2>4. insert.at = {} /\ insert.dist \in Distances
    BY <2>0 DEF TInv, InsertInv
  <2> QED
    BY <1>0, <2>0, <2>2, <2>3, <2>4 DEF InsertInv
<1>8. CASE LocalInsert
  <2>1. insert.id \in Ids
    BY <1>8 DEF LocalInsert, TInv, InsertInv
  <2> QED
    BY <1>2, <1>3, <1>8, <2>1 DEF LocalInsert, InsertStatus
<1>9. ASSUME NEW n \in Nodes, ResolveLeader(n)
      PROVE  stored' \in Stores /\ InsertInv'
  <2> SUFFICES ASSUME insert.pc = "resolve", insert' = [insert EXCEPT !.pc = "sent"],
                      stored' = stored
               PROVE  stored' \in Stores /\ InsertInv'
    BY <1>2, <1>9 DEF ResolveLeader, InsertStatus
  <2>1. /\ insert'.leader = insert.leader /\ insert'.id = insert.id
        /\ insert'.dist = insert.dist /\ insert'.at = insert.at /\ insert'.pc = "sent"
        /\ insert' \in InsertState
    <3>1. "sent" \in InsertPc
      BY DEF InsertPc
    <3> QED
      BY <1>0, <3>1 DEF InsertState
  <2> QED
    BY <1>0, <2>1 DEF TInv, InsertInv
<1>10. ASSUME NEW n \in Nodes, PeerInserts(n)
       PROVE  stored' \in Stores /\ InsertInv'
  <2>1. insert.id \in Ids
    BY <1>10 DEF PeerInserts, TInv, InsertInv
  <2> QED
    BY <1>2, <1>3, <1>10, <2>1 DEF PeerInserts, InsertStatus
<1> QED
  BY <1>4, <1>5, <1>6, <1>7, <1>8, <1>9, <1>10

\* The parts of TypeOK, for the steps that touch only some of them.
LEMMA TInvParts ==
  TInv <=> /\ ElectionTypeOK /\ ApiElection!ElectionTypeOK
           /\ assignments \in [Shards -> Option(Assignment)]
           /\ registry \in [Nodes -> Option(NodeInfo)]
           /\ FailoverTypeOK
           /\ stored \in Stores /\ InsertInv
           /\ running \in BOOLEAN /\ ops \in 0..MaxOps /\ overridden \subseteq Shards
<1>1. InsertInv => insert.status \in {0, 201, 400, 500, 502, 503}
  BY DEF InsertInv, InsertState, InsertStatus
<1> QED
  BY <1>1 DEF TInv, TypeOK, ManagerTypeOK, Stores

\* Every step keeps the types.
LEMMA TInvStep == TInv /\ [Next]_vars => TInv'
<1> SUFFICES ASSUME TInv, [Next]_vars PROVE TInv'
  OBVIOUS
<1>0. /\ ElectionTypeOK /\ ApiElection!ElectionTypeOK
      /\ assignments \in [Shards -> Option(Assignment)]
      /\ registry \in [Nodes -> Option(NodeInfo)]
      /\ FailoverTypeOK
      /\ stored \in Stores /\ InsertInv
      /\ running \in BOOLEAN /\ ops \in 0..MaxOps /\ overridden \subseteq Shards
  BY TInvParts
<1> SUFFICES /\ ElectionTypeOK' /\ ApiElection!ElectionTypeOK'
             /\ assignments' \in [Shards -> Option(Assignment)]
             /\ registry' \in [Nodes -> Option(NodeInfo)]
             /\ FailoverTypeOK'
             /\ stored' \in Stores /\ InsertInv'
             /\ running' \in BOOLEAN /\ ops' \in 0..MaxOps /\ overridden' \subseteq Shards
  <2>1. InsertInv' => insert'.status \in {0, 201, 400, 500, 502, 503}
    BY DEF InsertInv, InsertState, InsertStatus
  <2> QED
    BY <2>1 DEF TInv, TypeOK, ManagerTypeOK, Stores
<1> DEFINE Goal == /\ ElectionTypeOK' /\ ApiElection!ElectionTypeOK'
                   /\ assignments' \in [Shards -> Option(Assignment)]
                   /\ registry' \in [Nodes -> Option(NodeInfo)]
                   /\ FailoverTypeOK'
                   /\ stored' \in Stores /\ InsertInv'
                   /\ running' \in BOOLEAN /\ ops' \in 0..MaxOps /\ overridden' \subseteq Shards
<1>e. UNCHANGED <<shardStates, heartbeats>> => ElectionTypeOK'
  BY <1>0 DEF ElectionTypeOK
<1>a. UNCHANGED apiVars => ApiElection!ElectionTypeOK'
  BY <1>0 DEF apiVars, ApiElection!ElectionTypeOK
<1>f. UNCHANGED <<replications, task>> => FailoverTypeOK'
  BY <1>0 DEF FailoverTypeOK
<1>q. UNCHANGED <<stored, insert>> => stored' \in Stores /\ InsertInv'
  BY <1>0 DEF InsertInv
<1>c. Call \/ ops' = ops => ops' \in 0..MaxOps
  BY <1>0, MaxOpsAssumption DEF Call
<1> USE DEF electionVars, memberVars, queryVars
<1>1. CASE Start
  <2>1. MyShards \in SUBSET Shards
    BY DEF MyShards, LedBy, HeldBy, AssignedLeaders
  <2>2. registry' \in [Nodes -> Option(NodeInfo)]
    BY <1>0, <1>1, <2>1, SelfIsNode, SelfAddrAssumption, RegistryTypes DEF Start
  <2>3. running' \in BOOLEAN
    BY <1>1, Zenon DEF Start
  <2> QED
    BY <1>0, <1>1, <1>e, <1>a, <1>f, <1>q, <1>c, <2>2, <2>3 DEF Start
<1>2. CASE Leave
  <2>1. registry' \in [Nodes -> Option(NodeInfo)]
    BY <1>0, <1>2, SelfIsNode, RegistryTypes DEF Leave
  <2> QED
    BY <1>0, <1>2, <1>e, <1>a, <1>f, <1>q, <1>c, <2>1 DEF Leave
<1>3. CASE AssignmentCall
  <2>1. assignments' \in [Shards -> Option(Assignment)]
    BY <1>0, <1>3, AssignmentTypes DEF AssignmentCall
  <2>2. overridden' \subseteq Shards
    BY <1>0, <1>3 DEF AssignmentCall
  <2> QED
    BY <1>0, <1>3, <1>e, <1>a, <1>f, <1>q, <1>c, <2>1, <2>2 DEF AssignmentCall
<1>4. CASE RegistryCall
  <2>1. registry' \in [Nodes -> Option(NodeInfo)]
    BY <1>0, <1>4, RegistryTypes DEF RegistryCall
  <2> QED
    BY <1>0, <1>4, <1>e, <1>a, <1>f, <1>q, <1>c, <2>1 DEF RegistryCall
<1>5. CASE ElectionCall
  <2>1. ElectionTypeOK'
    BY <1>0, <1>5, ElectionTypes DEF ElectionCall
  <2> QED
    BY <1>0, <1>5, <1>a, <1>f, <1>q, <1>c, <2>1 DEF ElectionCall
<1>6. CASE ApiElectionCall
  <2>1. ApiElection!ElectionTypeOK'
    BY <1>0, <1>6 DEF ApiElectionCall, ApiElection!ElectionTypeOK, ApiElection!SetLeader,
                      ApiElection!ElectionState, ApiElection!Follower
  <2> QED
    BY <1>0, <1>6, <1>e, <1>f, <1>q, <1>c, <2>1 DEF ApiElectionCall
<1>7. CASE FailoverCall
  <2>1. FailoverTypeOK'
    <3>1. CASE Tick("call") \/ \E s \in Shards : CallPromote(s)
      <4>1. "call" \in Tasks
        BY DEF Tasks
      <4> QED
        BY <1>0, <3>1, <4>1, TaskTypes
    <3>2. ASSUME NEW s \in Shards,
                 RemoveReplicationEngine(s)
                   \/ \E lag \in {"within", "behind"} : SetReplicationEngine(s, lag)
          PROVE  FailoverTypeOK'
      BY <1>0, <3>2 DEF RemoveReplicationEngine, SetReplicationEngine, FailoverTypeOK
    <3> QED
      BY <1>7, <3>1, <3>2 DEF FailoverCall
  <2>2. UNCHANGED <<shardStates, heartbeats, assignments>>
    BY <1>7 DEF FailoverCall, Tick, CallPromote, SetReplicationEngine, RemoveReplicationEngine
  <2> QED
    BY <1>0, <1>7, <1>e, <1>a, <1>q, <1>c, <2>1, <2>2 DEF FailoverCall
<1>8. CASE LoopTick
  <2>1. FailoverTypeOK'
    BY <1>0, <1>8, TaskTypes DEF LoopTick, Tasks
  <2>2. UNCHANGED <<shardStates, heartbeats, assignments>>
    BY <1>8 DEF LoopTick, Tick
  <2> QED
    BY <1>0, <1>8, <1>e, <1>a, <1>q, <1>c, <2>1, <2>2 DEF LoopTick
<1>9. CASE ClientCall
  <2>1. stored' \in Stores /\ InsertInv'
    <3>1. CASE BeginSearch
      BY <1>q, <3>1 DEF BeginSearch
    <3> QED
      BY <1>9, <3>1, InsertTypes DEF ClientCall
  <2> QED
    BY <1>0, <1>9, <1>e, <1>a, <1>f, <1>c, <2>1 DEF ClientCall
<1>10. CASE QueryStep
  <2>1. stored' \in Stores /\ InsertInv'
    <3>1. CASE \/ Collect
               \/ \E s \in Shards : SearchStep(s)
               \/ \E s \in Shards, n \in Nodes : PeerSearches(s, n) \/ PeerUnreachable(s, n)
      BY <1>q, <3>1 DEF Collect, SearchStep, SearchShard, ShardTimeout, PeerSearches, PeerUnreachable
    <3> QED
      BY <1>10, <3>1, InsertTypes DEF QueryStep, PeerStep, InsertStep
  <2> QED
    BY <1>0, <1>10, <1>e, <1>a, <1>f, <1>c, <2>1 DEF QueryStep
<1>11. ASSUME NEW t \in Tasks, FailoverStep(t) PROVE Goal
  <2>1. FailoverTypeOK'
    BY <1>0, <1>11, TaskTypes DEF FailoverStep, TaskStep
  <2>2. ElectionTypeOK'
    <3>1. ASSUME NEW s \in Shards, Campaign(t, s) \/ Win(t, s) \/ Lose(t, s)
          PROVE  ElectionTypeOK'
      BY <1>0, <3>1, ElectionTypes DEF Campaign, Win, Lose
    <3>2. CASE CheckTimeout(t) \/ EndOfPass(t)
               \/ \E s \in Shards : CheckEligible(t, s) \/ Promote(t, s)
      BY <1>e, <3>2 DEF CheckTimeout, EndOfPass, CheckEligible, Promote
    <3> QED
      BY <1>11, <3>1, <3>2 DEF FailoverStep, TaskStep
  <2>3. assignments' \in [Shards -> Option(Assignment)]
    <3>1. ASSUME NEW s \in Shards, Promote(t, s) PROVE assignments' \in [Shards -> Option(Assignment)]
      BY <1>0, <3>1, SelfIsNode, AssignmentTypes DEF Promote
    <3>2. CASE CheckTimeout(t) \/ EndOfPass(t)
               \/ \E s \in Shards : CheckEligible(t, s) \/ Campaign(t, s) \/ Win(t, s) \/ Lose(t, s)
      BY <1>0, <3>2 DEF CheckTimeout, EndOfPass, CheckEligible, Campaign, Win, Lose
    <3> QED
      BY <1>11, <3>1, <3>2 DEF FailoverStep, TaskStep
  <2>4. overridden' \subseteq Shards
    BY <1>0, <1>11 DEF FailoverStep
  <2> QED
    BY <1>0, <1>11, <1>a, <1>q, <1>c, <2>1, <2>2, <2>3, <2>4 DEF FailoverStep
<1>12. CASE UNCHANGED vars
  BY <1>0, <1>12, <1>e, <1>a, <1>f, <1>q, <1>c DEF vars
<1> QED
  BY <1>1, <1>2, <1>3, <1>4, <1>5, <1>6, <1>7, <1>8, <1>9, <1>10, <1>11, <1>12 DEF Next

-----------------------------------------------------------------------------
(* The two failover tasks and the election *)

\* What a step can be for the election, the failover tasks and the shard table.
LEMMA ElectionFrame ==
  ASSUME [Next]_vars
  PROVE  \/ AssignmentCall
         \/ \E t \in Tasks : FailoverStep(t)
         \/ /\ UNCHANGED <<assignments, overridden>>
            /\ \/ UNCHANGED <<shardStates, task>>
               \/ \E s \in Shards, l \in Nodes : SetLeader(s, l) /\ task' = task
               \/ \E t \in Tasks : Tick(t)
               \/ \E s \in Shards : CallPromote(s)
<1> USE DEF electionVars, memberVars, queryVars
<1>1. CASE Start \/ Leave \/ RegistryCall \/ ApiElectionCall
  BY <1>1 DEF Start, Leave, RegistryCall, ApiElectionCall
<1>2. CASE ClientCall \/ QueryStep
  BY <1>2 DEF ClientCall, QueryStep
<1>3. CASE ElectionCall
  BY <1>3 DEF ElectionCall, RecordLeaderHeartbeat, HeartbeatAges
<1>4. CASE FailoverCall
  BY <1>4 DEF FailoverCall, SetReplicationEngine, RemoveReplicationEngine, Tick, CallPromote,
              Tasks
<1>5. CASE LoopTick
  BY <1>5 DEF LoopTick, Tick, Tasks
<1>6. CASE UNCHANGED vars
  BY <1>6 DEF vars
<1> QED
  BY <1>1, <1>2, <1>3, <1>4, <1>5, <1>6 DEF Next

\* Every step keeps a task about to decide for each candidacy, although a
\* set_leader and the other task may come between campaign and decision.
LEMMA NoStuckStep ==
  ASSUME TInv, NoStuckCandidate, [Next]_vars
  PROVE  NoStuckCandidate'
<1> SUFFICES ASSUME NEW s \in Shards, shardStates'[s] = Candidate
             PROVE  \E t \in Tasks : task'[t].pc = "win" /\ task'[t].shard = {s}
  BY DEF NoStuckCandidate, On
<1> DEFINE Goal == \E t \in Tasks : task'[t].pc = "win" /\ task'[t].shard = {s}
<1>0. /\ shardStates \in [Shards -> ElectionState] /\ task \in [Tasks -> TaskState]
      /\ "call" \in Tasks /\ "loop" \in Tasks
  BY DEF TInv, TypeOK, ElectionTypeOK, FailoverTypeOK, Tasks
<1>1. shardStates[s] = Candidate => \E t \in Tasks : task[t].pc = "win" /\ task[t].shard = {s}
  BY DEF NoStuckCandidate, On
<1>2. CASE UNCHANGED <<shardStates, task>>
  BY <1>1, <1>2
<1>3. ASSUME NEW z \in Shards, NEW l \in Nodes, SetLeader(z, l), task' = task PROVE Goal
  <2>1. shardStates[s] = Candidate
    BY <1>0, <1>3 DEF SetLeader, Follower, Candidate
  <2> QED
    BY <1>1, <1>3, <2>1
<1>4. ASSUME NEW t \in Tasks, Tick(t) PROVE Goal
  <2>1. shardStates' = shardStates /\ \A u \in Tasks : task[u].pc = "win" => task'[u] = task[u]
    BY <1>0, <1>4 DEF Tick
  <2> QED
    BY <1>1, <2>1
<1>5. ASSUME NEW z \in Shards, CallPromote(z) PROVE Goal
  <2>1. shardStates' = shardStates /\ \A u \in Tasks : task[u].pc = "win" => task'[u] = task[u]
    BY <1>0, <1>5 DEF CallPromote
  <2> QED
    BY <1>1, <2>1
<1>6. ASSUME NEW t \in Tasks, TaskStep(t) PROVE Goal
  <2>1. \A u \in Tasks : u # t => task'[u] = task[u]
    BY <1>0, <1>6 DEF TaskStep, CheckTimeout, EndOfPass, CheckEligible, Campaign, Win, Lose,
                      Promote, Goto, NextShard
  <2>2. CASE CheckTimeout(t) \/ EndOfPass(t)
             \/ \E z \in Shards : CheckEligible(t, z) \/ Promote(t, z)
    <3>1. shardStates' = shardStates /\ task[t].pc # "win"
      BY <2>2 DEF CheckTimeout, EndOfPass, CheckEligible, Promote
    <3> QED
      BY <1>1, <2>1, <3>1
  <2>3. ASSUME NEW z \in Shards, Campaign(t, z) PROVE Goal
    <3>1. task'[t].pc = "win" /\ task'[t].shard = {z} /\ task[t].pc # "win"
      BY <1>0, <2>3 DEF Campaign, Goto, On, TaskState
    <3>2. z # s => shardStates'[s] = shardStates[s]
      BY <1>0, <2>3 DEF Campaign, BecomeCandidate
    <3> QED
      BY <1>1, <2>1, <3>1, <3>2
  <2>4. ASSUME NEW z \in Shards, Win(t, z) PROVE Goal
    <3>1. z # s /\ shardStates'[s] = shardStates[s]
      BY <1>0, <2>4 DEF Win, WinElection, Leader, Candidate
    <3>2. task[t].shard # {s}
      BY <2>4, <3>1 DEF Win, On
    <3> QED
      BY <1>1, <2>1, <3>1, <3>2
  <2>5. ASSUME NEW z \in Shards, Lose(t, z) PROVE Goal
    <3>1. shardStates' = shardStates /\ z # s
      BY <2>5 DEF Lose, LoseElection, CanWin
    <3>2. task[t].shard # {s}
      BY <2>5, <3>1 DEF Lose, On
    <3> QED
      BY <1>1, <2>1, <3>1, <3>2
  <2> QED
    BY <1>6, <2>2, <2>3, <2>4, <2>5 DEF TaskStep
<1>7. CASE AssignmentCall
  BY <1>1, <1>7 DEF AssignmentCall, electionVars
<1>8. \A t \in Tasks : FailoverStep(t) => TaskStep(t)
  BY DEF FailoverStep
<1> QED
  BY <1>2, <1>3, <1>4, <1>5, <1>6, <1>7, <1>8, ElectionFrame

\* Every step keeps the shards this node leads routed to it, up to operators'
\* changes of the table and promotions under way.
LEMMA RoutedStep ==
  ASSUME TInv, LeaderIsRouted, [Next]_vars
  PROVE  LeaderIsRouted'
<1> SUFFICES ASSUME NEW s \in Shards, shardStates'[s] = Leader, s \notin overridden'
             PROVE  \/ \E t \in Tasks : task'[t].pc = "assign" /\ task'[t].shard = {s}
                    \/ assignments'[s] # <<>> /\ assignments'[s][1].leader = Self
  BY DEF LeaderIsRouted, MyLeaderships, On, Assigned, LeaderOf
<1> DEFINE Goal == \/ \E t \in Tasks : task'[t].pc = "assign" /\ task'[t].shard = {s}
                   \/ assignments'[s] # <<>> /\ assignments'[s][1].leader = Self
<1>0. /\ shardStates \in [Shards -> ElectionState] /\ task \in [Tasks -> TaskState]
      /\ assignments \in [Shards -> Option(Assignment)]
      /\ "call" \in Tasks /\ "loop" \in Tasks
  BY DEF TInv, TypeOK, ElectionTypeOK, FailoverTypeOK, ManagerTypeOK, Tasks
<1>1. shardStates[s] = Leader /\ s \notin overridden =>
         \/ \E t \in Tasks : task[t].pc = "assign" /\ task[t].shard = {s}
         \/ assignments[s] # <<>> /\ assignments[s][1].leader = Self
  BY DEF LeaderIsRouted, MyLeaderships, On, Assigned, LeaderOf
<1>2. CASE AssignmentCall
  <2>1. UNCHANGED <<shardStates, task>> /\ s \notin overridden /\ assignments'[s] = assignments[s]
    BY <1>2 DEF AssignmentCall, electionVars
  <2> QED
    BY <1>1, <2>1
<1>3. CASE /\ UNCHANGED <<assignments, overridden>>
           /\ \/ UNCHANGED <<shardStates, task>>
              \/ \E z \in Shards, l \in Nodes : SetLeader(z, l) /\ task' = task
              \/ \E t \in Tasks : Tick(t)
              \/ \E z \in Shards : CallPromote(z)
  <2>1. shardStates[s] = Leader
    BY <1>0, <1>3 DEF SetLeader, Tick, CallPromote, Follower, Leader
  <2>2. \A u \in Tasks : task[u].pc = "assign" => task'[u] = task[u]
    BY <1>0, <1>3 DEF Tick, CallPromote
  <2> QED
    BY <1>1, <1>3, <2>1, <2>2
<1>4. ASSUME NEW t \in Tasks, FailoverStep(t) PROVE Goal
  <2>0. /\ TaskStep(t)
        /\ overridden' = IF task[t].pc = "assign" THEN overridden \ task[t].shard ELSE overridden
    BY <1>4 DEF FailoverStep
  <2>1. \A u \in Tasks : u # t => task'[u] = task[u]
    BY <1>0, <2>0 DEF TaskStep, CheckTimeout, EndOfPass, CheckEligible, Campaign, Win, Lose,
                      Promote, Goto, NextShard
  <2>2. CASE CheckTimeout(t) \/ EndOfPass(t)
             \/ \E z \in Shards : CheckEligible(t, z) \/ Lose(t, z)
    <3>1. UNCHANGED <<shardStates, assignments>> /\ task[t].pc # "assign"
      BY <2>2 DEF CheckTimeout, EndOfPass, CheckEligible, Lose, LoseElection
    <3> QED
      BY <1>1, <2>0, <2>1, <3>1
  <2>3. ASSUME NEW z \in Shards, Campaign(t, z) PROVE Goal
    <3>1. shardStates[s] = Leader
      BY <1>0, <2>3 DEF Campaign, BecomeCandidate, Leader, Candidate
    <3>2. assignments' = assignments /\ task[t].pc # "assign"
      BY <2>3 DEF Campaign
    <3> QED
      BY <1>1, <2>0, <2>1, <3>1, <3>2
  <2>4. ASSUME NEW z \in Shards, Win(t, z) PROVE Goal
    <3>1. CASE z = s
      BY <1>0, <2>4, <3>1 DEF Win, Goto, On, TaskState
    <3>2. CASE z # s
      <4>1. shardStates[s] = Leader
        BY <1>0, <2>4, <3>2 DEF Win, WinElection
      <4>2. assignments' = assignments /\ task[t].pc # "assign"
        BY <2>4 DEF Win
      <4> QED
        BY <1>1, <2>0, <2>1, <4>1, <4>2
    <3> QED
      BY <3>1, <3>2
  <2>5. ASSUME NEW z \in Shards, Promote(t, z) PROVE Goal
    <3>0. task[t].pc = "assign" /\ task[t].shard = {z} /\ shardStates' = shardStates
      BY <2>5 DEF Promote, On
    <3>1. CASE z = s
      BY <1>0, <2>5, <3>1 DEF Promote, AssignShard
    <3>2. CASE z # s
      <4>1. assignments'[s] = assignments[s]
        BY <1>0, <2>5, <3>2 DEF Promote, AssignShard
      <4>2. s \notin overridden /\ task[t].shard # {s}
        BY <2>0, <3>0, <3>2
      <4> QED
        BY <1>1, <2>1, <3>0, <4>1, <4>2
    <3> QED
      BY <3>1, <3>2
  <2> QED
    BY <2>0, <2>2, <2>3, <2>4, <2>5 DEF TaskStep
<1> QED
  BY <1>2, <1>3, <1>4, ElectionFrame

-----------------------------------------------------------------------------
(* What a client is told about its insert *)

\* Every step keeps the report of an insert true.
LEMMA OutcomeStep ==
  ASSUME TInv, InsertOutcome, [Next]_vars
  PROVE  InsertOutcome'
<1> SUFFICES ASSUME insert'.pc = "done"
             PROVE  /\ insert'.status = 201 => insert'.at # {} /\ insert'.at = insert'.leader
                    /\ insert'.status \in {500, 503} => insert'.at = {}
  BY DEF InsertOutcome
<1> DEFINE Goal == /\ insert'.status = 201 => insert'.at # {} /\ insert'.at = insert'.leader
                   /\ insert'.status \in {500, 503} => insert'.at = {}
<1>0. insert \in InsertState /\ InsertInv
  BY DEF TInv, InsertInv
<1>1. CASE insert' = insert
  BY <1>1 DEF InsertOutcome
<1>2. ASSUME NEW st \in {400, 500, 502, 503}, Respond(st), insert.at = {} PROVE Goal
  <2>1. insert'.status = st /\ insert'.at = insert.at
    BY <1>0, <1>2 DEF Respond, InsertState
  <2> QED
    BY <1>2, <2>1
<1>3. ASSUME NEW n, NEW st \in {201, 400, 502}, RespondStored(st, n), insert.leader = {n}
      PROVE  Goal
  <2>1. insert'.status = st /\ insert'.at = {n} /\ insert'.leader = insert.leader
    BY <1>0, <1>3 DEF RespondStored, InsertState
  <2> QED
    BY <1>3, <2>1
<1>4. ASSUME NEW i \in Ids, NEW d \in Distances, BeginInsert(i, d) PROVE Goal
  BY <1>4 DEF BeginInsert, IdleInsert
<1>5. CASE LookupLeader
  <2>1. insert.at = {}
    BY <1>0, <1>5 DEF LookupLeader, InsertInv
  <2>2. Respond(503) \/ insert'.pc # "done"
    BY <1>0, <1>5 DEF LookupLeader, InsertState
  <2> QED
    BY <1>2, <2>1, <2>2
<1>6. CASE LocalInsert
  <2>1. insert.at = {} /\ insert.leader = {Self}
    BY <1>0, <1>6 DEF LocalInsert, InsertInv
  <2> QED
    BY <1>2, <1>3, <1>6, <2>1 DEF LocalInsert
<1>7. ASSUME NEW n \in Nodes, ResolveLeader(n) PROVE Goal
  <2>1. insert.at = {}
    BY <1>0, <1>7 DEF ResolveLeader, InsertInv
  <2>2. Respond(503) \/ insert'.pc # "done"
    BY <1>0, <1>7 DEF ResolveLeader, InsertState
  <2> QED
    BY <1>2, <2>1, <2>2
<1>8. ASSUME NEW n \in Nodes, PeerInserts(n) PROVE Goal
  <2>1. insert.at = {} /\ insert.leader = {n}
    BY <1>0, <1>8 DEF PeerInserts, InsertInv
  <2> QED
    BY <1>2, <1>3, <1>8, <2>1 DEF PeerInserts
<1>9. \/ insert' = insert
      \/ \E i \in Ids, d \in Distances : BeginInsert(i, d)
      \/ LookupLeader \/ LocalInsert
      \/ \E n \in Nodes : ResolveLeader(n) \/ PeerInserts(n)
  <2> USE DEF queryVars
  <2>1. CASE Start \/ Leave \/ AssignmentCall \/ RegistryCall \/ ElectionCall \/ ApiElectionCall
    BY <2>1 DEF Start, Leave, AssignmentCall, RegistryCall, ElectionCall, ApiElectionCall
  <2>2. CASE FailoverCall \/ LoopTick \/ \E t \in Tasks : FailoverStep(t)
    BY <2>2 DEF FailoverCall, LoopTick, FailoverStep
  <2>3. CASE ClientCall
    BY <2>3 DEF ClientCall, BeginSearch, InternalInsert, InternalReplicate
  <2>4. CASE QueryStep
    BY <2>4 DEF QueryStep, PeerStep, InsertStep, Collect, SearchStep, SearchShard, ShardTimeout,
                PeerSearches, PeerUnreachable
  <2>5. CASE UNCHANGED vars
    BY <2>5 DEF vars
  <2> QED
    BY <2>1, <2>2, <2>3, <2>4, <2>5 DEF Next
<1> QED
  BY <1>1, <1>4, <1>5, <1>6, <1>7, <1>8, <1>9

-----------------------------------------------------------------------------
(* The invariant and what it shows *)

CInv == TInv /\ NoStuckCandidate /\ LeaderIsRouted /\ InsertOutcome

\* A new node satisfies the invariant.
LEMMA CInvInit == Init => CInv
<1> SUFFICES ASSUME Init PROVE CInv
  OBVIOUS
<1>1. \A s \in Shards : shardStates[s] = NoLeader
  BY DEF Init, ElectionInit
<1>2. NoStuckCandidate /\ LeaderIsRouted
  BY <1>1 DEF NoStuckCandidate, LeaderIsRouted, MyLeaderships, NoLeader, Candidate, Leader
<1>3. InsertOutcome
  BY DEF Init, CoordinatorInit, IdleInsert, InsertOutcome
<1> QED
  BY <1>2, <1>3, TInvInit DEF CInv

\* The inductive invariant of a cluster node.
THEOREM ClusterInvariant == Spec => []CInv
<1>1. CInv /\ [Next]_vars => CInv'
  BY TInvStep, NoStuckStep, RoutedStep, OutcomeStep DEF CInv
<1> QED
  BY <1>1, CInvInit, PTL DEF Spec

\* The elections, the shard table, the registry, the stores and the tasks keep
\* their types.
THEOREM ClusterTypes == Spec => []TypeOK
<1>1. CInv => TypeOK
  BY DEF CInv, TInv
<1> QED
  BY <1>1, ClusterInvariant, PTL

\* No shard is left a Candidate: become_candidate and win_election take the lock
\* separately, and set_leader, the loop and a caller's promotion may come between.
THEOREM ClusterNoStuckCandidate == Spec => []NoStuckCandidate
<1>1. CInv => NoStuckCandidate
  BY DEF CInv
<1> QED
  BY <1>1, ClusterInvariant, PTL

\* A shard won in an election is routed to this node by the shard table.
THEOREM ClusterLeaderIsRouted == Spec => []LeaderIsRouted
<1>1. CInv => LeaderIsRouted
  BY DEF CInv
<1> QED
  BY <1>1, ClusterInvariant, PTL

\* handle_forward_insert tells the truth about where the vector was stored.
THEOREM ClusterInsertOutcome == Spec => []InsertOutcome
<1>1. CInv => InsertOutcome
  BY DEF CInv
<1> QED
  BY <1>1, ClusterInvariant, PTL

-----------------------------------------------------------------------------
(* Dead nodes *)

\* What a step may do to the entry of node n.
EntryKept(n) ==
  registry[n] # <<>> /\ registry'[n] # <<>> =>
    /\ registry[n][1].status = "Dead" => registry'[n][1].status # "Suspect"
    /\ registry[n][1].status # "Active" /\ registry'[n][1].status = "Active"
         => registry'[n][1].fresh

\* Every call on the registry keeps a dead node from being suspected and brings
\* a node back only with a fresh heartbeat.
LEMMA RegistryStep ==
  ASSUME registry \in [Nodes -> Option(NodeInfo)], NEW n \in Nodes,
         \/ registry' = registry
         \/ \E m \in Nodes, a \in Addrs, S \in SUBSET Shards : Register(m, a, S)
         \/ \E m \in Nodes : Heartbeat(m) \/ MarkDead(m) \/ Unregister(m) \/ NodeAges(m)
         \/ CheckHeartbeats
  PROVE  EntryKept(n)
<1>0. registry[n] # <<>> => \E r \in NodeInfo : registry[n] = <<r>>
  BY DEF Option
<1>1. CASE registry'[n] = registry[n]
  BY <1>0, <1>1 DEF EntryKept
<1>2. ASSUME NEW a \in Addrs, NEW S \in SUBSET Shards, Register(n, a, S) PROVE EntryKept(n)
  BY <1>2 DEF Register, EntryKept
<1>3. CASE Heartbeat(n)
  BY <1>0, <1>3 DEF Heartbeat, Registered, EntryKept, NodeInfo
<1>4. CASE MarkDead(n)
  BY <1>0, <1>4 DEF MarkDead, Registered, EntryKept, NodeInfo
<1>5. CASE Unregister(n)
  BY <1>5 DEF Unregister, EntryKept
<1>6. CASE NodeAges(n)
  BY <1>0, <1>6 DEF NodeAges, Registered, EntryKept, NodeInfo
<1>7. CASE CheckHeartbeats
  BY <1>0, <1>7 DEF CheckHeartbeats, TimedOutNodes, EntryKept, NodeInfo
<1>8. ASSUME NEW m \in Nodes, m # n,
             \/ \E a \in Addrs, S \in SUBSET Shards : Register(m, a, S)
             \/ Heartbeat(m) \/ MarkDead(m) \/ Unregister(m) \/ NodeAges(m)
      PROVE  registry'[n] = registry[n]
  BY <1>8 DEF Register, Heartbeat, MarkDead, Unregister, NodeAges
<1> QED
  BY <1>1, <1>2, <1>3, <1>4, <1>5, <1>6, <1>7, <1>8

\* check_heartbeats never suspects a dead node nor revives one; a node comes
\* back only by a heartbeat or a registration.
THEOREM ClusterDeadStaysDead == Spec => DeadStaysDead
<1>1. CInv /\ [Next]_vars =>
        [\A n \in Nodes : Registered(n) /\ registry'[n] # <<>> =>
            /\ registry[n][1].status = "Dead" => registry'[n][1].status # "Suspect"
            /\ registry[n][1].status # "Active" /\ registry'[n][1].status = "Active"
                 => registry'[n][1].fresh]_registry
  <2> SUFFICES ASSUME CInv, [Next]_vars, NEW n \in Nodes
               PROVE  EntryKept(n)
    BY DEF EntryKept, Registered
  <2>1. registry \in [Nodes -> Option(NodeInfo)]
    BY DEF CInv, TInv, TypeOK, ManagerTypeOK
  <2> DEFINE Calls == \/ registry' = registry
                      \/ \E m \in Nodes, a \in Addrs, S \in SUBSET Shards : Register(m, a, S)
                      \/ \E m \in Nodes : Heartbeat(m) \/ MarkDead(m) \/ Unregister(m) \/ NodeAges(m)
                      \/ CheckHeartbeats
  <2>2. CASE Start
    <3>1. MyShards \in SUBSET Shards
      BY DEF MyShards, LedBy, HeldBy, AssignedLeaders
    <3>2. Calls
      BY <2>2, <3>1, SelfIsNode, SelfAddrAssumption DEF Start
    <3> QED
      BY <2>1, <3>2, RegistryStep
  <2>3. CASE Leave \/ RegistryCall
    <3>1. Calls
      BY <2>3, SelfIsNode DEF Leave, RegistryCall
    <3> QED
      BY <2>1, <3>1, RegistryStep
  <2>4. CASE ~Start /\ ~Leave /\ ~RegistryCall
    <3>1. registry' = registry
      BY <2>4 DEF Next, vars, memberVars, AssignmentCall, ElectionCall, ApiElectionCall,
                  FailoverCall, LoopTick, ClientCall, QueryStep, FailoverStep
    <3> QED
      BY <2>1, <3>1, RegistryStep
  <2> QED
    BY <2>2, <2>3, <2>4
<1> QED
  BY <1>1, ClusterInvariant, PTL DEF Spec, DeadStaysDead

-----------------------------------------------------------------------------
(* What a shard answers, and the lists put together *)

\* F is the function that FlattenSeq defines, on 1..n.
FlatFcn(F, lists, n) ==
    F = [i \in 1..n |-> IF i = 1 THEN lists[i] ELSE F[i - 1] \o lists[i]]

\* The recursion of FlattenSeq defines a function.
LEMMA FlatDefined ==
    ASSUME NEW lists, Len(lists) \in Nat, Len(lists) # 0
    PROVE  \E F : /\ FlatFcn(F, lists, Len(lists))
                  /\ SeqX!FlattenSeq(lists) = F[Len(lists)]
<1> DEFINE N == Len(lists)
           S == {n \in Nat : \E F : FlatFcn(F, lists, n)}
<1>1. 0 \in S
  <2> DEFINE G == [i \in 1..0 |-> lists]
  <2>1. FlatFcn(G, lists, 0)
    BY DEF FlatFcn
  <2> QED
    BY <2>1
<1>2. \A n \in 0..(N - 1) : n \in S => n + 1 \in S
  <2> SUFFICES ASSUME NEW n \in 0..(N - 1), NEW F, FlatFcn(F, lists, n)
               PROVE  \E G : FlatFcn(G, lists, n + 1)
    OBVIOUS
  <2> DEFINE last == IF n + 1 = 1 THEN lists[n + 1] ELSE F[n] \o lists[n + 1]
             G == [i \in 1..(n + 1) |-> IF i = n + 1 THEN last ELSE F[i]]
  <2>1. (\A i \in 1..n : G[i] = F[i]) /\ G[n + 1] = last
    <3> HIDE DEF last
    <3> QED
      OBVIOUS
  <2>2. \A i \in 1..n : F[i] = IF i = 1 THEN lists[i] ELSE F[i - 1] \o lists[i]
    BY DEF FlatFcn
  <2>3. \A i \in 1..(n + 1) : G[i] = IF i = 1 THEN lists[i] ELSE G[i - 1] \o lists[i]
    <3> SUFFICES ASSUME NEW i \in 1..(n + 1)
                 PROVE  G[i] = IF i = 1 THEN lists[i] ELSE G[i - 1] \o lists[i]
      OBVIOUS
    <3> HIDE DEF G
    <3>1. CASE i = n + 1
      <4>1. CASE n = 0
        BY <2>1, <3>1, <4>1
      <4>2. CASE n # 0
        <5>1. n \in 1..n /\ i - 1 = n /\ i # 1
          BY <3>1, <4>2
        <5> QED
          BY <2>1, <3>1, <5>1
      <4> QED
        BY <4>1, <4>2
    <3>2. CASE i \in 1..n /\ i # 1
      <4>1. i - 1 \in 1..n
        BY <3>2
      <4> QED
        BY <2>1, <2>2, <3>2, <4>1
    <3>3. CASE i \in 1..n /\ i = 1
      BY <2>1, <2>2, <3>3
    <3> QED
      BY <3>1, <3>2, <3>3
  <2>4. FlatFcn(G, lists, n + 1)
    BY <2>3 DEF FlatFcn
  <2> QED
    BY <2>4
<1>3. \A k \in 0..N : k \in S
  <2> HIDE DEF S
  <2> QED
    BY <1>1, <1>2, InductionUpTo
<1>4. \E F : FlatFcn(F, lists, N)
  BY <1>3
<1> DEFINE H == CHOOSE F : FlatFcn(F, lists, N)
<1>5. FlatFcn(H, lists, N)
  BY <1>4
<1>6. SeqX!FlattenSeq(lists) = H[N]
  BY DEF SeqX!FlattenSeq, FlatFcn
<1> QED
  BY <1>5, <1>6

\* flat holds exactly the elements of the lists.
SameElements(flat, lists) ==
  \A x : (\E k \in DOMAIN flat : flat[k] = x)
         <=> (\E i \in 1..Len(lists) : \E k \in DOMAIN lists[i] : lists[i][k] = x)

\* The lists one after the other hold exactly the elements of the lists.
LEMMA FlattenFacts ==
    ASSUME NEW X, NEW lists, Len(lists) \in Nat, Len(lists) # 0,
           \A i \in 1..Len(lists) : lists[i] \in Seq(X),
           NEW flat, flat = SeqX!FlattenSeq(lists)
    PROVE  flat \in Seq(X) /\ SameElements(flat, lists)
<1> DEFINE N == Len(lists)
           Holds(s, x) == \E k \in DOMAIN s : s[k] = x
<1>1. PICK F : FlatFcn(F, lists, N) /\ flat = F[N]
  BY FlatDefined
<1>2. \A i \in 1..N : F[i] = IF i = 1 THEN lists[i] ELSE F[i - 1] \o lists[i]
  BY <1>1 DEF FlatFcn
<1> DEFINE S == {n \in 0..N : n # 0 => /\ F[n] \in Seq(X)
                                       /\ \A x : Holds(F[n], x) <=> \E i \in 1..n : Holds(lists[i], x)}
<1>3. 0 \in S
  OBVIOUS
<1>4. \A n \in 0..(N - 1) : n \in S => n + 1 \in S
  <2> SUFFICES ASSUME NEW n \in 0..(N - 1), n \in S
               PROVE  n + 1 \in S
    OBVIOUS
  <2>1. n + 1 \in 1..N /\ (n + 1) - 1 = n /\ n + 1 \in 0..N
    OBVIOUS
  <2>2. CASE n = 0
    <3>1. F[1] = lists[1] /\ lists[1] \in Seq(X)
      BY <1>2, <2>1, <2>2
    <3>2. \A x : Holds(F[1], x) <=> \E i \in 1..1 : Holds(lists[i], x)
      BY <3>1
    <3> HIDE DEF Holds
    <3> QED
      BY <2>1, <2>2, <3>1, <3>2
  <2>3. CASE n # 0
    <3>1. F[n + 1] = F[n] \o lists[n + 1]
      <4>1. n + 1 # 1
        BY <2>3
      <4>2. F[n + 1] = IF n + 1 = 1 THEN lists[n + 1] ELSE F[(n + 1) - 1] \o lists[n + 1]
        BY <1>2, <2>1
      <4> QED
        BY <2>1, <4>1, <4>2
    <3>2. F[n] \in Seq(X) /\ lists[n + 1] \in Seq(X)
      BY <2>1, <2>3
    <3>3. F[n + 1] \in Seq(X)
      BY <3>1, <3>2
    <3>4. \A x : Holds(F[n + 1], x) <=> Holds(F[n], x) \/ Holds(lists[n + 1], x)
      <4> DEFINE a == F[n]
                 b == lists[n + 1]
      <4>1. a \in Seq(X) /\ b \in Seq(X) /\ F[n + 1] = a \o b
        BY <3>1, <3>2
      <4> HIDE DEF a, b
      <4>2. /\ DOMAIN (a \o b) = 1..(Len(a) + Len(b)) /\ Len(a) \in Nat /\ Len(b) \in Nat
            /\ DOMAIN a = 1..Len(a) /\ DOMAIN b = 1..Len(b)
            /\ \A k \in 1..Len(a) : (a \o b)[k] = a[k]
            /\ \A k \in 1..Len(b) : (a \o b)[Len(a) + k] = b[k]
        BY <4>1
      <4>3. ASSUME NEW x, Holds(a \o b, x) PROVE Holds(a, x) \/ Holds(b, x)
        <5>1. PICK k \in 1..(Len(a) + Len(b)) : (a \o b)[k] = x
          BY <4>2, <4>3
        <5>2. CASE k <= Len(a)
          BY <4>2, <5>1, <5>2
        <5>3. CASE ~(k <= Len(a))
          <6>1. k - Len(a) \in 1..Len(b) /\ Len(a) + (k - Len(a)) = k
            BY <4>2, <5>3
          <6> QED
            BY <4>2, <5>1, <6>1
        <5> QED
          BY <5>2, <5>3
      <4>4. ASSUME NEW x, Holds(a, x) PROVE Holds(a \o b, x)
        BY <4>2, <4>4
      <4>5. ASSUME NEW x, Holds(b, x) PROVE Holds(a \o b, x)
        <5>1. PICK k \in 1..Len(b) : b[k] = x
          BY <4>2, <4>5
        <5>2. Len(a) + k \in 1..(Len(a) + Len(b)) /\ (a \o b)[Len(a) + k] = x
          BY <4>2, <5>1
        <5> QED
          BY <4>2, <5>2
      <4> HIDE DEF Holds
      <4> QED
        BY <4>1, <4>3, <4>4, <4>5 DEF a, b
    <3>5. \A x : Holds(F[n], x) <=> \E i \in 1..n : Holds(lists[i], x)
      BY <2>3
    <3>6. \A i : i \in 1..(n + 1) <=> i \in 1..n \/ i = n + 1
      BY <2>1
    <3> HIDE DEF Holds
    <3>7. \A x : Holds(F[n + 1], x) <=> \E i \in 1..(n + 1) : Holds(lists[i], x)
      BY <3>4, <3>5, <3>6
    <3> QED
      BY <2>1, <3>3, <3>7
  <2> QED
    BY <2>2, <2>3
<1>5. \A k \in 0..N : k \in S
  <2> HIDE DEF S, N
  <2> QED
    BY <1>3, <1>4, InductionUpTo DEF N
<1>6. flat \in Seq(X) /\ \A x : Holds(flat, x) <=> \E i \in 1..N : Holds(lists[i], x)
  <2>1. N \in S
    <3> HIDE DEF S
    <3> QED
      BY <1>5
  <2> QED
    BY <1>1, <2>1
<1> QED
  BY <1>6 DEF SameElements

\* StorageEngine::search of a node with storage returns a list of results.
LEMMA StorageSearchIsList ==
    ASSUME stored \in Stores, NEW n \in HasStorage
    PROVE  StorageSearch(n) \in Seq(Result)
<1> DEFINE v == stored[n]
           held == {i \in Ids : v[i] # 0}
           R == {q \in held \X held : v[q[1]] < v[q[2]] \/ (v[q[1]] = v[q[2]] /\ q[1] < q[2])}
           upto == [i \in held |-> {j \in held : v[j] < v[i] \/ (v[j] = v[i] /\ j <= i)}]
           rank == [i \in held |-> Cardinality(upto[i])]
           N == Cardinality(held)
           all == [k \in 1..N |->
                    [id |-> CHOOSE i \in held : Cardinality({j \in held : v[j] < v[i] \/ (v[j] = v[i] /\ j <= i)}) = k,
                     score |-> v[CHOOSE i \in held : Cardinality({j \in held : v[j] < v[i] \/ (v[j] = v[i] /\ j <= i)}) = k]]]
<1>1. StorageSearch(n) = Truncate(all, Ef)
  BY DEF StorageSearch
<1>2. n \in Nodes /\ v \in [Ids -> Distances \union {0}]
  BY DEF HasStorage, Stores
<1>3. \A i \in held : i \in Ids /\ i \in Nat /\ v[i] \in Distances /\ v[i] \in Nat
  BY <1>2, VectorsAssumption
<1>4. IsFiniteSet(held)
  <2>1. held \in SUBSET Ids
    OBVIOUS
  <2> HIDE DEF held
  <2> QED
    BY <2>1, VectorsAssumption, FS_Subset
<1>5. StrictOrder(held, R)
  <2>1. \A i, j \in held : <<i, j>> \in R <=> v[i] < v[j] \/ (v[i] = v[j] /\ i < j)
    <3> HIDE DEF held, v
    <3> QED
      OBVIOUS
  <2> HIDE DEF held, R, v
  <2>2. \A i \in held : <<i, i>> \notin R
    BY <1>3, <2>1
  <2>3. \A i, j \in held : i # j => <<i, j>> \in R \/ <<j, i>> \in R
    BY <1>3, <2>1
  <2>4. ASSUME NEW i \in held, NEW j \in held, NEW k \in held, <<i, j>> \in R, <<j, k>> \in R
        PROVE  <<i, k>> \in R
    BY <1>3, <2>1, <2>4
  <2> QED
    BY <2>2, <2>3, <2>4 DEF StrictOrder
<1>6. CountsUpTo(held, R, upto, rank)
  <2>1. \A i \in held : upto[i] \in SUBSET held
    <3> HIDE DEF held, v
    <3> QED
      OBVIOUS
  <2>2. \A i, j \in held : <<j, i>> \in R <=> v[j] < v[i] \/ (v[j] = v[i] /\ j < i)
    <3> HIDE DEF held, v
    <3> QED
      OBVIOUS
  <2>3. \A i, j \in held : j \in upto[i] <=> v[j] < v[i] \/ (v[j] = v[i] /\ j <= i)
    <3> HIDE DEF held, v
    <3> QED
      OBVIOUS
  <2>4. rank = [i \in held |-> Cardinality(upto[i])]
    OBVIOUS
  <2> HIDE DEF held, R, upto, rank, v
  <2>5. ASSUME NEW i \in held, NEW j \in held PROVE j \in upto[i] <=> j = i \/ <<j, i>> \in R
    <3>1. i \in Nat /\ j \in Nat
      BY <1>3
    <3>2. j <= i <=> j = i \/ j < i
      BY <3>1
    <3>3. j = i => v[j] = v[i]
      OBVIOUS
    <3> QED
      BY <2>2, <2>3, <3>2, <3>3
  <2> QED
    BY <2>1, <2>4, <2>5 DEF CountsUpTo
<1>7. N \in Nat /\ \A k \in 1..N : \E i \in held : rank[i] = k
  <2> HIDE DEF held, R, upto, rank
  <2>1. Numbers(held, R, rank, N)
    BY <1>4, <1>5, <1>6, RankBijection
  <2> QED
    BY <2>1 DEF Numbers
<1>8. \A i \in held : rank[i] = Cardinality({j \in held : v[j] < v[i] \/ (v[j] = v[i] /\ j <= i)})
  <2> HIDE DEF held, v
  <2> QED
    OBVIOUS
<1>9. ASSUME NEW k \in 1..N PROVE all[k] \in Result
  <2> DEFINE c == CHOOSE i \in held : Cardinality({j \in held : v[j] < v[i] \/ (v[j] = v[i] /\ j <= i)}) = k
  <2>1. c \in held
    <3>1. PICK i \in held : rank[i] = k
      BY <1>7
    <3>2. Cardinality({j \in held : v[j] < v[i] \/ (v[j] = v[i] /\ j <= i)}) = k
      BY <1>8, <3>1
    <3> HIDE DEF held, v, rank
    <3> QED
      BY <3>2
  <2>2. all[k] = [id |-> c, score |-> v[c]]
    <3> HIDE DEF held, v, N
    <3> QED
      OBVIOUS
  <2> HIDE DEF c, held, v, all
  <2> QED
    BY <1>3, <2>1, <2>2 DEF Result
<1>10. all = [k \in 1..N |-> all[k]]
  <2> HIDE DEF held, v, N
  <2> QED
    OBVIOUS
<1> HIDE DEF all, N, held, rank, R, upto, v
<1>11. all \in Seq(Result) /\ Len(all) \in Nat
  BY <1>7, <1>9, <1>10
<1> QED
  BY <1>1, <1>11, LimitsAssumption DEF Truncate

\* A list of the best elements is what the promise asks for.
LEMMA TopIsTopK ==
    ASSUME NEW s, IsSeq(s), Scored(s), NEW rs, TopOf(s, rs, Limit),
           NEW all, \A x : x \in all <=> \E i \in DOMAIN s : s[i] = x
    PROVE  SG!IsTopK(rs, all)
<1> DEFINE listed == {rs[j].id : j \in DOMAIN rs}
           missing == {r.id : r \in all} \ listed
           scores(i) == {r.score : r \in {x \in all : x.id = i}}
<1>1. /\ IsSeq(rs) /\ Len(rs) <= Limit
      /\ \A a \in DOMAIN rs : \E i \in DOMAIN s : rs[a] = s[i]
      /\ \A a \in DOMAIN rs : \A i \in DOMAIN s : s[i].id = rs[a].id => s[i].score <= rs[a].score
      /\ \A a, b \in DOMAIN rs : rs[a].id = rs[b].id => a = b
      /\ \A a, b \in DOMAIN rs : a < b => rs[a].score >= rs[b].score
      /\ \A i \in DOMAIN s : \/ \E a \in DOMAIN rs : rs[a].id = s[i].id
                             \/ /\ Len(rs) = Limit
                                /\ \A a \in DOMAIN rs : s[i].score <= rs[a].score
  BY DEF TopOf
<1>2. DOMAIN rs = 1..Len(rs) /\ Len(rs) \in Nat
  BY <1>1, IsSeqFacts
<1>3. ASSUME NEW i \in missing PROVE Len(rs) = Limit
  <2>1. PICK m \in DOMAIN s : s[m].id = i
    OBVIOUS
  <2>2. ~ \E a \in DOMAIN rs : rs[a].id = s[m].id
    BY <1>3, <2>1
  <2> QED
    BY <1>1, <2>2
<1>4. Len(rs) < Limit => missing = {}
  <2> SUFFICES ASSUME missing # {} PROVE ~(Len(rs) < Limit)
    OBVIOUS
  <2>1. PICK i \in missing : TRUE
    OBVIOUS
  <2>2. Len(rs) = Limit
    BY <1>3, <2>1
  <2> QED
    BY <1>2, <2>2
<1>5. \A r \in all : r.score \in Int
  BY DEF Scored
<1>6. ASSUME NEW i, NEW r \in all, r.id = i, \A x \in all : x.id = i => x.score <= r.score
      PROVE  SG!BestScore(all, i) = r.score
  <2>1. r.score \in scores(i)
    BY <1>6
  <2>2. \A x \in all : x.id = i => x.score <= r.score
    BY <1>6
  <2>3. \E m \in scores(i) : \A x \in all : x.id = i => x.score <= m
    <3> HIDE DEF scores
    <3> QED
      BY <2>1, <2>2
  <2>4. SG!BestScore(all, i) \in scores(i) /\ \A x \in all : x.id = i => x.score <= SG!BestScore(all, i)
    BY <2>3 DEF SG!BestScore
  <2>5. PICK y \in all : y.id = i /\ y.score = SG!BestScore(all, i)
    <3> DEFINE b == SG!BestScore(all, i)
    <3>1. b \in {x.score : x \in {z \in all : z.id = i}}
      BY <2>4
    <3> HIDE DEF b
    <3>2. PICK y \in all : y.id = i /\ y.score = b
      BY <3>1
    <3> QED
      BY <3>2 DEF b
  <2>6. SG!BestScore(all, i) <= r.score /\ r.score <= SG!BestScore(all, i)
    BY <1>6, <2>2, <2>4, <2>5
  <2>7. SG!BestScore(all, i) \in Int /\ r.score \in Int
    BY <1>5, <2>5
  <2> QED
    BY <2>6, <2>7
<1>7. ASSUME NEW j \in DOMAIN rs PROVE rs[j] \in all /\ rs[j].score = SG!BestScore(all, rs[j].id)
  <2>1. rs[j] \in all
    BY <1>1
  <2>2. \A x \in all : x.id = rs[j].id => x.score <= rs[j].score
    BY <1>1
  <2> QED
    BY <1>6, <2>1, <2>2
\* An id has an element with its highest score.
<1>8. ASSUME NEW i \in missing, NEW j \in DOMAIN rs PROVE SG!BestScore(all, i) <= rs[j].score
  <2>1. \E r \in all : r.id = i /\ \A x \in all : x.id = i => x.score <= r.score
    <3>1. PICK r0 \in all : r0.id = i
      OBVIOUS
    <3>2. PICK i0 \in DOMAIN s : s[i0] = r0
      OBVIOUS
    <3>3. PICK m \in DOMAIN s : /\ s[m].id = s[i0].id
                               /\ \A j0 \in DOMAIN s : s[j0].id = s[i0].id => s[j0].score <= s[m].score
      BY BestExists
    <3>4. s[m] \in all /\ s[m].id = i
      BY <3>1, <3>2, <3>3
    <3>5. \A x \in all : x.id = i => x.score <= s[m].score
      BY <3>1, <3>2, <3>3
    <3> QED
      BY <3>4, <3>5
  <2>2. PICK r \in all : r.id = i /\ \A x \in all : x.id = i => x.score <= r.score
    BY <2>1
  <2>3. SG!BestScore(all, i) = r.score
    BY <1>6, <2>2
  <2>4. PICK m \in DOMAIN s : s[m] = r
    BY <2>2
  <2>5. ~ \E a \in DOMAIN rs : rs[a].id = s[m].id
    BY <2>2, <2>4
  <2>6. s[m].score <= rs[j].score
    BY <1>1, <2>5
  <2> QED
    BY <2>3, <2>4, <2>6
<1>9. ASSUME NEW i \in DOMAIN rs, NEW j \in DOMAIN rs, i < j
      PROVE  rs[i].id # rs[j].id /\ rs[i].score >= rs[j].score
  <2>1. i # j
    BY <1>2, <1>9
  <2> QED
    BY <1>1, <1>9, <2>1
<1>10. SG!IsTopK(rs, all) <=>
         /\ Len(rs) <= Limit
         /\ Len(rs) < Limit => missing = {}
         /\ \A j \in DOMAIN rs : rs[j] \in all /\ rs[j].score = SG!BestScore(all, rs[j].id)
         /\ \A i, j \in DOMAIN rs : i < j => rs[i].id # rs[j].id /\ rs[i].score >= rs[j].score
         /\ \A i \in missing : \A j \in DOMAIN rs : SG!BestScore(all, i) <= rs[j].score
  BY DEF SG!IsTopK
<1> HIDE DEF missing, scores, listed
<1> QED
  BY <1>1, <1>4, <1>7, <1>8, <1>9, <1>10

\* merge_results keeps the promise, in whatever order the shards are listed.
LEMMA MergeIsTopK ==
    ASSUME NEW lists, Len(lists) \in Nat, Len(lists) # 0,
           \A i \in 1..Len(lists) : lists[i] \in Seq(Result),
           NEW all, \A x : x \in all <=> \E i \in 1..Len(lists) :
                                           \E k \in DOMAIN lists[i] : lists[i][k] = x
    PROVE  SG!IsTopK(MergeResults(lists, Limit), all)
<1> DEFINE flat == SeqX!FlattenSeq(lists)
           rs == MergeResults(lists, Limit)
<1>1. flat \in Seq(Result) /\ SameElements(flat, lists)
  <2>1. flat = SeqX!FlattenSeq(lists)
    OBVIOUS
  <2> HIDE DEF flat
  <2> QED
    BY <2>1, FlattenFacts
<1>2. \A x : (\E k \in DOMAIN flat : flat[k] = x)
             <=> (\E i \in 1..Len(lists) : \E k \in DOMAIN lists[i] : lists[i][k] = x)
  BY <1>1 DEF SameElements
<1>3. rs = Truncate(DedupById(StableSort(flat, Descending)), Limit)
  BY DEF MergeResults
<1> HIDE DEF flat, rs
<1>4. IsSeq(flat)
  BY <1>1, SeqIsSeq
<1>5. Scored(flat)
  <2>1. \A k \in DOMAIN flat : flat[k] \in Result
    BY <1>1
  <2>2. \A r \in Result : r.score \in Int
    <3>1. \A r \in Result : r.score \in Distances
      BY DEF Result
    <3>2. \A d \in Distances : d \in Int
      BY VectorsAssumption
    <3> SUFFICES ASSUME NEW r \in Result PROVE r.score \in Int
      OBVIOUS
    <3> QED
      BY <3>1, <3>2
  <2> QED
    BY <2>1, <2>2 DEF Scored
<1>6. TopOf(flat, rs, Limit)
  BY <1>3, <1>4, <1>5, LimitsAssumption, SortDedupTruncate
<1>7. \A x : x \in all <=> \E k \in DOMAIN flat : flat[k] = x
  BY <1>2
<1>8. SG!IsTopK(rs, all)
  BY <1>4, <1>5, <1>6, <1>7, TopIsTopK
<1> QED
  BY <1>8 DEF rs

-----------------------------------------------------------------------------
(* A search keeps the promise *)

\* What a task of a search may stand at.
TaskValue == {NoTask, Spawned, Failed} \union {AskedOf(n) : n \in Nodes}
               \union {Ok(rs) : rs \in Seq(Result)}
SearchInv ==
  /\ search = [pc |-> search.pc, shards |-> search.shards, answer |-> search.answer,
               searched |-> search.searched]
  /\ search.pc \in {"idle", "gather", "done"}
  /\ search.shards \in [Shards -> TaskValue]

\* What the promise sees of a task, and of a search.
Seen(v) == IF v[1] \in {"spawned", "asked"} THEN <<"pending">> ELSE v
Phase == IF search.pc = "gather" THEN "asking" ELSE IF search.pc = "done" THEN "answered" ELSE "idle"
Replies == [s \in Shards |-> Seen(search.shards[s])]

\* What is seen of each value.
LEMMA SeenValues ==
    /\ Seen(NoTask) = <<"none">> /\ Seen(Spawned) = <<"pending">> /\ Seen(Failed) = <<"failed">>
    /\ \A n : Seen(AskedOf(n)) = <<"pending">>
    /\ \A rs : Seen(Ok(rs)) = <<"ok", rs>>
BY DEF Seen, NoTask, Spawned, Failed, AskedOf, Ok

\* A task that begins, is answered, or fails, is a step of the promise or none.
LEMMA TaskStepKeepsPromise ==
    ASSUME SearchInv, search.pc = "gather", NEW s \in Shards, NEW v \in TaskValue,
           Seen(search.shards[s]) = <<"pending">>, v # NoTask, v # Spawned,
           NEW searched,
           search' = [search EXCEPT !.shards[s] = v, !.searched = searched]
    PROVE  SearchInv' /\ (SG!SGNext \/ UNCHANGED SG!sgVars)
<1>1. /\ search'.pc = search.pc /\ search'.answer = search.answer
      /\ search'.shards = [search.shards EXCEPT ![s] = v]
  BY DEF SearchInv
<1>2. SearchInv'
  <2>1. search' = [pc |-> search'.pc, shards |-> search'.shards, answer |-> search'.answer,
                   searched |-> search'.searched]
    BY DEF SearchInv
  <2>2. search'.shards \in [Shards -> TaskValue]
    BY <1>1 DEF SearchInv
  <2> QED
    BY <1>1, <2>1, <2>2 DEF SearchInv
<1>3. Phase = "asking" /\ Phase' = Phase /\ Replies[s] = <<"pending">>
  BY <1>1 DEF Phase, Replies
<1>4. Replies' = [Replies EXCEPT ![s] = Seen(v)]
  <2>1. \A x \in Shards : search'.shards[x] = IF x = s THEN v ELSE search.shards[x]
    BY <1>1 DEF SearchInv
  <2> QED
    BY <2>1 DEF Replies, Seen
<1>5. CASE \E n \in Nodes : v = AskedOf(n)
  <2>1. Replies' = Replies
    BY <1>3, <1>4, <1>5, SeenValues DEF Replies
  <2> QED
    BY <1>1, <1>2, <1>3, <2>1 DEF SG!sgVars, Phase, Replies, Seen
<1>6. CASE v = Failed
  <2>1. Replies' = [Replies EXCEPT ![s] = <<"failed">>]
    BY <1>4, <1>6, SeenValues
  <2>2. SG!Fail(s)
    BY <1>1, <1>3, <2>1 DEF SG!Fail, Phase, Replies, Seen
  <2> QED
    BY <1>2, <2>2 DEF SG!SGNext
<1>7. ASSUME NEW rs \in Seq(Result), v = Ok(rs) PROVE SG!SGNext
  <2>1. Replies' = [Replies EXCEPT ![s] = <<"ok", rs>>] /\ Replies'[s] = <<"ok", rs>>
    BY <1>4, <1>7, SeenValues DEF Replies
  <2>2. Len(Replies'[s]) = 2 /\ Replies'[s][2] = rs
    BY <2>1
  <2>3. SG!Reply(s)
    BY <1>1, <1>3, <2>1, <2>2 DEF SG!Reply, Phase, Replies, Seen
  <2> QED
    BY <2>3 DEF SG!SGNext
<1> QED
  BY <1>2, <1>5, <1>6, <1>7 DEF TaskValue

\* A new search asks the shards of its snapshot, or fails when there are none.
LEMMA BeginKeepsPromise ==
    ASSUME SearchInv, BeginSearch
    PROVE  SearchInv' /\ SG!SGNext
<1>0. search.pc # "gather" /\ Phase # "asking"
  BY DEF BeginSearch, SearchInv, Phase
<1>1. CASE AssignedLeaders = {}
  <2>1. search' = [pc |-> "done", shards |-> [s \in Shards |-> NoTask],
                   answer |-> <<"AllShardsFailed">>, searched |-> {}]
    BY <1>1 DEF BeginSearch, IdleSearch
  <2>2. SearchInv'
    BY <2>1 DEF SearchInv, TaskValue
  <2>3. Phase' = "answered" /\ Replies' = [s \in Shards |-> <<"none">>]
    BY <2>1 DEF Phase, Replies, Seen, NoTask
  <2>4. SG!AskNobody
    BY <1>0, <2>1, <2>3 DEF SG!AskNobody, Phase, Replies, Seen
  <2> QED
    BY <2>2, <2>4 DEF SG!SGNext
<1>2. CASE AssignedLeaders # {}
  <2> DEFINE A == AssignedLeaders
             tasks == [s \in Shards |-> IF s \in A THEN Spawned ELSE NoTask]
  <2>1. search' = [pc |-> "gather", shards |-> tasks, answer |-> <<>>, searched |-> {}]
    BY <1>2 DEF BeginSearch, IdleSearch
  <2>2. A \in SUBSET Shards /\ A # {}
    BY <1>2 DEF AssignedLeaders
  <2> HIDE DEF A
  <2>3. SearchInv'
    <3>1. tasks \in [Shards -> TaskValue]
      BY DEF TaskValue
    <3> HIDE DEF tasks
    <3> QED
      BY <2>1, <3>1 DEF SearchInv
  <2>4. Phase' = "asking" /\ search'.answer = <<>>
    BY <2>1 DEF Phase
  <2>5. Replies' = [s \in Shards |-> IF s \in A THEN <<"pending">> ELSE <<"none">>]
    <3>1. \A s \in Shards : search'.shards[s] = IF s \in A THEN Spawned ELSE NoTask
      BY <2>1
    <3> QED
      BY <3>1 DEF Replies, Seen, Spawned, NoTask
  <2>6. SG!Ask
    BY <1>0, <2>2, <2>4, <2>5 DEF SG!Ask, Phase, Replies, Seen
  <2> QED
    BY <2>3, <2>6 DEF SG!SGNext
<1> QED
  BY <1>1, <1>2

\* lists takes the answers g in the order o.
InOrder(lists, o, g) == lists = [i \in DOMAIN o |-> g[o[i]]]

\* The lists are result lists and hold together what the answers of S hold.
ListsAll(lists, S, g) ==
  /\ Len(lists) \in Nat /\ Len(lists) # 0
  /\ \A i \in 1..Len(lists) : lists[i] \in Seq(Result)
  /\ \A x : (\E s \in S : \E k \in DOMAIN g[s] : g[s][k] = x)
            <=> (\E i \in 1..Len(lists) : \E k \in DOMAIN lists[i] : lists[i][k] = x)

\* The list of answers in an order of the shards has the elements of them all.
LEMMA OrderedAnswers ==
    ASSUME NEW S \in SUBSET Shards, S # {}, NEW o \in Orders(S),
           NEW lists, NEW g, InOrder(lists, o, g),
           \A s \in S : g[s] \in Seq(Result)
    PROVE  ListsAll(lists, S, g)
<1> DEFINE n == Cardinality(S)
<1>1. IsFiniteSet(S) /\ n \in Nat /\ n # 0
  <2>1. IsFiniteSet(S)
    BY ShardsAssumption, FS_Subset
  <2> QED
    BY <2>1, FS_CardinalityType, FS_EmptySet
<1>2. o \in [1..n -> S] /\ \A i, j \in 1..n : o[i] = o[j] => i = j
  BY DEF Orders
<1>3. \A s \in S : \E i \in 1..n : o[i] = s
  <2>1. IsFiniteSet(1..n) /\ Cardinality(1..n) = n
    <3> HIDE DEF n
    <3> QED
      BY <1>1, FS_Interval
  <2>2. o \in Injection(1..n, S)
    <3> HIDE DEF n
    <3> QED
      BY <1>2 DEF Injection, IsInjective
  <2>3. o \in Surjection(1..n, S)
    <3> HIDE DEF n
    <3>1. Cardinality(1..n) = Cardinality(S)
      BY <2>1 DEF n
    <3> QED
      BY <1>1, <2>1, <2>2, <3>1, FS_Injection
  <2> QED
    BY <2>3 DEF Surjection
<1> HIDE DEF n
<1>4. lists = [i \in 1..n |-> g[o[i]]] /\ \A i \in 1..n : o[i] \in S
  BY <1>2 DEF InOrder
<1>5. lists \in Seq(Seq(Result)) /\ Len(lists) = n
  BY <1>1, <1>4
<1>6. \A i \in 1..n : lists[i] = g[o[i]] /\ lists[i] \in Seq(Result)
  BY <1>4
<1>7. \A x : (\E s \in S : \E k \in DOMAIN g[s] : g[s][k] = x)
             <=> (\E i \in 1..n : \E k \in DOMAIN lists[i] : lists[i][k] = x)
  BY <1>3, <1>4, <1>6
<1> QED
  BY <1>1, <1>5, <1>6, <1>7 DEF ListsAll

\* The kinds a task's value can be told apart by.
LEMMA TaskKinds ==
    ASSUME NEW v \in TaskValue
    PROVE  /\ v[1] \in {"none", "spawned", "failed", "asked", "ok"}
           /\ v[1] = "none" <=> v = NoTask
           /\ v[1] = "ok" => v[2] \in Seq(Result) /\ v = <<"ok", v[2]>>
           /\ v[1] = "failed" => v = Failed
           /\ v[1] \in {"spawned", "asked"} <=> Seen(v) = <<"pending">>
           /\ v[1] = "ok" <=> Seen(v) \notin {<<"none">>, <<"pending">>, <<"failed">>}
<1>1. CASE v = NoTask
  BY <1>1 DEF NoTask, Failed, Seen
<1>2. CASE v = Spawned
  BY <1>2 DEF Spawned, NoTask, Failed, Seen
<1>3. CASE v = Failed
  BY <1>3 DEF NoTask, Failed, Seen
<1>4. ASSUME NEW n \in Nodes, v = AskedOf(n)
      PROVE  v[1] = "asked" /\ v # NoTask /\ Seen(v) = <<"pending">>
  <2>1. v = <<"asked", n>> /\ Len(v) = 2 /\ Len(NoTask) = 1
    BY <1>4 DEF AskedOf, NoTask
  <2> QED
    BY <2>1 DEF Seen
<1>5. ASSUME NEW rs \in Seq(Result), v = Ok(rs)
      PROVE  /\ v[1] = "ok" /\ v[2] = rs /\ v = <<"ok", v[2]>> /\ v # NoTask /\ Seen(v) = v
             /\ v \notin {<<"none">>, <<"pending">>, <<"failed">>}
  <2>1. v = <<"ok", rs>>
    BY <1>5 DEF Ok
  <2>2. v[1] = "ok" /\ v[2] = rs
    BY <2>1
  <2> QED
    BY <2>1, <2>2 DEF Seen, NoTask
<1> QED
  BY <1>1, <1>2, <1>3, <1>4, <1>5 DEF TaskValue

\* Putting the answers together ends the search as promised.
LEMMA CollectKeepsPromise ==
    ASSUME SearchInv, Collect
    PROVE  SearchInv' /\ SG!SGNext
<1>1. /\ search.pc = "gather" /\ search.shards \in [Shards -> TaskValue]
      /\ \A s \in Total : search.shards[s][1] \in {"ok", "failed"}
  BY DEF Collect, SearchInv
<1>2. \A s \in Shards : Replies[s] = Seen(search.shards[s]) /\ search.shards[s] \in TaskValue
  BY <1>1 DEF Replies
<1>3. ASSUME NEW s \in Shards PROVE Replies[s] # <<"pending">>
  <2>1. CASE search.shards[s] = NoTask
    BY <1>2, <2>1, TaskKinds
  <2>2. CASE search.shards[s] # NoTask
    <3>1. search.shards[s][1] \in {"ok", "failed"}
      BY <1>1, <2>2 DEF Total
    <3> QED
      BY <1>2, <3>1, TaskKinds
  <2> QED
    BY <2>1, <2>2
<1>4. Phase = "asking"
  BY <1>1 DEF Phase
<1>5. SG!Answered = Responded
  <2>1. SG!Answered = {s \in Shards : Replies[s] \notin {<<"none">>, <<"pending">>, <<"failed">>}}
    BY DEF SG!Answered, Replies, Seen
  <2>2. \A s \in Shards : Replies[s] \notin {<<"none">>, <<"pending">>, <<"failed">>}
                          <=> search.shards[s][1] = "ok"
    BY <1>2, TaskKinds
  <2> QED
    BY <2>1, <2>2 DEF Responded
<1>6. SG!Asked = Total
  <2>1. SG!Asked = {s \in Shards : Replies[s] # <<"none">>}
    BY DEF SG!Asked, Replies, Seen
  <2>2. \A s \in Shards : Replies[s] # <<"none">> <=> search.shards[s] # NoTask
    <3> SUFFICES ASSUME NEW s \in Shards
                 PROVE  Replies[s] = <<"none">> <=> search.shards[s] = NoTask
      OBVIOUS
    <3>1. Replies[s] = Seen(search.shards[s]) /\ search.shards[s] \in TaskValue
      BY <1>2
    <3>2. Seen(NoTask) = <<"none">>
      BY SeenValues
    <3>3. Seen(search.shards[s]) = <<"none">> => search.shards[s][1] = "none"
      BY DEF Seen
    <3> QED
      BY <3>1, <3>2, <3>3, TaskKinds
  <2> QED
    BY <2>1, <2>2 DEF Total
<1>7. PICK ans : /\ search' = [search EXCEPT !.pc = "done", !.answer = ans]
                 /\ \/ Responded = {} /\ ans = <<"AllShardsFailed">>
                    \/ /\ Responded # {}
                       /\ \E o \in Orders(Responded) :
                            ans = <<"ok", MergeResults([i \in DOMAIN o |-> search.shards[o[i]][2]], Limit),
                                    Responded # Total>>
  <2>1. CASE Responded = {}
    BY <2>1 DEF Collect
  <2>2. CASE Responded # {}
    <3>1. PICK o \in Orders(Responded) :
             search' = [search EXCEPT !.pc = "done",
               !.answer = <<"ok", MergeResults([i \in DOMAIN o |-> search.shards[o[i]][2]], Limit),
                            Responded # Total>>]
      BY <2>2 DEF Collect
    <3> DEFINE ans == <<"ok", MergeResults([i \in DOMAIN o |-> search.shards[o[i]][2]], Limit),
                        Responded # Total>>
    <3>2. search' = [search EXCEPT !.pc = "done", !.answer = ans]
      BY <3>1
    <3>3. \E p \in Orders(Responded) :
            ans = <<"ok", MergeResults([i \in DOMAIN p |-> search.shards[p[i]][2]], Limit),
                    Responded # Total>>
      BY Zenon
    <3> HIDE DEF ans
    <3> QED
      BY <2>2, <3>2, <3>3
  <2> QED
    BY <2>1, <2>2
<1>8. search'.pc = "done" /\ search'.answer = ans /\ search'.shards = search.shards
  BY <1>7 DEF SearchInv
<1>9. SearchInv'
  BY <1>7 DEF SearchInv
<1>10. Phase' = "answered" /\ Replies' = Replies
  BY <1>8 DEF Phase, Replies, Seen
<1> DEFINE all == UNION {SG!Elements(Replies[s][2]) : s \in SG!Answered}
<1>11. CASE Responded = {}
  <2>1. SG!Answered = {} /\ search'.answer = <<"AllShardsFailed">>
    BY <1>5, <1>7, <1>8, <1>11
  <2>2. SG!Finish
    BY <1>3, <1>4, <1>10, <2>1 DEF SG!Finish, Phase, Replies, Seen
  <2> QED
    BY <1>9, <2>2 DEF SG!SGNext
<1>12. CASE Responded # {}
  <2>1. PICK o \in Orders(Responded) :
          ans = <<"ok", MergeResults([i \in DOMAIN o |-> search.shards[o[i]][2]], Limit), Responded # Total>>
    BY <1>7, <1>12
  <2> DEFINE g == [s \in Shards |-> search.shards[s][2]]
             lists == [i \in DOMAIN o |-> search.shards[o[i]][2]]
  <2>2. Responded \in SUBSET Shards /\ \A s \in Responded : g[s] \in Seq(Result) /\ Replies[s][2] = g[s]
    <3>1. \A s \in Responded : s \in Shards /\ search.shards[s][1] = "ok"
      BY DEF Responded
    <3>2. ASSUME NEW s \in Responded PROVE g[s] \in Seq(Result) /\ Replies[s][2] = g[s]
      <4>1. search.shards[s][2] \in Seq(Result)
        BY <1>2, <3>1, TaskKinds
      <4>2. Seen(search.shards[s]) = search.shards[s]
        BY <3>1 DEF Seen
      <4> QED
        BY <1>2, <3>1, <4>1, <4>2
    <3> QED
      BY <3>1, <3>2
  <2>3. InOrder(lists, o, g)
    <3>1. \A i \in DOMAIN o : o[i] \in Shards
      BY <2>2 DEF Orders
    <3> QED
      BY <3>1 DEF InOrder
  <2> HIDE DEF g, lists
  <2>4. /\ Len(lists) \in Nat /\ Len(lists) # 0
        /\ \A i \in 1..Len(lists) : lists[i] \in Seq(Result)
        /\ \A x : (\E s \in Responded : \E k \in DOMAIN g[s] : g[s][k] = x)
                  <=> (\E i \in 1..Len(lists) : \E k \in DOMAIN lists[i] : lists[i][k] = x)
    <3>1. \A s \in Responded : g[s] \in Seq(Result)
      BY <2>2
    <3>2. ListsAll(lists, Responded, g)
      BY <1>12, <2>2, <2>3, <3>1, OrderedAnswers
    <3> QED
      BY <3>2 DEF ListsAll
  <2>5. \A x : x \in all <=> \E i \in 1..Len(lists) : \E k \in DOMAIN lists[i] : lists[i][k] = x
    <3>1. \A x : x \in all <=> \E s \in Responded : \E k \in DOMAIN g[s] : g[s][k] = x
      BY <1>5, <2>2 DEF SG!Elements
    <3> HIDE DEF all
    <3> QED
      BY <2>4, <3>1
  <2> HIDE DEF all
  <2>6. SG!IsTopK(MergeResults(lists, Limit), all)
    BY <2>4, <2>5, MergeIsTopK
  <2>7. /\ search'.answer[1] = "ok"
        /\ search'.answer[2] = MergeResults(lists, Limit)
        /\ search'.answer[3] = (Responded # Total)
    BY <1>8, <2>1 DEF lists
  <2>8. SG!Finish
    BY <1>3, <1>4, <1>5, <1>6, <1>10, <1>12, <2>6, <2>7 DEF SG!Finish, Phase, Replies, Seen, all
  <2> QED
    BY <1>9, <2>8 DEF SG!SGNext
<1> QED
  BY <1>11, <1>12

\* The node that searches has a storage engine: BeginSearch needs one, and none
\* goes away.
OwnStorage == search.pc = "gather" => Self \in HasStorage

\* A node does not lose its storage engine, and a search keeps its node's.
LEMMA OwnStorageStep ==
    ASSUME CInv, SearchInv, OwnStorage, [Next]_vars
    PROVE  OwnStorage'
<1>0. stored \in Stores /\ InsertInv /\ Self \in Nodes
  BY SelfIsNode DEF CInv, TInv, TypeOK, Stores
<1>1. ASSUME NEW n \in Nodes, n \in HasStorage, NEW i \in Ids, NEW d \in Distances,
             stored' = [stored EXCEPT ![n][i] = d]
      PROVE  Self \in HasStorage => Self \in HasStorage'
  <2>1. CASE n = Self
    <3>1. stored[n] \in [Ids -> Distances \union {0}]
      BY <1>0, <1>1 DEF HasStorage, Stores
    <3>2. stored'[n] = [stored[n] EXCEPT ![i] = d]
      BY <1>0, <1>1 DEF Stores
    <3>3. stored'[n][i] = d /\ DOMAIN stored'[n] = Ids
      BY <3>1, <3>2
    <3>4. stored'[n] # <<>>
      BY <3>3
    <3> QED
      BY <1>0, <2>1, <3>4 DEF HasStorage
  <2>2. CASE n # Self
    BY <1>0, <1>1, <2>2 DEF HasStorage, Stores
  <2> QED
    BY <2>1, <2>2
<1>2. CASE UNCHANGED stored /\ (search'.pc = "gather" => search.pc = "gather")
  BY <1>2 DEF OwnStorage, HasStorage
<1>3. ASSUME search' = search,
             \E n \in HasStorage, i \in Ids, d \in Distances : stored' = [stored EXCEPT ![n][i] = d]
      PROVE  OwnStorage'
  <2>1. HasStorage \subseteq Nodes
    BY DEF HasStorage
  <2>2. Self \in HasStorage => Self \in HasStorage'
    BY <1>1, <1>3, <2>1
  <2> QED
    BY <1>3, <2>2 DEF OwnStorage
<1>4. CASE Start \/ Leave \/ AssignmentCall \/ RegistryCall \/ ElectionCall \/ ApiElectionCall
  BY <1>2, <1>4 DEF Start, Leave, AssignmentCall, RegistryCall, ElectionCall, ApiElectionCall, queryVars
<1>5. CASE FailoverCall \/ LoopTick \/ \E t \in Tasks : FailoverStep(t)
  BY <1>2, <1>5 DEF FailoverCall, LoopTick, FailoverStep, queryVars
<1>6. CASE ClientCall
  <2>1. CASE BeginSearch
    BY <2>1 DEF BeginSearch, OwnStorage, HasStorage
  <2>2. ASSUME NEW i \in Ids, NEW d \in Distances, BeginInsert(i, d) \/ InternalInsert(i, d)
        PROVE  OwnStorage'
    BY <1>2, <1>3, <2>2 DEF BeginInsert, InternalInsert
  <2>3. ASSUME NEW i \in Ids, NEW n \in Nodes, InternalReplicate(i, n) PROVE OwnStorage'
    <3>1. stored[n][i] \in Distances
      BY <1>0, <2>3 DEF InternalReplicate, HasStorage, Stores
    <3> QED
      BY <1>3, <2>3, <3>1 DEF InternalReplicate
  <2> QED
    BY <1>6, <2>1, <2>2, <2>3 DEF ClientCall
<1>7. ASSUME NEW s \in Shards, SearchStep(s) PROVE OwnStorage'
  <2>1. UNCHANGED stored /\ search.pc = "gather"
    BY <1>7 DEF SearchStep, SearchShard, ShardTimeout
  <2> QED
    BY <1>2, <2>1
<1>8. ASSUME NEW s \in Shards, NEW n \in Nodes, PeerSearches(s, n) \/ PeerUnreachable(s, n)
      PROVE  OwnStorage'
  <2>1. UNCHANGED stored /\ search.pc = "gather"
    BY <1>8 DEF PeerSearches, PeerUnreachable
  <2> QED
    BY <1>2, <2>1
<1>9. CASE Collect
  BY <1>2, <1>9 DEF Collect
<1>10. ASSUME NEW n \in HasStorage, NEW c, RespondStored(c, n), search' = search,
              insert.pc \in {"local", "sent"}
       PROVE  OwnStorage'
  <2>1. insert.id \in Ids /\ insert.dist \in Distances
    BY <1>0, <1>10 DEF InsertInv
  <2> QED
    BY <1>3, <1>10, <2>1 DEF RespondStored
<1>11. ASSUME NEW c, Respond(c), search' = search PROVE OwnStorage'
  BY <1>2, <1>11 DEF Respond
<1>12. CASE LookupLeader
  BY <1>2, <1>12 DEF LookupLeader, Respond
<1>13. CASE LocalInsert
  BY <1>10, <1>11, <1>13 DEF LocalInsert
<1>14. ASSUME NEW n \in Nodes, ResolveLeader(n) PROVE OwnStorage'
  BY <1>2, <1>14 DEF ResolveLeader, Respond
<1>15. ASSUME NEW n \in Nodes, PeerInserts(n) PROVE OwnStorage'
  BY <1>10, <1>11, <1>15 DEF PeerInserts
<1>16. CASE UNCHANGED vars
  BY <1>2, <1>16 DEF vars, queryVars
<1> QED
  BY <1>4, <1>5, <1>6, <1>7, <1>8, <1>9, <1>12, <1>13, <1>14, <1>15, <1>16
     DEF Next, QueryStep, PeerStep, InsertStep

\* Every step of the node keeps the promise of its search.
LEMMA PromiseStep ==
    ASSUME CInv, SearchInv, OwnStorage, [Next]_vars
    PROVE  SearchInv' /\ (SG!SGNext \/ UNCHANGED SG!sgVars)
<1> DEFINE Goal == SearchInv' /\ (SG!SGNext \/ UNCHANGED SG!sgVars)
<1>0. stored \in Stores
  BY DEF CInv, TInv, TypeOK, Stores
<1>1. ASSUME search' = search PROVE Goal
  BY <1>1 DEF SearchInv, SG!sgVars
<1>2. CASE Start \/ Leave \/ AssignmentCall \/ RegistryCall \/ ElectionCall \/ ApiElectionCall
  BY <1>1, <1>2 DEF Start, Leave, AssignmentCall, RegistryCall, ElectionCall, ApiElectionCall, queryVars
<1>3. CASE FailoverCall \/ LoopTick \/ \E t \in Tasks : FailoverStep(t)
  BY <1>1, <1>3 DEF FailoverCall, LoopTick, FailoverStep, queryVars
<1>4. CASE ClientCall
  BY <1>1, <1>4, BeginKeepsPromise DEF ClientCall, BeginInsert, InternalInsert, InternalReplicate
\* A pending task that is given a value.
<1>5. ASSUME NEW s \in Shards, search.pc = "gather", Seen(search.shards[s]) = <<"pending">>,
             NEW v, \/ v = Failed
                    \/ \E n \in Nodes : v = AskedOf(n)
                    \/ \E rs \in Seq(Result) : v = Ok(rs),
             NEW x, search' = [search EXCEPT !.shards[s] = v, !.searched = x]
      PROVE  Goal
  <2>1. v \in TaskValue
    BY <1>5 DEF TaskValue
  <2>2. v # NoTask /\ v # Spawned
    <3>1. v[1] \in {"failed", "asked", "ok"}
      BY <1>5 DEF Failed, AskedOf, Ok
    <3> QED
      BY <3>1 DEF NoTask, Spawned
  <2> QED
    BY <1>5, <2>1, <2>2, TaskStepKeepsPromise
<1>6. ASSUME NEW s \in Shards, search.pc = "gather", Seen(search.shards[s]) = <<"pending">>,
             NEW v, v = Failed \/ (\E n \in Nodes : v = AskedOf(n)) \/ v = Ok(<<>>), Resolve(s, v)
      PROVE  Goal
  <2>1. search' = [search EXCEPT !.shards[s] = v, !.searched = search.searched]
    BY <1>6 DEF Resolve, SearchInv
  <2>2. <<>> \in Seq(Result)
    OBVIOUS
  <2> HIDE DEF Goal
  <2> QED
    BY <1>5, <1>6, <2>1, <2>2
<1>7. ASSUME NEW s \in Shards, search.pc = "gather", Seen(search.shards[s]) = <<"pending">>,
             NEW n \in HasStorage,
             search' = [search EXCEPT !.shards[s] = Ok(StorageSearch(n)), !.searched = @ \union {s}]
      PROVE  Goal
  <2>1. StorageSearch(n) \in Seq(Result)
    BY <1>0, StorageSearchIsList
  <2> HIDE DEF Goal
  <2> QED
    BY <1>5, <1>7, <2>1
<1>8. ASSUME NEW s \in Shards, SearchShard(s) PROVE Goal
  <2>1. search.pc = "gather" /\ Seen(search.shards[s]) = <<"pending">>
    BY <1>8, SeenValues DEF SearchShard
  <2>2. Self \in HasStorage
    BY <2>1 DEF OwnStorage
  <2>3. Assigned(s) => LeaderOf(s) \in Nodes
    BY DEF CInv, TInv, TypeOK, ManagerTypeOK, Assigned, LeaderOf, Option, Assignment
  <2> HIDE DEF Goal
  <2>4. CASE Resolve(s, Failed)
    BY <1>6, <2>1, <2>4
  <2>5. ASSUME Assigned(s), Resolve(s, AskedOf(LeaderOf(s))) PROVE Goal
    BY <1>6, <2>1, <2>3, <2>5
  <2>6. CASE search' = [search EXCEPT !.shards[s] = Ok(StorageSearch(Self)), !.searched = @ \union {s}]
    BY <1>7, <2>1, <2>2, <2>6
  <2> QED
    BY <1>8, <2>4, <2>5, <2>6 DEF SearchShard
<1>9. ASSUME NEW s \in Shards, ShardTimeout(s) PROVE Goal
  <2>1. search.pc = "gather" /\ Seen(search.shards[s]) = <<"pending">> /\ Resolve(s, Failed)
    BY <1>9, SeenValues DEF ShardTimeout
  <2> HIDE DEF Goal
  <2> QED
    BY <1>6, <2>1
<1>10. ASSUME NEW s \in Shards, NEW n \in Nodes, PeerSearches(s, n) PROVE Goal
  <2>1. search.pc = "gather" /\ Seen(search.shards[s]) = <<"pending">>
    BY <1>10, SeenValues DEF PeerSearches
  <2> HIDE DEF Goal
  <2>2. CASE Resolve(s, Ok(<<>>))
    BY <1>6, <2>1, <2>2
  <2> QED
    BY <1>7, <1>10, <2>1, <2>2 DEF PeerSearches
<1>11. ASSUME NEW s \in Shards, NEW n \in Nodes, PeerUnreachable(s, n) PROVE Goal
  <2>1. search.pc = "gather" /\ Seen(search.shards[s]) = <<"pending">> /\ Resolve(s, Failed)
    BY <1>11, SeenValues DEF PeerUnreachable
  <2> HIDE DEF Goal
  <2> QED
    BY <1>6, <2>1
<1>12. CASE InsertStep \/ \E n \in Nodes : PeerInserts(n)
  BY <1>1, <1>12 DEF InsertStep, LookupLeader, LocalInsert, ResolveLeader, PeerInserts
<1>13. CASE Collect
  BY <1>13, CollectKeepsPromise
<1>14. CASE UNCHANGED vars
  BY <1>1, <1>14 DEF vars, queryVars
<1> QED
  BY <1>2, <1>3, <1>4, <1>8, <1>9, <1>10, <1>11, <1>12, <1>13, <1>14
     DEF Next, QueryStep, PeerStep, SearchStep

\* A node that has not searched yet is where the promise begins.
LEMMA PromiseInit == Init => SearchInv /\ OwnStorage /\ SG!SGInit
<1> SUFFICES ASSUME Init PROVE SearchInv /\ OwnStorage /\ SG!SGInit
  OBVIOUS
<1>1. search = [pc |-> "idle", shards |-> [s \in Shards |-> NoTask], answer |-> <<>>, searched |-> {}]
  BY DEF Init, CoordinatorInit, IdleSearch
<1>2. SearchInv /\ OwnStorage
  BY <1>1 DEF SearchInv, OwnStorage, TaskValue
<1>3. SG!SGInit
  BY <1>1 DEF SG!SGInit, NoTask
<1> QED
  BY <1>2, <1>3

\* The coordinator implements the promise: whatever the shard table, the stores
\* and the elections do while a search runs, whichever peers answer, fail or time
\* out, the answer lists the best distinct vectors of the shards that answered
\* and is flagged partial exactly when one of them is missing.
THEOREM ClusterScatterGather == Spec => ScatterGatherPromise
<1> DEFINE PInv == SearchInv /\ OwnStorage
<1>1. Init => PInv /\ SG!SGInit
  BY PromiseInit
<1>2. CInv /\ PInv /\ [Next]_vars => PInv' /\ [SG!SGNext]_(SG!sgVars)
  BY PromiseStep, OwnStorageStep
<1> HIDE DEF PInv
<1>3. Spec => SG!SGInit /\ [][SG!SGNext]_(SG!sgVars)
  BY <1>1, <1>2, ClusterInvariant, PTL DEF Spec
<1> QED
  BY <1>3 DEF ScatterGatherPromise, SG!SGSpec
=============================================================================
