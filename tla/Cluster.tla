------------------------------ MODULE Cluster ------------------------------
(***************************************************************************)
(* One cluster node (tesseract-cluster/src/cluster.rs, cluster_node.rs):    *)
(* membership, election, failover, search and insert forwarding over the    *)
(* shard table and the registry they share.                                *)
(*                                                                         *)
(* ClusterState::new makes two LeaderElection objects: the failover        *)
(* manager's, whose state is shardStates, and leader_election, whose state *)
(* is apiStates and which only the status endpoints read.                  *)
(***************************************************************************)
EXTENDS Failover, QueryCoordinator

CONSTANTS SelfAddr,                          \* identity.addr
          Bootstraps,                        \* [table, registry, stores] a node may start with
          MaxOps                             \* bound: calls of clients, operators and clocks

ASSUME SelfAddrAssumption == SelfAddr \in Addrs
ASSUME BootstrapsAssumption ==
  \A b \in Bootstraps :
    /\ b.table \in [Shards -> Option(Assignment)]
    /\ b.registry \in [Nodes -> Option(NodeInfo)]
    /\ b.stores \in [Nodes -> [Ids -> Distances \union {0}] \union {<<>>}]
ASSUME MaxOpsAssumption == MaxOps \in Nat

VARIABLES apiStates, apiHeartbeats,  \* ClusterState.leader_election
          running,                   \* start() has joined and spawned the loop
          ops,                       \* calls made so far
          overridden                 \* history: shards an operator reassigned since their promotion

ApiElection == INSTANCE LeaderElection WITH shardStates <- apiStates, heartbeats <- apiHeartbeats

electionVars == <<shardStates, heartbeats, replications, task>>
memberVars == <<assignments, registry, running, overridden>>
queryVars == <<stored, search, insert>>
apiVars == <<apiStates, apiHeartbeats>>
vars == <<electionVars, memberVars, queryVars, apiVars, ops>>

TypeOK ==
  /\ ElectionTypeOK /\ ManagerTypeOK /\ FailoverTypeOK
  /\ ApiElection!ElectionTypeOK
  /\ stored \in [Nodes -> [Ids -> Distances \union {0}] \union {<<>>}]
  /\ insert.status \in {0, 201, 400, 500, 502, 503}
  /\ running \in BOOLEAN /\ ops \in 0..MaxOps /\ overridden \subseteq Shards

Init ==
  /\ ElectionInit /\ FailoverInit /\ CoordinatorInit
  /\ ApiElection!ElectionInit
  \* ClusterState::new is given a shard table and a registry; the storage
  \* engines come up with what they recovered.
  /\ \E b \in Bootstraps :
       assignments = b.table /\ registry = b.registry /\ stored = b.stores
  /\ running = FALSE
  /\ ops = 0
  /\ overridden = {}

-----------------------------------------------------------------------------
Call == ops < MaxOps /\ ops' = ops + 1

\* ClusterNode::start: join with the shards this node holds, then the loop.
Start ==
  /\ ~running
  /\ Register(Self, SelfAddr, MyShards)
  /\ running' = TRUE
  /\ UNCHANGED <<electionVars, assignments, overridden, queryVars, apiVars, ops>>

\* ClusterState::leave: only the registry entry goes.
Leave ==
  /\ Call /\ Unregister(Self)
  /\ UNCHANGED <<electionVars, assignments, overridden, running, queryVars, apiVars>>

\* Calls on the shard table.
AssignmentCall ==
  /\ Call
  /\ \/ \E s \in Shards, n \in Nodes : AssignShard(s, n) \/ AddReplica(s, n)
     \/ \E n \in Nodes : RemoveNode(n)
     \/ \E b \in Bootstraps : LoadAssignments(b.table)
  /\ overridden' = overridden \union {s \in Shards : assignments'[s] # assignments[s]}
  /\ UNCHANGED <<electionVars, registry, running, queryVars, apiVars>>

\* Calls on the registry, by peers and by whoever watches them.
RegistryCall ==
  /\ Call
  /\ \/ \E n \in Nodes \ {Self}, a \in Addrs : Register(n, a, {})
     \/ \E n \in Nodes \ {Self} : Heartbeat(n) \/ MarkDead(n) \/ Unregister(n) \/ NodeAges(n)
     \/ CheckHeartbeats
  /\ UNCHANGED <<electionVars, assignments, overridden, running, queryVars, apiVars>>

\* Calls on the failover manager's election, and its clock.
ElectionCall ==
  /\ Call
  /\ \E s \in Shards :
       \/ \E l \in Nodes \ {Self} : SetLeader(s, l)
       \/ RecordLeaderHeartbeat(s)
       \/ HeartbeatAges(s)
  /\ UNCHANGED <<replications, task, memberVars, queryVars, apiVars>>

\* Calls on ClusterState.leader_election.
ApiElectionCall ==
  /\ Call
  /\ \E s \in Shards : \E l \in Nodes \ {Self} : ApiElection!SetLeader(s, l)
  /\ UNCHANGED <<electionVars, memberVars, queryVars>>

FailoverCall ==
  /\ Call
  /\ \/ \E s \in Shards :
          \/ \E lag \in {"within", "behind"} : SetReplicationEngine(s, lag)
          \/ RemoveReplicationEngine(s)
          \/ CallPromote(s)
     \/ Tick("call")
  /\ UNCHANGED <<registry, overridden, running, queryVars, apiVars>>

LoopTick ==
  /\ running /\ Tick("loop")
  /\ UNCHANGED <<registry, overridden, running, queryVars, apiVars, ops>>

FailoverStep(t) ==
  /\ TaskStep(t)
  /\ overridden' = IF task[t].pc = "assign" THEN overridden \ task[t].shard ELSE overridden
  /\ UNCHANGED <<registry, running, queryVars, apiVars, ops>>

ClientCall ==
  /\ Call /\ running
  /\ \/ BeginSearch
     \/ \E i \in Ids, d \in Distances : BeginInsert(i, d) \/ InternalInsert(i, d)
     \/ \E i \in Ids, n \in Nodes \ {Self} : InternalReplicate(i, n)
  /\ UNCHANGED <<electionVars, memberVars, apiVars>>

\* The coordinator's own steps, and the steps of the peers it waits for.
SearchStep(s) == SearchShard(s) \/ ShardTimeout(s)
PeerStep ==
  \/ \E s \in Shards, n \in Nodes : PeerSearches(s, n) \/ PeerUnreachable(s, n)
  \/ \E n \in Nodes : PeerInserts(n)
InsertStep == LookupLeader \/ LocalInsert \/ \E n \in Nodes : ResolveLeader(n)
QueryStep ==
  /\ PeerStep \/ InsertStep \/ Collect \/ \E s \in Shards : SearchStep(s)
  /\ UNCHANGED <<electionVars, memberVars, apiVars, ops>>

Next ==
  \/ Start \/ Leave \/ AssignmentCall \/ RegistryCall \/ ElectionCall \/ ApiElectionCall
  \/ FailoverCall \/ LoopTick \/ ClientCall \/ QueryStep
  \/ \E t \in Tasks : FailoverStep(t)

\* The runtime keeps running the monitoring loop and fires the timers of a
\* search; peers and callers promise nothing.
LoopStep == LoopTick \/ FailoverStep("loop")
Timers ==
  /\ \E s \in Shards : ShardTimeout(s)
  /\ UNCHANGED <<electionVars, memberVars, apiVars, ops>>
Fairness == WF_vars(LoopStep) /\ WF_vars(Timers)

Spec == Init /\ [][Next]_vars /\ Fairness

-----------------------------------------------------------------------------
\* The status endpoints: what they read.
ClusterHealth ==
  [active_nodes |-> Cardinality(ActiveNodes),
   total_shards |-> Cardinality(AssignedLeaders),
   leaderships |-> Cardinality(ApiElection!MyLeaderships),
   followerships |-> Cardinality(ApiElection!MyFollowerships)]
InternalHealth == [is_leader |-> ApiElection!MyLeaderships # {},
                   shards |-> ApiElection!MyLeaderships]
PromotionCandidatesReport ==
  [s \in ApiElection!MyFollowerships |->
     s \in DOMAIN PromotionCandidates /\ PromotionCandidates[s]]

-----------------------------------------------------------------------------
\* A Candidate is never left behind: whenever the election of a shard stands
\* at Candidate, some failover task is about to decide it.  A shard stuck
\* there is no followership any more and no later tick would look at it.
NoStuckCandidate ==
  \A s \in Shards : shardStates[s] = Candidate =>
    \E t \in Tasks : task[t].pc = "win" /\ On(t, s)

\* The election and the shard table agree on what this node leads: a shard
\* won in an election is routed to this node, unless its promotion is still
\* between win_election and assign_shard or an operator changed the table.
LeaderIsRouted ==
  \A s \in MyLeaderships \ overridden :
    \/ \E t \in Tasks : task[t].pc = "assign" /\ On(t, s)
    \/ Assigned(s) /\ LeaderOf(s) = Self

\* What a client is told about its insert is true: 201 means that the node it
\* was sent to stored it, 500 and 503 mean that nobody did; only 400 and 502
\* leave it open.
InsertOutcome ==
  insert.pc = "done" =>
    /\ insert.status = 201 => insert.at # {} /\ insert.at = insert.leader
    /\ insert.status \in {500, 503} => insert.at = {}

\* A dead node is not suspected, and it comes back only by a heartbeat or a
\* registration of its own; a heartbeat check never brings a node back.
DeadStaysDead ==
  [][\A n \in Nodes : Registered(n) /\ registry'[n] # <<>> =>
        /\ registry[n][1].status = "Dead" => registry'[n][1].status # "Suspect"
        /\ registry[n][1].status # "Active" /\ registry'[n][1].status = "Active"
             => registry'[n][1].fresh]_registry

\* The coordinator implements the scatter-gather promise.  Unassigned shards are
\* outside of it: search asks the shards of the shard table only, and partial is
\* about the shards that were asked (UnassignedReported says otherwise).
SG == INSTANCE ScatterGather WITH
  Results <- Seq(Result),
  phase <- IF search.pc = "gather" THEN "asking"
           ELSE IF search.pc = "done" THEN "answered" ELSE "idle",
  replies <- [s \in Shards |->
                IF search.shards[s][1] \in {"spawned", "asked"} THEN <<"pending">>
                ELSE search.shards[s]],
  outcome <- search.answer
ScatterGatherPromise == SG!SGSpec

\* A follower whose leader stays silent and whose lag stays within the bound
\* does not stay a follower: the loop promotes this node.
EligiblePromoted ==
  \A s \in Shards :
    (running /\ s \in MyFollowerships /\ HasLeaderTimedOut(s) /\ IsEligibleForPromotion(s))
      ~> ~(s \in MyFollowerships /\ HasLeaderTimedOut(s) /\ IsEligibleForPromotion(s))

\* No search waits for ever, whatever the peers do: each of its tasks ends in
\* an answer, an error or its timeout, and the answer can be put together.
SearchUnblocked ==
  search.pc = "gather" ~> \A s \in Total : search.shards[s][1] \in {"ok", "failed"}

\* partial is set when some shard that was asked failed to run the query.
PartialReported ==
  search.pc = "done" /\ search.answer[1] = "ok" /\ ~search.answer[3] =>
    Total \subseteq search.searched

\* partial is set when some shard has no leader and cannot be asked.
UnassignedReported ==
  search.pc = "done" /\ search.answer[1] = "ok" /\ ~search.answer[3] => Total = Shards
=============================================================================
