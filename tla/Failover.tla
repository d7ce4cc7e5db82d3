------------------------------ MODULE Failover ------------------------------
(***************************************************************************)
(* The failover manager of one node (tesseract-cluster/src/failover.rs).   *)
(*                                                                         *)
(* Two tasks may run its steps at once: the monitoring loop that start     *)
(* spawns, and a caller of check_and_failover or promote_to_leader.  Each  *)
(* access to the election, the replication engines or the shard manager    *)
(* takes its own lock, so every access is a step and other methods run in  *)
(* between.  The loop skips a shard whose election it loses; the calls     *)
(* return the error and leave their remaining shards.                      *)
(***************************************************************************)
EXTENDS LeaderElection, ShardManager

Tasks == {"loop", "call"}

VARIABLES replications,  \* shard -> "absent" | "within" | "behind" max_promotion_lag
          task           \* task -> [pc, todo, shard]

\* rep.replication_lag(node).unwrap_or(MAX) <= max_promotion_lag, with an engine.
IsEligibleForPromotion(s) == replications[s] = "within"

Idle == [pc |-> "idle", todo |-> {}, shard |-> {}]
TaskState == [pc : {"idle", "check", "eligible", "campaign", "win", "assign"},
              todo : SUBSET Shards, shard : {{}} \union {{s} : s \in Shards}]

FailoverTypeOK ==
  /\ replications \in [Shards -> {"absent", "within", "behind"}]
  /\ task \in [Tasks -> TaskState]

FailoverInit ==
  /\ replications = [s \in Shards |-> "absent"]
  /\ task = [t \in Tasks |-> Idle]

Goto(t, pc) == task' = [task EXCEPT ![t].pc = pc]
\* continue: the next shard of the followership snapshot.
NextShard(t) == task' = [task EXCEPT ![t].pc = "check", ![t].shard = {}]
On(t, s) == task[t].shard = {s}

\* interval.tick() of the loop, or a call of check_and_failover: the
\* followerships are read once.
Tick(t) ==
  /\ task[t].pc = "idle"
  /\ MyFollowerships # {}
  /\ task' = [task EXCEPT ![t] = [Idle EXCEPT !.pc = "check", !.todo = MyFollowerships]]
  /\ UNCHANGED <<shardStates, heartbeats, replications, assignments>>

\* promote_to_leader(s): no timeout check, s need not be followed.
CallPromote(s) ==
  /\ task["call"].pc = "idle"
  /\ task' = [task EXCEPT !["call"] = [pc |-> "eligible", todo |-> {}, shard |-> {s}]]
  /\ UNCHANGED <<shardStates, heartbeats, replications, assignments>>

CheckTimeout(t) ==
  /\ task[t].pc = "check"
  /\ \E s \in task[t].todo :
       task' = [task EXCEPT ![t] =
         [pc |-> IF HasLeaderTimedOut(s) THEN "eligible" ELSE "check",
          todo |-> @.todo \ {s},
          shard |-> IF HasLeaderTimedOut(s) THEN {s} ELSE {}]]
  /\ UNCHANGED <<shardStates, heartbeats, replications, assignments>>

\* Mutant: the loop ends with its first pass.
EndOfPass_Exit(t) ==
  /\ task[t].pc = "check" /\ task[t].todo = {}
  /\ UNCHANGED <<task, shardStates, heartbeats, replications, assignments>>

EndOfPass(t) ==
  /\ task[t].pc = "check" /\ task[t].todo = {}
  /\ task' = [task EXCEPT ![t] = Idle]
  /\ UNCHANGED <<shardStates, heartbeats, replications, assignments>>

CheckEligible(t, s) ==
  /\ task[t].pc = "eligible" /\ On(t, s)
  /\ IF IsEligibleForPromotion(s) THEN Goto(t, "campaign") ELSE NextShard(t)
  /\ UNCHANGED <<shardStates, heartbeats, replications, assignments>>

Campaign(t, s) ==
  /\ task[t].pc = "campaign" /\ On(t, s)
  /\ BecomeCandidate(s)
  /\ Goto(t, "win")
  /\ UNCHANGED <<replications, assignments>>

Win(t, s) ==
  /\ task[t].pc = "win" /\ On(t, s)
  /\ WinElection(s)
  /\ Goto(t, "assign")
  /\ UNCHANGED <<replications, assignments>>

\* A set_leader came between: the loop goes on, a call returns the error.
Lose(t, s) ==
  /\ task[t].pc = "win" /\ On(t, s)
  /\ LoseElection(s)
  /\ IF t = "loop" THEN NextShard(t) ELSE task' = [task EXCEPT ![t] = Idle]
  /\ UNCHANGED <<replications, assignments>>

Promote(t, s) ==
  /\ task[t].pc = "assign" /\ On(t, s)
  /\ AssignShard(s, Self)
  /\ NextShard(t)
  /\ UNCHANGED <<shardStates, heartbeats, replications>>

SetReplicationEngine(s, lag) ==
  /\ replications' = [replications EXCEPT ![s] = lag]
  /\ UNCHANGED <<shardStates, heartbeats, task, assignments>>

RemoveReplicationEngine(s) ==
  /\ replications[s] # "absent"
  /\ replications' = [replications EXCEPT ![s] = "absent"]
  /\ UNCHANGED <<shardStates, heartbeats, task, assignments>>

\* Followed shards with their eligibility.
PromotionCandidates == [s \in MyFollowerships |-> IsEligibleForPromotion(s)]

TaskStep(t) ==
  \/ CheckTimeout(t)
  \/ EndOfPass(t)
  \/ \E s \in Shards :
       CheckEligible(t, s) \/ Campaign(t, s) \/ Win(t, s) \/ Lose(t, s) \/ Promote(t, s)
=============================================================================
