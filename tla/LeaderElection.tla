--------------------------- MODULE LeaderElection ---------------------------
(***************************************************************************)
(* One LeaderElection object: what one node believes about the leader of   *)
(* every shard (tesseract-cluster/src/leader_election.rs).  Every method   *)
(* is one critical section of the object's lock.                           *)
(*                                                                         *)
(* Instants are abstracted to what has_leader_timed_out tells apart: no    *)
(* heartbeat ever, one within the election timeout, an older one.          *)
(***************************************************************************)
EXTENDS ClusterConfig

VARIABLES shardStates,   \* shard -> ElectionState; NoLeader when absent
          heartbeats     \* shard -> age of the last leader heartbeat

NoLeader == <<"noleader">>
Candidate == <<"candidate">>
Leader == <<"leader">>
Follower(l) == <<"follower", l>>
ElectionState == {NoLeader, Candidate, Leader} \union {Follower(l) : l \in Nodes}

ElectionTypeOK ==
  /\ shardStates \in [Shards -> ElectionState]
  /\ heartbeats \in [Shards -> {"never", "fresh", "old"}]

ElectionInit ==
  /\ shardStates = [s \in Shards |-> NoLeader]
  /\ heartbeats = [s \in Shards |-> "never"]

\* has_leader_timed_out: a shard that never had a heartbeat counts as timed out.
HasLeaderTimedOut(s) == heartbeats[s] # "fresh"

MyFollowerships == {s \in Shards : \E l \in Nodes : shardStates[s] = Follower(l)}
MyLeaderships == {s \in Shards : shardStates[s] = Leader}
ElectedCount == Cardinality(MyFollowerships \union MyLeaderships)

\* Any state becomes Follower; no heartbeat is recorded.
SetLeader(s, l) ==
  /\ shardStates' = [shardStates EXCEPT ![s] = Follower(l)]
  /\ UNCHANGED heartbeats

\* Any state becomes Candidate, Leader included.
BecomeCandidate(s) ==
  /\ shardStates' = [shardStates EXCEPT ![s] = Candidate]
  /\ UNCHANGED heartbeats

\* Mutant: win_election looks at the heartbeats once more.
CanWin_Recheck(s) ==
  shardStates[s] = Leader \/ (shardStates[s] = Candidate /\ heartbeats[s] # "fresh")

\* Ok from Candidate (which also records a heartbeat) and, idempotent, from
\* Leader; an error from every other state.
CanWin(s) == shardStates[s] \in {Candidate, Leader}
WinElection(s) ==
  /\ CanWin(s)
  /\ shardStates' = [shardStates EXCEPT ![s] = Leader]
  /\ heartbeats' = IF shardStates[s] = Candidate
                   THEN [heartbeats EXCEPT ![s] = "fresh"] ELSE heartbeats
LoseElection(s) ==
  /\ ~CanWin(s)
  /\ UNCHANGED <<shardStates, heartbeats>>

RecordLeaderHeartbeat(s) ==
  /\ heartbeats' = [heartbeats EXCEPT ![s] = "fresh"]
  /\ UNCHANGED shardStates

\* election_timeout_ms passes since the last heartbeat.
HeartbeatAges(s) ==
  /\ heartbeats[s] = "fresh"
  /\ heartbeats' = [heartbeats EXCEPT ![s] = "old"]
  /\ UNCHANGED shardStates
=============================================================================
