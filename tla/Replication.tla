----------------------------- MODULE Replication -----------------------------
(***************************************************************************)
(* Replication from a shard leader to its followers in tesseract-cluster:  *)
(* the leader's ReplicationEngine (replication.rs), the request and its    *)
(* response (replication_client.rs) and the follower's handler             *)
(* (replication_handler.rs).                                               *)
(*                                                                         *)
(* An entry is its transaction id.  Every lock of the engine is held for   *)
(* one step, and a call that takes two locks one after the other is two or *)
(* three actions.  Requests and responses stay in the network for ever:    *)
(* they may be lost, duplicated, delayed and overtaken.                    *)
(***************************************************************************)
EXTENDS Integers, Sequences, FiniteSets

CONSTANTS
    Writers,       \* leader tasks that log a mutation and call record_entry
    Followers,     \* nodes that may be replicas of the shard
    MaxLag,        \* ReplicationConfig.max_lag_entries
    MaxTxn,        \* bound: transaction ids
    Bounds         \* bounds: [writers, members, changes, restarts], the writers that ever
                   \* log, the followers that are ever added, the calls of add_replica
                   \* and remove_replica, the restarts

ASSUME WritersAssumption == IsFiniteSet(Writers)
ASSUME FollowersAssumption == IsFiniteSet(Followers)
ASSUME BoundsAssumption ==
    /\ MaxLag \in Nat /\ MaxTxn \in Nat
    /\ \A b \in Bounds : b.members \subseteq Followers /\ b.changes \in Nat /\ b.restarts \in Nat

Txn == 1..MaxTxn

VARIABLES
    \* the leader's engine
    pending,     \* pending_entries
    replicas,    \* keys of the replicas map
    lastAcked,   \* last_acked_txn_id of each replica
    state,       \* ReplicaState of each replica
    \* calls in progress on the leader
    wpc, wtxn, wmax,  \* record_entry of each writer: step, entry, highest id read
    spc, sfrom,       \* pending_for_replica for each follower: step, id read
    apc, atxn, amax,  \* ack for each follower: step, id acknowledged, highest id read
    tpc, tmin,        \* trim_acked: step, lowest id read
    \* network and followers
    requests,    \* batches sent
    responses,   \* successful responses
    applied,     \* entries in each follower's store
    \* history
    nextTxn, changes, restarts,
    bound,       \* the member of Bounds this behaviour keeps to
    recorded,    \* entries record_entry has queued
    overtaken,   \* those queued after an entry with a larger id
    watched,     \* replicas registered without a break since trim_acked's first step
    lost         \* entries a follower lacks because they had left the queue when
                 \* it was added, or were about to, or that it lost in a restart

engine == <<pending, replicas, lastAcked, state>>
records == <<wpc, wtxn, wmax, nextTxn, recorded, overtaken>>
sends == <<spc, sfrom, requests>>
acks == <<apc, atxn, amax>>
trims == <<tpc, tmin, watched>>
nodes == <<responses, applied, changes, restarts, bound, lost>>
vars == <<engine, records, sends, acks, trims, nodes>>

Elems(s) == {s[k] : k \in DOMAIN s}

\* entries.last(): the entry queued last, whatever its id.
LastPending == IF pending = <<>> THEN 0 ELSE pending[Len(pending)]

\* saturating_sub
Minus(m, n) == IF m > n THEN m - n ELSE 0

\* The entries of s above t, in order: filter in pending_for_replica, retain in
\* trim_acked.
After(s, t) ==
    LET F[i \in 0..Len(s)] ==
            IF i = 0 THEN <<>>
            ELSE IF s[i] > t THEN Append(F[i - 1], s[i])
            ELSE F[i - 1]
    IN  F[Len(s)]

\* replication_lag
ReplicationLag(f) == Minus(LastPending, lastAcked[f])

-----------------------------------------------------------------------------
Init ==
    /\ pending = <<>>
    /\ replicas = {}
    /\ lastAcked = [f \in Followers |-> 0]
    /\ state = [f \in Followers |-> "Synced"]
    /\ wpc = [w \in Writers |-> "idle"]
    /\ wtxn = [w \in Writers |-> 0]
    /\ wmax = [w \in Writers |-> 0]
    /\ spc = [f \in Followers |-> "idle"]
    /\ sfrom = [f \in Followers |-> 0]
    /\ apc = [f \in Followers |-> "idle"]
    /\ atxn = [f \in Followers |-> 0]
    /\ amax = [f \in Followers |-> 0]
    /\ tpc = "idle" /\ tmin = 0 /\ watched = {}
    /\ requests = {} /\ responses = {}
    /\ applied = [f \in Followers |-> {}]
    /\ nextTxn = 1 /\ changes = 0 /\ restarts = 0 /\ bound \in Bounds
    /\ recorded = {} /\ overtaken = {}
    /\ lost = [f \in Followers |-> {}]

-----------------------------------------------------------------------------
(* record_entry, after the leader's WAL append *)

\* The WAL gives the mutation its transaction id.
LogMutation(w) ==
    /\ wpc[w] = "idle"
    /\ w \in bound.writers /\ nextTxn <= MaxTxn
    /\ nextTxn' = nextTxn + 1
    /\ wtxn' = [wtxn EXCEPT ![w] = nextTxn]
    /\ wpc' = [wpc EXCEPT ![w] = "logged"]
    /\ UNCHANGED <<engine, wmax, recorded, overtaken, sends, acks, trims, nodes>>

\* Two writers may queue their entries in the other order than the log has them.
RecordPush(w) ==
    /\ wpc[w] = "logged"
    /\ pending' = Append(pending, wtxn[w])
    /\ recorded' = recorded \cup {wtxn[w]}
    /\ overtaken' = IF \E u \in recorded : u > wtxn[w]
                    THEN overtaken \cup {wtxn[w]} ELSE overtaken
    /\ wpc' = [wpc EXCEPT ![w] = "pushed"]
    /\ UNCHANGED <<replicas, lastAcked, state, wtxn, wmax, nextTxn, sends, acks, trims, nodes>>

RecordReadMax(w) ==
    /\ wpc[w] = "pushed"
    /\ wmax' = [wmax EXCEPT ![w] = IF pending = <<>> THEN wtxn[w] ELSE LastPending]
    /\ wpc' = [wpc EXCEPT ![w] = "read"]
    /\ UNCHANGED <<engine, wtxn, nextTxn, recorded, overtaken, sends, acks, trims, nodes>>

\* The state of a replica that lags by n entries and was in state s.
RecordedState(n, s) ==
    CASE n > MaxLag -> "Disconnected"
      [] n > 0 /\ n <= MaxLag -> "Lagging"
      [] OTHER -> IF s = "Disconnected" THEN "Synced" ELSE s

RecordUpdate(w) ==
    /\ wpc[w] = "read"
    /\ state' = [f \in Followers |->
                    IF f \in replicas
                    THEN RecordedState(Minus(wmax[w], lastAcked[f]), state[f])
                    ELSE state[f]]
    /\ wpc' = [wpc EXCEPT ![w] = "idle"]
    /\ wtxn' = [wtxn EXCEPT ![w] = 0]
    /\ wmax' = [wmax EXCEPT ![w] = 0]
    /\ UNCHANGED <<pending, replicas, lastAcked, nextTxn, recorded, overtaken, sends, acks, trims,
                   nodes>>

-----------------------------------------------------------------------------
(* add_replica, remove_replica *)

\* One more change of the membership, within the bound.
Change(f) ==
    /\ f \in bound.members /\ changes < bound.changes
    /\ changes' = changes + 1

AddReplica(f) ==
    /\ Change(f)
    /\ replicas' = replicas \cup {f}
    /\ lastAcked' = [lastAcked EXCEPT ![f] = 0]
    /\ state' = [state EXCEPT ![f] = "Synced"]
    /\ lost' = [lost EXCEPT ![f] = @ \cup (recorded \ (Elems(pending) \cup applied[f]))]
    /\ watched' = watched \ {f}
    /\ UNCHANGED <<pending, records, sends, acks, tpc, tmin, responses, applied, restarts, bound>>

RemoveReplica(f) ==
    /\ f \in replicas
    /\ Change(f)
    /\ replicas' = replicas \ {f}
    /\ lastAcked' = [lastAcked EXCEPT ![f] = 0]
    /\ state' = [state EXCEPT ![f] = "Synced"]
    /\ watched' = watched \ {f}
    /\ UNCHANGED <<pending, records, sends, acks, tpc, tmin, responses, applied, restarts, bound, lost>>

-----------------------------------------------------------------------------
(* pending_for_replica and the request *)

SendRead(f) ==
    /\ spc[f] = "idle"
    /\ f \in replicas
    /\ sfrom' = [sfrom EXCEPT ![f] = lastAcked[f]]
    /\ spc' = [spc EXCEPT ![f] = "read"]
    /\ UNCHANGED <<engine, records, requests, acks, trims, nodes>>

\* No request is made for an empty batch.
Send(f) ==
    /\ spc[f] = "read"
    /\ LET batch == After(pending, sfrom[f])
       IN  requests' = IF batch = <<>> THEN requests
                       ELSE requests \cup {[to |-> f, batch |-> batch]}
    /\ spc' = [spc EXCEPT ![f] = "idle"]
    /\ sfrom' = [sfrom EXCEPT ![f] = 0]
    /\ UNCHANGED <<engine, records, acks, trims, nodes>>

\* handle_replicate: the entries are applied one by one, not logged; the
\* response names the last one.
Replicate(r) ==
    /\ applied' = [applied EXCEPT ![r.to] = @ \cup Elems(r.batch)]
    /\ responses' = responses \cup {[from |-> r.to, txn |-> r.batch[Len(r.batch)]]}
    /\ UNCHANGED <<engine, records, sends, acks, trims, changes, restarts, bound, lost>>

\* An entry cannot be applied: those before it stay, the response is an error.
ReplicateError(r, k) ==
    /\ applied' = [applied EXCEPT ![r.to] = @ \cup Elems(SubSeq(r.batch, 1, k))]
    /\ UNCHANGED <<engine, records, sends, acks, trims, responses, changes, restarts, bound, lost>>

\* A follower restarts.  What it applied was in its hot store only.
Restart(f) ==
    /\ f \in bound.members /\ restarts < bound.restarts
    /\ restarts' = restarts + 1
    /\ lost' = [lost EXCEPT ![f] = @ \cup applied[f]]
    /\ applied' = [applied EXCEPT ![f] = {}]
    /\ UNCHANGED <<engine, records, sends, acks, trims, responses, changes, bound>>

-----------------------------------------------------------------------------
(* ack *)

AckRead(r) ==
    /\ apc[r.from] = "idle"
    /\ amax' = [amax EXCEPT ![r.from] = LastPending]
    /\ atxn' = [atxn EXCEPT ![r.from] = r.txn]
    /\ apc' = [apc EXCEPT ![r.from] = "read"]
    /\ UNCHANGED <<engine, records, sends, trims, nodes>>

\* Mutant of AckUpdate: the replica is taken to have all that was queued.
AckUpdateMax(f) ==
    /\ apc[f] = "read"
    /\ IF f \in replicas
       THEN /\ lastAcked' = [lastAcked EXCEPT ![f] = IF amax[f] > @ THEN amax[f] ELSE @]
            /\ state' = [state EXCEPT ![f] = "Synced"]
       ELSE UNCHANGED <<lastAcked, state>>
    /\ apc' = [apc EXCEPT ![f] = "idle"]
    /\ atxn' = [atxn EXCEPT ![f] = 0]
    /\ amax' = [amax EXCEPT ![f] = 0]
    /\ UNCHANGED <<pending, replicas, records, sends, trims, nodes>>

AckUpdate(f) ==
    /\ apc[f] = "read"
    /\ IF f \in replicas
       THEN /\ lastAcked' = [lastAcked EXCEPT ![f] = IF atxn[f] > @ THEN atxn[f] ELSE @]
            /\ LET n == Minus(amax[f], lastAcked'[f])
               IN  state' = [state EXCEPT ![f] = CASE n = 0 -> "Synced"
                                                   [] n > MaxLag -> "Disconnected"
                                                   [] OTHER -> "Lagging"]
       ELSE UNCHANGED <<lastAcked, state>>
    /\ apc' = [apc EXCEPT ![f] = "idle"]
    /\ atxn' = [atxn EXCEPT ![f] = 0]
    /\ amax' = [amax EXCEPT ![f] = 0]
    /\ UNCHANGED <<pending, replicas, records, sends, trims, nodes>>

-----------------------------------------------------------------------------
(* trim_acked *)

\* Mutants of TrimRead: the highest id for the lowest; no replicas, no limit.
TrimReadMax ==
    /\ tpc = "idle"
    /\ tmin' \in {lastAcked[f] : f \in replicas} \cup (IF replicas = {} THEN {0} ELSE {})
    /\ \A f \in replicas : tmin' >= lastAcked[f]
    /\ tpc' = "read"
    /\ watched' = replicas
    /\ UNCHANGED <<engine, records, sends, acks, nodes>>
TrimReadUnlimited ==
    /\ tpc = "idle"
    /\ tmin' \in {lastAcked[f] : f \in replicas}
                 \cup (IF replicas = {} THEN {MaxTxn + 1} ELSE {})
    /\ \A f \in replicas : tmin' <= lastAcked[f]
    /\ tpc' = "read"
    /\ watched' = replicas
    /\ UNCHANGED <<engine, records, sends, acks, nodes>>

\* The lowest last_acked_txn_id, 0 without replicas.
TrimRead ==
    /\ tpc = "idle"
    /\ tmin' \in {lastAcked[f] : f \in replicas} \cup (IF replicas = {} THEN {0} ELSE {})
    /\ \A f \in replicas : tmin' <= lastAcked[f]
    /\ tpc' = "read"
    /\ watched' = replicas
    /\ UNCHANGED <<engine, records, sends, acks, nodes>>

TrimRetain ==
    /\ tpc = "read"
    /\ pending' = After(pending, tmin)
    /\ lost' = [f \in Followers |->
                   IF f \in watched THEN lost[f]
                   ELSE lost[f] \cup {t \in Elems(pending) : t <= tmin /\ t \notin applied[f]}]
    /\ tpc' = "idle" /\ tmin' = 0 /\ watched' = {}
    /\ UNCHANGED <<replicas, lastAcked, state, records, sends, acks, responses, applied,
                   changes, restarts, bound>>

-----------------------------------------------------------------------------
Next ==
    \/ \E w \in Writers :
          \/ LogMutation(w)
          \/ RecordPush(w)
          \/ RecordReadMax(w)
          \/ RecordUpdate(w)
    \/ \E f \in Followers :
          \/ AddReplica(f)
          \/ RemoveReplica(f)
          \/ SendRead(f)
          \/ Send(f)
          \/ Restart(f)
          \/ AckUpdate(f)
    \/ \E r \in requests : Replicate(r)
    \/ \E r \in requests : \E k \in 0..(Len(r.batch) - 1) : ReplicateError(r, k)
    \/ \E r \in responses : AckRead(r)
    \/ TrimRead
    \/ TrimRetain

Spec == Init /\ [][Next]_vars

-----------------------------------------------------------------------------
(* Properties *)

\* Types, and what each counter and set may hold.
TypeOK ==
    /\ pending \in Seq(Txn)
    /\ replicas \subseteq Followers
    /\ lastAcked \in [Followers -> 0..MaxTxn]
    /\ state \in [Followers -> {"Synced", "Lagging", "Disconnected"}]
    /\ wpc \in [Writers -> {"idle", "logged", "pushed", "read"}]
    /\ wtxn \in [Writers -> 0..MaxTxn]
    /\ wmax \in [Writers -> 0..MaxTxn]
    /\ spc \in [Followers -> {"idle", "read"}]
    /\ sfrom \in [Followers -> 0..MaxTxn]
    /\ apc \in [Followers -> {"idle", "read"}]
    /\ atxn \in [Followers -> 0..MaxTxn]
    /\ amax \in [Followers -> 0..MaxTxn]
    /\ tpc \in {"idle", "read"}
    /\ tmin \in 0..MaxTxn
    /\ watched \subseteq Followers
    /\ requests \subseteq [to : Followers, batch : Seq(Txn)]
    /\ responses \subseteq [from : Followers, txn : 0..MaxTxn]
    /\ applied \in [Followers -> SUBSET Txn]
    /\ nextTxn \in 1..(MaxTxn + 1)
    /\ bound \in Bounds
    /\ changes \in 0..bound.changes
    /\ restarts \in 0..bound.restarts
    /\ recorded \subseteq Txn
    /\ overtaken \subseteq recorded
    /\ lost \in [Followers -> SUBSET Txn]

\* An acknowledgement covers a prefix: a replica whose last_acked_txn_id is t has
\* applied every recorded entry up to t, whatever was lost, repeated, delayed or
\* cut short on the way and however the writers interleave, except entries it lost
\* in a restart, that had been trimmed before it could ask for them, or that were
\* queued behind a larger id (AckCoversPrefix says what is wrong with those).
NoGap ==
    \A f \in replicas :
        {t \in recorded \ overtaken : t <= lastAcked[f]} \subseteq applied[f] \cup lost[f]

\* The lag that decides whether a replica may be promoted is never smaller than
\* the number of recorded entries the replica lacks (lost and overtaken ones
\* apart), unless the queue ends with an overtaken entry, whose id is too small.
LagCovers ==
    \A f \in replicas :
        lost[f] = {} /\ LastPending \notin overtaken =>
            Cardinality(recorded \ (overtaken \cup applied[f])) <= ReplicationLag(f)

\* NoGap without the exception for overtaken entries: ack's contract, that all
\* entries up to the acknowledged one have been replicated.
AckCoversPrefix ==
    \A f \in replicas :
        {t \in recorded : t <= lastAcked[f]} \subseteq applied[f] \cup lost[f]

=============================================================================
