--------------------------- MODULE ScatterGather ---------------------------
(***************************************************************************)
(* What a distributed search promises, whatever way it asks the shards:    *)
(* it waits until every shard of its snapshot has answered or failed, and  *)
(* then fails if none answered, or returns the distinct vectors with the   *)
(* highest scores among the answers, at most Limit of them, flagged as     *)
(* partial exactly when a shard of the snapshot is missing.                *)
(*                                                                         *)
(* This is what the code promises and less than what is specified: the     *)
(* snapshot holds the shards that have a leader, so a shard without one is *)
(* neither asked nor reported, although shard-manager/spec.md wants its    *)
(* absence flagged.  An answer that is not partial may lack whole shards.  *)
(***************************************************************************)
EXTENDS Naturals, Sequences

CONSTANTS Shards, Results, Limit   \* Results: what a shard may answer with

VARIABLES phase,    \* "idle", "asking" or "answered"
          replies,  \* shard -> "none", "pending", "failed" or <<answer>>
          outcome   \* <<>>, or what the caller got

sgVars == <<phase, replies, outcome>>

\* The highest score of an id in all.
BestScore(all, i) ==
  CHOOSE m \in {r.score : r \in {x \in all : x.id = i}} :
    \A r \in all : r.id = i => r.score <= m

\* rs lists the best ids of all, best first, each with its best score: Limit of
\* them, or all there are.
IsTopK(rs, all) ==
  LET listed == {rs[j].id : j \in DOMAIN rs}
      missing == {r.id : r \in all} \ listed
  IN  /\ Len(rs) <= Limit
      /\ Len(rs) < Limit => missing = {}
      /\ \A j \in DOMAIN rs : rs[j] \in all /\ rs[j].score = BestScore(all, rs[j].id)
      /\ \A i, j \in DOMAIN rs : i < j => rs[i].id # rs[j].id /\ rs[i].score >= rs[j].score
      /\ \A i \in missing : \A j \in DOMAIN rs : BestScore(all, i) <= rs[j].score

Answered == {s \in Shards : replies[s] \notin {<<"none">>, <<"pending">>, <<"failed">>}}
Asked == {s \in Shards : replies[s] # <<"none">>}
Elements(q) == {q[i] : i \in DOMAIN q}

SGInit ==
  /\ phase = "idle"
  /\ replies = [s \in Shards |-> <<"none">>]
  /\ outcome = <<>>

\* The snapshot may be any part of the shards.
Ask ==
  /\ phase # "asking"
  /\ \E S \in SUBSET Shards :
       /\ S # {}
       /\ replies' = [s \in Shards |-> IF s \in S THEN <<"pending">> ELSE <<"none">>]
  /\ phase' = "asking"
  /\ outcome' = <<>>

\* Nobody to ask.
AskNobody ==
  /\ phase # "asking"
  /\ phase' = "answered"
  /\ replies' = [s \in Shards |-> <<"none">>]
  /\ outcome' = <<"AllShardsFailed">>

Reply(s) ==
  /\ phase = "asking" /\ replies[s] = <<"pending">>
  /\ Len(replies'[s]) = 2
  /\ replies'[s][2] \in Results
  /\ replies' = [replies EXCEPT ![s] = <<"ok", replies'[s][2]>>]
  /\ UNCHANGED <<phase, outcome>>

Fail(s) ==
  /\ phase = "asking" /\ replies[s] = <<"pending">>
  /\ replies' = [replies EXCEPT ![s] = <<"failed">>]
  /\ UNCHANGED <<phase, outcome>>

Finish ==
  /\ phase = "asking"
  /\ \A s \in Shards : replies[s] # <<"pending">>
  /\ phase' = "answered"
  /\ UNCHANGED replies
  /\ LET all == UNION {Elements(replies[s][2]) : s \in Answered}
     IN  \/ /\ Answered = {}
            /\ outcome' = <<"AllShardsFailed">>
         \/ /\ Answered # {}
            /\ outcome'[1] = "ok"
            /\ IsTopK(outcome'[2], all)
            /\ outcome'[3] = (Answered # Asked)

SGNext == Ask \/ AskNobody \/ Finish \/ \E s \in Shards : Reply(s) \/ Fail(s)

SGSpec == SGInit /\ [][SGNext]_sgVars
=============================================================================
