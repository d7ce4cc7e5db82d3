----------------------------- MODULE Embedding -----------------------------
(***************************************************************************)
(* The embedding client (tesseract-core/src/embedding.rs): one HTTP call   *)
(* at a time, retried after an exponential back-off.                       *)
(***************************************************************************)
EXTENDS Naturals

CONSTANTS max_retries
ASSUME RetriesAssumption == max_retries \in Nat

\* What call_openai returns.
Outcomes == {"vector", "rate_limited", "server_error", "client_error", "malformed", "timed_out", "io_error"}

\* NoopEmbedding refuses every text without a call.
Embeds(embedder) == embedder # "noop"

\* The errors embed retries: a timeout is a ServiceError with another text.
Retryable == {"rate_limited", "server_error"}

\* Mutant of embed_next: any error is retried.
embed_next_Any(attempt, outcome) ==
  CASE outcome = "vector" -> "done"
    [] attempt < max_retries -> "backoff"
    [] OTHER -> "failed"

\* The end of one pass of embed's loop; attempt counts from 0.
embed_next(attempt, outcome) ==
  CASE outcome = "vector" -> "done"
    [] outcome \in Retryable /\ attempt < max_retries -> "backoff"
    [] OTHER -> "failed"
=============================================================================
