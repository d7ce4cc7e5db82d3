--------------------------- MODULE Authentication ---------------------------
(***************************************************************************)
(* The authentication providers (tesseract-api/src/auth.rs).  A request's  *)
(* headers are the API key and the bearer token it carries, <<>> if none.  *)
(* jsonwebtoken accepts a token signed with the secret and not expired:    *)
(* "valid".                                                                *)
(***************************************************************************)
EXTENDS Naturals, Sequences

CONSTANTS ApiKeys     \* the keys of TESSERACT_API_KEYS

Ok == "ok"
MissingCredentials == "missing"
InvalidCredentials == "invalid"

\* ApiKeyAuth::authenticate.
api_key_auth(h) ==
  IF h.key = <<>> THEN MissingCredentials
  ELSE IF h.key[1] \in ApiKeys THEN Ok ELSE InvalidCredentials

\* JwtAuth::authenticate.
jwt_auth(h) ==
  IF h.token = <<>> THEN MissingCredentials
  ELSE IF h.token[1] = "valid" THEN Ok ELSE InvalidCredentials

\* Mutant of multi_auth: only a wrong answer of the last provider counts.
multi_auth_LastOnly(h) ==
  IF jwt_auth(h) = InvalidCredentials THEN InvalidCredentials
  ELSE IF h.key # <<>> THEN Ok ELSE jwt_auth(h)

\* MultiAuth::authenticate: the first success, else the last error.
multi_auth(h) == IF api_key_auth(h) = Ok THEN Ok ELSE jwt_auth(h)

\* create_auth_provider and the provider it makes.
authenticate(mode, h) ==
  CASE mode = "api-key" -> api_key_auth(h)
    [] mode = "jwt" -> jwt_auth(h)
    [] mode = "both" -> multi_auth(h)
    [] OTHER -> Ok

\* Who is entitled to an answer in a mode, said without the providers.
Entitled(mode, h) ==
  \/ mode \notin {"api-key", "jwt", "both"}
  \/ mode \in {"api-key", "both"} /\ \E k \in ApiKeys : h.key = <<k>>
  \/ mode \in {"jwt", "both"} /\ h.token = <<"valid">>
=============================================================================
