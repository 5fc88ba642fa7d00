---------------------------- MODULE BearerTokens ----------------------------
(***************************************************************************)
(* mcpauth: the validation of a bearer token by the remote MCP endpoint.   *)
(* A token is what the checks tell apart; times are in ticks of a clock    *)
(* that starts at 1, and 0 is a claim that is not there.                   *)
(***************************************************************************)
EXTENDS Naturals

CONSTANTS
  Resource,      \* our canonical resource URI
  Trusted,       \* ValidatorConfig.TrustedIssuers
  ReachableKeys, \* issuers whose host the egress guard lets the provider ask
  Skew           \* ValidatorConfig.ClockSkew

\* The issuers that are this program itself: the sentinel and OwnIssuerURL.
OwnIssuers == {"internal", "self"}

\* New refuses a configuration that trusts everybody or the program itself.
ValidatorConfigured ==
  /\ Trusted # {}
  /\ Trusted \cap (OwnIssuers \cup {"*"}) = {}

ASSUME BearerAssumption == ValidatorConfigured

\* validateAlg
AlgSupported(alg) == alg = "RS256"

\* KeyFor: the key of an issuer by its id, if the guard lets the host be asked.
HasKey(tok) == tok.iss \in ReachableKeys /\ tok.kid = "known"

\* Validate, in the order of its checks: "ok" or the code of the error.
Validate(tok, now) ==
  CASE tok.shape # "jwt"                        -> "malformed_token"
    [] ~AlgSupported(tok.alg)                   -> "invalid_algorithm"
    [] tok.iss \notin Trusted                   -> "invalid_issuer"
    [] ~HasKey(tok)                             -> "invalid_signature"
    [] ~tok.signed                              -> "invalid_signature"
    [] Resource \notin tok.aud                  -> "invalid_audience"
    [] tok.exp = 0                              -> "invalid_token"
    [] now > tok.exp + Skew                     -> "token_expired"
    [] tok.nbf # 0 /\ now + Skew < tok.nbf      -> "token_not_yet_valid"
    [] OTHER                                    -> "ok"

=============================================================================
