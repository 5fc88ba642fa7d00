---------------------------- MODULE MCOAuthTokens ----------------------------
(* Small instances of OAuthTokens for TLC. *)
EXTENDS OAuthTokens, TLC

\* Sound for safety runs only.
Symmetry == Permutations(Threads) \cup Permutations(Tokens)

=============================================================================
