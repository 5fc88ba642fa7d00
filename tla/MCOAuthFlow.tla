---------------------------- MODULE MCOAuthFlow ----------------------------
(* An instance of OAuthFlow for TLC, without faults of OpenBao. *)
EXTENDS OAuthFlow, TLC

FlowSymmetry == Permutations(Replies) \cup Permutations(FlowNames)

=============================================================================
