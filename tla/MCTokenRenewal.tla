--------------------------- MODULE MCTokenRenewal ---------------------------
(* Instances of TokenRenewal for TLC. *)
EXTENDS TokenRenewal
=============================================================================
