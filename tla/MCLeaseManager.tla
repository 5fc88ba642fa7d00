--------------------------- MODULE MCLeaseManager ---------------------------
(* Small instances of LeaseManager for TLC. *)
EXTENDS LeaseManager, TLC

\* Requests and lease ids are interchangeable; sound for safety runs only.
Symmetry == Permutations(Threads) \cup Permutations(Leases)

=============================================================================
