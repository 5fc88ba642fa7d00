--------------------------- MODULE MCTokenEngine ---------------------------
(* Small instances of TokenEngine for TLC. *)
EXTENDS TokenEngine, TLC

\* Callers, credentials and keys are interchangeable; sound for safety runs only.
Symmetry == Permutations(Threads) \cup Permutations(Creds) \cup Permutations(Keys)

=============================================================================
