-------------------------- MODULE MCServiceRegistry --------------------------
(* Instances of ServiceRegistry. *)
EXTENDS ServiceRegistry, TLC

\* Goroutines, names, credentials and targets are interchangeable: they are never
\* compared but for equality.  Used only by runs without liveness properties.
Symmetry == Permutations(Threads) \cup Permutations(Names)
              \cup Permutations(Values) \cup Permutations(Targets)
=============================================================================
