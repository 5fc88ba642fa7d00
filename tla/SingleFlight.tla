---------------------------- MODULE SingleFlight ----------------------------
(***************************************************************************)
(* What a single-flight group promises to the callers of an operation on a *)
(* key: while one execution is under way, callers of that key join it, all *)
(* of them get its one outcome, and no second execution starts.            *)
(* tokenexchange.Engine.Credential and tokenexchange.RefreshGuard.Do are   *)
(* two hand-written implementations of it.                                 *)
(***************************************************************************)
CONSTANTS
  Callers,   \* goroutines that call the operation
  Keys,      \* keys the calls are grouped by
  Outcomes,  \* what an execution may end with
  None       \* no outcome yet; not an outcome

VARIABLES
  group,   \* the callers that wait for the execution under way, per key
  outcome  \* what a caller was told

vars == <<group, outcome>>

TypeOK ==
  /\ group \in [Keys -> SUBSET Callers]
  /\ outcome \in [Callers -> Outcomes \cup {None}]

Free(c) == outcome[c] = None /\ \A k \in Keys : c \notin group[k]

Init ==
  /\ group = [k \in Keys |-> {}]
  /\ outcome = [c \in Callers |-> None]

\* A caller starts the execution or joins the one under way.
Enter(c, k) ==
  /\ Free(c)
  /\ group' = [group EXCEPT ![k] = @ \cup {c}]
  /\ UNCHANGED outcome

\* The one execution ends and every member of the group is told the same.
Land(k, o) ==
  /\ group[k] # {}
  /\ outcome' = [c \in Callers |-> IF c \in group[k] THEN o ELSE outcome[c]]
  /\ group' = [group EXCEPT ![k] = {}]

\* A caller takes its outcome and goes its way.
Leave(c) ==
  /\ outcome[c] # None
  /\ outcome' = [outcome EXCEPT ![c] = None]
  /\ UNCHANGED group

Next ==
  \/ \E c \in Callers, k \in Keys : Enter(c, k)
  \/ \E k \in Keys, o \in Outcomes : Land(k, o)
  \/ \E c \in Callers : Leave(c)

Spec == Init /\ [][Next]_vars

=============================================================================
