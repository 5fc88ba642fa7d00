------------------------------ MODULE LossyLog ------------------------------
(***************************************************************************)
(* What an audit log may promise that never makes its callers wait: an     *)
(* event is taken or lost at once, and what is taken comes out in the      *)
(* order it went in, once.                                                 *)
(***************************************************************************)
EXTENDS Sequences

CONSTANT Events

VARIABLES
  unseen,   \* events nobody has emitted yet
  taken,    \* accepted, not yet delivered
  out       \* delivered, in order

logVars == <<unseen, taken, out>>

LogInit ==
  /\ unseen = Events
  /\ taken = <<>>
  /\ out = <<>>

Take(e) ==
  /\ e \in unseen
  /\ unseen' = unseen \ {e}
  /\ taken' = Append(taken, e)
  /\ UNCHANGED out

Lose(e) ==
  /\ e \in unseen
  /\ unseen' = unseen \ {e}
  /\ UNCHANGED <<taken, out>>

Deliver ==
  /\ taken # <<>>
  /\ taken' = Tail(taken)
  /\ out' = Append(out, Head(taken))
  /\ UNCHANGED unseen

LogNext ==
  \/ \E e \in Events : Take(e) \/ Lose(e)
  \/ Deliver

LogSpec == LogInit /\ [][LogNext]_logVars

=============================================================================
