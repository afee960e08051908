--------------------------- MODULE MCAccountControl ---------------------------
(***************************************************************************)
(* One account, operations that may run side by side, and the options the  *)
(* operations are called with.                                             *)
(***************************************************************************)
EXTENDS AccountControl, TLC

CONSTANTS p1, p2, q1, o1, o2

\* Of the options that combine freely, one choice of each kind: the other
\* choices restrict and cancel as an operation that is there does.
AllCommands ==
  {c \in ControlCommand :
     /\ c.kind = "pause" => ~c.cancelPending
     /\ c.kind = "stage" => c.cancelPending
     /\ c.kind = "disable" => c.cancelPending = c.liquidate
     /\ c.kind = "breach" => (c.cancelPending => c.liquidate)}

\* What a review of an account calls.
CloseCommands == {c \in ControlCommand : c.kind \in {"close", "resume"}}

Symmetry == Permutations(Op) \cup Permutations(Position)
=============================================================================
