------------------------- MODULE MCCommandExecution -------------------------
(***************************************************************************)
(* One account.  k1 and k2 are an open and a close sent with the same      *)
(* clientOrderId; k3 is a command that creates no order (a cancel).        *)
(***************************************************************************)
EXTENDS CommandExecution, TLC

CONSTANTS a1, k1, k2, k3, o1

MCAccountOf == [k \in Key |-> a1]
MCOrderOf == [k \in Key |-> IF k = k3 THEN NoOrder ELSE o1]

Symmetry == Permutations(Request)
=============================================================================
