----------------------- MODULE MCAccountCommandQueue -----------------------
(* Four commands, three of them on one account. *)
EXTENDS AccountCommandQueue, TLC

CONSTANTS t1, t2, t3, t4, a1, a2

MCAccountOf == (t4 :> a2) @@ [t \in {t1, t2, t3} |-> a1]

=============================================================================
