---------------------------- MODULE MCPendingOrders ----------------------------
(***************************************************************************)
(* A stop-limit order, which has every transition there is and waits for   *)
(* a stop first and for a limit then, and a limit order beside it.  Prices *)
(* 1 and 2 are enough for a tick on either side of a limit or a stop.      *)
(***************************************************************************)
EXTENDS PendingOrders, TLC

CONSTANTS l1, k1, p1, p2

MCTypeOf == [q \in Order |-> IF q = l1 THEN "LIMIT" ELSE "STOP_LIMIT"]

MCPrice == {1, 2}

MCProtection == {p1, p2}

Amendments == {<<1, p2>>}
NoAmendments == {}
=============================================================================
