--------------------------- MODULE MCPendingAndSync ---------------------------
(***************************************************************************)
(* Pending orders, and the trading state of a trader's socket, side by     *)
(* side: a behaviour is one of either, and the other one rests.            *)
(***************************************************************************)
EXTENDS MCPendingOrders, TraderSync

VARIABLE part

partVars == <<part, vars, syncVars>>

\* One initial state of the orders is enough for them to rest in.
PartInit ==
  /\ part \in {"pending", "sync"} /\ Init /\ SyncInit
  /\ part = "sync" => \A q \in Order : order[q].limit = 1 /\ order[q].stop = 1

PartNext ==
  \/ part = "pending" /\ Next /\ UNCHANGED <<part, syncVars>>
  \/ part = "sync" /\ SyncNext /\ UNCHANGED <<part, vars>>

\* None of the fair actions of a component is enabled in its initial states, so
\* the fairness of the one that rests asks for nothing.
PartSpec == PartInit /\ [][PartNext]_partVars /\ Fairness /\ SyncFairness
=============================================================================
