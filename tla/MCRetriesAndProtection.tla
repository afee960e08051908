------------------------ MODULE MCRetriesAndProtection ------------------------
(***************************************************************************)
(* A command that is retried, and the protection of positions, side by     *)
(* side: a behaviour is one of either, and the other one rests.            *)
(***************************************************************************)
EXTENDS MCCommandExecution, PositionProtection

CONSTANTS r1, r2, p1, p2, x1

VARIABLE part

partVars == <<part, vars, protectionVars>>

\* One initial state of the feed is enough for it to rest in.
PartInit ==
  /\ part \in {"command", "protection"} /\ Init /\ ProtectionInit
  /\ part = "command" => bid = 1

PartNext ==
  \/ part = "command" /\ Next /\ UNCHANGED <<part, protectionVars>>
  \/ part = "protection" /\ ProtectionNext /\ UNCHANGED <<part, vars>>

\* None of the fair actions of a component is enabled in its initial states, so
\* the fairness of the one that rests asks for nothing.
PartSpec == PartInit /\ [][PartNext]_partVars /\ Fairness /\ ProtectionFairness
=============================================================================
