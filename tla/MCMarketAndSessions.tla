-------------------------- MODULE MCMarketAndSessions --------------------------
(***************************************************************************)
(* The market data of a symbol, and the sessions of the traders, side by   *)
(* side: a behaviour is one of either, and the other one rests.            *)
(***************************************************************************)
EXTENDS MarketFeed, TraderSession, TLC

CONSTANTS r1, r2, k1

VARIABLE part

partVars == <<part, marketVars, sessionVars>>

PartInit == part \in {"market", "session"} /\ MarketInit /\ SessionInit

PartNext ==
  \/ part = "market" /\ MarketNext /\ UNCHANGED <<part, sessionVars>>
  \/ part = "session" /\ SessionNext /\ UNCHANGED <<part, marketVars>>

PartSpec == PartInit /\ [][PartNext]_partVars

PartSymmetry == Permutations(Caller)
=============================================================================
