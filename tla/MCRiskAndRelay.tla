---------------------------- MODULE MCRiskAndRelay ----------------------------
(***************************************************************************)
(* The risk stream, and the relay of platform events, side by side: a      *)
(* behaviour is one of either, and the other one rests.                    *)
(***************************************************************************)
EXTENDS MCRiskStream, PlatformEventRelay

CONSTANTS f1

VARIABLE part

partVars == <<part, vars, relayVars>>

PartInit == part \in {"risk", "relay"} /\ Init /\ RelayInit

PartNext ==
  \/ part = "risk" /\ Next /\ UNCHANGED <<part, relayVars>>
  \/ part = "relay" /\ RelayNext /\ UNCHANGED <<part, vars>>

\* None of the fair actions of a component is enabled in its initial states, so
\* the fairness of the one that rests asks for nothing.
PartSpec == PartInit /\ [][PartNext]_partVars /\ Fairness /\ RelayFairness
=============================================================================
