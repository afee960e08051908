----------------------------- MODULE MCRiskStream -----------------------------
(***************************************************************************)
(* One account of 100 with a daily limit of 10 and an overall limit of 15: *)
(* 90 is a breach on the first day only, 85 on every day.                  *)
(***************************************************************************)
EXTENDS RiskStream, TLC

CONSTANTS d1, d2

DrainSymmetry == Permutations(Drain)
=============================================================================
