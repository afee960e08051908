------------------------ MODULE MCCommandsAndAccounting ------------------------
(***************************************************************************)
(* The execution of commands, the money of an account, and the arithmetic  *)
(* it is counted with, side by side: a behaviour is one of the three, and  *)
(* the others rest.                                                        *)
(***************************************************************************)
EXTENDS MCCommandExecution, TradeAccounting, DecimalArithmetic

CONSTANTS r1, r2, p1

VARIABLE part

partVars == <<part, vars, accountingVars, decimalVars>>

PartInit ==
  /\ part \in {"command", "accounting", "decimal"}
  /\ Init /\ AccountingInit /\ DecimalInit

PartNext ==
  \/ part = "command" /\ Next /\ UNCHANGED <<part, accountingVars, decimalVars>>
  \/ part = "accounting" /\ AccountingNext /\ UNCHANGED <<part, vars, decimalVars>>
  \/ part = "decimal" /\ DecimalNext /\ UNCHANGED <<part, vars, accountingVars>>

PartSpec == PartInit /\ [][PartNext]_partVars
=============================================================================
