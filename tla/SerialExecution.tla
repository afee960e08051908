--------------------------- MODULE SerialExecution ---------------------------
(***************************************************************************)
(* What the per-account command queue promises its callers: the commands   *)
(* of one account run one at a time, in the order in which they were       *)
(* submitted, whether the earlier ones succeed or fail; commands of        *)
(* different accounts are independent.                                     *)
(***************************************************************************)
EXTENDS Naturals, Sequences

CONSTANTS Task, Account, AccountOf

VARIABLES line,     \* per account, the submitted and unfinished tasks in order
          active    \* the tasks whose body has begun and has not ended

serialVars == <<line, active>>

SerialInit ==
  /\ line = [a \in Account |-> <<>>]
  /\ active = {}

Submit(t) ==
  /\ line' = [line EXCEPT ![AccountOf[t]] = Append(@, t)]
  /\ UNCHANGED active

Begin(t) ==
  LET own == line[AccountOf[t]]
  IN  /\ own # <<>>
      /\ Head(own) = t
      /\ t \notin active
      /\ active' = active \cup {t}
      /\ UNCHANGED line

Finish(t) ==
  /\ t \in active
  /\ active' = active \ {t}
  /\ line' = [line EXCEPT ![AccountOf[t]] = Tail(@)]

SerialNext == \E t \in Task : Submit(t) \/ Begin(t) \/ Finish(t)

SerialSpec == SerialInit /\ [][SerialNext]_serialVars
=============================================================================
