-------------------------- MODULE IdempotentCommand --------------------------
(***************************************************************************)
(* What a trading command promises under one idempotency key: it takes     *)
(* effect at most once, a success and a final failure stay what they are,  *)
(* and only a retryable failure is attempted again.  When the record of    *)
(* the key is forgotten (retention), the key is free.                      *)
(***************************************************************************)
EXTENDS Naturals

CONSTANT Key

VARIABLES outcome,  \* what is known of each key
          effects   \* how often the command of each key took effect

Outcome == {"unknown", "pending", "done", "retryable", "failed"}

IdempotentInit ==
  /\ outcome = [k \in Key |-> "unknown"]
  /\ effects = [k \in Key |-> 0]

Attempt(k) ==
  /\ outcome[k] \in {"unknown", "retryable"}
  /\ outcome' = [outcome EXCEPT ![k] = "pending"]
  /\ UNCHANGED effects

Succeed(k) ==
  /\ outcome[k] = "pending"
  /\ outcome' = [outcome EXCEPT ![k] = "done"]
  /\ effects' = [effects EXCEPT ![k] = @ + 1]

Fail(k) ==
  /\ outcome[k] = "pending"
  /\ \E o \in {"retryable", "failed"} : outcome' = [outcome EXCEPT ![k] = o]
  /\ UNCHANGED effects

Forget(k) ==
  /\ outcome[k] # "unknown"
  /\ outcome' = [outcome EXCEPT ![k] = "unknown"]
  /\ effects' = [effects EXCEPT ![k] = 0]

IdempotentNext == \E k \in Key : Attempt(k) \/ Succeed(k) \/ Fail(k) \/ Forget(k)

IdempotentSpec == IdempotentInit /\ [][IdempotentNext]_<<outcome, effects>>
=============================================================================
