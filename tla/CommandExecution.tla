--------------------------- MODULE CommandExecution ---------------------------
(***************************************************************************)
(* How a trading command is executed exactly once: the idempotency record  *)
(* (idempotency.service.js), the per-account queue (AccountCommandQueue,   *)
(* used here through what SerialExecution promises) and the MongoDB        *)
(* transaction that holds the effect and the completion of the record      *)
(* together (market-order.service.js, and in the same shape                *)
(* pending-order.service.js, pending-order-amend.service.js,               *)
(* position-protection.service.js, trailing-stop.service.js and            *)
(* atomic-reverse.service.js).                                             *)
(*                                                                         *)
(* A Key is (account, scope, clientOrderId or clientRequestId).  A request *)
(* is one connection of a client: it may send command after command, so a  *)
(* retry is a later command of any request with the same key.  Time enters *)
(* only as "the lease of a record has expired".                            *)
(***************************************************************************)
EXTENDS Naturals, Sequences

CONSTANTS
  Request,        \* client connections
  Key,            \* idempotency keys
  Payload,        \* command payloads, by their hash
  Account, AccountOf,
  OrderRef,       \* (account, clientOrderId): the unique index of orders
  OrderOf,        \* the order a key's command creates, or NoOrder
  NoOrder, NoPayload,
  MaxCrashes,     \* bound: process crashes
  MaxIncarnations \* bound: how often a key's record may be created

ASSUME CommandConstants ==
  /\ Key # {}
  /\ AccountOf \in [Key -> Account]
  /\ OrderOf \in [Key -> OrderRef \cup {NoOrder}]
  /\ NoOrder \notin OrderRef
  /\ NoPayload \notin Payload
  /\ MaxCrashes \in Nat
  /\ MaxIncarnations \in Nat

VARIABLES
  record,       \* the idempotency collection: Key -> record
  incarnation,  \* the _id of a key's current record
  orderCount,   \* how many orders exist per clientOrderId
  effects,      \* history: effects under the current record of a key
  executed,     \* history: the <<key, payload>> pairs that ever took effect
  line,         \* the per-account queue
  pc,           \* where each request is
  cmd,          \* the command each request carries, and the _id it reserved
  seen,         \* the record a request's findOne returned
  failure,      \* the error a request is about to record
  reply,        \* what the client of a request was last told
  crashes

vars == <<record, incarnation, orderCount, effects, executed, line, pc, cmd, seen,
          failure, reply, crashes>>

database == <<record, incarnation, orderCount, effects, executed>>
history == <<effects, executed>>

(***************************************************************************)
(* IdempotencyRecord (idempotency.model.js).  "expired" says whether       *)
(* leaseExpiresAt lies in the past; "retryable" is set with FAILED only.   *)
(***************************************************************************)
Absent == [state |-> "ABSENT", payload |-> NoPayload, expired |-> FALSE, retryable |-> FALSE]

InProgress(p) ==
  [state |-> "IN_PROGRESS", payload |-> p, expired |-> FALSE, retryable |-> FALSE]
Completed(p) ==
  [state |-> "COMPLETED", payload |-> p, expired |-> FALSE, retryable |-> FALSE]
Failed(p, r) ==
  [state |-> "FAILED", payload |-> p, expired |-> FALSE, retryable |-> r]

Record ==
  [state : {"ABSENT", "IN_PROGRESS", "COMPLETED", "FAILED"},
   payload : Payload \cup {NoPayload}, expired : BOOLEAN, retryable : BOOLEAN]

\* What goes wrong in an execution: a 4xx of a business rule, a 5xx of a quote
\* or of the database, the duplicate key 11000, IDEMPOTENCY_STATE_CONFLICT.
Failure == {"rejected", "unavailable", "duplicate", "conflict"}

\* fail(): retryable unless told otherwise is statusCode >= 500.
IsRetryable(f) == f = "unavailable"

Reply == Failure \cup {"none", "lost", "executed", "replayed", "keyReused", "inProgress"}

NoCmd == [key |-> CHOOSE k \in Key : TRUE, payload |-> NoPayload, id |-> 0]

TypeOK ==
  /\ record \in [Key -> Record]
  /\ incarnation \in [Key -> Nat]
  /\ orderCount \in [OrderRef -> Nat]
  /\ effects \in [Key -> Nat]
  /\ executed \subseteq Key \X (Payload \cup {NoPayload})
  /\ line \in [Account -> Seq(Request)]
  /\ pc \in [Request -> {"idle", "found", "reserved", "queued", "committed", "failing"}]
  /\ cmd \in [Request -> [key : Key, payload : Payload \cup {NoPayload}, id : Nat]]
  /\ seen \in [Request -> Record]
  /\ failure \in [Request -> Failure \cup {"none"}]
  /\ reply \in [Request -> Reply]
  /\ crashes \in Nat

Init ==
  /\ record = [k \in Key |-> Absent]
  /\ incarnation = [k \in Key |-> 0]
  /\ orderCount = [o \in OrderRef |-> 0]
  /\ effects = [k \in Key |-> 0]
  /\ executed = {}
  /\ line = [a \in Account |-> <<>>]
  /\ pc = [r \in Request |-> "idle"]
  /\ cmd = [r \in Request |-> NoCmd]
  /\ seen = [r \in Request |-> Absent]
  /\ failure = [r \in Request |-> "none"]
  /\ reply = [r \in Request |-> "none"]
  /\ crashes = 0

Exists(k) == record[k].state # "ABSENT"

KeyOf(r) == cmd[r].key
Own(r) == AccountOf[KeyOf(r)]

\* complete() and fail() update { _id, state: IN_PROGRESS }.
HoldsInProgress(r) ==
  record[KeyOf(r)].state = "IN_PROGRESS" /\ incarnation[KeyOf(r)] = cmd[r].id

Answer(r, what) ==
  /\ reply' = [reply EXCEPT ![r] = what]
  /\ pc' = [pc EXCEPT ![r] = "idle"]

-----------------------------------------------------------------------------
(***************************************************************************)
(* reserve(): the insert either creates the record, or meets the unique    *)
(* index and is followed by a findOne.                                     *)
(***************************************************************************)
Create(r, k, p) ==
  /\ pc[r] = "idle"
  /\ ~Exists(k)
  /\ incarnation[k] < MaxIncarnations
  /\ record' = [record EXCEPT ![k] = InProgress(p)]
  /\ incarnation' = [incarnation EXCEPT ![k] = @ + 1]
  /\ cmd' = [cmd EXCEPT ![r] = [key |-> k, payload |-> p, id |-> incarnation[k] + 1]]
  /\ pc' = [pc EXCEPT ![r] = "reserved"]
  /\ reply' = [reply EXCEPT ![r] = "none"]
  /\ UNCHANGED <<orderCount, history, line, seen, failure, crashes>>

Find(r, k, p) ==
  /\ pc[r] = "idle"
  /\ Exists(k)
  /\ cmd' = [cmd EXCEPT ![r] = [key |-> k, payload |-> p, id |-> incarnation[k]]]
  /\ seen' = [seen EXCEPT ![r] = record[k]]
  /\ pc' = [pc EXCEPT ![r] = "found"]
  /\ reply' = [reply EXCEPT ![r] = "none"]
  /\ UNCHANGED <<database, line, failure, crashes>>

SamePayload(r) == seen[r].payload = cmd[r].payload

RejectKeyReuse(r) ==
  /\ pc[r] = "found"
  /\ ~SamePayload(r)
  /\ Answer(r, "keyReused")
  /\ seen' = [seen EXCEPT ![r] = Absent]
  /\ UNCHANGED <<database, line, cmd, failure, crashes>>

(***************************************************************************)
(* The conditional updates that take over an expired or a retryable        *)
(* record: they match only if the record still is what findOne showed.     *)
(* (Another attempt that stalled for a whole lease can have renewed the    *)
(* lease with a time that is already past, so an expired lease may be      *)
(* taken over twice: the record does not say who holds it.)                *)
(***************************************************************************)
LeaseExpired(rec) == rec.state = "IN_PROGRESS" /\ rec.expired
Reopenable(rec) == rec.state = "FAILED" /\ rec.retryable

\* Mutant: a failure that is final is reopened.
TakeOverFinal(r) ==
  LET k == KeyOf(r)
  IN  /\ pc[r] = "found"
      /\ SamePayload(r)
      /\ \/ LeaseExpired(seen[r]) /\ LeaseExpired(record[k])
         \/ seen[r].state = "FAILED" /\ record[k].state = "FAILED"
      /\ incarnation[k] = cmd[r].id
      /\ record' = [record EXCEPT ![k] = InProgress(@.payload)]
      /\ pc' = [pc EXCEPT ![r] = "reserved"]
      /\ seen' = [seen EXCEPT ![r] = Absent]
      /\ UNCHANGED <<incarnation, orderCount, history, line, cmd, failure, reply, crashes>>

\* Mutant: expired leases are not taken over.
TakeOverRetryableOnly(r) ==
  LET k == KeyOf(r)
  IN  /\ pc[r] = "found"
      /\ SamePayload(r)
      /\ Reopenable(seen[r]) /\ Reopenable(record[k])
      /\ incarnation[k] = cmd[r].id
      /\ record' = [record EXCEPT ![k] = InProgress(@.payload)]
      /\ pc' = [pc EXCEPT ![r] = "reserved"]
      /\ seen' = [seen EXCEPT ![r] = Absent]
      /\ UNCHANGED <<incarnation, orderCount, history, line, cmd, failure, reply, crashes>>

TakeOver(r) ==
  LET k == KeyOf(r)
  IN  /\ pc[r] = "found"
      /\ SamePayload(r)
      /\ \/ LeaseExpired(seen[r]) /\ LeaseExpired(record[k])
         \/ Reopenable(seen[r]) /\ Reopenable(record[k])
      /\ incarnation[k] = cmd[r].id
      /\ record' = [record EXCEPT ![k] = InProgress(@.payload)]
      /\ pc' = [pc EXCEPT ![r] = "reserved"]
      /\ seen' = [seen EXCEPT ![r] = Absent]
      /\ UNCHANGED <<incarnation, orderCount, history, line, cmd, failure, reply, crashes>>

(***************************************************************************)
(* #resolveReservation(): otherwise the client is answered from the record *)
(* that findOne returned, which may be out of date by now.                 *)
(***************************************************************************)
StoredAnswer(rec) ==
  CASE rec.state = "IN_PROGRESS" -> "inProgress"
    [] rec.state = "COMPLETED"   -> "replayed"
    [] rec.state = "FAILED"      -> IF rec.retryable THEN "unavailable" ELSE "rejected"

CanTakeOver(r) ==
  LET k == KeyOf(r)
  IN  /\ incarnation[k] = cmd[r].id
      /\ \/ LeaseExpired(seen[r]) /\ LeaseExpired(record[k])
         \/ Reopenable(seen[r]) /\ Reopenable(record[k])

\* Mutant: the request hash is not compared.
AnswerFromRecordUnhashed(r) ==
  /\ pc[r] = "found"
  /\ ~CanTakeOver(r)
  /\ Answer(r, StoredAnswer(seen[r]))
  /\ seen' = [seen EXCEPT ![r] = Absent]
  /\ UNCHANGED <<database, line, cmd, failure, crashes>>

AnswerFromRecord(r) ==
  /\ pc[r] = "found"
  /\ SamePayload(r)
  /\ ~CanTakeOver(r)
  /\ Answer(r, StoredAnswer(seen[r]))
  /\ seen' = [seen EXCEPT ![r] = Absent]
  /\ UNCHANGED <<database, line, cmd, failure, crashes>>

-----------------------------------------------------------------------------
(***************************************************************************)
(* commandQueue.run(account, task): the task runs when it is first in its  *)
(* account's line.  Its reads, its planning and its transaction are one    *)
(* step, at the moment the transaction commits or is abandoned.            *)
(***************************************************************************)
Enqueue(r) ==
  /\ pc[r] = "reserved"
  /\ line' = [line EXCEPT ![Own(r)] = Append(@, r)]
  /\ pc' = [pc EXCEPT ![r] = "queued"]
  /\ UNCHANGED <<database, cmd, seen, failure, reply, crashes>>

AtHead(r) == line[Own(r)] # <<>> /\ Head(line[Own(r)]) = r

Leave(r) == line' = [line EXCEPT ![Own(r)] = Tail(@)]

OrderIsNew(k) == OrderOf[k] # NoOrder => orderCount[OrderOf[k]] = 0

\* Mutant: complete() does not ask for IN_PROGRESS.
CommitUnguarded(r) ==
  LET k == KeyOf(r)
  IN  /\ OrderIsNew(k)
      /\ record' = [record EXCEPT ![k] = Completed(@.payload)]
      /\ effects' = [effects EXCEPT ![k] = @ + 1]
      /\ executed' = executed \cup {<<k, cmd[r].payload>>}
      /\ orderCount' = IF OrderOf[k] = NoOrder THEN orderCount
                       ELSE [orderCount EXCEPT ![OrderOf[k]] = @ + 1]
      /\ UNCHANGED incarnation

\* Mutant: no unique index on the clientOrderId.
CommitDuplicateOrder(r) ==
  LET k == KeyOf(r)
  IN  /\ HoldsInProgress(r)
      /\ record' = [record EXCEPT ![k] = Completed(@.payload)]
      /\ effects' = [effects EXCEPT ![k] = @ + 1]
      /\ executed' = executed \cup {<<k, cmd[r].payload>>}
      /\ orderCount' = IF OrderOf[k] = NoOrder THEN orderCount
                       ELSE [orderCount EXCEPT ![OrderOf[k]] = @ + 1]
      /\ UNCHANGED incarnation

\* Order, deal, position, ledger, account and outbox writes, then
\* #completeReservation(), all in one transaction.
Commit(r) ==
  LET k == KeyOf(r)
  IN  /\ OrderIsNew(k)
      /\ HoldsInProgress(r)
      /\ record' = [record EXCEPT ![k] = Completed(@.payload)]
      /\ effects' = [effects EXCEPT ![k] = @ + 1]
      /\ executed' = executed \cup {<<k, cmd[r].payload>>}
      /\ orderCount' = IF OrderOf[k] = NoOrder THEN orderCount
                       ELSE [orderCount EXCEPT ![OrderOf[k]] = @ + 1]
      /\ UNCHANGED incarnation

Execute(r) ==
  /\ pc[r] = "queued"
  /\ AtHead(r)
  /\ Commit(r)
  /\ pc' = [pc EXCEPT ![r] = "committed"]
  /\ UNCHANGED <<line, cmd, seen, failure, reply, crashes>>

\* After the commit the task emits its events and the client is answered.
Respond(r) ==
  /\ pc[r] = "committed"
  /\ Leave(r)
  /\ Answer(r, "executed")
  /\ UNCHANGED <<database, cmd, seen, failure, crashes>>

\* The transaction commits but the driver reports an error, so the caller
\* takes the failure path.
ExecuteOutcomeUnknown(r) ==
  /\ pc[r] = "queued"
  /\ AtHead(r)
  /\ Commit(r)
  /\ Leave(r)
  /\ failure' = [failure EXCEPT ![r] = "unavailable"]
  /\ pc' = [pc EXCEPT ![r] = "failing"]
  /\ UNCHANGED <<cmd, seen, reply, crashes>>

AbandonReason(r) ==
  {"rejected", "unavailable"}
    \cup IF ~OrderIsNew(KeyOf(r)) THEN {"duplicate"}
         ELSE IF ~HoldsInProgress(r) THEN {"conflict"} ELSE {}

\* The transaction is abandoned and leaves nothing behind.
Abandon(r) ==
  /\ pc[r] = "queued"
  /\ AtHead(r)
  /\ Leave(r)
  /\ \E f \in AbandonReason(r) : failure' = [failure EXCEPT ![r] = f]
  /\ pc' = [pc EXCEPT ![r] = "failing"]
  /\ UNCHANGED <<database, cmd, seen, reply, crashes>>

(***************************************************************************)
(* #recordFailure(): outside the queue and outside any transaction.  fail()*)
(* matches an IN_PROGRESS record only; an error of its own is swallowed.   *)
(***************************************************************************)
\* Mutant: fail() does not ask for IN_PROGRESS.
RecordFailureAlways(r) ==
  LET k == KeyOf(r)
  IN  /\ pc[r] = "failing"
      /\ record' = IF incarnation[k] = cmd[r].id /\ Exists(k)
                     THEN [record EXCEPT ![k] = Failed(@.payload, IsRetryable(failure[r]))]
                     ELSE record
      /\ Answer(r, failure[r])
      /\ failure' = [failure EXCEPT ![r] = "none"]
      /\ UNCHANGED <<incarnation, orderCount, history, line, cmd, seen, crashes>>

RecordFailure(r) ==
  LET k == KeyOf(r)
  IN  /\ pc[r] = "failing"
      /\ record' = IF HoldsInProgress(r)
                     THEN [record EXCEPT ![k] = Failed(@.payload, IsRetryable(failure[r]))]
                     ELSE record
      /\ Answer(r, failure[r])
      /\ failure' = [failure EXCEPT ![r] = "none"]
      /\ UNCHANGED <<incarnation, orderCount, history, line, cmd, seen, crashes>>

RecordFailureLost(r) ==
  /\ pc[r] = "failing"
  /\ Answer(r, failure[r])
  /\ failure' = [failure EXCEPT ![r] = "none"]
  /\ UNCHANGED <<database, line, cmd, seen, crashes>>

-----------------------------------------------------------------------------
\* DEFAULT_LEASE_MS passes.
ExpireLease(k) ==
  /\ record[k].state = "IN_PROGRESS"
  /\ ~record[k].expired
  /\ record' = [record EXCEPT ![k].expired = TRUE]
  /\ UNCHANGED <<incarnation, orderCount, history, line, pc, cmd, seen, failure, reply, crashes>>

\* The TTL index on expiresAt removes the record, whatever its state.
RetentionEnds(k) ==
  /\ Exists(k)
  /\ incarnation[k] < MaxIncarnations
  /\ record' = [record EXCEPT ![k] = Absent]
  /\ effects' = [effects EXCEPT ![k] = 0]
  /\ UNCHANGED <<incarnation, orderCount, executed, line, pc, cmd, seen, failure, reply, crashes>>

\* The process dies: queue and requests in flight are gone, the database stays.
Crash ==
  /\ crashes < MaxCrashes
  /\ crashes' = crashes + 1
  /\ line' = [a \in Account |-> <<>>]
  /\ reply' = [r \in Request |-> IF pc[r] = "idle" THEN reply[r] ELSE "lost"]
  /\ pc' = [r \in Request |-> "idle"]
  /\ failure' = [r \in Request |-> "none"]
  /\ seen' = [r \in Request |-> Absent]
  /\ UNCHANGED <<database, cmd>>

Send(r) == \E k \in Key, p \in Payload : Create(r, k, p) \/ Find(r, k, p)

Proceed(r) ==
  \/ RejectKeyReuse(r) \/ TakeOver(r) \/ AnswerFromRecord(r)
  \/ Enqueue(r)
  \/ Execute(r) \/ ExecuteOutcomeUnknown(r) \/ Abandon(r)
  \/ Respond(r)
  \/ RecordFailure(r) \/ RecordFailureLost(r)

Next ==
  \/ \E r \in Request : Send(r) \/ Proceed(r)
  \/ \E k \in Key : ExpireLease(k) \/ RetentionEnds(k)
  \/ Crash

Spec == Init /\ [][Next]_vars

(***************************************************************************)
(* Fairness.  Handlers run on; leases run out; a client that was left with *)
(* a command in progress keeps retrying it with the same payload; and the  *)
(* database does not refuse to record a failure for ever.                  *)
(***************************************************************************)
Retry(k) == \E r \in Request : Find(r, k, record[k].payload)

Fairness ==
  /\ \A r \in Request : WF_vars(Proceed(r)) /\ SF_vars(RecordFailure(r))
  /\ \A k \in Key : WF_vars(ExpireLease(k)) /\ SF_vars(Retry(k))

FairSpec == Spec /\ Fairness

-----------------------------------------------------------------------------
\* A command takes effect at most once under its key, however often it is
\* retried, taken over, crashed or answered late (idempotency.service.js).
AtMostOnce == \A k \in Key : effects[k] <= 1

\* One account and clientOrderId never yield two orders, even after the record
\* of the command has expired (docs/TRADING_CORE.md, order.model.js index).
OneOrderPerClientOrderId == \A o \in OrderRef : orderCount[o] <= 1

\* The record says COMPLETED exactly when the effect was committed: a trade
\* never commits without its idempotency result, nor the other way round.
CompletedIffExecuted == \A k \in Key : record[k].state = "COMPLETED" <=> effects[k] > 0

\* A client that is told "executed", now or as a replay, sent a command that
\* really took effect with that very payload.
SuccessIsTruthful ==
  \A r \in Request :
    (pc[r] = "idle" /\ reply[r] \in {"executed", "replayed"})
      => <<KeyOf(r), cmd[r].payload>> \in executed

\* A command in progress does not stay so: it completes, fails or is taken over
\* by a retry, even if the process that ran it is gone.
NeverStuckInProgress ==
  \A k \in Key : (record[k].state = "IN_PROGRESS") ~> (record[k].state # "IN_PROGRESS")

(***************************************************************************)
(* The inductive invariant behind the safety properties.  A request and    *)
(* the record it reserved agree on the payload for as long as that very    *)
(* record exists; what a record or an answer calls a success is executed.  *)
(***************************************************************************)
EffectMatchesRecord ==
  \A k \in Key : effects[k] = IF record[k].state = "COMPLETED" THEN 1 ELSE 0

CommittedAtHead == \A r \in Request : pc[r] = "committed" => AtHead(r)

Reserved == {"reserved", "queued", "committed", "failing"}

SamePayloadWhileHeld ==
  \A r \in Request :
    /\ cmd[r].id <= incarnation[KeyOf(r)]
    /\ (cmd[r].id = incarnation[KeyOf(r)] /\ Exists(KeyOf(r)))
         => /\ pc[r] \in Reserved => record[KeyOf(r)].payload = cmd[r].payload
            /\ pc[r] = "found" => record[KeyOf(r)].payload = seen[r].payload

SuccessIsRecorded ==
  /\ \A k \in Key : record[k].state = "COMPLETED" => <<k, record[k].payload>> \in executed
  /\ \A r \in Request :
       /\ (pc[r] = "found" /\ seen[r].state = "COMPLETED")
            => <<KeyOf(r), seen[r].payload>> \in executed
       /\ pc[r] = "committed" => <<KeyOf(r), cmd[r].payload>> \in executed

FailureIsAnError ==
  \A r \in Request : pc[r] = "failing" => failure[r] \in Failure

FoundExists == \A r \in Request : pc[r] = "found" => seen[r].state # "ABSENT"

CommandInv ==
  /\ TypeOK
  /\ EffectMatchesRecord
  /\ CommittedAtHead
  /\ SamePayloadWhileHeld
  /\ SuccessIsRecorded
  /\ FailureIsAnError
  /\ FoundExists
  /\ OneOrderPerClientOrderId
  /\ SuccessIsTruthful

(***************************************************************************)
(* Seen through its records, execution is IdempotentCommand.               *)
(***************************************************************************)
OutcomeOf(rec) ==
  CASE rec.state = "ABSENT"      -> "unknown"
    [] rec.state = "IN_PROGRESS" -> "pending"
    [] rec.state = "COMPLETED"   -> "done"
    [] rec.state = "FAILED"      -> IF rec.retryable THEN "retryable" ELSE "failed"

outcomes == [k \in Key |-> OutcomeOf(record[k])]

Idempotent == INSTANCE IdempotentCommand WITH outcome <- outcomes

ImplementsIdempotentCommand == Idempotent!IdempotentSpec

\* A record tells the truth of its command (idempotency.service.js).
RecordIsTrue == TypeOK /\ CompletedIffExecuted
=============================================================================
