--------------------- MODULE CommandsAndAccountingProofs ---------------------
(***************************************************************************)
(* Proofs about CommandExecution, for any clients, keys, payloads and      *)
(* accounts, about TradeAccounting, for any prices, volumes, rates and     *)
(* limits, and about DecimalArithmetic, for numbers of any size and scale. *)
(*                                                                         *)
(* The argument is CommandInv for the first and AccountingInv for the      *)
(* second; each action has a lemma.  The third needs no invariant: every   *)
(* function has a lemma that says what it returns, and they rest on what   *)
(* products, quotients and powers of ten are.                              *)
(***************************************************************************)
EXTENDS CommandExecution, TradeAccounting, DecimalArithmetic, FiniteSetTheorems, InductionLemmas, TLAPS

(* A line stays a sequence, and a non-empty one keeps its head on Append.  *)
LEMMA LineProperties ==
  ASSUME NEW S, NEW q \in Seq(S), NEW e \in S
  PROVE  /\ Append(q, e) \in Seq(S)
         /\ Append(q, e) # <<>>
         /\ q # <<>> => Head(Append(q, e)) = Head(q)
         /\ q # <<>> => Tail(q) \in Seq(S)
<1>1. Append(q, e) \in Seq(S) /\ Len(Append(q, e)) = Len(q) + 1 /\ Len(q) \in Nat
  OBVIOUS
<1>2. Append(q, e) # <<>>
  BY <1>1
<1>3. ASSUME q # <<>> PROVE Head(Append(q, e)) = Head(q)
  <2>1. Len(q) # 0
    BY <1>3
  <2>2. Append(q, e)[1] = q[1]
    BY <2>1, <1>1
  <2> QED
    BY <2>2, <1>1, <1>2, <1>3
<1>4. q # <<>> => Tail(q) \in Seq(S)
  OBVIOUS
<1> QED
  BY <1>1, <1>2, <1>3, <1>4

(* The command of a client that has sent nothing yet.                      *)
LEMMA NoCmdType ==
  NoCmd \in [key : Key, payload : Payload \cup {NoPayload}, id : Nat] /\ NoCmd.id = 0
BY CommandConstants DEF NoCmd

(* What the records are made of.                                           *)
LEMMA RecordTypes ==
  /\ Absent \in Record
  /\ \A p \in Payload \cup {NoPayload} : InProgress(p) \in Record /\ Completed(p) \in Record
  /\ \A p \in Payload \cup {NoPayload}, b \in BOOLEAN : Failed(p, b) \in Record
BY DEF Absent, InProgress, Completed, Failed, Record

LEMMA InitCommandInv == Init => CommandInv
<1> SUFFICES ASSUME Init PROVE CommandInv
  OBVIOUS
<1>1. TypeOK
  <2>1. <<>> \in Seq(Request)
    OBVIOUS
  <2> QED
    BY <2>1, NoCmdType, RecordTypes, CommandConstants DEF Init, TypeOK, Reply
<1>2. /\ EffectMatchesRecord /\ CommittedAtHead /\ SuccessIsRecorded /\ FailureIsAnError
      /\ FoundExists /\ OneOrderPerClientOrderId /\ SuccessIsTruthful
  BY DEF Init, Absent, EffectMatchesRecord, CommittedAtHead, SuccessIsRecorded,
         FailureIsAnError, FoundExists, OneOrderPerClientOrderId, SuccessIsTruthful
<1>3. SamePayloadWhileHeld
  <2>1. \A r \in Request : cmd[r] = NoCmd /\ KeyOf(r) \in Key /\ pc[r] = "idle"
    BY NoCmdType DEF Init, KeyOf
  <2>2. \A r \in Request : cmd[r].id = 0 /\ incarnation[KeyOf(r)] = 0 /\ ~Exists(KeyOf(r))
    BY <2>1, NoCmdType DEF Init, Exists, Absent
  <2>3. \A r \in Request : cmd[r].id <= incarnation[KeyOf(r)]
    <3> SUFFICES ASSUME NEW r \in Request PROVE cmd[r].id <= incarnation[KeyOf(r)]
      OBVIOUS
    <3>1. cmd[r].id = 0 /\ incarnation[KeyOf(r)] = 0
      BY <2>2
    <3> QED
      BY <3>1
  <2> QED
    BY <2>2, <2>3 DEF SamePayloadWhileHeld
<1> QED
  BY <1>1, <1>2, <1>3 DEF CommandInv

-----------------------------------------------------------------------------
LEMMA CreateStep ==
  ASSUME CommandInv, NEW r \in Request, NEW k \in Key, NEW p \in Payload, Create(r, k, p)
  PROVE  CommandInv'
<1>1. TypeOK'
  BY RecordTypes DEF CommandInv, TypeOK, Create, Reply, history
<1>2. EffectMatchesRecord' /\ OneOrderPerClientOrderId'
  BY DEF CommandInv, TypeOK, EffectMatchesRecord, OneOrderPerClientOrderId, Create,
         Exists, InProgress, history
<1>3. CommittedAtHead'
  BY DEF CommandInv, TypeOK, CommittedAtHead, Create, AtHead, Own, KeyOf
<1>4. SamePayloadWhileHeld'
  BY DEF CommandInv, TypeOK, SamePayloadWhileHeld, Create, KeyOf, Exists, InProgress, Reserved
<1>5. SuccessIsRecorded'
  BY DEF CommandInv, TypeOK, SuccessIsRecorded, Create, KeyOf, InProgress, history
<1>6. FailureIsAnError' /\ FoundExists' /\ SuccessIsTruthful'
  BY DEF CommandInv, TypeOK, FailureIsAnError, FoundExists, SuccessIsTruthful, Create, KeyOf, history
<1> QED
  BY <1>1, <1>2, <1>3, <1>4, <1>5, <1>6 DEF CommandInv

LEMMA FindStep ==
  ASSUME CommandInv, NEW r \in Request, NEW k \in Key, NEW p \in Payload, Find(r, k, p)
  PROVE  CommandInv'
<1>1. TypeOK'
  BY DEF CommandInv, TypeOK, Find, Reply, database, history
<1>2. EffectMatchesRecord' /\ OneOrderPerClientOrderId'
  BY DEF CommandInv, EffectMatchesRecord, OneOrderPerClientOrderId, Find, database, history
<1>3. CommittedAtHead'
  BY DEF CommandInv, TypeOK, CommittedAtHead, Find, AtHead, Own, KeyOf
<1>4. SamePayloadWhileHeld'
  BY DEF CommandInv, TypeOK, SamePayloadWhileHeld, Find, KeyOf, Exists, Reserved, database
<1>5. SuccessIsRecorded'
  BY DEF CommandInv, TypeOK, SuccessIsRecorded, Find, KeyOf, database, history
<1>6. FailureIsAnError' /\ FoundExists' /\ SuccessIsTruthful'
  BY DEF CommandInv, TypeOK, FailureIsAnError, FoundExists, SuccessIsTruthful, Find, KeyOf,
         Exists, database, history
<1> QED
  BY <1>1, <1>2, <1>3, <1>4, <1>5, <1>6 DEF CommandInv

LEMMA RejectKeyReuseStep ==
  ASSUME CommandInv, NEW r \in Request, RejectKeyReuse(r)
  PROVE  CommandInv'
<1>1. TypeOK'
  BY RecordTypes DEF CommandInv, TypeOK, RejectKeyReuse, Answer, Reply, database, history
<1>2. EffectMatchesRecord' /\ OneOrderPerClientOrderId'
  BY DEF CommandInv, EffectMatchesRecord, OneOrderPerClientOrderId, RejectKeyReuse, database, history
<1>3. CommittedAtHead'
  BY DEF CommandInv, TypeOK, CommittedAtHead, RejectKeyReuse, Answer, AtHead, Own, KeyOf
<1>4. SamePayloadWhileHeld'
  BY DEF CommandInv, TypeOK, SamePayloadWhileHeld, RejectKeyReuse, Answer, KeyOf, Exists, Reserved, database
<1>5. SuccessIsRecorded'
  BY DEF CommandInv, TypeOK, SuccessIsRecorded, RejectKeyReuse, Answer, KeyOf, database, history
<1>6. FailureIsAnError' /\ FoundExists' /\ SuccessIsTruthful'
  BY DEF CommandInv, TypeOK, FailureIsAnError, FoundExists, SuccessIsTruthful, RejectKeyReuse,
         Answer, KeyOf, database, history
<1> QED
  BY <1>1, <1>2, <1>3, <1>4, <1>5, <1>6 DEF CommandInv

LEMMA TakeOverStep ==
  ASSUME CommandInv, NEW r \in Request, TakeOver(r)
  PROVE  CommandInv'
<1>0. KeyOf(r) \in Key /\ record[KeyOf(r)] \in Record /\ seen[r] \in Record
  BY DEF CommandInv, TypeOK, KeyOf
<1>1. TypeOK'
  <2>1. record[KeyOf(r)].payload \in Payload \cup {NoPayload}
    BY <1>0 DEF Record
  <2> QED
    BY <1>0, <2>1, RecordTypes DEF CommandInv, TypeOK, TakeOver, history
<1>2. EffectMatchesRecord' /\ OneOrderPerClientOrderId'
  BY <1>0 DEF CommandInv, TypeOK, EffectMatchesRecord, OneOrderPerClientOrderId, TakeOver,
         LeaseExpired, Reopenable, InProgress, history
<1>3. CommittedAtHead'
  BY DEF CommandInv, TypeOK, CommittedAtHead, TakeOver, AtHead, Own, KeyOf
<1>4. SamePayloadWhileHeld'
  BY <1>0 DEF CommandInv, TypeOK, SamePayloadWhileHeld, TakeOver, SamePayload, LeaseExpired,
         Reopenable, InProgress, KeyOf, Exists, Reserved
<1>5. SuccessIsRecorded'
  BY <1>0 DEF CommandInv, TypeOK, SuccessIsRecorded, TakeOver, InProgress, KeyOf, history
<1>6. FailureIsAnError' /\ FoundExists' /\ SuccessIsTruthful'
  BY DEF CommandInv, TypeOK, FailureIsAnError, FoundExists, SuccessIsTruthful, TakeOver,
         KeyOf, history
<1> QED
  BY <1>1, <1>2, <1>3, <1>4, <1>5, <1>6 DEF CommandInv

LEMMA AnswerFromRecordStep ==
  ASSUME CommandInv, NEW r \in Request, AnswerFromRecord(r)
  PROVE  CommandInv'
<1>0. /\ StoredAnswer(seen[r]) \in Reply
      /\ StoredAnswer(seen[r]) = "replayed" => seen[r].state = "COMPLETED"
      /\ StoredAnswer(seen[r]) # "executed"
  <2>1. seen[r] \in Record /\ seen[r].state # "ABSENT"
    BY DEF CommandInv, TypeOK, FoundExists, AnswerFromRecord
  <2> QED
    BY <2>1 DEF StoredAnswer, Record, Reply, Failure
<1>1. TypeOK'
  BY <1>0, RecordTypes DEF CommandInv, TypeOK, AnswerFromRecord, Answer, database, history
<1>2. EffectMatchesRecord' /\ OneOrderPerClientOrderId'
  BY DEF CommandInv, EffectMatchesRecord, OneOrderPerClientOrderId, AnswerFromRecord, database, history
<1>3. CommittedAtHead'
  BY DEF CommandInv, TypeOK, CommittedAtHead, AnswerFromRecord, Answer, AtHead, Own, KeyOf
<1>4. SamePayloadWhileHeld'
  BY DEF CommandInv, TypeOK, SamePayloadWhileHeld, AnswerFromRecord, Answer, KeyOf, Exists, Reserved, database
<1>5. SuccessIsRecorded'
  BY DEF CommandInv, TypeOK, SuccessIsRecorded, AnswerFromRecord, Answer, KeyOf, database, history
<1>6. FailureIsAnError' /\ FoundExists'
  BY DEF CommandInv, TypeOK, FailureIsAnError, FoundExists, AnswerFromRecord, Answer
<1>7. SuccessIsTruthful'
  BY <1>0 DEF CommandInv, TypeOK, SuccessIsTruthful, SuccessIsRecorded, AnswerFromRecord, Answer,
         SamePayload, KeyOf, database, history
<1> QED
  BY <1>1, <1>2, <1>3, <1>4, <1>5, <1>6, <1>7 DEF CommandInv

-----------------------------------------------------------------------------
LEMMA EnqueueStep ==
  ASSUME CommandInv, NEW r \in Request, Enqueue(r)
  PROVE  CommandInv'
<1>0. /\ Own(r) \in Account
      /\ line[Own(r)] \in Seq(Request)
      /\ \A q \in Request : Own(q) \in Account
  BY CommandConstants DEF CommandInv, TypeOK, Own, KeyOf
<1>1. TypeOK'
  BY <1>0, LineProperties DEF CommandInv, TypeOK, Enqueue, database, history
<1>2. EffectMatchesRecord' /\ OneOrderPerClientOrderId'
  BY DEF CommandInv, EffectMatchesRecord, OneOrderPerClientOrderId, Enqueue, database, history
<1>3. CommittedAtHead'
  <2> SUFFICES ASSUME NEW q \in Request, pc'[q] = "committed" PROVE AtHead(q)'
    BY DEF CommittedAtHead
  <2>1. pc[q] = "committed" /\ Own(q)' = Own(q)
    BY DEF CommandInv, TypeOK, Enqueue, Own, KeyOf
  <2>2. AtHead(q)
    BY <2>1 DEF CommandInv, CommittedAtHead
  <2>3. CASE Own(q) = Own(r)
    <3>1. line'[Own(r)] = Append(line[Own(r)], r)
      BY <1>0 DEF CommandInv, TypeOK, Enqueue
    <3>2. /\ Append(line[Own(r)], r) # <<>>
          /\ line[Own(r)] # <<>> => Head(Append(line[Own(r)], r)) = Head(line[Own(r)])
      BY <1>0, LineProperties
    <3> QED
      BY <2>1, <2>2, <2>3, <3>1, <3>2 DEF AtHead
  <2>4. CASE Own(q) # Own(r)
    BY <1>0, <2>1, <2>2, <2>4 DEF CommandInv, TypeOK, Enqueue, AtHead
  <2> QED
    BY <2>3, <2>4
<1>4. SamePayloadWhileHeld'
  BY DEF CommandInv, TypeOK, SamePayloadWhileHeld, Enqueue, KeyOf, Exists, Reserved, database
<1>5. SuccessIsRecorded'
  BY DEF CommandInv, TypeOK, SuccessIsRecorded, Enqueue, KeyOf, database, history
<1>6. FailureIsAnError' /\ FoundExists' /\ SuccessIsTruthful'
  BY DEF CommandInv, TypeOK, FailureIsAnError, FoundExists, SuccessIsTruthful, Enqueue,
         KeyOf, database, history
<1> QED
  BY <1>1, <1>2, <1>3, <1>4, <1>5, <1>6 DEF CommandInv

(* Leaving the head of a line does not disturb a request that has          *)
(* committed: it is at the head of the line of another account.            *)
LEMMA LeaveKeepsHeads ==
  ASSUME CommandInv, NEW r \in Request, AtHead(r), Leave(r), UNCHANGED cmd
  PROVE  /\ line' \in [Account -> Seq(Request)]
         /\ \A q \in Request : (q # r /\ pc[q] = "committed") => AtHead(q)'
<1>0. /\ Own(r) \in Account
      /\ line[Own(r)] \in Seq(Request)
      /\ line[Own(r)] # <<>>
      /\ line \in [Account -> Seq(Request)]
  BY CommandConstants DEF CommandInv, TypeOK, Own, KeyOf, AtHead
<1>1. line' \in [Account -> Seq(Request)]
  BY <1>0, LineProperties DEF Leave
<1>2. ASSUME NEW q \in Request, q # r, pc[q] = "committed" PROVE AtHead(q)'
  <2>1. AtHead(q)
    BY <1>2 DEF CommandInv, CommittedAtHead
  <2>2. Own(q) # Own(r)
    BY <1>2, <2>1 DEF AtHead
  <2>3. Own(q)' = Own(q) /\ Own(q) \in Account
    BY CommandConstants DEF CommandInv, TypeOK, Own, KeyOf
  <2> QED
    BY <1>0, <2>1, <2>2, <2>3 DEF AtHead, Leave
<1> QED
  BY <1>1, <1>2

(* A commit keeps the database's part of the invariant.                    *)
LEMMA CommitKeepsDatabase ==
  ASSUME CommandInv, NEW r \in Request, pc[r] = "queued", Commit(r), UNCHANGED cmd
  PROVE  /\ record' \in [Key -> Record]
         /\ incarnation' \in [Key -> Nat]
         /\ orderCount' \in [OrderRef -> Nat]
         /\ effects' \in [Key -> Nat]
         /\ executed' \subseteq Key \X (Payload \cup {NoPayload})
         /\ EffectMatchesRecord'
         /\ OneOrderPerClientOrderId'
         /\ \A k \in Key : record'[k].state = "COMPLETED" => <<k, record'[k].payload>> \in executed'
         /\ executed \subseteq executed'
         /\ <<KeyOf(r), cmd[r].payload>> \in executed'
         /\ incarnation' = incarnation
         /\ \A k \in Key : record'[k].payload = record[k].payload /\ (Exists(k)' <=> Exists(k))
<1> DEFINE k == KeyOf(r)
<1>0. /\ k \in Key /\ record[k] \in Record /\ cmd[r].payload \in Payload \cup {NoPayload}
      /\ record[k].payload \in Payload \cup {NoPayload}
      /\ OrderOf[k] \in OrderRef \cup {NoOrder}
  BY CommandConstants DEF CommandInv, TypeOK, KeyOf, Record
<1>1. /\ record' = [record EXCEPT ![k] = Completed(record[k].payload)]
      /\ effects' = [effects EXCEPT ![k] = effects[k] + 1]
      /\ executed' = executed \cup {<<k, cmd[r].payload>>}
      /\ orderCount' = IF OrderOf[k] = NoOrder THEN orderCount
                       ELSE [orderCount EXCEPT ![OrderOf[k]] = orderCount[OrderOf[k]] + 1]
      /\ incarnation' = incarnation
      /\ record[k].state = "IN_PROGRESS"
      /\ incarnation[k] = cmd[r].id
      /\ OrderIsNew(k)
  BY DEF Commit, HoldsInProgress
<1>2. record[k].payload = cmd[r].payload
  BY <1>1 DEF CommandInv, SamePayloadWhileHeld, Exists, Reserved
<1>3. /\ record' \in [Key -> Record]
      /\ incarnation' \in [Key -> Nat]
      /\ effects' \in [Key -> Nat]
      /\ executed' \subseteq Key \X (Payload \cup {NoPayload})
  BY <1>0, <1>1, RecordTypes DEF CommandInv, TypeOK
<1>4. orderCount' \in [OrderRef -> Nat] /\ OneOrderPerClientOrderId'
  BY <1>0, <1>1 DEF CommandInv, TypeOK, OrderIsNew, OneOrderPerClientOrderId
<1>5. EffectMatchesRecord'
  BY <1>0, <1>1 DEF CommandInv, TypeOK, EffectMatchesRecord, Completed
<1>6. \A j \in Key : record'[j].state = "COMPLETED" => <<j, record'[j].payload>> \in executed'
  BY <1>0, <1>1, <1>2 DEF CommandInv, TypeOK, SuccessIsRecorded, Completed
<1>7. \A j \in Key : record'[j].payload = record[j].payload /\ (Exists(j)' <=> Exists(j))
  BY <1>0, <1>1 DEF CommandInv, TypeOK, Exists, Completed
<1> QED
  BY <1>1, <1>3, <1>4, <1>5, <1>6, <1>7

LEMMA ExecuteStep ==
  ASSUME CommandInv, NEW r \in Request, Execute(r)
  PROVE  CommandInv'
<1>0. pc[r] = "queued" /\ Commit(r) /\ UNCHANGED cmd
  BY DEF Execute
<1>1. TypeOK'
  BY <1>0, CommitKeepsDatabase DEF CommandInv, TypeOK, Execute
<1>2. EffectMatchesRecord' /\ OneOrderPerClientOrderId'
  BY <1>0, CommitKeepsDatabase
<1>3. CommittedAtHead'
  BY DEF CommandInv, TypeOK, CommittedAtHead, Execute, AtHead, Own, KeyOf
<1>4. SamePayloadWhileHeld'
  <2> SUFFICES ASSUME NEW q \in Request
               PROVE  /\ cmd[q].id <= incarnation[KeyOf(q)]
                      /\ (cmd[q].id = incarnation[KeyOf(q)] /\ Exists(KeyOf(q)))
                           => /\ pc'[q] \in Reserved => record[KeyOf(q)].payload = cmd[q].payload
                              /\ pc'[q] = "found" => record[KeyOf(q)].payload = seen[q].payload
    <3>1. \A q \in Request : KeyOf(q)' = KeyOf(q)
      BY <1>0 DEF CommandInv, TypeOK, KeyOf
    <3>2. /\ incarnation' = incarnation
          /\ \A k \in Key : record'[k].payload = record[k].payload /\ (Exists(k)' <=> Exists(k))
      BY <1>0, CommitKeepsDatabase
    <3>3. cmd' = cmd /\ seen' = seen
      BY <1>0 DEF Execute
    <3>4. \A q \in Request : KeyOf(q) \in Key
      BY DEF CommandInv, TypeOK, KeyOf
    <3> QED
      BY <3>1, <3>2, <3>3, <3>4 DEF SamePayloadWhileHeld
  <2> QED
    BY <1>0 DEF CommandInv, TypeOK, SamePayloadWhileHeld, Execute, Reserved
<1>5. SuccessIsRecorded'
  BY <1>0, CommitKeepsDatabase DEF CommandInv, TypeOK, SuccessIsRecorded, Execute, KeyOf
<1>6. FailureIsAnError' /\ FoundExists'
  BY DEF CommandInv, TypeOK, FailureIsAnError, FoundExists, Execute
<1>7. SuccessIsTruthful'
  BY <1>0, CommitKeepsDatabase DEF CommandInv, TypeOK, SuccessIsTruthful, Execute, KeyOf
<1> QED
  BY <1>1, <1>2, <1>3, <1>4, <1>5, <1>6, <1>7 DEF CommandInv

LEMMA RespondStep ==
  ASSUME CommandInv, NEW r \in Request, Respond(r)
  PROVE  CommandInv'
<1>0. AtHead(r) /\ Leave(r) /\ UNCHANGED cmd
  BY DEF CommandInv, CommittedAtHead, Respond
<1>1. TypeOK'
  <2>1. line' \in [Account -> Seq(Request)]
    BY <1>0, LeaveKeepsHeads
  <2> QED
    BY <2>1 DEF CommandInv, TypeOK, Respond, Answer, Reply, database, history
<1>2. EffectMatchesRecord' /\ OneOrderPerClientOrderId'
  BY DEF CommandInv, EffectMatchesRecord, OneOrderPerClientOrderId, Respond, database, history
<1>3. CommittedAtHead'
  BY <1>0, LeaveKeepsHeads DEF CommandInv, TypeOK, CommittedAtHead, Respond, Answer
<1>4. SamePayloadWhileHeld'
  BY DEF CommandInv, TypeOK, SamePayloadWhileHeld, Respond, Answer, KeyOf, Exists, Reserved, database
<1>5. SuccessIsRecorded'
  BY DEF CommandInv, TypeOK, SuccessIsRecorded, Respond, Answer, KeyOf, database, history
<1>6. FailureIsAnError' /\ FoundExists'
  BY DEF CommandInv, TypeOK, FailureIsAnError, FoundExists, Respond, Answer
<1>7. SuccessIsTruthful'
  BY DEF CommandInv, TypeOK, SuccessIsTruthful, SuccessIsRecorded, Respond, Answer, KeyOf,
         database, history
<1> QED
  BY <1>1, <1>2, <1>3, <1>4, <1>5, <1>6, <1>7 DEF CommandInv

LEMMA ExecuteOutcomeUnknownStep ==
  ASSUME CommandInv, NEW r \in Request, ExecuteOutcomeUnknown(r)
  PROVE  CommandInv'
<1>0. pc[r] = "queued" /\ AtHead(r) /\ Commit(r) /\ Leave(r) /\ UNCHANGED cmd
  BY DEF ExecuteOutcomeUnknown
<1>1. TypeOK'
  <2>1. line' \in [Account -> Seq(Request)]
    BY <1>0, LeaveKeepsHeads
  <2> QED
    BY <1>0, <2>1, CommitKeepsDatabase DEF CommandInv, TypeOK, ExecuteOutcomeUnknown, Failure
<1>2. EffectMatchesRecord' /\ OneOrderPerClientOrderId'
  BY <1>0, CommitKeepsDatabase
<1>3. CommittedAtHead'
  BY <1>0, LeaveKeepsHeads DEF CommandInv, TypeOK, CommittedAtHead, ExecuteOutcomeUnknown
<1>4. SamePayloadWhileHeld'
  <2> SUFFICES ASSUME NEW q \in Request
               PROVE  /\ cmd[q].id <= incarnation[KeyOf(q)]
                      /\ (cmd[q].id = incarnation[KeyOf(q)] /\ Exists(KeyOf(q)))
                           => /\ pc'[q] \in Reserved => record[KeyOf(q)].payload = cmd[q].payload
                              /\ pc'[q] = "found" => record[KeyOf(q)].payload = seen[q].payload
    <3>1. \A q \in Request : KeyOf(q)' = KeyOf(q)
      BY <1>0 DEF CommandInv, TypeOK, KeyOf
    <3>2. /\ incarnation' = incarnation
          /\ \A k \in Key : record'[k].payload = record[k].payload /\ (Exists(k)' <=> Exists(k))
      BY <1>0, CommitKeepsDatabase
    <3>3. cmd' = cmd /\ seen' = seen
      BY <1>0 DEF ExecuteOutcomeUnknown
    <3>4. \A q \in Request : KeyOf(q) \in Key
      BY DEF CommandInv, TypeOK, KeyOf
    <3> QED
      BY <3>1, <3>2, <3>3, <3>4 DEF SamePayloadWhileHeld
  <2> QED
    BY <1>0 DEF CommandInv, TypeOK, SamePayloadWhileHeld, ExecuteOutcomeUnknown, Reserved
<1>5. SuccessIsRecorded'
  BY <1>0, CommitKeepsDatabase DEF CommandInv, TypeOK, SuccessIsRecorded, ExecuteOutcomeUnknown, KeyOf
<1>6. FailureIsAnError' /\ FoundExists'
  BY DEF CommandInv, TypeOK, FailureIsAnError, FoundExists, ExecuteOutcomeUnknown, Failure
<1>7. SuccessIsTruthful'
  BY <1>0, CommitKeepsDatabase DEF CommandInv, TypeOK, SuccessIsTruthful, ExecuteOutcomeUnknown, KeyOf
<1> QED
  BY <1>1, <1>2, <1>3, <1>4, <1>5, <1>6, <1>7 DEF CommandInv

LEMMA AbandonStep ==
  ASSUME CommandInv, NEW r \in Request, Abandon(r)
  PROVE  CommandInv'
<1>0. AtHead(r) /\ Leave(r) /\ UNCHANGED cmd
  BY DEF Abandon
<1>00. PICK f \in Failure : failure' = [failure EXCEPT ![r] = f]
  BY DEF Abandon, AbandonReason, Failure
<1>1. TypeOK'
  <2>1. line' \in [Account -> Seq(Request)]
    BY <1>0, LeaveKeepsHeads
  <2> QED
    BY <2>1, <1>00 DEF CommandInv, TypeOK, Abandon, Failure, database, history
<1>2. EffectMatchesRecord' /\ OneOrderPerClientOrderId'
  BY DEF CommandInv, EffectMatchesRecord, OneOrderPerClientOrderId, Abandon, database, history
<1>3. CommittedAtHead'
  BY <1>0, LeaveKeepsHeads DEF CommandInv, TypeOK, CommittedAtHead, Abandon
<1>4. SamePayloadWhileHeld'
  BY DEF CommandInv, TypeOK, SamePayloadWhileHeld, Abandon, KeyOf, Exists, Reserved, database
<1>5. SuccessIsRecorded'
  BY DEF CommandInv, TypeOK, SuccessIsRecorded, Abandon, KeyOf, database, history
<1>6. FailureIsAnError'
  BY <1>00 DEF CommandInv, TypeOK, FailureIsAnError, Abandon
<1>7. FoundExists' /\ SuccessIsTruthful'
  BY DEF CommandInv, TypeOK, FoundExists, SuccessIsTruthful, Abandon, KeyOf, database, history
<1> QED
  BY <1>1, <1>2, <1>3, <1>4, <1>5, <1>6, <1>7 DEF CommandInv

LEMMA RecordFailureStep ==
  ASSUME CommandInv, NEW r \in Request, RecordFailure(r)
  PROVE  CommandInv'
<1> DEFINE k == KeyOf(r)
<1>0. k \in Key /\ record[k] \in Record /\ record[k].payload \in Payload \cup {NoPayload}
  BY DEF CommandInv, TypeOK, KeyOf, Record
<1>a. failure[r] \in Failure
  BY DEF CommandInv, FailureIsAnError, RecordFailure
<1>b. \/ record' = record
      \/ /\ record[k].state = "IN_PROGRESS"
         /\ record' = [record EXCEPT ![k] = Failed(record[k].payload, IsRetryable(failure[r]))]
  BY DEF RecordFailure, HoldsInProgress
<1>c. /\ record' \in [Key -> Record]
      /\ \A j \in Key : /\ record'[j].payload = record[j].payload
                        /\ Exists(j)' <=> Exists(j)
                        /\ record'[j].state = "COMPLETED" <=> record[j].state = "COMPLETED"
  <2>1. IsRetryable(failure[r]) \in BOOLEAN
    BY DEF IsRetryable
  <2>2. Failed(record[k].payload, IsRetryable(failure[r])) \in Record
    BY <1>0, <2>1, RecordTypes
  <2>3. CASE record' = record
    BY <2>3 DEF CommandInv, TypeOK, Exists
  <2>4. CASE /\ record[k].state = "IN_PROGRESS"
             /\ record' = [record EXCEPT ![k] = Failed(record[k].payload, IsRetryable(failure[r]))]
    <3> DEFINE f == Failed(record[k].payload, IsRetryable(failure[r]))
    <3>1. f.payload = record[k].payload /\ f.state = "FAILED" /\ f \in Record
      BY <2>2 DEF Failed
    <3>2. /\ record \in [Key -> Record]
          /\ record' = [record EXCEPT ![k] = f]
      BY <2>4 DEF CommandInv, TypeOK
    <3> HIDE DEF f
    <3> QED
      BY <1>0, <2>4, <3>1, <3>2 DEF Exists
  <2> QED
    BY <1>b, <2>3, <2>4
<1>1. TypeOK'
  BY <1>a, <1>c DEF CommandInv, TypeOK, RecordFailure, Answer, Reply, history
<1>2. EffectMatchesRecord' /\ OneOrderPerClientOrderId'
  BY <1>c DEF CommandInv, EffectMatchesRecord, OneOrderPerClientOrderId, RecordFailure, history
<1>3. CommittedAtHead'
  BY DEF CommandInv, TypeOK, CommittedAtHead, RecordFailure, Answer, AtHead, Own, KeyOf
<1>4. SamePayloadWhileHeld'
  <2>1. \A q \in Request : KeyOf(q) \in Key /\ KeyOf(q)' = KeyOf(q)
    BY DEF CommandInv, TypeOK, KeyOf, RecordFailure
  <2> QED
    BY <1>c, <2>1 DEF CommandInv, TypeOK, SamePayloadWhileHeld, RecordFailure, Answer, Reserved
<1>5. SuccessIsRecorded'
  BY <1>c DEF CommandInv, TypeOK, SuccessIsRecorded, RecordFailure, Answer, KeyOf, history
<1>6. FailureIsAnError' /\ FoundExists'
  BY DEF CommandInv, TypeOK, FailureIsAnError, FoundExists, RecordFailure, Answer
<1>7. SuccessIsTruthful'
  BY <1>a DEF CommandInv, TypeOK, SuccessIsTruthful, RecordFailure, Answer, Failure, KeyOf, history
<1> QED
  BY <1>1, <1>2, <1>3, <1>4, <1>5, <1>6, <1>7 DEF CommandInv

LEMMA RecordFailureLostStep ==
  ASSUME CommandInv, NEW r \in Request, RecordFailureLost(r)
  PROVE  CommandInv'
<1>a. failure[r] \in Failure
  BY DEF CommandInv, FailureIsAnError, RecordFailureLost
<1>1. TypeOK'
  BY <1>a DEF CommandInv, TypeOK, RecordFailureLost, Answer, Reply, database, history
<1>2. EffectMatchesRecord' /\ OneOrderPerClientOrderId'
  BY DEF CommandInv, EffectMatchesRecord, OneOrderPerClientOrderId, RecordFailureLost, database, history
<1>3. CommittedAtHead'
  BY DEF CommandInv, TypeOK, CommittedAtHead, RecordFailureLost, Answer, AtHead, Own, KeyOf
<1>4. SamePayloadWhileHeld'
  BY DEF CommandInv, TypeOK, SamePayloadWhileHeld, RecordFailureLost, Answer, KeyOf, Exists,
         Reserved, database
<1>5. SuccessIsRecorded'
  BY DEF CommandInv, TypeOK, SuccessIsRecorded, RecordFailureLost, Answer, KeyOf, database, history
<1>6. FailureIsAnError' /\ FoundExists'
  BY DEF CommandInv, TypeOK, FailureIsAnError, FoundExists, RecordFailureLost, Answer
<1>7. SuccessIsTruthful'
  BY <1>a DEF CommandInv, TypeOK, SuccessIsTruthful, RecordFailureLost, Answer, Failure, KeyOf,
         database, history
<1> QED
  BY <1>1, <1>2, <1>3, <1>4, <1>5, <1>6, <1>7 DEF CommandInv

-----------------------------------------------------------------------------
LEMMA ExpireLeaseStep ==
  ASSUME CommandInv, NEW k \in Key, ExpireLease(k)
  PROVE  CommandInv'
<1>0. /\ record' \in [Key -> Record]
      /\ \A j \in Key : /\ record'[j].payload = record[j].payload
                        /\ record'[j].state = record[j].state
  <2> DEFINE e == [record[k] EXCEPT !.expired = TRUE]
  <2>1. record \in [Key -> Record] /\ record[k] \in Record /\ record' = [record EXCEPT ![k] = e]
    BY DEF CommandInv, TypeOK, ExpireLease
  <2>2. e \in Record /\ e.payload = record[k].payload /\ e.state = record[k].state
    BY <2>1 DEF Record
  <2> HIDE DEF e
  <2> QED
    BY <2>1, <2>2
<1>1. TypeOK'
  BY <1>0 DEF CommandInv, TypeOK, ExpireLease, history
<1>2. EffectMatchesRecord' /\ OneOrderPerClientOrderId'
  BY <1>0 DEF CommandInv, EffectMatchesRecord, OneOrderPerClientOrderId, ExpireLease, history
<1>3. CommittedAtHead'
  BY DEF CommandInv, CommittedAtHead, ExpireLease, AtHead, Own, KeyOf
<1>4. SamePayloadWhileHeld'
  <2>1. \A q \in Request : KeyOf(q) \in Key
    BY DEF CommandInv, TypeOK, KeyOf
  <2> QED
    BY <1>0, <2>1 DEF CommandInv, SamePayloadWhileHeld, ExpireLease, KeyOf, Exists
<1>5. SuccessIsRecorded'
  BY <1>0 DEF CommandInv, SuccessIsRecorded, ExpireLease, KeyOf, history
<1>6. FailureIsAnError' /\ FoundExists' /\ SuccessIsTruthful'
  BY DEF CommandInv, FailureIsAnError, FoundExists, SuccessIsTruthful, ExpireLease, KeyOf, history
<1> QED
  BY <1>1, <1>2, <1>3, <1>4, <1>5, <1>6 DEF CommandInv

LEMMA RetentionEndsStep ==
  ASSUME CommandInv, NEW k \in Key, RetentionEnds(k)
  PROVE  CommandInv'
<1>0. /\ record' \in [Key -> Record]
      /\ record' = [record EXCEPT ![k] = Absent]
      /\ \A j \in Key : j # k => record'[j] = record[j]
      /\ record'[k].state = "ABSENT"
  BY RecordTypes DEF CommandInv, TypeOK, RetentionEnds, Absent
<1>1. TypeOK'
  BY <1>0 DEF CommandInv, TypeOK, RetentionEnds
<1>2. EffectMatchesRecord' /\ OneOrderPerClientOrderId'
  BY <1>0 DEF CommandInv, TypeOK, EffectMatchesRecord, OneOrderPerClientOrderId, RetentionEnds
<1>3. CommittedAtHead'
  BY DEF CommandInv, CommittedAtHead, RetentionEnds, AtHead, Own, KeyOf
<1>4. SamePayloadWhileHeld'
  <2>1. \A q \in Request : KeyOf(q) \in Key /\ KeyOf(q)' = KeyOf(q)
    BY DEF CommandInv, TypeOK, KeyOf, RetentionEnds
  <2>2. \A j \in Key : Exists(j)' => j # k
    BY <1>0 DEF Exists
  <2> QED
    BY <1>0, <2>1, <2>2 DEF CommandInv, SamePayloadWhileHeld, RetentionEnds, Exists
<1>5. SuccessIsRecorded'
  BY <1>0 DEF CommandInv, SuccessIsRecorded, RetentionEnds, KeyOf
<1>6. FailureIsAnError' /\ FoundExists' /\ SuccessIsTruthful'
  BY DEF CommandInv, FailureIsAnError, FoundExists, SuccessIsTruthful, RetentionEnds, KeyOf
<1> QED
  BY <1>1, <1>2, <1>3, <1>4, <1>5, <1>6 DEF CommandInv

LEMMA CrashStep ==
  ASSUME CommandInv, Crash
  PROVE  CommandInv'
<1>1. TypeOK'
  <2>1. <<>> \in Seq(Request)
    OBVIOUS
  <2>2. line' \in [Account -> Seq(Request)]
    BY <2>1 DEF Crash
  <2> QED
    BY <2>2, RecordTypes DEF CommandInv, TypeOK, Crash, Reply, database, history
<1>2. EffectMatchesRecord' /\ OneOrderPerClientOrderId'
  BY DEF CommandInv, EffectMatchesRecord, OneOrderPerClientOrderId, Crash, database, history
<1>3. CommittedAtHead' /\ FailureIsAnError' /\ FoundExists'
  BY DEF CommittedAtHead, FailureIsAnError, FoundExists, Crash
<1>4. SamePayloadWhileHeld'
  BY DEF CommandInv, SamePayloadWhileHeld, Crash, KeyOf, Exists, Reserved, database
<1>5. SuccessIsRecorded' /\ SuccessIsTruthful'
  BY DEF CommandInv, SuccessIsRecorded, SuccessIsTruthful, Crash, KeyOf, database, history
<1> QED
  BY <1>1, <1>2, <1>3, <1>4, <1>5 DEF CommandInv

LEMMA StutterStep ==
  ASSUME CommandInv, UNCHANGED vars
  PROVE  CommandInv'
BY DEF CommandInv, vars, TypeOK, EffectMatchesRecord, CommittedAtHead, SamePayloadWhileHeld,
       SuccessIsRecorded, FailureIsAnError, FoundExists, OneOrderPerClientOrderId,
       SuccessIsTruthful, AtHead, Own, KeyOf, Exists

LEMMA CommandInvIsInductive == CommandInv /\ [Next]_vars => CommandInv'
<1> SUFFICES ASSUME CommandInv, [Next]_vars PROVE CommandInv'
  OBVIOUS
<1>1. ASSUME NEW r \in Request, Send(r) PROVE CommandInv'
  BY <1>1, CreateStep, FindStep DEF Send
<1>2. ASSUME NEW r \in Request, Proceed(r) PROVE CommandInv'
  BY <1>2, RejectKeyReuseStep, TakeOverStep, AnswerFromRecordStep, EnqueueStep, ExecuteStep,
     ExecuteOutcomeUnknownStep, AbandonStep, RespondStep, RecordFailureStep,
     RecordFailureLostStep DEF Proceed
<1>3. ASSUME NEW k \in Key, ExpireLease(k) \/ RetentionEnds(k) PROVE CommandInv'
  BY <1>3, ExpireLeaseStep, RetentionEndsStep
<1> QED
  BY <1>1, <1>2, <1>3, CrashStep, StutterStep DEF Next

(* The invariant holds of every reachable state of the command path.       *)
THEOREM CommandInvariant == Spec => []CommandInv
<1>1. Init => CommandInv
  BY InitCommandInv
<1>2. CommandInv /\ [Next]_vars => CommandInv'
  BY CommandInvIsInductive
<1> QED
  BY <1>1, <1>2, PTL DEF Spec

(* However often a command is sent, taken over, lost or answered late, it  *)
(* takes effect at most once under its key (idempotency.service.js).       *)
THEOREM AtMostOnceTheorem == Spec => []AtMostOnce
<1>1. CommandInv => AtMostOnce
  BY DEF CommandInv, EffectMatchesRecord, AtMostOnce
<1> QED
  BY <1>1, CommandInvariant, PTL

(* A trade is committed exactly when its record says COMPLETED             *)
(* (#completeReservation inside the transaction).                          *)
THEOREM RecordIsTrueTheorem == Spec => []RecordIsTrue
<1>1. CommandInv => RecordIsTrue
  BY DEF CommandInv, EffectMatchesRecord, CompletedIffExecuted, RecordIsTrue
<1> QED
  BY <1>1, CommandInvariant, PTL

(* No clientOrderId ever has a second order, with or without its           *)
(* idempotency record (order.model.js).                                    *)
THEOREM OneOrderTheorem == Spec => []OneOrderPerClientOrderId
<1>1. CommandInv => OneOrderPerClientOrderId
  BY DEF CommandInv
<1> QED
  BY <1>1, CommandInvariant, PTL

(* A client is told of a success only when its very payload was executed.  *)
THEOREM SuccessIsTruthfulTheorem == Spec => []SuccessIsTruthful
<1>1. CommandInv => SuccessIsTruthful
  BY DEF CommandInv
<1> QED
  BY <1>1, CommandInvariant, PTL

-----------------------------------------------------------------------------
(***************************************************************************)
(* The refinement: what each step does to one record and to the effects    *)
(* under its key is a step of IdempotentCommand, or nothing.               *)
(***************************************************************************)
LEMMA OutcomesMove ==
  ASSUME record \in [Key -> Record], NEW k \in Key, NEW e \in Record,
         record' = [record EXCEPT ![k] = e]
  PROVE  outcomes' = [outcomes EXCEPT ![k] = OutcomeOf(e)]
BY DEF outcomes

(* Writing a value of the outcome that was there already changes nothing.  *)
LEMMA OutcomesStay ==
  ASSUME record \in [Key -> Record], NEW k \in Key, NEW e \in Record,
         record' = [record EXCEPT ![k] = e], OutcomeOf(e) = OutcomeOf(record[k])
  PROVE  outcomes' = outcomes
<1>1. \A j \in Key : OutcomeOf(record'[j]) = OutcomeOf(record[j])
  OBVIOUS
<1> QED
  BY <1>1 DEF outcomes

LEMMA InitRefines == Init => Idempotent!IdempotentInit
BY DEF Init, Idempotent!IdempotentInit, outcomes, OutcomeOf, Absent

LEMMA CommitRefines ==
  ASSUME CommandInv, NEW r \in Request, Commit(r)
  PROVE  Idempotent!IdempotentNext
<1> DEFINE k == KeyOf(r)
<1> DEFINE e == Completed(record[k].payload)
<1>1. k \in Key /\ record \in [Key -> Record] /\ record[k].payload \in Payload \cup {NoPayload}
  BY DEF CommandInv, TypeOK, KeyOf, Record
<1>2. record' = [record EXCEPT ![k] = e] /\ record[k].state = "IN_PROGRESS" /\ e \in Record
  BY <1>1, RecordTypes DEF Commit, HoldsInProgress
<1>3. outcomes[k] = "pending" /\ OutcomeOf(e) = "done"
  BY <1>1, <1>2 DEF outcomes, OutcomeOf, Completed
<1>4. outcomes' = [outcomes EXCEPT ![k] = "done"]
  BY <1>1, <1>2, <1>3, OutcomesMove
<1>5. Idempotent!Succeed(k)
  BY <1>3, <1>4 DEF Commit, Idempotent!Succeed
<1> QED
  BY <1>1, <1>5 DEF Idempotent!IdempotentNext

LEMMA CreateRefines ==
  ASSUME CommandInv, NEW r \in Request, NEW k \in Key, NEW p \in Payload, Create(r, k, p)
  PROVE  Idempotent!IdempotentNext
<1>1. record \in [Key -> Record] /\ record' = [record EXCEPT ![k] = InProgress(p)]
      /\ InProgress(p) \in Record
  BY RecordTypes DEF CommandInv, TypeOK, Create
<1>2. outcomes[k] = "unknown" /\ OutcomeOf(InProgress(p)) = "pending"
  BY DEF Create, Exists, outcomes, OutcomeOf, InProgress
<1>3. outcomes' = [outcomes EXCEPT ![k] = "pending"]
  BY <1>1, <1>2, OutcomesMove
<1>4. Idempotent!Attempt(k)
  BY <1>2, <1>3 DEF Create, history, Idempotent!Attempt
<1> QED
  BY <1>4 DEF Idempotent!IdempotentNext

LEMMA TakeOverRefines ==
  ASSUME CommandInv, NEW r \in Request, TakeOver(r)
  PROVE  Idempotent!IdempotentNext \/ UNCHANGED <<outcomes, effects>>
<1> DEFINE k == KeyOf(r)
<1> DEFINE e == InProgress(record[k].payload)
<1>1. k \in Key /\ record \in [Key -> Record] /\ record[k].payload \in Payload \cup {NoPayload}
  BY DEF CommandInv, TypeOK, KeyOf, Record
<1>2. record' = [record EXCEPT ![k] = e] /\ e \in Record /\ UNCHANGED effects
      /\ (LeaseExpired(record[k]) \/ Reopenable(record[k]))
  BY <1>1, RecordTypes DEF TakeOver, history
<1>3. OutcomeOf(e) = "pending"
  BY DEF OutcomeOf, InProgress
<1>4. outcomes' = [outcomes EXCEPT ![k] = "pending"]
  BY <1>1, <1>2, <1>3, OutcomesMove
<1>5. CASE LeaseExpired(record[k])
  <2>1. OutcomeOf(record[k]) = "pending"
    BY <1>5 DEF LeaseExpired, OutcomeOf
  <2> QED
    BY <1>1, <1>2, <1>3, <2>1, OutcomesStay
<1>6. CASE Reopenable(record[k])
  <2>1. outcomes[k] = "retryable"
    BY <1>1, <1>6 DEF Reopenable, outcomes, OutcomeOf
  <2>2. Idempotent!Attempt(k)
    BY <1>2, <1>4, <2>1 DEF Idempotent!Attempt
  <2> QED
    BY <1>1, <2>2 DEF Idempotent!IdempotentNext
<1> QED
  BY <1>2, <1>5, <1>6

LEMMA RecordFailureRefines ==
  ASSUME CommandInv, NEW r \in Request, RecordFailure(r)
  PROVE  Idempotent!IdempotentNext \/ UNCHANGED <<outcomes, effects>>
<1> DEFINE k == KeyOf(r)
<1> DEFINE e == Failed(record[k].payload, IsRetryable(failure[r]))
<1>1. k \in Key /\ record \in [Key -> Record] /\ record[k].payload \in Payload \cup {NoPayload}
  BY DEF CommandInv, TypeOK, KeyOf, Record
<1>2. CASE record' = record
  BY <1>2 DEF RecordFailure, history, outcomes
<1>3. CASE record' = [record EXCEPT ![k] = e] /\ record[k].state = "IN_PROGRESS"
  <2>1. e \in Record /\ e.state = "FAILED" /\ e.retryable \in BOOLEAN
    BY <1>1, RecordTypes DEF IsRetryable, Failed
  <2>2. outcomes[k] = "pending" /\ OutcomeOf(e) \in {"retryable", "failed"}
    BY <1>1, <1>3, <2>1 DEF outcomes, OutcomeOf
  <2>3. outcomes' = [outcomes EXCEPT ![k] = OutcomeOf(e)]
    BY <1>1, <1>3, <2>1, OutcomesMove
  <2>4. Idempotent!Fail(k)
    BY <2>2, <2>3 DEF RecordFailure, history, Idempotent!Fail
  <2> QED
    BY <1>1, <2>4 DEF Idempotent!IdempotentNext
<1> QED
  BY <1>2, <1>3 DEF RecordFailure, HoldsInProgress

LEMMA ExpireLeaseRefines ==
  ASSUME CommandInv, NEW k \in Key, ExpireLease(k)
  PROVE  UNCHANGED <<outcomes, effects>>
<1> DEFINE e == [record[k] EXCEPT !.expired = TRUE]
<1>1. record \in [Key -> Record] /\ record[k] \in Record /\ record' = [record EXCEPT ![k] = e]
  BY DEF CommandInv, TypeOK, ExpireLease
<1>2. e \in Record /\ e.state = "IN_PROGRESS" /\ record[k].state = "IN_PROGRESS"
  BY <1>1 DEF ExpireLease, Record
<1>3. OutcomeOf(e) = "pending" /\ OutcomeOf(record[k]) = "pending"
  BY <1>2 DEF OutcomeOf
<1>4. outcomes' = outcomes
  BY <1>1, <1>2, <1>3, OutcomesStay
<1> QED
  BY <1>4 DEF ExpireLease, history

LEMMA RetentionEndsRefines ==
  ASSUME CommandInv, NEW k \in Key, RetentionEnds(k)
  PROVE  Idempotent!IdempotentNext
<1>1. record \in [Key -> Record] /\ record' = [record EXCEPT ![k] = Absent] /\ Absent \in Record
  BY RecordTypes DEF CommandInv, TypeOK, RetentionEnds
<1>2. OutcomeOf(Absent) = "unknown"
  BY DEF OutcomeOf, Absent
<1>3. outcomes' = [outcomes EXCEPT ![k] = "unknown"]
  BY <1>1, <1>2, OutcomesMove
<1>4. outcomes[k] # "unknown"
  <2>1. record[k].state \in {"IN_PROGRESS", "COMPLETED", "FAILED"}
    BY <1>1 DEF RetentionEnds, Exists, Record
  <2> QED
    BY <2>1 DEF outcomes, OutcomeOf
<1>5. Idempotent!Forget(k)
  BY <1>3, <1>4 DEF RetentionEnds, Idempotent!Forget
<1> QED
  BY <1>5 DEF Idempotent!IdempotentNext

LEMMA StepRefines ==
  CommandInv /\ [Next]_vars => [Idempotent!IdempotentNext]_<<outcomes, effects>>
<1> SUFFICES ASSUME CommandInv, [Next]_vars
             PROVE  Idempotent!IdempotentNext \/ UNCHANGED <<outcomes, effects>>
  OBVIOUS
<1>0. ASSUME UNCHANGED <<record, effects>> PROVE UNCHANGED <<outcomes, effects>>
  BY <1>0 DEF outcomes
<1>1. ASSUME NEW r \in Request, Send(r)
      PROVE  Idempotent!IdempotentNext \/ UNCHANGED <<outcomes, effects>>
  <2>1. ASSUME NEW k \in Key, NEW p \in Payload, Find(r, k, p) PROVE UNCHANGED <<record, effects>>
    BY <2>1 DEF Find, database
  <2> QED
    BY <1>0, <1>1, <2>1, CreateRefines DEF Send
<1>2. ASSUME NEW r \in Request, Proceed(r)
      PROVE  Idempotent!IdempotentNext \/ UNCHANGED <<outcomes, effects>>
  <2>1. CASE RejectKeyReuse(r) \/ AnswerFromRecord(r) \/ Enqueue(r) \/ Abandon(r) \/ Respond(r)
             \/ RecordFailureLost(r)
    <3>1. UNCHANGED <<record, effects>>
      BY <2>1 DEF RejectKeyReuse, AnswerFromRecord, Enqueue, Abandon, Respond,
                  RecordFailureLost, database
    <3> QED
      BY <1>0, <3>1
  <2>2. CASE Execute(r) \/ ExecuteOutcomeUnknown(r)
    BY <2>2, CommitRefines DEF Execute, ExecuteOutcomeUnknown
  <2> QED
    BY <1>2, <2>1, <2>2, TakeOverRefines, RecordFailureRefines DEF Proceed
<1>3. ASSUME NEW k \in Key, ExpireLease(k) \/ RetentionEnds(k)
      PROVE  Idempotent!IdempotentNext \/ UNCHANGED <<outcomes, effects>>
  BY <1>3, ExpireLeaseRefines, RetentionEndsRefines
<1>4. CASE Crash \/ UNCHANGED vars
  BY <1>0, <1>4 DEF Crash, vars, database
<1> QED
  BY <1>1, <1>2, <1>3, <1>4 DEF Next

(* The whole command path is idempotent execution as IdempotentCommand     *)
(* states it: a success or a final failure under a key never changes, and  *)
(* only what is pending ever takes effect.                                 *)
THEOREM CommandExecutionIsIdempotent == Spec => ImplementsIdempotentCommand
<1>1. Init => Idempotent!IdempotentInit
  BY InitRefines
<1>2. CommandInv /\ [Next]_vars => [Idempotent!IdempotentNext]_<<outcomes, effects>>
  BY StepRefines
<1> QED
  BY <1>1, <1>2, CommandInvariant, PTL DEF Spec, ImplementsIdempotentCommand,
     Idempotent!IdempotentSpec

-----------------------------------------------------------------------------
(***************************************************************************)
(* What Total() computes: the end of the running totals of the amounts.    *)
(***************************************************************************)
RunningTotal(g, f, m) ==
  /\ g \in [0 .. m -> Int]
  /\ g[0] = 0
  /\ \A n \in 1 .. m : g[n] = g[n - 1] + f[n]

LEMMA RunningExists ==
  ASSUME NEW f \in [TradeId -> Int]
  PROVE  \E g : RunningTotal(g, f, MaxTrades)
<1> DEFINE P == {m \in Nat : m <= MaxTrades => \E g : RunningTotal(g, f, m)}
<1>1. 0 \in P
  <2>1. RunningTotal([n \in 0 .. 0 |-> 0], f, 0)
    BY DEF RunningTotal
  <2> QED
    BY <2>1
<1>2. ASSUME NEW m \in Nat, m \in P PROVE m + 1 \in P
  <2> SUFFICES ASSUME m + 1 <= MaxTrades PROVE \E g : RunningTotal(g, f, m + 1)
    OBVIOUS
  <2>1. m <= MaxTrades /\ m + 1 \in TradeId
    BY AccountingConstants DEF TradeId
  <2>2. PICK g : RunningTotal(g, f, m)
    BY <1>2, <2>1
  <2>3. g[m] \in Int /\ f[m + 1] \in Int
    BY <2>1, <2>2 DEF RunningTotal
  <2> DEFINE h == [n \in 0 .. (m + 1) |-> IF n = m + 1 THEN g[m] + f[m + 1] ELSE g[n]]
  <2>4. h \in [0 .. (m + 1) -> Int]
    <3>1. \A n \in 0 .. (m + 1) : n = m + 1 \/ n \in 0 .. m
      OBVIOUS
    <3>2. \A n \in 0 .. (m + 1) : (IF n = m + 1 THEN g[m] + f[m + 1] ELSE g[n]) \in Int
      BY <3>1, <2>2, <2>3 DEF RunningTotal
    <3> QED
      BY <3>2
  <2>5. h[0] = 0
    BY <2>2 DEF RunningTotal
  <2>6. ASSUME NEW n \in 1 .. (m + 1) PROVE h[n] = h[n - 1] + f[n]
    <3>1. CASE n = m + 1
      BY <3>1
    <3>2. CASE n \in 1 .. m
      <4>1. n # m + 1 /\ n - 1 # m + 1 /\ n \in 0 .. (m + 1) /\ n - 1 \in 0 .. (m + 1)
        BY <3>2
      <4>2. g[n] = g[n - 1] + f[n]
        BY <3>2, <2>2 DEF RunningTotal
      <4> QED
        BY <4>1, <4>2
    <3> QED
      BY <3>1, <3>2
  <2> HIDE DEF h
  <2> QED
    BY <2>4, <2>5, <2>6 DEF RunningTotal
<1>3. MaxTrades \in P
  <2>1. \A n \in Nat : n \in P
    <3> HIDE DEF P
    <3> QED
      BY <1>1, <1>2, SetInduction
  <2> QED
    BY <2>1, AccountingConstants
<1> QED
  BY <1>3, AccountingConstants

LEMMA TotalIs ==
  ASSUME NEW f \in [TradeId -> Int]
  PROVE  \E g : RunningTotal(g, f, MaxTrades) /\ Total(f) = g[MaxTrades]
<1> DEFINE IsTotal(u) == u = [n \in 0 .. MaxTrades |-> IF n = 0 THEN 0 ELSE u[n - 1] + f[n]]
           h == CHOOSE u : IsTotal(u)
<1>1. PICK g : RunningTotal(g, f, MaxTrades)
  BY RunningExists
<1>2. IsTotal(g)
  <2>1. \A n \in 0 .. MaxTrades : n = 0 \/ n \in 1 .. MaxTrades
    BY AccountingConstants
  <2>2. \A n \in 0 .. MaxTrades : g[n] = IF n = 0 THEN 0 ELSE g[n - 1] + f[n]
    BY <1>1, <2>1 DEF RunningTotal
  <2>3. g = [n \in 0 .. MaxTrades |-> g[n]]
    BY <1>1 DEF RunningTotal
  <2> QED
    BY <2>2, <2>3
<1>3. IsTotal(h)
  <2> HIDE DEF IsTotal
  <2> QED
    BY <1>2
<1>4. \A n \in 0 .. MaxTrades : h[n] = IF n = 0 THEN 0 ELSE h[n - 1] + f[n]
  <2> HIDE DEF h
  <2> QED
    BY <1>3
<1>5. Total(f) = h[MaxTrades]
  BY DEF Total
<1> HIDE DEF h, IsTotal
<1> DEFINE P == {m \in Nat : m <= MaxTrades => h[m] = g[m]}
<1>6. 0 \in P
  BY <1>1, <1>4, AccountingConstants DEF RunningTotal
<1>7. ASSUME NEW m \in Nat, m \in P PROVE m + 1 \in P
  <2> SUFFICES ASSUME m + 1 <= MaxTrades PROVE h[m + 1] = g[m + 1]
    OBVIOUS
  <2>1. m + 1 \in 1 .. MaxTrades /\ m + 1 \in 0 .. MaxTrades /\ m + 1 - 1 = m /\ m + 1 # 0
    BY AccountingConstants
  <2>2. h[m + 1] = h[m + 1 - 1] + f[m + 1] /\ g[m + 1] = g[m + 1 - 1] + f[m + 1]
    BY <1>1, <1>4, <2>1 DEF RunningTotal
  <2>3. h[m] = g[m]
    BY <1>7, AccountingConstants
  <2> QED
    BY <2>1, <2>2, <2>3
<1>8. MaxTrades \in P
  <2>1. \A n \in Nat : n \in P
    <3> HIDE DEF P
    <3> QED
      BY <1>6, <1>7, SetInduction
  <2> QED
    BY <2>1, AccountingConstants
<1> QED
  BY <1>1, <1>5, <1>8, AccountingConstants

LEMMA TotalOfIntegers ==
  ASSUME NEW f \in [TradeId -> Int]
  PROVE  Total(f) \in Int
<1>1. PICK g : RunningTotal(g, f, MaxTrades) /\ Total(f) = g[MaxTrades]
  BY TotalIs
<1> QED
  BY <1>1, AccountingConstants DEF RunningTotal

(* Amounts that are not negative add up to at least each of them.          *)
LEMMA TotalOfNaturals ==
  ASSUME NEW f \in [TradeId -> Nat]
  PROVE  Total(f) \in Nat /\ \A t \in TradeId : f[t] <= Total(f)
<1> SUFFICES ASSUME NEW t \in TradeId \cup {0}
             PROVE  Total(f) \in Nat /\ (t # 0 => f[t] <= Total(f))
  BY DEF TradeId
<1>0. f \in [TradeId -> Int]
  OBVIOUS
<1>1. PICK g : RunningTotal(g, f, MaxTrades) /\ Total(f) = g[MaxTrades]
  BY <1>0, TotalIs
<1> DEFINE P == {m \in Nat : m <= MaxTrades =>
                               g[m] >= 0 /\ (t # 0 /\ t <= m => f[t] <= g[m])}
<1>2. 0 \in P
  BY <1>1, AccountingConstants DEF RunningTotal, TradeId
<1>3. ASSUME NEW m \in Nat, m \in P PROVE m + 1 \in P
  <2> SUFFICES ASSUME m + 1 <= MaxTrades
               PROVE  g[m + 1] >= 0 /\ (t # 0 /\ t <= m + 1 => f[t] <= g[m + 1])
    OBVIOUS
  <2>1. m \in 0 .. MaxTrades /\ m + 1 \in 1 .. MaxTrades /\ m + 1 \in TradeId /\ m + 1 - 1 = m
    BY AccountingConstants DEF TradeId
  <2>2. g[m + 1] = g[m] + f[m + 1]
    BY <1>1, <2>1 DEF RunningTotal
  <2>3. g[m] \in Int /\ f[m + 1] \in Nat
    BY <1>1, <2>1 DEF RunningTotal
  <2>4. g[m] >= 0 /\ (t # 0 /\ t <= m => f[t] <= g[m])
    BY <1>3, <2>1, AccountingConstants
  <2>5. t # 0 => t \in TradeId /\ f[t] \in Nat /\ t \in Int
    BY DEF TradeId
  <2>6. t <= m + 1 => t <= m \/ t = m + 1
    BY <2>5
  <2> QED
    BY <2>2, <2>3, <2>4, <2>5, <2>6
<1>4. MaxTrades \in P
  <2>1. \A n \in Nat : n \in P
    <3> HIDE DEF P
    <3> QED
      BY <1>2, <1>3, SetInduction
  <2> QED
    BY <2>1, AccountingConstants
<1>5. g[MaxTrades] \in Int
  BY <1>1, AccountingConstants DEF RunningTotal
<1> QED
  BY <1>1, <1>4, <1>5, AccountingConstants DEF TradeId

(* Changing one amount changes the total by as much.                       *)
LEMMA TotalChanges ==
  ASSUME NEW f \in [TradeId -> Int], NEW e \in [TradeId -> Int], NEW t \in TradeId,
         \A u \in TradeId : u # t => e[u] = f[u]
  PROVE  Total(e) = Total(f) + e[t] - f[t]
<1>1. PICK g : RunningTotal(g, f, MaxTrades) /\ Total(f) = g[MaxTrades]
  BY TotalIs
<1>2. PICK h : RunningTotal(h, e, MaxTrades) /\ Total(e) = h[MaxTrades]
  BY TotalIs
<1> DEFINE P == {m \in Nat : m <= MaxTrades =>
                               h[m] = g[m] + (IF t <= m THEN e[t] - f[t] ELSE 0)}
<1>3. 0 \in P
  BY <1>1, <1>2, AccountingConstants DEF RunningTotal, TradeId
<1>4. ASSUME NEW m \in Nat, m \in P PROVE m + 1 \in P
  <2> SUFFICES ASSUME m + 1 <= MaxTrades
               PROVE  h[m + 1] = g[m + 1] + (IF t <= m + 1 THEN e[t] - f[t] ELSE 0)
    OBVIOUS
  <2>1. m \in 0 .. MaxTrades /\ m + 1 \in 1 .. MaxTrades /\ m + 1 \in TradeId /\ m + 1 - 1 = m
    BY AccountingConstants DEF TradeId
  <2>2. g[m + 1] = g[m] + f[m + 1] /\ h[m + 1] = h[m] + e[m + 1]
    BY <1>1, <1>2, <2>1 DEF RunningTotal
  <2>3. g[m] \in Int /\ h[m] \in Int /\ f[m + 1] \in Int /\ e[m + 1] \in Int /\ f[t] \in Int /\ e[t] \in Int
    BY <1>1, <1>2, <2>1 DEF RunningTotal
  <2>4. h[m] = g[m] + (IF t <= m THEN e[t] - f[t] ELSE 0)
    BY <1>4, <2>1, AccountingConstants
  <2>5. t \in Int
    BY DEF TradeId
  <2>6. CASE t <= m
    <3>1. t # m + 1 /\ t <= m + 1
      BY <2>5, <2>6
    <3>2. e[m + 1] = f[m + 1]
      BY <2>1, <3>1
    <3> QED
      BY <2>2, <2>3, <2>4, <2>6, <3>1, <3>2
  <2>7. CASE t = m + 1
    <3>1. ~(t <= m)
      BY <2>7
    <3> QED
      BY <2>2, <2>3, <2>4, <2>7, <3>1
  <2>8. CASE t > m + 1
    <3>1. t # m + 1 /\ ~(t <= m + 1) /\ ~(t <= m)
      BY <2>5, <2>8
    <3>2. e[m + 1] = f[m + 1]
      BY <2>1, <3>1
    <3> QED
      BY <2>2, <2>3, <2>4, <3>1, <3>2
  <2> QED
    BY <2>5, <2>6, <2>7, <2>8
<1>5. MaxTrades \in P
  <2>1. \A n \in Nat : n \in P
    <3> HIDE DEF P
    <3> QED
      BY <1>3, <1>4, SetInduction
  <2> QED
    BY <2>1, AccountingConstants
<1>6. g[MaxTrades] \in Int /\ f[t] \in Int /\ e[t] \in Int /\ t <= MaxTrades
  BY <1>1, AccountingConstants DEF RunningTotal, TradeId
<1> QED
  BY <1>1, <1>2, <1>5, <1>6, AccountingConstants

LEMMA TotalOfZeros == Total([t \in TradeId |-> 0]) = 0
<1> DEFINE f == [t \in TradeId |-> 0]
<1>1. f \in [TradeId -> Int]
  OBVIOUS
<1>2. PICK g : RunningTotal(g, f, MaxTrades) /\ Total(f) = g[MaxTrades]
  BY <1>1, TotalIs
<1> DEFINE P == {m \in Nat : m <= MaxTrades => g[m] = 0}
<1>3. 0 \in P
  BY <1>2 DEF RunningTotal
<1>4. ASSUME NEW m \in Nat, m \in P PROVE m + 1 \in P
  <2> SUFFICES ASSUME m + 1 <= MaxTrades PROVE g[m + 1] = 0
    OBVIOUS
  <2>1. m + 1 \in 1 .. MaxTrades /\ m + 1 \in TradeId /\ m + 1 - 1 = m
    BY AccountingConstants DEF TradeId
  <2>2. g[m + 1] = g[m] + f[m + 1]
    BY <1>2, <2>1 DEF RunningTotal
  <2>3. g[m] = 0 /\ f[m + 1] = 0
    BY <1>4, <2>1, AccountingConstants
  <2> QED
    BY <2>2, <2>3
<1>5. MaxTrades \in P
  <2>1. \A n \in Nat : n \in P
    <3> HIDE DEF P
    <3> QED
      BY <1>3, <1>4, SetInduction
  <2> QED
    BY <2>1, AccountingConstants
<1> QED
  BY <1>2, <1>5, AccountingConstants

-----------------------------------------------------------------------------
(***************************************************************************)
(* Ledger entries that lead from one balance to another.                   *)
(***************************************************************************)
Leads(entries, from, to) ==
  /\ entries \in Seq(LedgerRecord)
  /\ \A i \in 1 .. Len(entries) : entries[i].before + entries[i].amount = entries[i].after
  /\ \A i \in 2 .. Len(entries) : entries[i].before = entries[i - 1].after
  /\ IF entries = <<>> THEN from = to
                       ELSE entries[1].before = from /\ entries[Len(entries)].after = to

LEMMA NoEntryLeads == \A n : Leads(<<>>, n, n)
BY DEF Leads

LEMMA EntryLeads ==
  ASSUME NEW n \in Int, NEW amount \in Int
  PROVE  Leads(<<Entry(n, amount)>>, n, n + amount)
<1> DEFINE q == <<Entry(n, amount)>>
<1>1. Entry(n, amount) \in LedgerRecord
  BY DEF Entry, LedgerRecord
<1>2. q \in Seq(LedgerRecord) /\ Len(q) = 1 /\ q[1] = Entry(n, amount) /\ q # <<>>
  BY <1>1
<1> HIDE DEF q
<1>3. \A i \in 1 .. Len(q) : i = 1
  BY <1>2
<1>4. \A i \in 2 .. Len(q) : FALSE
  BY <1>2
<1>5. Leads(q, n, n + amount)
  BY <1>2, <1>3, <1>4 DEF Leads, Entry
<1> QED
  BY <1>5 DEF q

LEMMA LeadsOn ==
  ASSUME NEW p, NEW q, NEW k, NEW m, NEW n, Leads(p, k, m), Leads(q, m, n)
  PROVE  Leads(p \o q, k, n)
<1> DEFINE r == p \o q
<1>1. /\ p \in Seq(LedgerRecord) /\ q \in Seq(LedgerRecord)
      /\ Len(p) \in Nat /\ Len(q) \in Nat
  BY DEF Leads
<1>2. /\ r \in Seq(LedgerRecord)
      /\ Len(r) = Len(p) + Len(q)
      /\ \A i \in 1 .. Len(p) : r[i] = p[i]
      /\ \A i \in Len(p) + 1 .. Len(p) + Len(q) : r[i] = q[i - Len(p)]
  BY <1>1
<1>3. CASE p = <<>>
  BY <1>3, <1>1 DEF Leads
<1>4. CASE q = <<>>
  BY <1>4, <1>1 DEF Leads
<1>5. CASE p # <<>> /\ q # <<>>
  <2>1. Len(p) > 0 /\ Len(q) > 0
    BY <1>1, <1>5
  <2> HIDE DEF r
  <2>2. \A i \in 1 .. Len(r) : i \in 1 .. Len(p) \/ (i \in Len(p) + 1 .. Len(p) + Len(q) /\ i - Len(p) \in 1 .. Len(q))
    BY <1>1, <1>2
  <2>3. \A i \in 1 .. Len(r) : r[i].before + r[i].amount = r[i].after
    BY <2>2, <1>2 DEF Leads
  <2>4. ASSUME NEW i \in 2 .. Len(r) PROVE r[i].before = r[i - 1].after
    <3>1. CASE i \in 2 .. Len(p)
      <4>1. i \in 1 .. Len(p) /\ i - 1 \in 1 .. Len(p)
        BY <3>1
      <4> QED
        BY <3>1, <4>1, <1>2 DEF Leads
    <3>2. CASE i = Len(p) + 1
      <4>1. /\ i - 1 = Len(p) /\ i - 1 \in 1 .. Len(p) /\ i - Len(p) = 1
            /\ i \in Len(p) + 1 .. Len(p) + Len(q)
        BY <3>2, <2>1, <1>1
      <4>2. r[i] = q[1] /\ r[i - 1] = p[Len(p)]
        BY <4>1, <1>2
      <4> QED
        BY <4>2, <1>5 DEF Leads
    <3>3. CASE i \in Len(p) + 2 .. Len(p) + Len(q)
      <4>1. /\ i \in Len(p) + 1 .. Len(p) + Len(q) /\ i - 1 \in Len(p) + 1 .. Len(p) + Len(q)
            /\ i - Len(p) \in 2 .. Len(q) /\ i - 1 - Len(p) = i - Len(p) - 1
        BY <3>3, <1>1
      <4>2. r[i] = q[i - Len(p)] /\ r[i - 1] = q[i - Len(p) - 1]
        BY <4>1, <1>2
      <4> QED
        BY <4>1, <4>2 DEF Leads
    <3> QED
      BY <3>1, <3>2, <3>3, <1>1, <1>2
  <2>5. r # <<>>
    <3>1. Len(r) # 0
      BY <2>1, <1>1, <1>2
    <3>2. Len(<<>>) = 0
      OBVIOUS
    <3> QED
      BY <3>1, <3>2, Zenon
  <2>6. r[1].before = k
    BY <2>1, <1>1, <1>2, <1>5 DEF Leads
  <2>7. r[Len(r)].after = n
    <3>1. Len(r) \in Len(p) + 1 .. Len(p) + Len(q) /\ Len(r) - Len(p) = Len(q)
      BY <2>1, <1>1, <1>2
    <3>2. r[Len(r)] = q[Len(q)]
      BY <3>1, <1>2
    <3> QED
      BY <3>2, <1>5 DEF Leads
  <2>8. Leads(r, k, n)
    BY <1>2, <2>3, <2>4, <2>5, <2>6, <2>7 DEF Leads
  <2> QED
    BY <2>8 DEF r
<1> QED
  BY <1>3, <1>4, <1>5

LEMMA OpenEntriesLead ==
  ASSUME NEW n \in Int, NEW commission \in Nat
  PROVE  Leads(OpenEntries(n, commission), n, n - commission)
<1>1. CASE commission > 0
  <2>1. 0 - commission \in Int /\ n + (0 - commission) = n - commission
    OBVIOUS
  <2>2. Leads(<<Entry(n, 0 - commission)>>, n, n + (0 - commission))
    BY <2>1, EntryLeads
  <2> QED
    BY <1>1, <2>1, <2>2 DEF OpenEntries
<1>2. CASE ~(commission > 0)
  <2>1. n - commission = n
    BY <1>2
  <2> QED
    BY <1>2, <2>1, NoEntryLeads DEF OpenEntries
<1> QED
  BY <1>1, <1>2

LEMMA CloseEntriesLead ==
  ASSUME NEW n \in Int, NEW realized \in Int, NEW commission \in Nat
  PROVE  Leads(CloseEntries(n, realized, commission), n, n + realized - commission)
<1> DEFINE p == IF realized # 0 THEN <<Entry(n, realized)>> ELSE <<>>
           q == OpenEntries(n + realized, commission)
<1>1. Leads(p, n, n + realized)
  <2>1. CASE realized # 0
    BY <2>1, EntryLeads
  <2>2. CASE realized = 0
    <3>1. n + realized = n
      BY <2>2
    <3> QED
      BY <2>2, <3>1, NoEntryLeads
  <2> QED
    BY <2>1, <2>2
<1>2. Leads(q, n + realized, n + realized - commission)
  <2>1. n + realized \in Int
    OBVIOUS
  <2> QED
    BY <2>1, OpenEntriesLead
<1>3. CloseEntries(n, realized, commission) = p \o q
  BY DEF CloseEntries, OpenEntries
<1> HIDE DEF p, q
<1> QED
  BY <1>1, <1>2, <1>3, LeadsOn

-----------------------------------------------------------------------------
(***************************************************************************)
(* What an execution does to the account, field by field.                  *)
(***************************************************************************)
LEMMA AccountFields ==
  ASSUME NEW account \in AccountRecord
  PROVE  /\ account.balance \in Int /\ account.equity \in Int /\ account.floating \in Int
         /\ account.used \in Nat /\ account.free \in Int /\ account.revision \in Nat
BY DEF AccountRecord

LEMMA ChargedIs ==
  ASSUME NEW account \in AccountRecord, NEW commission \in Nat
  PROVE  /\ Charged(account, commission) \in AccountRecord
         /\ Charged(account, commission).balance = account.balance - commission
         /\ Charged(account, commission).equity = account.equity - commission
         /\ Charged(account, commission).floating = account.floating
         /\ Charged(account, commission).used = account.used
         /\ Charged(account, commission).revision = account.revision + 1
<1> DEFINE balance == account.balance - commission
           equity == account.equity - commission
           b == [account EXCEPT !.balance = balance]
           e == [b EXCEPT !.equity = equity]
           r == [e EXCEPT !.revision = account.revision + 1]
<1>1. balance \in Int /\ equity \in Int /\ account.revision + 1 \in Nat
  BY AccountFields
<1> HIDE DEF balance, equity
<1>2. /\ b \in AccountRecord /\ b.balance = balance /\ b.equity = account.equity
      /\ b.floating = account.floating /\ b.used = account.used /\ b.revision = account.revision
  BY <1>1 DEF AccountRecord
<1>3. /\ e \in AccountRecord /\ e.balance = balance /\ e.equity = equity
      /\ e.floating = account.floating /\ e.used = account.used /\ e.revision = account.revision
  <2> HIDE DEF b
  <2> QED
    BY <1>1, <1>2 DEF AccountRecord
<1>4. /\ r \in AccountRecord /\ r.balance = balance /\ r.equity = equity
      /\ r.floating = account.floating /\ r.used = account.used /\ r.revision = account.revision + 1
  <2> HIDE DEF e
  <2> QED
    BY <1>1, <1>3 DEF AccountRecord
<1>5. Charged(account, commission) = r
  BY DEF Charged, AccountRecord, balance, equity
<1> QED
  BY <1>4, <1>5 DEF balance, equity

LEMMA MarginedIs ==
  ASSUME NEW account \in AccountRecord, NEW used \in Nat
  PROVE  /\ Margined(account, used) \in AccountRecord
         /\ Margined(account, used).balance = account.balance
         /\ Margined(account, used).equity = account.equity
         /\ Margined(account, used).floating = account.floating
         /\ Margined(account, used).used = used
         /\ Margined(account, used).free = account.equity - used
         /\ Margined(account, used).revision = account.revision
<1> DEFINE free == account.equity - used
           u == [account EXCEPT !.used = used]
           f == [u EXCEPT !.free = free]
<1>1. free \in Int
  BY AccountFields
<1> HIDE DEF free
<1>2. /\ u \in AccountRecord /\ u.balance = account.balance /\ u.equity = account.equity
      /\ u.floating = account.floating /\ u.used = used /\ u.revision = account.revision
  BY <1>1 DEF AccountRecord
<1>3. /\ f \in AccountRecord /\ f.balance = account.balance /\ f.equity = account.equity
      /\ f.floating = account.floating /\ f.used = used /\ f.free = free
      /\ f.revision = account.revision
  <2> HIDE DEF u
  <2> QED
    BY <1>1, <1>2 DEF AccountRecord
<1>4. Margined(account, used) = f
  BY DEF Margined, AccountRecord, free
<1> QED
  BY <1>3, <1>4 DEF free

LEMMA AfterOpenIs ==
  ASSUME NEW account \in AccountRecord, NEW commission \in Nat, NEW margin \in Nat
  PROVE  /\ AfterOpen(account, commission, margin) \in AccountRecord
         /\ AfterOpen(account, commission, margin).balance = account.balance - commission
         /\ AfterOpen(account, commission, margin).equity = account.equity - commission
         /\ AfterOpen(account, commission, margin).floating = account.floating
         /\ AfterOpen(account, commission, margin).used = account.used + margin
         /\ AfterOpen(account, commission, margin).free = account.equity - commission - (account.used + margin)
         /\ AfterOpen(account, commission, margin).revision = account.revision + 1
<1> DEFINE charged == Charged(account, commission)
<1>1. charged \in AccountRecord /\ account.used + margin \in Nat
  BY ChargedIs, AccountFields
<1>2. charged.equity = account.equity - commission /\ charged.revision = account.revision + 1
      /\ charged.balance = account.balance - commission /\ charged.floating = account.floating
  BY ChargedIs
<1>3. AfterOpen(account, commission, margin) = Margined(charged, account.used + margin)
  BY DEF AfterOpen
<1> HIDE DEF charged
<1> DEFINE used == account.used + margin
           m == Margined(charged, used)
<1>4. used \in Nat
  BY <1>1
<1> HIDE DEF used
<1>5. /\ m \in AccountRecord /\ m.balance = charged.balance /\ m.equity = charged.equity
      /\ m.floating = charged.floating /\ m.used = used /\ m.free = charged.equity - used
      /\ m.revision = charged.revision
  BY <1>1, <1>4, MarginedIs
<1>6. AfterOpen(account, commission, margin) = m
  BY <1>3 DEF used
<1> HIDE DEF m
<1> QED
  BY <1>2, <1>5, <1>6 DEF used

LEMMA AfterCloseIs ==
  ASSUME NEW account \in AccountRecord, NEW realized \in Int, NEW commission \in Nat,
         NEW released \in Int, NEW complete \in BOOLEAN
  PROVE  /\ AfterClose(account, realized, commission, released, complete) \in AccountRecord
         /\ AfterClose(account, realized, commission, released, complete).balance
              = account.balance + realized - commission
         /\ AfterClose(account, realized, commission, released, complete).equity = account.equity - commission
         /\ AfterClose(account, realized, commission, released, complete).floating
              = IF complete THEN account.floating - realized ELSE account.floating
         /\ AfterClose(account, realized, commission, released, complete).used
              = AboveZero(account.used - released)
         /\ AfterClose(account, realized, commission, released, complete).free
              = account.equity - commission - AboveZero(account.used - released)
         /\ AfterClose(account, realized, commission, released, complete).revision = account.revision + 1
<1> DEFINE charged == Charged(account, commission)
           booked == [charged EXCEPT !.balance = @ + realized,
                                     !.floating = IF complete THEN @ - realized ELSE @]
           used == AboveZero(account.used - released)
<1>1. /\ charged \in AccountRecord
      /\ charged.equity = account.equity - commission /\ charged.revision = account.revision + 1
      /\ charged.balance = account.balance - commission /\ charged.floating = account.floating
  BY ChargedIs
<1>2. used \in Nat
  BY AccountFields DEF AboveZero
<1>3. AfterClose(account, realized, commission, released, complete) = Margined(booked, used)
  BY DEF AfterClose
<1> HIDE DEF charged, used
<1>5. /\ booked \in AccountRecord
      /\ booked.balance = account.balance - commission + realized
      /\ booked.floating = IF complete THEN account.floating - realized ELSE account.floating
      /\ booked.equity = account.equity - commission
      /\ booked.revision = account.revision + 1
  <2> DEFINE balance == charged.balance + realized
             floating == IF complete THEN charged.floating - realized ELSE charged.floating
             b == [charged EXCEPT !.balance = balance]
             f == [b EXCEPT !.floating = floating]
  <2>1. balance \in Int /\ floating \in Int
    BY <1>1, AccountFields
  <2>2. booked = f
    BY <1>1 DEF AccountRecord
  <2>3. balance = account.balance - commission + realized
        /\ floating = IF complete THEN account.floating - realized ELSE account.floating
    BY <1>1
  <2> HIDE DEF balance, floating, booked
  <2>4. /\ b \in AccountRecord /\ b.balance = balance /\ b.floating = charged.floating
        /\ b.equity = charged.equity /\ b.revision = charged.revision
    BY <1>1, <2>1 DEF AccountRecord
  <2>5. /\ f \in AccountRecord /\ f.balance = balance /\ f.floating = floating
        /\ f.equity = charged.equity /\ f.revision = charged.revision
    <3> HIDE DEF b
    <3> QED
      BY <2>1, <2>4 DEF AccountRecord
  <2> QED
    BY <1>1, <2>2, <2>3, <2>5
<1>4. booked \in AccountRecord
  BY <1>5
<1> HIDE DEF booked
<1>6. account.balance - commission + realized = account.balance + realized - commission
  BY AccountFields
<1>7. /\ Margined(booked, used) \in AccountRecord
      /\ Margined(booked, used).balance = booked.balance
      /\ Margined(booked, used).equity = booked.equity
      /\ Margined(booked, used).floating = booked.floating
      /\ Margined(booked, used).used = used
      /\ Margined(booked, used).free = booked.equity - used
      /\ Margined(booked, used).revision = booked.revision
  BY <1>2, <1>4, MarginedIs
<1> QED
  BY <1>3, <1>5, <1>6, <1>7 DEF used

LEMMA ValuedIs ==
  ASSUME NEW account \in AccountRecord, NEW floating \in Int, NEW used \in Nat
  PROVE  /\ Valued(account, floating, used) \in AccountRecord
         /\ Valued(account, floating, used).balance = account.balance
         /\ Valued(account, floating, used).revision = account.revision
         /\ Valued(account, floating, used).used = used
         /\ Valued(account, floating, used).floating = floating
         /\ Valued(account, floating, used).equity = account.balance + floating
         /\ Valued(account, floating, used).free = account.balance + floating - used
<1> DEFINE equity == account.balance + floating
           free == account.balance + floating - used
           f == [account EXCEPT !.floating = floating]
           e == [f EXCEPT !.equity = equity]
           u == [e EXCEPT !.used = used]
           v == [u EXCEPT !.free = free]
<1>1. equity \in Int /\ free \in Int
  BY AccountFields
<1>2. Valued(account, floating, used) = v
  BY DEF Valued, AccountRecord
<1> HIDE DEF equity, free
<1>3. /\ f \in AccountRecord /\ f.balance = account.balance /\ f.revision = account.revision
      /\ f.floating = floating
  BY DEF AccountRecord
<1>4. /\ e \in AccountRecord /\ e.balance = account.balance /\ e.revision = account.revision
      /\ e.floating = floating /\ e.equity = equity
  <2> HIDE DEF f
  <2> QED
    BY <1>1, <1>3 DEF AccountRecord
<1>5. /\ u \in AccountRecord /\ u.balance = account.balance /\ u.revision = account.revision
      /\ u.floating = floating /\ u.equity = equity /\ u.used = used
  <2> HIDE DEF e
  <2> QED
    BY <1>4 DEF AccountRecord
<1>6. /\ v \in AccountRecord /\ v.balance = account.balance /\ v.revision = account.revision
      /\ v.floating = floating /\ v.equity = equity /\ v.used = used /\ v.free = free
  <2> HIDE DEF u
  <2> QED
    BY <1>1, <1>5 DEF AccountRecord
<1> HIDE DEF v
<1> QED
  BY <1>2, <1>6 DEF equity, free

LEMMA PricesAreNaturals == \A price \in TradePrice \cup {0} : price \in Nat
<1>1. \A price \in TradePrice : price \in Nat
  BY AccountingConstants
<1>2. 0 \in Nat
  OBVIOUS
<1> QED
  BY <1>1, <1>2

LEMMA ProfitIsInteger ==
  ASSUME NEW p \in TradeRecord, NEW price \in Int
  PROVE  Profit(p, price) \in Int
<1>1. p.volume \in Int /\ p.entry \in Int
  <2>1. p.volume \in Amounts /\ p.entry \in TradePrice \cup {0}
    BY DEF TradeRecord
  <2>2. p.volume \in Nat
    BY <2>1, AccountingConstants DEF Amounts
  <2>3. p.entry \in Nat
    BY <2>1, PricesAreNaturals
  <2> QED
    BY <2>2, <2>3
<1>2. (IF p.side = "BUY" THEN price - p.entry ELSE p.entry - price) \in Int
  BY <1>1
<1> QED
  BY <1>1, <1>2 DEF Profit

LEMMA NoTradeType == NoTrade \in TradeRecord /\ MarginOf(NoTrade) = 0
BY AccountingConstants DEF NoTrade, TradeRecord, Amounts, MarginOf

(* The margins of the open positions add up to something not negative that *)
(* covers each of them.                                                    *)
LEMMA OpenMarginIs ==
  ASSUME AccountingTypeOK
  PROVE  /\ [t \in TradeId |-> MarginOf(trades[t])] \in [TradeId -> Nat]
         /\ OpenMargin \in Nat
         /\ \A t \in TradeId : MarginOf(trades[t]) <= OpenMargin
<1>1. \A t \in TradeId : trades[t].margin \in Nat
  BY DEF AccountingTypeOK, TradeRecord
<1> DEFINE f == [t \in TradeId |-> MarginOf(trades[t])]
<1>2. f \in [TradeId -> Nat] /\ \A t \in TradeId : f[t] = MarginOf(trades[t])
  BY <1>1 DEF MarginOf
<1>3. OpenMargin = Total(f)
  BY DEF OpenMargin
<1> HIDE DEF f
<1>4. OpenMargin \in Nat /\ \A t \in TradeId : f[t] <= OpenMargin
  BY <1>2, <1>3, TotalOfNaturals
<1> QED
  BY <1>2, <1>4 DEF f

(* The stored account with the valuation of the engine laid over it, when  *)
(* the engine holds the positions as they are stored.                      *)
LEMMA OverlayIs ==
  ASSUME AccountingTypeOK, BooksBalance, EquityAddsUp, held = HeldFromStore
  PROVE  /\ Overlay \in AccountRecord
         /\ Overlay.balance = stored.balance
         /\ Overlay.revision = stored.revision
         /\ Overlay.used = OpenMargin
         /\ Overlay.free = Overlay.equity - Overlay.used
         /\ Complete \/ ~adrift => Overlay.equity = Overlay.balance + Overlay.floating
<1> DEFINE profits == [t \in TradeId |-> IF held[t].status = "OPEN" THEN Profit(held[t], quotes[t].price) ELSE 0]
           margins == [t \in TradeId |-> MarginOf(held[t])]
<1>1. profits \in [TradeId -> Int]
  <2>1. \A t \in TradeId : held[t] \in TradeRecord /\ quotes[t].price \in Int
    <3>1. \A t \in TradeId : held[t] \in TradeRecord
      BY DEF AccountingTypeOK
    <3>2. \A t \in TradeId : quotes[t].price \in TradePrice \cup {0}
      BY DEF AccountingTypeOK, QuoteRecord
    <3> QED
      BY <3>1, <3>2, PricesAreNaturals
  <2>2. \A t \in TradeId : Profit(held[t], quotes[t].price) \in Int
    BY <2>1, ProfitIsInteger
  <2> QED
    BY <2>2
<1>2. margins = [t \in TradeId |-> MarginOf(trades[t])]
  <2>1. \A t \in TradeId : MarginOf(HeldFromStore[t]) = MarginOf(trades[t])
    BY NoTradeType DEF HeldFromStore, MarginOf
  <2> QED
    BY <2>1
<1>3. Total(profits) \in Int
  <2> HIDE DEF profits
  <2> QED
    BY <1>1, TotalOfIntegers
<1>4. Total(margins) = OpenMargin
  BY <1>2 DEF OpenMargin
<1>5. OpenMargin \in Nat
  BY OpenMarginIs
<1>6. stored \in AccountRecord /\ stored.used = OpenMargin
  BY DEF AccountingTypeOK, BooksBalance
<1>7. Overlay = IF Complete THEN Valued(stored, Total(profits), Total(margins)) ELSE stored
  BY DEF Overlay
<1> HIDE DEF profits, margins
<1>8. CASE Complete
  <2> DEFINE v == Valued(stored, Total(profits), OpenMargin)
  <2>1. /\ v \in AccountRecord
        /\ v.balance = stored.balance /\ v.revision = stored.revision
        /\ v.used = OpenMargin /\ v.floating = Total(profits)
        /\ v.equity = stored.balance + Total(profits)
        /\ v.free = stored.balance + Total(profits) - OpenMargin
    BY <1>3, <1>5, <1>6, ValuedIs
  <2>2. Overlay = v
    BY <1>4, <1>7, <1>8
  <2> HIDE DEF v
  <2>3. v.free = v.equity - v.used /\ v.equity = v.balance + v.floating
    <3>1. stored.balance \in Int
      BY <1>6, AccountFields
    <3> QED
      BY <2>1, <3>1, <1>3, <1>5
  <2> QED
    BY <2>1, <2>2, <2>3
<1>9. CASE ~Complete
  <2>1. Overlay = stored
    BY <1>7, <1>9
  <2> QED
    BY <1>6, <1>9, <2>1 DEF EquityAddsUp
<1> QED
  BY <1>8, <1>9

-----------------------------------------------------------------------------
(***************************************************************************)
(* Every transaction of a command keeps the books, if what it books is     *)
(* sound in itself.                                                        *)
(***************************************************************************)
LEMMA BookKeeps ==
  ASSUME AccountingInv, job.step = "planned",
         NEW account \in AccountRecord, NEW documents \in [TradeId -> TradeRecord], NEW entries,
         Book(account, documents, entries),
         account.revision > stored.revision,
         account.free = account.equity - account.used,
         account.used = Total([t \in TradeId |-> MarginOf(documents[t])]),
         Leads(entries, stored.balance, account.balance),
         \A t \in TradeId : documents[t].status = "OPEN" => documents[t].volume > 0,
         \A t \in TradeId : t # job.trade => documents[t] = trades[t],
         adrift' \in BOOLEAN,
         ~adrift' => account.equity = account.balance + account.floating
  PROVE  AccountingInv'
<1>1. /\ stored' = account /\ trades' = documents /\ ledger' = ledger \o entries
      /\ job' = [job EXCEPT !.step = "committed"]
      /\ check' = [check EXCEPT !.overlapped = (check.step = "read" \/ @)]
      /\ UNCHANGED <<base, held, overtaken, quotes, loading>>
  BY DEF Book, engineVars
<1>2. AccountingTypeOK /\ BooksBalance /\ LedgerAddsUp /\ job \in JobRecord /\ check \in CheckRecord
  BY DEF AccountingInv, BooksAreSound, AccountingTypeOK
<1>3. /\ job' \in JobRecord /\ job'.step = "committed" /\ job'.trade = job.trade /\ job'.kind = job.kind
  BY <1>1, <1>2 DEF JobRecord
<1>4. /\ check' \in CheckRecord /\ check'.step = check.step /\ check'.issues = check.issues
      /\ check.step = "read" => check'.overlapped
      /\ check.overlapped => check'.overlapped
  <2>1. (check.step = "read" \/ check.overlapped) \in BOOLEAN
    OBVIOUS
  <2> DEFINE b == (check.step = "read" \/ check.overlapped)
  <2>2. check' = [check EXCEPT !.overlapped = b]
    BY <1>1, <1>2 DEF CheckRecord
  <2>3. check.step = "read" => b
    OBVIOUS
  <2>4. check.overlapped => b
    OBVIOUS
  <2> HIDE DEF b
  <2>5. b \in BOOLEAN
    BY <2>1 DEF b
  <2>6. /\ check' \in CheckRecord /\ check'.step = check.step /\ check'.issues = check.issues
        /\ check'.overlapped = b
    BY <2>2, <2>5, <1>2 DEF CheckRecord
  <2> QED
    BY <2>3, <2>4, <2>6
<1>5. Leads(ledger', ledger[1].before, account.balance)
  <2>1. Leads(ledger, ledger[1].before, stored.balance)
    BY <1>2 DEF Leads, AccountingTypeOK, BooksBalance, LedgerAddsUp
  <2> QED
    BY <2>1, <1>1, LeadsOn
<1>6. ledger' # <<>>
  <2>1. ledger \in Seq(LedgerRecord) /\ entries \in Seq(LedgerRecord) /\ ledger # <<>>
    BY <1>2 DEF AccountingTypeOK, LedgerAddsUp, Leads
  <2>2. Len(ledger') = Len(ledger) + Len(entries) /\ Len(ledger) \in Nat /\ Len(entries) \in Nat
    BY <2>1, <1>1
  <2>3. Len(ledger) # 0
    BY <2>1
  <2>4. Len(ledger') # 0
    BY <2>2, <2>3
  <2>5. Len(<<>>) = 0
    OBVIOUS
  <2> QED
    BY <2>4, <2>5, Zenon
<1>7. AccountingTypeOK'
  BY <1>1, <1>2, <1>3, <1>4, <1>5 DEF AccountingTypeOK, Leads
<1>8. BooksBalance' /\ LedgerAddsUp'
  <2>1. stored'.used = OpenMargin'
    BY <1>1 DEF OpenMargin
  <2> QED
    BY <2>1, <1>1, <1>5, <1>6 DEF BooksBalance, LedgerAddsUp, Leads
<1>9. EquityAddsUp'
  BY <1>1 DEF EquityAddsUp
<1>10. ReconciliationIsQuiet'
  BY <1>4 DEF AccountingInv, BooksAreSound, ReconciliationIsQuiet
<1>11. EngineIsCurrent'
  BY <1>3 DEF EngineIsCurrent
<1>12. TradesFollowJob'
  BY <1>1, <1>3 DEF AccountingInv, TradesFollowJob
<1>13. HeldFollowsStore'
  <2> SUFFICES ASSUME NEW t \in TradeId, t # job.trade
               PROVE  held[t] = HeldFromStore'[t]
    BY <1>1, <1>3 DEF HeldFollowsStore
  <2>1. held[t] = HeldFromStore[t]
    BY DEF AccountingInv, HeldFollowsStore
  <2> QED
    BY <2>1, <1>1 DEF HeldFromStore
<1>14. LoadedInThePast'
  <2>1. stored.revision \in Nat /\ account.revision \in Nat
    BY <1>2, AccountFields DEF AccountingTypeOK
  <2> QED
    BY <2>1, <1>1, <1>3 DEF AccountingInv, LoadedInThePast
<1>15. ReadIsCurrent'
  BY <1>4 DEF ReadIsCurrent
<1> QED
  BY <1>7, <1>8, <1>9, <1>10, <1>11, <1>12, <1>13, <1>14, <1>15 DEF AccountingInv, BooksAreSound

(* What the executions need of the state before them.                      *)
LEMMA PlannedFacts ==
  ASSUME AccountingInv, job.step = "planned"
  PROVE  /\ AccountingTypeOK /\ BooksBalance /\ EquityAddsUp /\ held = HeldFromStore
         /\ stored \in AccountRecord /\ stored.used = OpenMargin
         /\ job.fill \in Nat /\ job.amount \in Int
         /\ job.kind \in {"open", "close", "reverse"} => job.trade \in TradeId
         /\ OpenCommission \in Nat /\ OpenVolume * MarginPerLot \in Nat
         /\ \A t \in TradeId : trades[t] \in TradeRecord
         /\ \A t \in TradeId : trades[t].status = "OPEN" => trades[t].volume > 0
<1>1. AccountingTypeOK /\ BooksBalance /\ EquityAddsUp /\ held = HeldFromStore
  BY DEF AccountingInv, BooksAreSound, EngineIsCurrent
<1>2. job.fill \in TradePrice \cup {0} /\ job.amount \in Int
  BY <1>1 DEF AccountingTypeOK, JobRecord
<1>3. job.fill \in Nat
  BY <1>2, PricesAreNaturals
<1>4. OpenCommission \in Nat /\ OpenVolume * MarginPerLot \in Nat
  BY AccountingConstants DEF OpenCommission
<1> QED
  BY <1>1, <1>2, <1>3, <1>4 DEF AccountingInv, AccountingTypeOK, TradesFollowJob, BooksBalance

LEMMA OpenedIs ==
  ASSUME NEW side \in {"BUY", "SELL"}, NEW price \in TradePrice
  PROVE  /\ Opened(side, price) \in TradeRecord
         /\ Opened(side, price).status = "OPEN"
         /\ Opened(side, price).volume > 0
         /\ MarginOf(Opened(side, price)) = OpenVolume * MarginPerLot
<1>1. OpenVolume \in Amounts /\ OpenVolume > 0 /\ OpenVolume * MarginPerLot \in Nat
  BY AccountingConstants DEF Amounts
<1> QED
  BY <1>1 DEF Opened, TradeRecord, MarginOf

(* A change of one position changes the reserved margin by as much.        *)
LEMMA MarginChanges ==
  ASSUME AccountingTypeOK, NEW t \in TradeId, NEW p \in TradeRecord
  PROVE  /\ [trades EXCEPT ![t] = p] \in [TradeId -> TradeRecord]
         /\ Total([u \in TradeId |-> MarginOf([trades EXCEPT ![t] = p][u])])
              = OpenMargin + MarginOf(p) - MarginOf(trades[t])
<1> DEFINE f == [u \in TradeId |-> MarginOf(trades[u])]
           e == [u \in TradeId |-> MarginOf([trades EXCEPT ![t] = p][u])]
<1>1. trades \in [TradeId -> TradeRecord]
  BY DEF AccountingTypeOK
<1>2. MarginOf(p) \in Int
  BY DEF MarginOf, TradeRecord
<1>3. f \in [TradeId -> Int]
  BY OpenMarginIs
<1>4. \A u \in TradeId : e[u] = IF u = t THEN MarginOf(p) ELSE f[u]
  BY <1>1
<1>5. e \in [TradeId -> Int]
  <2>1. \A u \in TradeId : e[u] \in Int
    BY <1>2, <1>3, <1>4
  <2> QED
    BY <2>1
<1>6. f[t] = MarginOf(trades[t]) /\ OpenMargin = Total(f)
  BY DEF OpenMargin
<1> HIDE DEF e, f
<1>7. Total(e) = Total(f) + e[t] - f[t]
  BY <1>3, <1>4, <1>5, TotalChanges
<1> QED
  BY <1>1, <1>4, <1>6, <1>7 DEF e

LEMMA CommitOpenStep ==
  ASSUME AccountingInv, CommitOpen
  PROVE  AccountingInv'
<1> DEFINE margin == OpenVolume * MarginPerLot
           p == Opened("BUY", job.fill)
           account == AfterOpen(Overlay, OpenCommission, margin)
           documents == [trades EXCEPT ![job.trade] = p]
<1>1. /\ job.step = "planned" /\ job.kind = "open" /\ job.fill # 0
      /\ Live
      /\ Book(account, documents, OpenEntries(stored.balance, OpenCommission))
      /\ adrift' = FALSE
  BY DEF CommitOpen
<1>2. /\ AccountingTypeOK /\ BooksBalance /\ EquityAddsUp /\ held = HeldFromStore
      /\ stored \in AccountRecord
      /\ job.trade \in TradeId /\ OpenCommission \in Nat /\ margin \in Nat
      /\ \A t \in TradeId : trades[t].status = "OPEN" => trades[t].volume > 0
  BY <1>1, PlannedFacts
<1>3. job.fill \in TradePrice /\ trades[job.trade].status = "none"
  BY <1>1, <1>2 DEF AccountingTypeOK, JobRecord, AccountingInv, TradesFollowJob
<1>4. p \in TradeRecord /\ p.status = "OPEN" /\ p.volume > 0 /\ MarginOf(p) = margin
  BY <1>3, OpenedIs
<1>5. Complete
  BY <1>1 DEF Live, Complete
<1>6. /\ Overlay \in AccountRecord /\ Overlay.balance = stored.balance
      /\ Overlay.revision = stored.revision /\ Overlay.used = OpenMargin
      /\ Overlay.equity = Overlay.balance + Overlay.floating
  BY <1>2, <1>5, OverlayIs
<1>7. /\ account \in AccountRecord
      /\ account.balance = Overlay.balance - OpenCommission
      /\ account.equity = Overlay.equity - OpenCommission
      /\ account.floating = Overlay.floating
      /\ account.used = Overlay.used + margin
      /\ account.free = Overlay.equity - OpenCommission - (Overlay.used + margin)
      /\ account.revision = Overlay.revision + 1
  <2> HIDE DEF margin
  <2> QED
    BY <1>2, <1>6, AfterOpenIs
<1>8. /\ documents \in [TradeId -> TradeRecord]
      /\ Total([u \in TradeId |-> MarginOf(documents[u])])
           = OpenMargin + MarginOf(p) - MarginOf(trades[job.trade])
  <2> HIDE DEF p
  <2> QED
    BY <1>2, <1>4, MarginChanges
<1>9. MarginOf(trades[job.trade]) = 0
  BY <1>3 DEF MarginOf
<1>10. Leads(OpenEntries(stored.balance, OpenCommission), stored.balance, stored.balance - OpenCommission)
  BY <1>2, AccountFields, OpenEntriesLead
<1>11. OpenMargin \in Nat
  BY <1>2, OpenMarginIs
<1>12. \A t \in TradeId : t # job.trade => documents[t] = trades[t]
  BY <1>2 DEF AccountingTypeOK
<1>13. documents[job.trade] = p
  BY <1>2 DEF AccountingTypeOK
<1>14. \A t \in TradeId : documents[t].status = "OPEN" => documents[t].volume > 0
  <2> HIDE DEF p, documents
  <2> QED
    BY <1>2, <1>4, <1>12, <1>13
<1> HIDE DEF margin, p, account, documents
<1>15. /\ Overlay.balance \in Int /\ Overlay.equity \in Int /\ Overlay.floating \in Int
       /\ Overlay.revision \in Nat
  BY <1>6, AccountFields
<1>16. /\ account.revision > stored.revision
       /\ account.free = account.equity - account.used
       /\ account.used = Total([u \in TradeId |-> MarginOf(documents[u])])
       /\ account.equity = account.balance + account.floating
  BY <1>2, <1>4, <1>6, <1>7, <1>8, <1>9, <1>11, <1>15
<1>17. Leads(OpenEntries(stored.balance, OpenCommission), stored.balance, account.balance)
  BY <1>6, <1>7, <1>10
<1> QED
  BY <1>1, <1>7, <1>8, <1>12, <1>14, <1>16, <1>17, BookKeeps

LEMMA ReleasedIs ==
  ASSUME NEW p \in TradeRecord, p.volume > 0, NEW volume \in Int, volume > 0, volume <= p.volume
  PROVE  Released(p, volume) \in Nat /\ Released(p, volume) <= p.margin
<1>1. p.margin \in Nat /\ p.volume \in Nat
  <2>1. p.volume \in Amounts /\ p.margin \in Nat
    BY DEF TradeRecord
  <2> QED
    BY <2>1, AccountingConstants DEF Amounts
<1> DEFINE m == p.margin
           n == p.volume
           q == (m * volume) \div n
<1>2. q \in Nat /\ q <= m
  <2> SUFFICES ASSUME NEW a \in Nat, NEW b \in Nat, NEW v \in Nat, b > 0, v <= b
               PROVE  (a * v) \div b \in Nat /\ (a * v) \div b <= a
    BY <1>1
  <2> DEFINE r == (a * v) \div b
  <2>1. a * v \in Nat /\ a * v <= a * b
    OBVIOUS
  <2>2. r \in Int /\ b * r <= a * v /\ a * v < b * (r + 1)
    BY <2>1
  <2> HIDE DEF r
  <2>3. r >= 0
    <3>1. ~(r <= -1)
      <4> SUFFICES ASSUME r <= -1 PROVE FALSE
        OBVIOUS
      <4>1. b * (r + 1) <= 0
        BY <2>2
      <4> QED
        BY <2>1, <2>2, <4>1
    <3> QED
      BY <2>2, <3>1
  <2>4. r <= a
    <3> SUFFICES ASSUME r >= a + 1 PROVE FALSE
      BY <2>2
    <3>1. b * r >= b * (a + 1)
      BY <2>2
    <3>2. b * (a + 1) = a * b + b
      OBVIOUS
    <3> QED
      BY <2>1, <2>2, <3>1, <3>2
  <2> QED
    BY <2>2, <2>3, <2>4 DEF r
<1> QED
  BY <1>1, <1>2 DEF Released

LEMMA ReducedIs ==
  ASSUME NEW p \in TradeRecord, p.status = "OPEN", p.volume > 0,
         NEW volume \in Int, volume > 0, volume <= p.volume
  PROVE  /\ Reduced(p, volume, Released(p, volume)) \in TradeRecord
         /\ Reduced(p, volume, Released(p, volume)).status = "OPEN"
              => Reduced(p, volume, Released(p, volume)).volume > 0
         /\ MarginOf(Reduced(p, volume, Released(p, volume))) = MarginOf(p) - Released(p, volume)
<1> DEFINE released == Released(p, volume)
<1>1. released \in Nat /\ released <= p.margin
  BY ReleasedIs
<1>2. p.volume \in Amounts /\ p.margin \in Nat /\ p.volume \in Nat /\ 0 \in Amounts
  <2>1. p.volume \in Amounts /\ p.margin \in Nat
    BY DEF TradeRecord
  <2> QED
    BY <2>1, AccountingConstants DEF Amounts
<1>3. CASE volume = p.volume
  <2>1. released = p.margin
    BY <1>3 DEF Released
  <2> DEFINE c == [p EXCEPT !.status = "CLOSED"]
             v == [c EXCEPT !.volume = 0]
             r == [v EXCEPT !.margin = 0]
  <2>2. c \in TradeRecord /\ c.status = "CLOSED"
    BY DEF TradeRecord
  <2>3. v \in TradeRecord /\ v.status = "CLOSED"
    <3> HIDE DEF c
    <3> QED
      BY <1>2, <2>2 DEF TradeRecord
  <2>4. r \in TradeRecord /\ r.status = "CLOSED"
    <3> HIDE DEF v
    <3> QED
      BY <2>3 DEF TradeRecord
  <2>5. Reduced(p, volume, released) = r
    BY <1>3 DEF Reduced
  <2> HIDE DEF r, released
  <2> QED
    BY <1>2, <2>1, <2>4, <2>5 DEF MarginOf, released
<1>4. CASE volume # p.volume
  <2> DEFINE n == p.volume - volume
             m == p.margin - released
             v == [p EXCEPT !.volume = n]
             r == [v EXCEPT !.margin = m]
  <2>1. n \in Amounts /\ n > 0 /\ m \in Nat
    BY <1>1, <1>2, <1>4, AccountingConstants DEF Amounts
  <2>2. Reduced(p, volume, released) = r
    BY <1>4 DEF Reduced, TradeRecord
  <2> HIDE DEF n, m, released
  <2>3. v \in TradeRecord /\ v.volume = n /\ v.status = "OPEN"
    BY <2>1 DEF TradeRecord
  <2>4. r \in TradeRecord /\ r.volume = n /\ r.status = "OPEN" /\ r.margin = m
    <3> HIDE DEF v
    <3> QED
      BY <2>1, <2>3 DEF TradeRecord
  <2> HIDE DEF r
  <2> QED
    BY <2>1, <2>2, <2>4 DEF MarginOf, m, released
<1> QED
  BY <1>3, <1>4

(* What a close needs of the state before it.                              *)
LEMMA CloseFacts ==
  ASSUME AccountingInv, job.step = "planned", job.kind \in {"close", "reverse"},
         NEW volume \in Int, volume > 0, MayClose(job.trade, volume)
  PROVE  /\ job.trade \in TradeId /\ trades[job.trade] \in TradeRecord
         /\ trades[job.trade].status = "OPEN" /\ trades[job.trade].volume > 0
         /\ volume \in Nat /\ volume <= trades[job.trade].volume
         /\ [trades[job.trade] EXCEPT !.volume = volume] \in TradeRecord
         /\ job.fill \in TradePrice
         /\ volume * CommissionPerLot \in Nat
         /\ MarginOf(trades[job.trade]) <= OpenMargin
         /\ MarginOf(trades[job.trade]) = trades[job.trade].margin
         /\ trades[job.trade].margin \in Nat
         /\ Profit([trades[job.trade] EXCEPT !.volume = volume], job.fill) \in Int
<1> DEFINE p == trades[job.trade]
<1>1. job.trade \in TradeId /\ p \in TradeRecord /\ job.fill \in Nat /\ AccountingTypeOK
  BY PlannedFacts
<1>2. p.status = "OPEN" /\ volume <= p.volume /\ p.volume > 0 /\ job.fill # 0
  BY <1>1, PlannedFacts DEF MayClose
<1>3. p.volume \in Amounts /\ p.margin \in Nat
  BY <1>1 DEF TradeRecord
<1>4. volume \in Amounts /\ volume \in Nat
  BY <1>2, <1>3, AccountingConstants DEF Amounts
<1>5. [p EXCEPT !.volume = volume] \in TradeRecord
  <2> HIDE DEF p
  <2> QED
    BY <1>1, <1>4 DEF TradeRecord
<1>6. job.fill \in TradePrice
  BY <1>1, <1>2 DEF AccountingTypeOK, JobRecord
<1>7. volume * CommissionPerLot \in Nat
  BY <1>4, AccountingConstants
<1>8. MarginOf(p) <= OpenMargin /\ MarginOf(p) = p.margin
  BY <1>1, <1>2, OpenMarginIs DEF MarginOf
<1>9. Profit([p EXCEPT !.volume = volume], job.fill) \in Int
  <2> DEFINE part == [p EXCEPT !.volume = volume]
  <2>1. part \in TradeRecord
    BY <1>5
  <2> HIDE DEF part
  <2>2. Profit(part, job.fill) \in Int
    BY <2>1, <1>1, ProfitIsInteger
  <2> QED
    BY <2>2 DEF part
<1> QED
  BY <1>1, <1>2, <1>3, <1>4, <1>5, <1>6, <1>7, <1>8, <1>9

LEMMA CommitCloseStep ==
  ASSUME AccountingInv, CommitClose
  PROVE  AccountingInv'
<1> DEFINE t == job.trade
           p == trades[t]
           volume == job.amount
           realized == Profit([p EXCEPT !.volume = volume], job.fill)
           commission == volume * CommissionPerLot
           released == Released(p, volume)
           account == AfterClose(Overlay, realized, commission, released, Complete)
           reduced == Reduced(p, volume, released)
           documents == [trades EXCEPT ![t] = reduced]
<1>1. /\ job.step = "planned" /\ job.kind = "close" /\ MayClose(t, volume)
      /\ Book(account, documents, CloseEntries(stored.balance, realized, commission))
      /\ Drifts(realized)
  BY DEF CommitClose
<1>2. /\ AccountingTypeOK /\ BooksBalance /\ EquityAddsUp /\ held = HeldFromStore
      /\ stored \in AccountRecord /\ volume \in Int /\ adrift \in BOOLEAN
      /\ \A u \in TradeId : trades[u].status = "OPEN" => trades[u].volume > 0
  BY <1>1, PlannedFacts DEF AccountingTypeOK
<1>3. volume > 0
  BY <1>1 DEF AccountingInv, TradesFollowJob
<1>4. /\ t \in TradeId /\ p \in TradeRecord /\ p.status = "OPEN" /\ p.volume > 0
      /\ volume <= p.volume /\ realized \in Int /\ commission \in Nat
      /\ MarginOf(p) <= OpenMargin /\ MarginOf(p) = p.margin /\ p.margin \in Nat
  BY <1>1, <1>2, <1>3, CloseFacts
<1>5. released \in Nat /\ released <= p.margin
  <2> HIDE DEF p
  <2> QED
    BY <1>2, <1>3, <1>4, ReleasedIs
<1>6. /\ reduced \in TradeRecord /\ (reduced.status = "OPEN" => reduced.volume > 0)
      /\ MarginOf(reduced) = MarginOf(p) - released
  <2> HIDE DEF p
  <2> QED
    BY <1>2, <1>3, <1>4, ReducedIs
<1>7. /\ Overlay \in AccountRecord /\ Overlay.balance = stored.balance
      /\ Overlay.revision = stored.revision /\ Overlay.used = OpenMargin
      /\ Complete \/ ~adrift => Overlay.equity = Overlay.balance + Overlay.floating
  BY <1>2, OverlayIs
<1>8. Complete \in BOOLEAN
  BY DEF Complete
<1>9. /\ account \in AccountRecord
      /\ account.balance = Overlay.balance + realized - commission
      /\ account.equity = Overlay.equity - commission
      /\ account.floating = IF Complete THEN Overlay.floating - realized ELSE Overlay.floating
      /\ account.used = AboveZero(Overlay.used - released)
      /\ account.free = Overlay.equity - commission - AboveZero(Overlay.used - released)
      /\ account.revision = Overlay.revision + 1
  <2> HIDE DEF realized, commission, released
  <2> QED
    BY <1>4, <1>5, <1>7, <1>8, AfterCloseIs
<1>10. /\ documents \in [TradeId -> TradeRecord]
       /\ Total([u \in TradeId |-> MarginOf(documents[u])])
            = OpenMargin + MarginOf(reduced) - MarginOf(p)
  <2> HIDE DEF reduced
  <2> QED
    BY <1>2, <1>4, <1>6, MarginChanges
<1>11. Leads(CloseEntries(stored.balance, realized, commission), stored.balance,
             stored.balance + realized - commission)
  <2> HIDE DEF realized, commission
  <2> QED
    BY <1>2, <1>4, AccountFields, CloseEntriesLead
<1>12. OpenMargin \in Nat
  BY <1>2, OpenMarginIs
<1>13. \A u \in TradeId : u # t => documents[u] = trades[u]
  BY <1>2 DEF AccountingTypeOK
<1>14. documents[t] = reduced
  BY <1>2, <1>4 DEF AccountingTypeOK
<1>15. \A u \in TradeId : documents[u].status = "OPEN" => documents[u].volume > 0
  <2> HIDE DEF p, documents, reduced
  <2> QED
    BY <1>2, <1>6, <1>13, <1>14
<1>16. adrift' \in BOOLEAN /\ (~adrift' => Complete \/ (~adrift /\ realized = 0))
  BY <1>1, <1>2 DEF Drifts
<1> HIDE DEF realized, commission, released, account, documents, reduced
<1>17. /\ Overlay.balance \in Int /\ Overlay.equity \in Int /\ Overlay.floating \in Int
       /\ Overlay.revision \in Nat
  BY <1>7, AccountFields
<1>18. account.used = OpenMargin - released
  BY <1>4, <1>5, <1>7, <1>9, <1>12 DEF AboveZero
<1>19. MarginOf(p) \in Nat
  BY <1>4
<1>20. /\ account.revision > stored.revision
       /\ account.free = account.equity - account.used
       /\ account.used = Total([u \in TradeId |-> MarginOf(documents[u])])
  BY <1>5, <1>6, <1>7, <1>9, <1>10, <1>12, <1>17, <1>18, <1>19
<1>21. ~adrift' => account.equity = account.balance + account.floating
  BY <1>4, <1>7, <1>9, <1>16, <1>17
<1>22. Leads(CloseEntries(stored.balance, realized, commission), stored.balance, account.balance)
  BY <1>7, <1>9, <1>11
<1> QED
  BY <1>1, <1>9, <1>10, <1>13, <1>15, <1>16, <1>20, <1>21, <1>22, BookKeeps

LEMMA CommitReverseStep ==
  ASSUME AccountingInv, CommitReverse
  PROVE  AccountingInv'
<1> DEFINE t == job.trade
           p == trades[t]
           realized == Profit(p, job.fill)
           commission == p.volume * CommissionPerLot
           margin == OpenVolume * MarginPerLot
           closed == AfterClose(Overlay, realized, commission, p.margin, Complete)
           account == AfterOpen(closed, OpenCommission, margin)
           new == Opened(IF p.side = "BUY" THEN "SELL" ELSE "BUY", job.fill)
           documents == [trades EXCEPT ![t] = new]
           entries == CloseEntries(stored.balance, realized, commission)
                        \o OpenEntries(stored.balance + realized - commission, OpenCommission)
<1>1. /\ job.step = "planned" /\ job.kind = "reverse" /\ MayClose(t, p.volume)
      /\ Book(account, documents, entries)
      /\ Drifts(realized)
  BY DEF CommitReverse
<1>2. /\ AccountingTypeOK /\ BooksBalance /\ EquityAddsUp /\ held = HeldFromStore
      /\ stored \in AccountRecord /\ adrift \in BOOLEAN /\ t \in TradeId
      /\ p \in TradeRecord /\ OpenCommission \in Nat /\ margin \in Nat
      /\ \A u \in TradeId : trades[u].status = "OPEN" => trades[u].volume > 0
  BY <1>1, PlannedFacts DEF AccountingTypeOK
<1>3. p.volume > 0 /\ p.volume \in Int
  <2>1. p.volume \in Amounts
    BY <1>2 DEF TradeRecord
  <2> QED
    BY <2>1, <1>1, <1>2, AccountingConstants DEF MayClose, Amounts
<1>4. [p EXCEPT !.volume = p.volume] = p
  BY <1>2 DEF TradeRecord
<1>5. /\ job.fill \in TradePrice /\ realized \in Int /\ commission \in Nat
      /\ MarginOf(p) <= OpenMargin /\ MarginOf(p) = p.margin /\ p.margin \in Nat
  <2>1. /\ job.fill \in TradePrice /\ p.volume * CommissionPerLot \in Nat
        /\ Profit([p EXCEPT !.volume = p.volume], job.fill) \in Int
        /\ MarginOf(p) <= OpenMargin /\ MarginOf(p) = p.margin /\ p.margin \in Nat
    BY <1>1, <1>3, CloseFacts
  <2> QED
    BY <2>1, <1>4
<1>6. new \in TradeRecord /\ new.volume > 0 /\ MarginOf(new) = margin
  BY <1>5, OpenedIs
<1>7. /\ Overlay \in AccountRecord /\ Overlay.balance = stored.balance
      /\ Overlay.revision = stored.revision /\ Overlay.used = OpenMargin
      /\ Complete \/ ~adrift => Overlay.equity = Overlay.balance + Overlay.floating
  BY <1>2, OverlayIs
<1>8. Complete \in BOOLEAN
  BY DEF Complete
<1>9. /\ closed \in AccountRecord
      /\ closed.balance = Overlay.balance + realized - commission
      /\ closed.equity = Overlay.equity - commission
      /\ closed.floating = IF Complete THEN Overlay.floating - realized ELSE Overlay.floating
      /\ closed.used = AboveZero(Overlay.used - p.margin)
      /\ closed.revision = Overlay.revision + 1
  <2> HIDE DEF realized, commission, p
  <2> QED
    BY <1>5, <1>7, <1>8, AfterCloseIs
<1>10. /\ account \in AccountRecord
       /\ account.balance = closed.balance - OpenCommission
       /\ account.equity = closed.equity - OpenCommission
       /\ account.floating = closed.floating
       /\ account.used = closed.used + margin
       /\ account.free = closed.equity - OpenCommission - (closed.used + margin)
       /\ account.revision = closed.revision + 1
  <2> HIDE DEF closed, margin
  <2> QED
    BY <1>2, <1>9, AfterOpenIs
<1>11. /\ documents \in [TradeId -> TradeRecord]
       /\ Total([u \in TradeId |-> MarginOf(documents[u])])
            = OpenMargin + MarginOf(new) - MarginOf(p)
  <2> HIDE DEF new
  <2> QED
    BY <1>2, <1>6, MarginChanges
<1>12. Leads(entries, stored.balance, stored.balance + realized - commission - OpenCommission)
  <2> DEFINE b == stored.balance + realized - commission
  <2>1. stored.balance \in Int
    BY <1>2, AccountFields
  <2>2. b \in Int
    BY <2>1, <1>5
  <2> HIDE DEF realized, commission
  <2>3. Leads(CloseEntries(stored.balance, realized, commission), stored.balance, b)
    BY <2>1, <1>5, CloseEntriesLead
  <2> HIDE DEF b
  <2>4. Leads(OpenEntries(b, OpenCommission), b, b - OpenCommission)
    BY <2>2, <1>2, OpenEntriesLead
  <2>5. Leads(CloseEntries(stored.balance, realized, commission) \o OpenEntries(b, OpenCommission),
              stored.balance, b - OpenCommission)
    BY <2>3, <2>4, LeadsOn
  <2>6. /\ entries = CloseEntries(stored.balance, realized, commission) \o OpenEntries(b, OpenCommission)
        /\ b - OpenCommission = stored.balance + realized - commission - OpenCommission
    BY <2>1, <1>2, <1>5 DEF b
  <2> HIDE DEF entries
  <2> QED
    BY <2>5, <2>6
<1>13. OpenMargin \in Nat
  BY <1>2, OpenMarginIs
<1>14. \A u \in TradeId : u # t => documents[u] = trades[u]
  BY <1>2 DEF AccountingTypeOK
<1>15. documents[t] = new
  BY <1>2 DEF AccountingTypeOK
<1>16. \A u \in TradeId : documents[u].status = "OPEN" => documents[u].volume > 0
  <2> HIDE DEF p, documents, new
  <2> QED
    BY <1>2, <1>6, <1>14, <1>15
<1>17. adrift' \in BOOLEAN /\ (~adrift' => Complete \/ (~adrift /\ realized = 0))
  BY <1>1, <1>2 DEF Drifts
<1> HIDE DEF realized, commission, closed, account, documents, new, margin, entries
<1>18. /\ Overlay.balance \in Int /\ Overlay.equity \in Int /\ Overlay.floating \in Int
       /\ Overlay.revision \in Nat
  BY <1>7, AccountFields
<1>19. closed.used = OpenMargin - p.margin /\ p.margin <= OpenMargin
  BY <1>5, <1>7, <1>9, <1>13 DEF AboveZero
<1>20. /\ closed.balance \in Int /\ closed.equity \in Int /\ closed.floating \in Int
       /\ closed.revision \in Nat
  BY <1>9, AccountFields
<1>21. account.revision > stored.revision
  BY <1>7, <1>9, <1>10, <1>18
<1>22. account.free = account.equity - account.used
  BY <1>2, <1>5, <1>10, <1>13, <1>19, <1>20
<1>23. account.used = Total([u \in TradeId |-> MarginOf(documents[u])])
  BY <1>2, <1>5, <1>6, <1>10, <1>11, <1>13, <1>19
<1>24. ~adrift' => account.equity = account.balance + account.floating
  <2> SUFFICES ASSUME ~adrift' PROVE account.equity = account.balance + account.floating
    OBVIOUS
  <2>1. closed.equity = closed.balance + closed.floating
    BY <1>5, <1>7, <1>9, <1>17, <1>18
  <2> QED
    BY <2>1, <1>2, <1>10, <1>20
<1>25. Leads(entries, stored.balance, account.balance)
  <2>1. account.balance = stored.balance + realized - commission - OpenCommission
    BY <1>2, <1>5, <1>7, <1>9, <1>10, <1>18
  <2> QED
    BY <2>1, <1>12
<1> QED
  BY <1>1, <1>10, <1>11, <1>14, <1>16, <1>17, <1>21, <1>22, <1>23, <1>24, <1>25, BookKeeps

LEMMA CommitTransferStep ==
  ASSUME AccountingInv, CommitTransfer
  PROVE  AccountingInv'
<1> DEFINE amount == job.amount
           balance == stored.balance + amount
           equity == stored.equity + amount
           free == equity - stored.used
           b == [stored EXCEPT !.balance = balance]
           e == [b EXCEPT !.equity = equity]
           f == [e EXCEPT !.free = free]
           account == [f EXCEPT !.revision = stored.revision + 1]
<1>1. /\ AccountingTypeOK /\ BooksBalance /\ EquityAddsUp /\ stored \in AccountRecord
      /\ stored.used = OpenMargin /\ amount \in Int /\ trades \in [TradeId -> TradeRecord]
      /\ adrift \in BOOLEAN
      /\ \A t \in TradeId : trades[t].status = "OPEN" => trades[t].volume > 0
  <2>1. job.step = "planned"
    BY DEF CommitTransfer
  <2> QED
    BY <2>1, PlannedFacts DEF AccountingTypeOK
<1>2. /\ stored.balance \in Int /\ stored.equity \in Int /\ stored.floating \in Int
      /\ stored.used \in Nat /\ stored.revision \in Nat
  BY <1>1, AccountFields
<1>3. /\ job.step = "planned" /\ job.kind = "transfer" /\ adrift' = adrift
      /\ Book([stored EXCEPT !.balance = @ + amount, !.equity = equity, !.free = equity - stored.used,
                             !.revision = @ + 1],
              trades, <<Entry(stored.balance, amount)>>)
  BY DEF CommitTransfer
<1>4. [stored EXCEPT !.balance = @ + amount, !.equity = equity, !.free = equity - stored.used,
                     !.revision = @ + 1] = account
  BY <1>1 DEF AccountRecord
<1>5. balance \in Int /\ equity \in Int /\ free \in Int /\ stored.revision + 1 \in Nat
  BY <1>1, <1>2
<1>6. Book(account, trades, <<Entry(stored.balance, amount)>>)
  <2> HIDE DEF account
  <2> QED
    BY <1>3, <1>4
<1>7. ~adrift => equity = balance + stored.floating
  BY <1>1, <1>2 DEF EquityAddsUp
<1> HIDE DEF balance, equity, free
<1>8. /\ b \in AccountRecord /\ b.balance = balance /\ b.floating = stored.floating
      /\ b.used = stored.used
  BY <1>1, <1>5 DEF AccountRecord
<1>9. /\ e \in AccountRecord /\ e.balance = balance /\ e.floating = stored.floating
      /\ e.used = stored.used /\ e.equity = equity
  <2> HIDE DEF b
  <2> QED
    BY <1>5, <1>8 DEF AccountRecord
<1>10. /\ f \in AccountRecord /\ f.balance = balance /\ f.floating = stored.floating
       /\ f.used = stored.used /\ f.equity = equity /\ f.free = free
  <2> HIDE DEF e
  <2> QED
    BY <1>5, <1>9 DEF AccountRecord
<1>11. /\ account \in AccountRecord /\ account.balance = balance /\ account.floating = stored.floating
       /\ account.used = stored.used /\ account.equity = equity /\ account.free = free
       /\ account.revision = stored.revision + 1
  <2> HIDE DEF f
  <2> QED
    BY <1>5, <1>10 DEF AccountRecord
<1> HIDE DEF account
<1>12. Leads(<<Entry(stored.balance, amount)>>, stored.balance, account.balance)
  BY <1>1, <1>2, <1>11, EntryLeads DEF balance
<1>13. account.used = Total([t \in TradeId |-> MarginOf(trades[t])])
  BY <1>1, <1>11 DEF OpenMargin
<1>14. account.revision > stored.revision /\ account.free = account.equity - account.used
  BY <1>2, <1>11 DEF free
<1>15. ~adrift' => account.equity = account.balance + account.floating
  BY <1>3, <1>7, <1>11
<1> QED
  BY <1>1, <1>3, <1>6, <1>11, <1>12, <1>13, <1>14, <1>15, BookKeeps

-----------------------------------------------------------------------------
(* The steps that leave the books alone.                                   *)
LEMMA BooksStay ==
  ASSUME AccountingInv, UNCHANGED bookVars
  PROVE  /\ BooksBalance' /\ EquityAddsUp' /\ LedgerAddsUp'
         /\ HeldFromStore' = HeldFromStore /\ Doc' = Doc
         /\ OpenMargin' = OpenMargin
         /\ stored' = stored /\ trades' = trades /\ ledger' = ledger /\ adrift' = adrift
         /\ AccountingTypeOK
         /\ stored.revision \in Nat
<1>1. stored' = stored /\ trades' = trades /\ ledger' = ledger /\ adrift' = adrift
  BY DEF bookVars
<1>2. OpenMargin' = OpenMargin /\ HeldFromStore' = HeldFromStore /\ Doc' = Doc
  BY <1>1 DEF OpenMargin, HeldFromStore, Doc
<1>3. stored.revision \in Nat
  BY AccountFields DEF AccountingInv, BooksAreSound, AccountingTypeOK
<1> QED
  BY <1>1, <1>2, <1>3 DEF AccountingInv, BooksAreSound, BooksBalance, EquityAddsUp, LedgerAddsUp

LEMMA PlanStep ==
  ASSUME AccountingInv,
         \/ \E t \in TradeId : PlanOpen(t) \/ PlanClose(t) \/ PlanReverse(t)
         \/ PlanTransfer
  PROVE  AccountingInv'
<1>1. PICK kind \in {"open", "close", "reverse", "transfer"}, t \in Slots, amount \in Int :
        /\ Plan(kind, t, amount)
        /\ kind # "transfer" => t \in TradeId
        /\ kind = "open" => trades[t].status = "none"
        /\ kind = "close" => amount > 0
  <2>1. ASSUME NEW t \in TradeId, PlanOpen(t)
        PROVE  Plan("open", t, OpenVolume) /\ trades[t].status = "none" /\ t \in Slots /\ OpenVolume \in Int
    BY <2>1, AccountingConstants DEF PlanOpen, Slots
  <2>2. ASSUME NEW t \in TradeId, PlanClose(t)
        PROVE  \E volume \in Int : Plan("close", t, volume) /\ volume > 0 /\ t \in Slots
    BY <2>2, AccountingConstants DEF PlanClose, Slots
  <2>3. ASSUME NEW t \in TradeId, PlanReverse(t)
        PROVE  Plan("reverse", t, OpenVolume) /\ t \in Slots /\ OpenVolume \in Int
    BY <2>3, AccountingConstants DEF PlanReverse, Slots
  <2>4. ASSUME PlanTransfer
        PROVE  \E amount \in Int : Plan("transfer", 0, amount) /\ 0 \in Slots
    <3>1. \A amount \in Deposit \cup {0 - w : w \in Withdrawal} : amount \in Int
      <4>1. \A amount \in Deposit : amount \in Int
        BY AccountingConstants
      <4>2. \A w \in Withdrawal : 0 - w \in Int
        BY AccountingConstants
      <4> QED
        BY <4>1, <4>2
    <3> QED
      BY <2>4, <3>1 DEF PlanTransfer, Slots
  <2> QED
    BY <2>1, <2>2, <2>3, <2>4
<1> DEFINE fill == IF t # 0 /\ Executable(t) THEN quotes[t].price ELSE 0
<1>2. /\ job.step = "idle"
      /\ job' = [step |-> "planned", kind |-> kind, trade |-> t, amount |-> amount, fill |-> fill]
      /\ UNCHANGED bookVars /\ UNCHANGED <<base, held, overtaken, quotes, loading, check>>
  BY <1>1 DEF Plan, engineVars
<1>3. /\ BooksBalance' /\ EquityAddsUp' /\ LedgerAddsUp'
      /\ HeldFromStore' = HeldFromStore /\ Doc' = Doc /\ OpenMargin' = OpenMargin
      /\ stored' = stored /\ trades' = trades /\ ledger' = ledger /\ adrift' = adrift
      /\ AccountingTypeOK
  BY <1>2, BooksStay
<1>4. fill \in TradePrice \cup {0}
  <2>1. CASE t # 0
    <3>1. t \in TradeId
      BY <2>1 DEF Slots
    <3>2. quotes[t].price \in TradePrice \cup {0}
      BY <1>3, <3>1 DEF AccountingTypeOK, QuoteRecord
    <3> QED
      BY <3>2
  <2>2. CASE t = 0
    BY <2>2
  <2> QED
    BY <2>1, <2>2
<1> HIDE DEF fill
<1>5. job' \in JobRecord /\ job'.step = "planned" /\ job'.kind = kind /\ job'.trade = t
      /\ job'.amount = amount
  BY <1>2, <1>4 DEF JobRecord
<1>6. AccountingTypeOK'
  BY <1>2, <1>3, <1>5 DEF AccountingTypeOK
<1>7. TradesFollowJob'
  BY <1>1, <1>3, <1>5 DEF AccountingInv, TradesFollowJob
<1>8. HeldFollowsStore' /\ EngineIsCurrent' /\ LoadedInThePast'
  BY <1>2, <1>3, <1>5 DEF AccountingInv, HeldFollowsStore, EngineIsCurrent, LoadedInThePast
<1>9. ReadIsCurrent' /\ ReconciliationIsQuiet'
  BY <1>2, <1>3 DEF AccountingInv, BooksAreSound, ReadIsCurrent, ReconciliationIsQuiet
<1> QED
  BY <1>3, <1>6, <1>7, <1>8, <1>9 DEF AccountingInv, BooksAreSound

LEMMA NoJobIs ==
  NoJob \in JobRecord /\ NoJob.step = "idle" /\ NoJob.kind = "none"
BY DEF NoJob, JobRecord, Slots

LEMMA RefuseStep ==
  ASSUME AccountingInv, Refuse
  PROVE  AccountingInv'
<1>1. /\ job.step = "planned" /\ job' = NoJob
      /\ UNCHANGED bookVars /\ UNCHANGED <<base, held, overtaken, quotes, loading, check>>
  BY DEF Refuse, engineVars
<1>2. /\ BooksBalance' /\ EquityAddsUp' /\ LedgerAddsUp'
      /\ HeldFromStore' = HeldFromStore /\ Doc' = Doc /\ OpenMargin' = OpenMargin
      /\ stored' = stored /\ trades' = trades /\ ledger' = ledger /\ adrift' = adrift
      /\ AccountingTypeOK
  BY <1>1, BooksStay
<1>3. job' \in JobRecord /\ job'.step = "idle" /\ job'.kind = "none"
  BY <1>1, NoJobIs
<1>4. AccountingTypeOK'
  BY <1>1, <1>2, <1>3 DEF AccountingTypeOK
<1>5. TradesFollowJob'
  BY <1>2, <1>3 DEF AccountingInv, TradesFollowJob
<1>6. HeldFollowsStore' /\ EngineIsCurrent' /\ LoadedInThePast'
  BY <1>1, <1>2, <1>3 DEF AccountingInv, HeldFollowsStore, EngineIsCurrent, LoadedInThePast
<1>7. ReadIsCurrent' /\ ReconciliationIsQuiet'
  BY <1>1, <1>2 DEF AccountingInv, BooksAreSound, ReadIsCurrent, ReconciliationIsQuiet
<1> QED
  BY <1>2, <1>4, <1>5, <1>6, <1>7 DEF AccountingInv, BooksAreSound

LEMMA DocIs ==
  ASSUME AccountingTypeOK
  PROVE  Doc \in DocRecord /\ Doc.revision = stored.revision /\ stored.revision \in Nat /\ Doc # NoDoc
<1>1. stored.revision \in Nat /\ stored.balance \in Int
  BY AccountFields DEF AccountingTypeOK
<1>2. Doc \in DocRecord /\ Doc.revision = stored.revision
  BY <1>1 DEF Doc, DocRecord
<1>3. NoDoc.revision = -1
  BY DEF NoDoc
<1> QED
  BY <1>1, <1>2, <1>3

LEMMA HeldFromStoreIs ==
  ASSUME AccountingTypeOK
  PROVE  HeldFromStore \in [TradeId -> TradeRecord]
<1>1. \A t \in TradeId : trades[t] \in TradeRecord
  BY DEF AccountingTypeOK
<1> QED
  BY <1>1, NoTradeType DEF HeldFromStore

LEMMA AnnounceStep ==
  ASSUME AccountingInv, Announce
  PROVE  AccountingInv'
<1>1. /\ job.step = "committed" /\ job' = NoJob
      /\ held' = IF job.trade = 0 THEN held ELSE [held EXCEPT ![job.trade] = HeldFromStore[job.trade]]
      /\ base' = Doc /\ overtaken' = FALSE
      /\ UNCHANGED bookVars /\ UNCHANGED <<quotes, loading, check>>
  BY DEF Announce
<1>2. /\ BooksBalance' /\ EquityAddsUp' /\ LedgerAddsUp'
      /\ HeldFromStore' = HeldFromStore /\ Doc' = Doc /\ OpenMargin' = OpenMargin
      /\ stored' = stored /\ trades' = trades /\ ledger' = ledger /\ adrift' = adrift
      /\ AccountingTypeOK
  BY <1>1, BooksStay
<1>3. job' \in JobRecord /\ job'.step = "idle" /\ job'.kind = "none"
  BY <1>1, NoJobIs
<1>4. /\ Doc \in DocRecord /\ Doc.revision = stored.revision /\ stored.revision \in Nat
      /\ HeldFromStore \in [TradeId -> TradeRecord]
  BY <1>2, DocIs, HeldFromStoreIs
<1>5. held' = HeldFromStore
  <2>1. held \in [TradeId -> TradeRecord] /\ job.trade \in Slots
    BY <1>2 DEF AccountingTypeOK, JobRecord
  <2>2. \A t \in TradeId : t # job.trade => held[t] = HeldFromStore[t]
    BY DEF AccountingInv, HeldFollowsStore
  <2>3. \A t \in TradeId : t # 0
    BY DEF TradeId
  <2>4. held' \in [TradeId -> TradeRecord] /\ \A t \in TradeId : held'[t] = HeldFromStore[t]
    <3>1. CASE job.trade = 0
      BY <3>1, <1>1, <2>1, <2>2, <2>3
    <3>2. CASE job.trade # 0
      <4>1. job.trade \in TradeId
        BY <3>2, <2>1 DEF Slots
      <4>2. HeldFromStore[job.trade] \in TradeRecord
        BY <1>4, <4>1
      <4>3. held' = [held EXCEPT ![job.trade] = HeldFromStore[job.trade]]
        BY <1>1, <3>2
      <4> QED
        BY <4>1, <4>2, <4>3, <2>1, <2>2
    <3> QED
      BY <3>1, <3>2
  <2> QED
    BY <2>4, <1>4
<1>6. AccountingTypeOK'
  BY <1>1, <1>2, <1>3, <1>4, <1>5 DEF AccountingTypeOK
<1>7. TradesFollowJob'
  BY <1>2, <1>3 DEF AccountingInv, TradesFollowJob
<1>8. HeldFollowsStore' /\ EngineIsCurrent'
  BY <1>1, <1>2, <1>5 DEF HeldFollowsStore, EngineIsCurrent
<1>9. LoadedInThePast'
  <2> SUFFICES ASSUME loading # NoDoc
               PROVE  /\ loading.revision \in Nat /\ loading.revision <= stored.revision
                      /\ loading.revision = stored.revision => loading = Doc
                      /\ loading # Doc => Doc.revision > loading.revision
    BY <1>1, <1>2 DEF LoadedInThePast
  <2>1. /\ loading.revision \in Nat /\ loading.revision <= stored.revision
        /\ loading.revision = stored.revision => loading = Doc
    BY DEF AccountingInv, LoadedInThePast
  <2> QED
    BY <2>1, <1>4
<1>10. ReadIsCurrent' /\ ReconciliationIsQuiet'
  BY <1>1, <1>2 DEF AccountingInv, BooksAreSound, ReadIsCurrent, ReconciliationIsQuiet
<1> QED
  BY <1>2, <1>6, <1>7, <1>8, <1>9, <1>10 DEF AccountingInv, BooksAreSound

LEMMA ChangeQuoteStep ==
  ASSUME AccountingInv, NEW t \in TradeId, ChangeQuote(t)
  PROVE  AccountingInv'
<1>1. PICK quote \in [price : TradePrice, stale : {FALSE}] \cup {[quotes[t] EXCEPT !.stale = TRUE]} :
        quotes' = [quotes EXCEPT ![t] = quote]
  BY DEF ChangeQuote
<1>2. UNCHANGED bookVars /\ UNCHANGED <<job, base, held, overtaken, loading, check>>
  BY DEF ChangeQuote, engineVars
<1>3. /\ BooksBalance' /\ EquityAddsUp' /\ LedgerAddsUp'
      /\ HeldFromStore' = HeldFromStore /\ Doc' = Doc /\ OpenMargin' = OpenMargin
      /\ stored' = stored /\ trades' = trades /\ ledger' = ledger /\ adrift' = adrift
      /\ AccountingTypeOK
  BY <1>2, BooksStay
<1>4. quote \in QuoteRecord
  <2>1. quotes[t] \in QuoteRecord
    BY <1>3 DEF AccountingTypeOK
  <2>2. [quotes[t] EXCEPT !.stale = TRUE] \in QuoteRecord
    BY <2>1 DEF QuoteRecord
  <2>3. \A q \in [price : TradePrice, stale : {FALSE}] : q \in QuoteRecord
    BY DEF QuoteRecord
  <2> QED
    BY <2>2, <2>3
<1>5. AccountingTypeOK'
  BY <1>1, <1>2, <1>3, <1>4 DEF AccountingTypeOK
<1>6. TradesFollowJob' /\ HeldFollowsStore' /\ EngineIsCurrent' /\ LoadedInThePast'
  BY <1>2, <1>3 DEF AccountingInv, TradesFollowJob, HeldFollowsStore, EngineIsCurrent, LoadedInThePast
<1>7. ReadIsCurrent' /\ ReconciliationIsQuiet'
  BY <1>2, <1>3 DEF AccountingInv, BooksAreSound, ReadIsCurrent, ReconciliationIsQuiet
<1> QED
  BY <1>3, <1>5, <1>6, <1>7 DEF AccountingInv, BooksAreSound

LEMMA LoadStep ==
  ASSUME AccountingInv, StartLoad \/ FinishLoad
  PROVE  AccountingInv'
<1>1. UNCHANGED bookVars /\ UNCHANGED <<job, held, quotes, check>>
  BY DEF StartLoad, FinishLoad, engineVars
<1>2. /\ BooksBalance' /\ EquityAddsUp' /\ LedgerAddsUp'
      /\ HeldFromStore' = HeldFromStore /\ Doc' = Doc /\ OpenMargin' = OpenMargin
      /\ stored' = stored /\ trades' = trades /\ ledger' = ledger /\ adrift' = adrift
      /\ AccountingTypeOK
  BY <1>1, BooksStay
<1>3. Doc \in DocRecord /\ Doc.revision = stored.revision /\ stored.revision \in Nat
  BY <1>2, DocIs
<1>4. NoDoc \in DocRecord
  BY DEF NoDoc, DocRecord
<1>5. TradesFollowJob' /\ HeldFollowsStore'
  BY <1>1, <1>2 DEF AccountingInv, TradesFollowJob, HeldFollowsStore
<1>6. ReadIsCurrent' /\ ReconciliationIsQuiet'
  BY <1>1, <1>2 DEF AccountingInv, BooksAreSound, ReadIsCurrent, ReconciliationIsQuiet
<1>7. CASE StartLoad
  <2>1. loading' = Doc /\ UNCHANGED <<base, overtaken>>
    BY <1>7 DEF StartLoad, engineVars
  <2>2. AccountingTypeOK'
    BY <2>1, <1>1, <1>2, <1>3 DEF AccountingTypeOK
  <2>3. EngineIsCurrent'
    BY <2>1, <1>1, <1>2 DEF AccountingInv, EngineIsCurrent
  <2>4. LoadedInThePast'
    BY <2>1, <1>2, <1>3 DEF LoadedInThePast
  <2> QED
    BY <2>2, <2>3, <2>4, <1>2, <1>5, <1>6 DEF AccountingInv, BooksAreSound
<1>8. CASE FinishLoad
  <2>1. /\ loading # NoDoc /\ loading' = NoDoc /\ base' = loading
        /\ overtaken' = (base.revision > loading.revision)
    BY <1>8 DEF FinishLoad
  <2>2. AccountingTypeOK'
    BY <2>1, <1>1, <1>2, <1>4 DEF AccountingTypeOK
  <2>3. EngineIsCurrent'
    <3> SUFFICES ASSUME job.step # "committed", ~overtaken'
                 PROVE  loading = Doc
      BY <2>1, <1>1, <1>2 DEF AccountingInv, EngineIsCurrent
    <3>1. loading # Doc => base.revision > loading.revision
      BY <2>1 DEF AccountingInv, LoadedInThePast
    <3> QED
      BY <2>1, <3>1
  <2>4. LoadedInThePast'
    BY <2>1 DEF LoadedInThePast, NoDoc
  <2> QED
    BY <2>2, <2>3, <2>4, <1>2, <1>5, <1>6 DEF AccountingInv, BooksAreSound
<1> QED
  BY <1>7, <1>8

LEMMA RestartEngineStep ==
  ASSUME AccountingInv, RestartEngine
  PROVE  AccountingInv'
<1>1. /\ base' = IF OpenTrades = {} THEN NoDoc ELSE Doc
      /\ held' = HeldFromStore
      /\ quotes' = [t \in TradeId |-> NoQuote]
      /\ job' = NoJob /\ loading' = NoDoc /\ overtaken' = FALSE
      /\ check' = [check EXCEPT !.step = IF @ = "read" THEN "idle" ELSE @]
      /\ UNCHANGED bookVars
  BY DEF RestartEngine
<1>2. /\ BooksBalance' /\ EquityAddsUp' /\ LedgerAddsUp'
      /\ HeldFromStore' = HeldFromStore /\ Doc' = Doc /\ OpenMargin' = OpenMargin
      /\ stored' = stored /\ trades' = trades /\ ledger' = ledger /\ adrift' = adrift
      /\ AccountingTypeOK
  BY <1>1, BooksStay
<1>3. Doc \in DocRecord /\ HeldFromStore \in [TradeId -> TradeRecord]
  BY <1>2, DocIs, HeldFromStoreIs
<1>4. NoDoc \in DocRecord /\ NoQuote \in QuoteRecord
  BY DEF NoDoc, DocRecord, NoQuote, QuoteRecord
<1>5. job' \in JobRecord /\ job'.step = "idle" /\ job'.kind = "none"
  BY <1>1, NoJobIs
<1>6. /\ check' \in CheckRecord /\ check'.step \in {"idle", "done"}
      /\ check'.issues = check.issues /\ check'.overlapped = check.overlapped
  <2> DEFINE s == IF check.step = "read" THEN "idle" ELSE check.step
  <2>1. check \in CheckRecord
    BY <1>2 DEF AccountingTypeOK
  <2>2. s \in {"idle", "done"}
    BY <2>1 DEF CheckRecord
  <2>3. check' = [check EXCEPT !.step = s]
    BY <1>1, <2>1 DEF CheckRecord
  <2> HIDE DEF s
  <2> QED
    BY <2>1, <2>2, <2>3 DEF CheckRecord
<1>7. AccountingTypeOK'
  BY <1>1, <1>2, <1>3, <1>4, <1>5, <1>6 DEF AccountingTypeOK
<1>8. TradesFollowJob'
  BY <1>2, <1>5 DEF AccountingInv, TradesFollowJob
<1>9. HeldFollowsStore' /\ EngineIsCurrent' /\ LoadedInThePast'
  BY <1>1, <1>2 DEF HeldFollowsStore, EngineIsCurrent, LoadedInThePast
<1>10. ReadIsCurrent' /\ ReconciliationIsQuiet'
  BY <1>6 DEF AccountingInv, BooksAreSound, ReadIsCurrent, ReconciliationIsQuiet
<1> QED
  BY <1>2, <1>7, <1>8, <1>9, <1>10 DEF AccountingInv, BooksAreSound

(* Of sound books the reconciliation has nothing to report.                *)
LEMMA NoIssues ==
  ASSUME AccountingInv, check.balance = stored.balance, check.used = stored.used
  PROVE  Issues = {}
<1>1. BooksBalance /\ LedgerAddsUp
  BY DEF AccountingInv, BooksAreSound
<1> QED
  BY <1>1 DEF Issues, BooksBalance, LedgerAddsUp

LEMMA ReconcileStep ==
  ASSUME AccountingInv, ReadAccounts \/ CheckAccount
  PROVE  AccountingInv'
<1>1. UNCHANGED bookVars /\ UNCHANGED <<job, base, held, overtaken, quotes, loading>>
  BY DEF ReadAccounts, CheckAccount, engineVars
<1>2. /\ BooksBalance' /\ EquityAddsUp' /\ LedgerAddsUp'
      /\ HeldFromStore' = HeldFromStore /\ Doc' = Doc /\ OpenMargin' = OpenMargin
      /\ stored' = stored /\ trades' = trades /\ ledger' = ledger /\ adrift' = adrift
      /\ AccountingTypeOK
  BY <1>1, BooksStay
<1>3. TradesFollowJob' /\ HeldFollowsStore' /\ EngineIsCurrent' /\ LoadedInThePast'
  BY <1>1, <1>2 DEF AccountingInv, TradesFollowJob, HeldFollowsStore, EngineIsCurrent, LoadedInThePast
<1>4. check' \in CheckRecord /\ ReadIsCurrent' /\ ReconciliationIsQuiet'
  <2>1. CASE ReadAccounts
    <3>1. stored.balance \in Int /\ stored.used \in Nat
      BY <1>2, AccountFields DEF AccountingTypeOK
    <3>2. check' = [step |-> "read", balance |-> stored.balance, used |-> stored.used,
                    overlapped |-> FALSE, issues |-> {}]
      BY <2>1 DEF ReadAccounts, NoCheck
    <3>3. check' \in CheckRecord
      BY <3>1, <3>2 DEF CheckRecord
    <3> QED
      BY <3>2, <3>3, <1>2 DEF ReadIsCurrent, ReconciliationIsQuiet
  <2>2. CASE CheckAccount
    <3> DEFINE s == [check EXCEPT !.step = "done"]
               found == Issues
               c == [s EXCEPT !.issues = found]
    <3>1. check.step = "read" /\ check' = [check EXCEPT !.step = "done", !.issues = Issues]
      BY <2>2 DEF CheckAccount
    <3>2. check \in CheckRecord /\ found \in SUBSET Issue
      BY <1>2 DEF AccountingTypeOK, Issues
    <3>3. check' = c
      BY <3>1
    <3>4. ~check.overlapped => found = {}
      BY <3>1, NoIssues DEF AccountingInv, ReadIsCurrent
    <3> HIDE DEF found
    <3>5. s \in CheckRecord /\ s.step = "done" /\ s.overlapped = check.overlapped
      BY <3>2 DEF CheckRecord
    <3>6. c \in CheckRecord /\ c.step = "done" /\ c.overlapped = check.overlapped /\ c.issues = found
      <4> HIDE DEF s
      <4> QED
        BY <3>2, <3>5 DEF CheckRecord
    <3> HIDE DEF c
    <3> QED
      BY <3>3, <3>4, <3>6 DEF ReadIsCurrent, ReconciliationIsQuiet
  <2> QED
    BY <2>1, <2>2
<1>5. AccountingTypeOK'
  BY <1>1, <1>2, <1>4 DEF AccountingTypeOK
<1> QED
  BY <1>2, <1>3, <1>4, <1>5 DEF AccountingInv, BooksAreSound

LEMMA InitAccountingInv == AccountingInit => AccountingInv
<1> SUFFICES ASSUME AccountingInit PROVE AccountingInv
  OBVIOUS
<1> DEFINE first == [before |-> 0, amount |-> StartBalance, after |-> StartBalance]
<1>1. /\ stored = [balance |-> StartBalance, equity |-> StartBalance, floating |-> 0, used |-> 0,
                   free |-> StartBalance, revision |-> 0]
      /\ trades = [t \in TradeId |-> NoTrade]
      /\ ledger = <<first>>
      /\ job = NoJob
      /\ base = NoDoc /\ held = [t \in TradeId |-> NoTrade] /\ loading = NoDoc
      /\ quotes = [t \in TradeId |-> NoQuote]
      /\ check = NoCheck
      /\ adrift = FALSE /\ overtaken = FALSE
  BY DEF AccountingInit
<1>2. stored \in AccountRecord
  BY <1>1, AccountingConstants DEF AccountRecord
<1>3. /\ NoTrade \in TradeRecord /\ MarginOf(NoTrade) = 0 /\ NoDoc \in DocRecord
      /\ NoQuote \in QuoteRecord /\ NoCheck \in CheckRecord
      /\ NoJob \in JobRecord /\ NoJob.step = "idle" /\ NoJob.kind = "none"
  BY NoTradeType, NoJobIs DEF NoDoc, DocRecord, NoQuote, QuoteRecord, NoCheck, CheckRecord
<1>4. first \in LedgerRecord /\ first.before + first.amount = first.after
  BY AccountingConstants DEF LedgerRecord
<1>5. ledger \in Seq(LedgerRecord) /\ Len(ledger) = 1 /\ ledger[1] = first /\ ledger # <<>>
  <2> HIDE DEF first
  <2> QED
    BY <1>1, <1>4
<1>6. AccountingTypeOK
  BY <1>1, <1>2, <1>3, <1>5 DEF AccountingTypeOK
<1>7. OpenMargin = 0
  <2>1. [t \in TradeId |-> MarginOf(trades[t])] = [t \in TradeId |-> 0]
    BY <1>1, <1>3
  <2> QED
    BY <2>1, TotalOfZeros DEF OpenMargin
<1>8. BooksBalance /\ LedgerAddsUp
  <2>1. \A i \in 1 .. Len(ledger) : i = 1
    BY <1>5
  <2>2. \A i \in 2 .. Len(ledger) : FALSE
    BY <1>5
  <2> QED
    BY <2>1, <2>2, <1>1, <1>4, <1>5, <1>7 DEF BooksBalance, LedgerAddsUp
<1>9. EquityAddsUp
  BY <1>1, AccountingConstants DEF EquityAddsUp
<1>10. ReconciliationIsQuiet /\ ReadIsCurrent
  BY <1>1 DEF ReconciliationIsQuiet, ReadIsCurrent, NoCheck
<1>11. \A t \in TradeId : trades[t].status = "none" /\ trades[t] = NoTrade /\ HeldFromStore[t] = NoTrade
  BY <1>1 DEF HeldFromStore, NoTrade
<1>12. held = HeldFromStore
  BY <1>1, <1>11 DEF HeldFromStore
<1>13. EngineIsCurrent /\ HeldFollowsStore /\ LoadedInThePast
  BY <1>1, <1>12 DEF EngineIsCurrent, HeldFollowsStore, LoadedInThePast
<1>14. TradesFollowJob
  BY <1>1, <1>3, <1>11 DEF TradesFollowJob
<1> QED
  BY <1>6, <1>8, <1>9, <1>10, <1>13, <1>14 DEF AccountingInv, BooksAreSound

(***************************************************************************)
(* The invariant of the account, its ledger, the engine and the check.     *)
(***************************************************************************)
THEOREM AccountingInvariant == AccountingSpec => []AccountingInv
<1>1. AccountingInit => AccountingInv
  BY InitAccountingInv
<1>2. AccountingInv /\ [AccountingNext]_accountingVars => AccountingInv'
  <2> SUFFICES ASSUME AccountingInv, [AccountingNext]_accountingVars
               PROVE  AccountingInv'
    OBVIOUS
  <2>1. ASSUME NEW t \in TradeId, PlanOpen(t) \/ PlanClose(t) \/ PlanReverse(t)
        PROVE  AccountingInv'
    BY <2>1, PlanStep
  <2>2. ASSUME NEW t \in TradeId, ChangeQuote(t) PROVE AccountingInv'
    BY <2>2, ChangeQuoteStep
  <2>3. CASE PlanTransfer
    BY <2>3, PlanStep
  <2>4. CASE CommitOpen
    BY <2>4, CommitOpenStep
  <2>5. CASE CommitClose
    BY <2>5, CommitCloseStep
  <2>6. CASE CommitReverse
    BY <2>6, CommitReverseStep
  <2>7. CASE CommitTransfer
    BY <2>7, CommitTransferStep
  <2>8. CASE Refuse
    BY <2>8, RefuseStep
  <2>9. CASE Announce
    BY <2>9, AnnounceStep
  <2>10. CASE StartLoad \/ FinishLoad
    BY <2>10, LoadStep
  <2>11. CASE RestartEngine
    BY <2>11, RestartEngineStep
  <2>12. CASE ReadAccounts \/ CheckAccount
    BY <2>12, ReconcileStep
  <2>13. CASE UNCHANGED accountingVars
    BY <2>13 DEF accountingVars, AccountingInv, BooksAreSound, AccountingTypeOK, BooksBalance,
       OpenMargin, EquityAddsUp, ReconciliationIsQuiet, EngineIsCurrent, HeldFromStore, Doc,
       LedgerAddsUp, TradesFollowJob, HeldFollowsStore, LoadedInThePast, ReadIsCurrent
  <2> QED
    BY <2>1, <2>2, <2>3, <2>4, <2>5, <2>6, <2>7, <2>8, <2>9, <2>10, <2>11, <2>12, <2>13
    DEF AccountingNext
<1> QED
  BY <1>1, <1>2, PTL DEF AccountingSpec

(* The books of the account are sound in every state.                      *)
THEOREM BooksAreSoundTheorem == AccountingSpec => []BooksAreSound
<1>1. AccountingInv => BooksAreSound
  BY DEF AccountingInv
<1> QED
  BY <1>1, AccountingInvariant, PTL

(* The engine follows the store between any two commands.                  *)
THEOREM EngineIsCurrentTheorem == AccountingSpec => []EngineIsCurrent
<1>1. AccountingInv => EngineIsCurrent
  BY DEF AccountingInv
<1> QED
  BY <1>1, AccountingInvariant, PTL

-----------------------------------------------------------------------------
(***************************************************************************)
(* A position is opened only if the account stays covered.                 *)
(***************************************************************************)
Opens(t) == trades'[t].status = "OPEN" /\ (trades[t].status # "OPEN" \/ trades[t].side # trades'[t].side)
Covered == \A t \in TradeId : Opens(t) => stored'.free >= 0 /\ stored'.equity > 0

(* The limits of the plan leave free margin and equity to the account that *)
(* the open is booked in.                                                  *)
LEMMA OpenIsCovered ==
  ASSUME NEW account \in AccountRecord, NEW count, MayOpen(account, count),
         account.free = account.equity - account.used
  PROVE  /\ AfterOpen(account, OpenCommission, OpenVolume * MarginPerLot).free >= 0
         /\ AfterOpen(account, OpenCommission, OpenVolume * MarginPerLot).equity > 0
<1> DEFINE margin == OpenVolume * MarginPerLot
           after == AfterOpen(account, OpenCommission, margin)
<1>1. margin \in Nat /\ OpenCommission \in Nat
  BY AccountingConstants DEF OpenCommission
<1>2. account.equity - OpenCommission > 0 /\ account.free >= margin + OpenCommission
  BY DEF MayOpen, WithinMarginLimits
<1>3. account.equity \in Int /\ account.used \in Nat
  BY AccountFields
<1> HIDE DEF margin
<1>4. /\ after.equity = account.equity - OpenCommission
      /\ after.free = account.equity - OpenCommission - (account.used + margin)
  BY <1>1, AfterOpenIs
<1> HIDE DEF after
<1>5. after.free >= 0 /\ after.equity > 0
  BY <1>1, <1>2, <1>3, <1>4
<1> QED
  BY <1>5 DEF after, margin

LEMMA CommitOpenCovers ==
  ASSUME AccountingInv, CommitOpen
  PROVE  Covered
<1>1. /\ job.step = "planned"
      /\ MayOpen(Overlay, Cardinality(OpenTrades))
      /\ stored' = AfterOpen(Overlay, OpenCommission, OpenVolume * MarginPerLot)
  BY DEF CommitOpen, Book
<1>2. Overlay \in AccountRecord /\ Overlay.free = Overlay.equity - Overlay.used
  BY <1>1, PlannedFacts, OverlayIs
<1>3. stored'.free >= 0 /\ stored'.equity > 0
  BY <1>1, <1>2, OpenIsCovered
<1> QED
  BY <1>3 DEF Covered

LEMMA CommitReverseCovers ==
  ASSUME AccountingInv, CommitReverse
  PROVE  Covered
<1> DEFINE p == trades[job.trade]
           realized == Profit(p, job.fill)
           commission == p.volume * CommissionPerLot
           closed == AfterClose(Overlay, realized, commission, p.margin, Complete)
<1>1. /\ job.step = "planned" /\ job.kind = "reverse" /\ MayClose(job.trade, p.volume)
      /\ MayOpen(closed, Cardinality(OpenTrades) - 1)
      /\ stored' = AfterOpen(closed, OpenCommission, OpenVolume * MarginPerLot)
  BY DEF CommitReverse, Book
<1>2. Overlay \in AccountRecord /\ Overlay.free = Overlay.equity - Overlay.used
  BY <1>1, PlannedFacts, OverlayIs
<1>3. /\ realized \in Int /\ commission \in Nat /\ p.margin \in Int
  <2>1. p \in TradeRecord /\ job.fill \in Nat
    BY <1>1, PlannedFacts
  <2>2. p.volume \in Nat /\ p.margin \in Nat
    <3>1. p.volume \in Amounts /\ p.margin \in Nat
      BY <2>1 DEF TradeRecord
    <3> QED
      BY <3>1, AccountingConstants DEF Amounts
  <2> HIDE DEF p
  <2>3. Profit(p, job.fill) \in Int
    BY <2>1, ProfitIsInteger
  <2>4. p.volume * CommissionPerLot \in Nat
    BY <2>2, AccountingConstants
  <2> QED
    BY <2>2, <2>3, <2>4
<1>4. Complete \in BOOLEAN
  BY DEF Complete
<1>5. closed \in AccountRecord /\ closed.free = closed.equity - closed.used
  <2> HIDE DEF realized, commission, p
  <2>1. /\ closed \in AccountRecord /\ closed.equity = Overlay.equity - commission
        /\ closed.used = AboveZero(Overlay.used - p.margin)
        /\ closed.free = Overlay.equity - commission - AboveZero(Overlay.used - p.margin)
    BY <1>2, <1>3, <1>4, AfterCloseIs
  <2> HIDE DEF closed
  <2> QED
    BY <2>1
<1> HIDE DEF closed
<1>6. stored'.free >= 0 /\ stored'.equity > 0
  BY <1>1, <1>5, OpenIsCovered
<1> QED
  BY <1>6 DEF Covered

(* A close opens nothing: what is left of the position keeps its side.     *)
LEMMA CommitCloseCovers ==
  ASSUME AccountingInv, CommitClose
  PROVE  Covered
<1> DEFINE t == job.trade
           p == trades[t]
           reduced == Reduced(p, job.amount, Released(p, job.amount))
<1>1. /\ job.step = "planned" /\ job.kind = "close" /\ p.status = "OPEN"
      /\ trades' = [trades EXCEPT ![t] = reduced]
  BY DEF CommitClose, Book, MayClose
<1>2. /\ trades \in [TradeId -> TradeRecord] /\ t \in TradeId /\ p \in TradeRecord
  BY <1>1, PlannedFacts DEF AccountingTypeOK
<1>3. reduced.status = "OPEN" => reduced.side = p.side
  <2> HIDE DEF p
  <2> QED
    BY <1>2 DEF Reduced, TradeRecord
<1> HIDE DEF reduced
<1>4. \A u \in TradeId : trades'[u] = IF u = t THEN reduced ELSE trades[u]
  BY <1>1, <1>2
<1>5. \A u \in TradeId : ~Opens(u)
  BY <1>1, <1>3, <1>4 DEF Opens
<1> QED
  BY <1>5 DEF Covered

(* What stores no position opens none.                                     *)
LEMMA SameTradesCover == UNCHANGED trades => Covered
BY DEF Covered, Opens

(* No open and no reversal leaves the account without margin or equity.   *)
THEOREM OpensAreCoveredTheorem == AccountingSpec => OpensAreCovered
<1>1. AccountingInv /\ [AccountingNext]_accountingVars => Covered
  <2> SUFFICES ASSUME AccountingInv, [AccountingNext]_accountingVars
               PROVE  Covered
    OBVIOUS
  <2>1. CASE CommitOpen
    BY <2>1, CommitOpenCovers
  <2>2. CASE CommitReverse
    BY <2>2, CommitReverseCovers
  <2>3. CASE CommitClose
    BY <2>3, CommitCloseCovers
  <2>4. ASSUME ~CommitOpen, ~CommitReverse, ~CommitClose
        PROVE  UNCHANGED trades
    BY <2>4 DEF AccountingNext, accountingVars, PlanOpen, PlanClose, PlanReverse, PlanTransfer, Plan, bookVars,
       ChangeQuote, CommitTransfer, Book, Refuse, Announce, StartLoad, FinishLoad, RestartEngine,
       ReadAccounts, CheckAccount
  <2> QED
    BY <2>1, <2>2, <2>3, <2>4, SameTradesCover
<1>2. Covered => (\A t \in TradeId :
        trades'[t].status = "OPEN" /\ (trades[t].status # "OPEN" \/ trades[t].side # trades'[t].side)
        => stored'.free >= 0 /\ stored'.equity > 0)
  BY DEF Covered, Opens
<1> QED
  BY <1>1, <1>2, AccountingInvariant, PTL DEF AccountingSpec, OpensAreCovered

-----------------------------------------------------------------------------
(***************************************************************************)
(* DecimalArithmetic: products of integers.                                *)
(***************************************************************************)
LEMMA ProductType ==
  ASSUME NEW a \in Int, NEW b \in Int
  PROVE  a * b \in Int /\ (a \in Nat /\ b \in Nat => a * b \in Nat) /\ (a > 0 /\ b > 0 => a * b > 0)
OBVIOUS

LEMMA ProductsCommute ==
  ASSUME NEW a \in Int, NEW b \in Int
  PROVE  a * b = b * a
OBVIOUS

LEMMA ProductsAssociate ==
  ASSUME NEW a \in Int, NEW b \in Int, NEW c \in Int
  PROVE  (a * b) * c = a * (b * c)
OBVIOUS

LEMMA ProductsDistribute ==
  ASSUME NEW a \in Int, NEW b \in Int, NEW c \in Int
  PROVE  (a + b) * c = a * c + b * c /\ (a - b) * c = a * c - b * c
OBVIOUS

(* A positive factor keeps the order.                                      *)
LEMMA ProductsOrder ==
  ASSUME NEW a \in Int, NEW b \in Int, NEW k \in Int, k > 0
  PROVE  /\ a < b <=> a * k < b * k
         /\ a <= b <=> a * k <= b * k
         /\ a = b <=> a * k = b * k
<1>1. a * k \in Int /\ b * k \in Int
  OBVIOUS
<1>2. ASSUME NEW x \in Int, NEW y \in Int, x < y PROVE x * k < y * k
  <2>1. (y - x) * k > 0
    BY <1>2
  <2>2. (y - x) * k = y * k - x * k
    BY ProductsDistribute
  <2>3. y * k \in Int /\ x * k \in Int
    OBVIOUS
  <2> QED
    BY <2>1, <2>2, <2>3
<1>3. (a < b => a * k < b * k) /\ (b < a => b * k < a * k)
  BY <1>2
<1> QED
  BY <1>1, <1>3

(* Division with a remainder, and that there is one way of it.             *)
LEMMA Division ==
  ASSUME NEW a \in Int, NEW k \in Int, k > 0
  PROVE  /\ a \div k \in Int /\ a % k \in Int /\ a % k >= 0 /\ a % k < k
         /\ a = k * (a \div k) + (a % k)
OBVIOUS

LEMMA DivisionIsUnique ==
  ASSUME NEW k \in Int, k > 0, NEW q \in Int, NEW r \in Int, 0 <= r, r < k
  PROVE  (q * k + r) \div k = q /\ (q * k + r) % k = r
<1> DEFINE a == q * k + r
           p == a \div k
           s == a % k
<1>1. a \in Int /\ q * k \in Int
  OBVIOUS
<1> HIDE DEF a
<1>2. p \in Int /\ s \in Int /\ s >= 0 /\ s < k /\ a = k * p + s
  BY <1>1, Division
<1> HIDE DEF p, s
<1>3. p * k \in Int /\ p * k = k * p
  BY <1>2
<1>4. p * k + s = q * k + r
  BY <1>2, <1>3 DEF a
<1>5. ~(p + 1 <= q)
  <2> SUFFICES ASSUME p + 1 <= q PROVE FALSE
    OBVIOUS
  <2>1. (p + 1) * k <= q * k
    BY <1>2, ProductsOrder
  <2>2. (p + 1) * k = p * k + 1 * k /\ 1 * k = k
    BY <1>2, ProductsDistribute
  <2> QED
    BY <2>1, <2>2, <1>1, <1>2, <1>3, <1>4
<1>6. ~(q + 1 <= p)
  <2> SUFFICES ASSUME q + 1 <= p PROVE FALSE
    OBVIOUS
  <2>1. (q + 1) * k <= p * k
    BY <1>2, ProductsOrder
  <2>2. (q + 1) * k = q * k + 1 * k /\ 1 * k = k
    BY <1>2, ProductsDistribute
  <2> QED
    BY <2>1, <2>2, <1>1, <1>2, <1>3, <1>4
<1>7. p = q
  BY <1>2, <1>5, <1>6
<1>8. s = r
  BY <1>1, <1>2, <1>4, <1>7
<1> QED
  BY <1>7, <1>8 DEF a, p, s

LEMMA DividesIs ==
  ASSUME NEW a \in Int, NEW k \in Int, k > 0
  PROVE  /\ a % k = 0 => a = (a \div k) * k
         /\ \A q \in Int : a = q * k => a % k = 0 /\ a \div k = q
<1>1. a \div k \in Int /\ a = k * (a \div k) + (a % k)
  BY Division
<1>2. ASSUME a % k = 0 PROVE a = (a \div k) * k
  <2> DEFINE q == a \div k
  <2>1. q \in Int /\ a = k * q + 0
    BY <1>1, <1>2
  <2> HIDE DEF q
  <2>2. a = q * k
    BY <2>1
  <2> QED
    BY <2>2 DEF q
<1>3. ASSUME NEW q \in Int, a = q * k PROVE a % k = 0 /\ a \div k = q
  <2>1. (q * k + 0) \div k = q /\ (q * k + 0) % k = 0
    BY DivisionIsUnique
  <2>2. q * k + 0 = a
    BY <1>3
  <2> QED
    BY <2>1, <2>2
<1> QED
  BY <1>2, <1>3

-----------------------------------------------------------------------------
(***************************************************************************)
(* DecimalArithmetic: the powers of ten.                                   *)
(***************************************************************************)
PowerSteps(g, n) == g \in [0 .. n -> Nat \ {0}] /\ g[0] = 1 /\ \A m \in 1 .. n : g[m] = 10 * g[m - 1]

LEMMA Pow10IsSteps ==
  ASSUME NEW n \in Nat
  PROVE  \E g : PowerSteps(g, n) /\ Pow10(n) = g[n]
<1> DEFINE S == Nat \ {0}
           step == [m \in 1 .. n |-> [y \in S |-> 10 * y]]
           IsPower(u) == u = [m \in 0 .. n |-> IF m = 0 THEN 1 ELSE 10 * u[m - 1]]
           h == CHOOSE u : IsPower(u)
<1>1. step \in [1 .. n -> [S -> S]]
  OBVIOUS
<1>2. PICK g : Iterates(g, n, S, 1, step)
  <2>1. 1 \in S
    OBVIOUS
  <2> HIDE DEF step, S
  <2> QED
    BY <2>1, <1>1, IterationExists
<1>3. g \in [0 .. n -> S] /\ g[0] = 1 /\ \A m \in 1 .. n : g[m] = 10 * g[m - 1]
  <2>1. \A m \in 1 .. n : \A y \in S : step[m][y] = 10 * y
    OBVIOUS
  <2> HIDE DEF step
  <2>2. g \in [0 .. n -> S] /\ g[0] = 1 /\ \A m \in 1 .. n : g[m] = step[m][g[m - 1]]
    BY <1>2 DEF Iterates
  <2>3. \A m \in 1 .. n : g[m - 1] \in S
    BY <2>2
  <2> QED
    BY <2>1, <2>2, <2>3
<1>4. IsPower(g)
  <2>1. \A m \in 0 .. n : g[m] = IF m = 0 THEN 1 ELSE 10 * g[m - 1]
    BY <1>3
  <2> QED
    BY <2>1, <1>3
<1>5. IsPower(h)
  <2> HIDE DEF IsPower
  <2> QED
    BY <1>4
<1>6. Pow10(n) = h[n]
  BY DEF Pow10
<1>7. \A m \in 0 .. n : h[m] = IF m = 0 THEN 1 ELSE 10 * h[m - 1]
  <2> HIDE DEF h
  <2> QED
    BY <1>5
<1> HIDE DEF h, IsPower, step
<1>8. StepAlike(h, g, n)
  <2>1. \A m \in 1 .. n : h[m - 1] = g[m - 1] => h[m] = g[m]
    BY <1>3, <1>7
  <2> QED
    BY <2>1 DEF StepAlike
<1>9. h[0] = g[0]
  BY <1>3, <1>7
<1>10. Agree(h, g, n)
  BY <1>8, <1>9, StepAlikeAgree
<1>11. h[n] = g[n]
  BY <1>10 DEF Agree
<1> QED
  BY <1>3, <1>6, <1>11 DEF PowerSteps

LEMMA Pow10Type ==
  ASSUME NEW n \in Nat
  PROVE  Pow10(n) \in Nat /\ Pow10(n) \in Int /\ Pow10(n) > 0
<1>1. PICK g : PowerSteps(g, n) /\ Pow10(n) = g[n]
  BY Pow10IsSteps
<1> QED
  BY <1>1 DEF PowerSteps

LEMMA Pow10OfZero == Pow10(0) = 1
<1>1. PICK g : PowerSteps(g, 0) /\ Pow10(0) = g[0]
  BY Pow10IsSteps
<1> QED
  BY <1>1 DEF PowerSteps

LEMMA Pow10Step ==
  ASSUME NEW n \in Nat
  PROVE  Pow10(n + 1) = 10 * Pow10(n)
<1>1. PICK g : PowerSteps(g, n) /\ Pow10(n) = g[n]
  BY Pow10IsSteps
<1>2. PICK h : PowerSteps(h, n + 1) /\ Pow10(n + 1) = h[n + 1]
  BY Pow10IsSteps
<1>3. StepAlike(h, g, n)
  BY <1>1, <1>2 DEF StepAlike, PowerSteps
<1>4. h[0] = g[0]
  BY <1>1, <1>2 DEF PowerSteps
<1>5. Agree(h, g, n)
  BY <1>3, <1>4, StepAlikeAgree
<1>6. h[n] = g[n]
  BY <1>5 DEF Agree
<1>7. h[n + 1] = 10 * h[n]
  <2>1. n + 1 \in 1 .. n + 1 /\ n + 1 - 1 = n
    OBVIOUS
  <2> QED
    BY <2>1, <1>2 DEF PowerSteps
<1> QED
  BY <1>1, <1>2, <1>6, <1>7

(* A shift of m + n places is one of m and one of n.                       *)
LEMMA Pow10Plus ==
  ASSUME NEW m \in Nat, NEW n \in Nat
  PROVE  Pow10(m + n) = Pow10(m) * Pow10(n)
<1> DEFINE P == {k \in Nat : Pow10(m + k) = Pow10(m) * Pow10(k)}
<1>1. 0 \in P
  <2>1. m + 0 = m /\ Pow10(m) * 1 = Pow10(m)
    BY Pow10Type
  <2> QED
    BY <2>1, Pow10OfZero
<1>2. ASSUME NEW k \in Nat, k \in P PROVE k + 1 \in P
  <2>1. Pow10(k + 1) = 10 * Pow10(k) /\ Pow10(m + k) = Pow10(m) * Pow10(k)
    BY <1>2, Pow10Step
  <2>2. Pow10(m + k + 1) = 10 * Pow10(m + k)
    BY Pow10Step
  <2>3. Pow10(m) \in Int /\ Pow10(k) \in Int
    BY Pow10Type
  <2>4. 10 * (Pow10(m) * Pow10(k)) = Pow10(m) * (10 * Pow10(k))
    BY <2>3
  <2>5. m + (k + 1) = m + k + 1
    OBVIOUS
  <2>6. Pow10(m + (k + 1)) = Pow10(m) * Pow10(k + 1)
    BY <2>1, <2>2, <2>4, <2>5
  <2> QED
    BY <2>6
<1>3. \A k \in Nat : k \in P
  <2> HIDE DEF P
  <2> QED
    BY <1>1, <1>2, SetInduction
<1> QED
  BY <1>3

-----------------------------------------------------------------------------
(***************************************************************************)
(* DecimalArithmetic: normalizeParts().                                    *)
(***************************************************************************)
(* A set of scales up to a bound has a largest one.                        *)
LEMMA LargestScale ==
  ASSUME NEW s \in Nat, NEW S, S \subseteq 0 .. s, 0 \in S
  PROVE  Max(S) \in S /\ \A y \in S : Max(S) >= y
<1> DEFINE P == {k \in Nat : \A T : T \subseteq 0 .. k /\ 0 \in T => \E m \in T : \A y \in T : m >= y}
<1>1. 0 \in P
  OBVIOUS
<1>2. ASSUME NEW k \in Nat, k \in P PROVE k + 1 \in P
  <2> SUFFICES ASSUME NEW T, T \subseteq 0 .. (k + 1), 0 \in T PROVE \E m \in T : \A y \in T : m >= y
    OBVIOUS
  <2>1. CASE k + 1 \in T
    <3>1. \A y \in T : k + 1 >= y
      OBVIOUS
    <3> QED
      BY <2>1, <3>1
  <2>2. CASE k + 1 \notin T
    <3>1. T \subseteq 0 .. k
      BY <2>2
    <3> QED
      BY <3>1, <1>2
  <2> QED
    BY <2>1, <2>2
<1>3. \A k \in Nat : k \in P
  <2> HIDE DEF P
  <2> QED
    BY <1>1, <1>2, SetInduction
<1>4. \E m \in S : \A y \in S : m >= y
  BY <1>3
<1> QED
  BY <1>4 DEF Max

LEMMA AbsIs ==
  ASSUME NEW n \in Int
  PROVE  /\ Abs(n) \in Nat /\ Abs(0 - n) = Abs(n)
         /\ n >= 0 => Abs(n) = n
         /\ n <= 0 => Abs(n) = 0 - n
BY DEF Abs

(* What is left of a number without its zeros: the same number, and no     *)
(* shorter one is.                                                         *)
LEMMA NormalizePartsIs ==
  ASSUME NEW c \in Int, NEW s \in Nat
  PROVE  /\ Canonical(NormalizeParts(c, s))
         /\ NormalizeParts(c, s).scale <= s
         /\ AtScale(NormalizeParts(c, s), s) = c
<1> DEFINE r == NormalizeParts(c, s)
<1>1. CASE c = 0
  <2>1. r.coefficient = 0 /\ r.scale = 0
    BY <1>1 DEF NormalizeParts
  <2> HIDE DEF r
  <2>2. Pow10(s - 0) \in Int
    BY Pow10Type
  <2>3. r.coefficient \in Int /\ r.scale \in Nat /\ ~(r.scale > 0)
    BY <2>1
  <2>4. Canonical(r)
    BY <2>3 DEF Canonical
  <2>5. AtScale(r, s) = 0 * Pow10(s - 0) /\ 0 * Pow10(s - 0) = 0
    BY <2>1, <2>2 DEF AtScale
  <2>6. r.scale <= s
    BY <2>1
  <2> QED
    BY <1>1, <2>4, <2>5, <2>6 DEF r
<1>2. CASE c # 0
  <2> DEFINE S == {n \in 0 .. s : c % Pow10(n) = 0}
             z == Max(S)
  <2>1. c % 1 = 0
    OBVIOUS
  <2>2. S \subseteq 0 .. s /\ 0 \in S
    BY <2>1, Pow10OfZero
  <2>3. z \in S /\ \A y \in S : z >= y
    <3> HIDE DEF S
    <3> QED
      BY <2>2, LargestScale
  <2>4. z \in 0 .. s /\ c % Pow10(z) = 0
    BY <2>3
  <2>5. /\ r.coefficient = (IF c < 0 THEN -1 ELSE 1) * (Abs(c) \div Pow10(z))
        /\ r.scale = s - z
    BY <1>2 DEF NormalizeParts
  <2> HIDE DEF r
  <2> DEFINE k == Pow10(z)
  <2>6. k \in Int /\ k > 0
    BY <2>4, Pow10Type
  <2>7. ASSUME NEW n \in 0 .. s, n > z PROVE c % Pow10(n) # 0
    BY <2>3, <2>7
  <2>8. c % k = 0
    BY <2>4
  <2>9. r.coefficient = (IF c < 0 THEN -1 ELSE 1) * (Abs(c) \div k)
    BY <2>5
  <2> HIDE DEF S
  <2>10. z \in Nat /\ s - z \in Nat /\ s - (s - z) = z
    BY <2>4
  <2> HIDE DEF z, k
  <2> DEFINE q == c \div k
  <2>11. q \in Int
    BY <2>6, Division
  <2>12. c = q * k
    BY <2>6, <2>8, DividesIs
  <2> HIDE DEF q
  <2>13. r.coefficient = q
    <3>1. CASE c < 0
      <4>1. Abs(c) = (0 - q) * k /\ 0 - q \in Int /\ Abs(c) \in Int
        <5>1. 0 - q * k = (0 - q) * k
          BY <2>6, <2>11
        <5> QED
          BY <3>1, <5>1, <2>11, <2>12, AbsIs
      <4>2. Abs(c) \div k = 0 - q
        BY <4>1, <2>6, DividesIs
      <4>3. (-1) * (0 - q) = q
        BY <2>11
      <4> QED
        BY <3>1, <4>2, <4>3, <2>9
    <3>2. CASE ~(c < 0)
      <4>1. Abs(c) = q * k /\ Abs(c) \in Int
        BY <3>2, <2>12, AbsIs
      <4>2. Abs(c) \div k = q
        BY <4>1, <2>6, <2>11, DividesIs
      <4>3. 1 * q = q
        BY <2>11
      <4> QED
        BY <3>2, <4>2, <4>3, <2>9
    <3> QED
      BY <3>1, <3>2
  <2>14. AtScale(r, s) = q * k
    BY <2>5, <2>10, <2>13 DEF AtScale, k
  <2>15. r.scale \in Nat /\ r.scale <= s
    BY <2>4, <2>5
  <2>16. ASSUME r.scale > 0, q % 10 = 0 PROVE FALSE
    <3> DEFINE p == q \div 10
    <3>1. p \in Int
      BY <2>11, Division
    <3>2. q = p * 10
      BY <2>11, <2>16, DividesIs
    <3> HIDE DEF p
    <3>3. Pow10(z + 1) = 10 * k
      BY <2>10, Pow10Step DEF k
    <3>4. (p * 10) * k = p * (10 * k)
      BY <3>1, <2>6
    <3>5. c = p * Pow10(z + 1)
      BY <2>12, <3>2, <3>3, <3>4
    <3>6. z + 1 \in 0 .. s /\ z + 1 > z
      BY <2>5, <2>10, <2>16
    <3>7. Pow10(z + 1) \in Int /\ Pow10(z + 1) > 0
      BY <2>10, Pow10Type
    <3>8. c % Pow10(z + 1) = 0
      BY <3>1, <3>5, <3>7, DividesIs
    <3> QED
      BY <3>6, <3>8, <2>7
  <2>17. Canonical(r)
    BY <2>11, <2>13, <2>15, <2>16 DEF Canonical
  <2> QED
    BY <2>12, <2>14, <2>15, <2>17 DEF r
<1> QED
  BY <1>1, <1>2

-----------------------------------------------------------------------------
(***************************************************************************)
(* DecimalArithmetic: sums, differences, products and comparisons.         *)
(***************************************************************************)
LEMMA AtScaleIs ==
  ASSUME NEW d, Canonical(d), NEW s \in Nat, d.scale <= s, NEW e \in Nat
  PROVE  AtScale(d, s) \in Int /\ AtScale(d, s + e) = AtScale(d, s) * Pow10(e)
<1>1. d.coefficient \in Int /\ d.scale \in Nat
  BY DEF Canonical
<1> DEFINE c == d.coefficient
           n == s - d.scale
<1>2. c \in Int /\ n \in Nat /\ (s + e) - d.scale = n + e
  BY <1>1
<1>3. AtScale(d, s) = c * Pow10(n) /\ AtScale(d, s + e) = c * Pow10(n + e)
  BY <1>2 DEF AtScale
<1> HIDE DEF c, n
<1>4. Pow10(n) \in Int /\ Pow10(e) \in Int /\ Pow10(n + e) = Pow10(n) * Pow10(e)
  BY <1>2, Pow10Type, Pow10Plus
<1>5. (c * Pow10(n)) * Pow10(e) = c * (Pow10(n) * Pow10(e))
  BY <1>2, <1>4, ProductsAssociate
<1>6. c * Pow10(n) \in Int
  BY <1>2, <1>4, ProductType
<1> QED
  BY <1>3, <1>4, <1>5, <1>6

LEMMA CommonScaleIs ==
  ASSUME NEW a, NEW b, Canonical(a), Canonical(b)
  PROVE  /\ CommonScale(a, b) \in Nat /\ CommonScale(a, b) >= a.scale /\ CommonScale(a, b) >= b.scale
         /\ (a.scale + b.scale) - CommonScale(a, b) \in Nat
<1> DEFINE m == a.scale
           n == b.scale
<1>1. m \in Nat /\ n \in Nat
  BY DEF Canonical
<1>2. CommonScale(a, b) = Max({m, n})
  BY DEF CommonScale
<1> HIDE DEF m, n
<1>3. \E x \in {m, n} : \A y \in {m, n} : x >= y
  <2>1. CASE m >= n
    BY <1>1, <2>1
  <2>2. CASE n >= m
    BY <1>1, <2>2
  <2> QED
    BY <1>1, <2>1, <2>2
<1>4. Max({m, n}) \in {m, n} /\ \A y \in {m, n} : Max({m, n}) >= y
  BY <1>3 DEF Max
<1> QED
  BY <1>1, <1>2, <1>4 DEF m, n

(* The operands at the sum of their scales.                                *)
LEMMA OperandsAre ==
  ASSUME NEW a, NEW b, Canonical(a), Canonical(b)
  PROVE  /\ a.coefficient * Pow10(b.scale) = AtScale(a, a.scale + b.scale)
         /\ b.coefficient * Pow10(a.scale) = AtScale(b, a.scale + b.scale)
<1>1. a.scale \in Nat /\ b.scale \in Nat
  BY DEF Canonical
<1>2. (a.scale + b.scale) - a.scale = b.scale /\ (a.scale + b.scale) - b.scale = a.scale
  BY <1>1
<1> QED
  BY <1>2 DEF AtScale

(* The normalised number is the number, at any larger scale too.           *)
LEMMA ExactIs ==
  ASSUME NEW n \in Int, NEW s \in Nat, NEW e \in Nat
  PROVE  IsFraction(NormalizeParts(n, s), n * Pow10(e), s + e)
<1> DEFINE r == NormalizeParts(n, s)
<1>1. Canonical(r) /\ r.scale <= s /\ AtScale(r, s) = n
  BY NormalizePartsIs
<1> HIDE DEF r
<1> DEFINE c == r.coefficient
           t == r.scale
<1>2. c \in Int /\ t \in Nat /\ t <= s
  BY <1>1 DEF Canonical
<1>3. c * Pow10(s - t) = n
  BY <1>1 DEF AtScale
<1>4. IsFraction(r, n * Pow10(e), s + e) <=> c * Pow10(s + e) = (n * Pow10(e)) * Pow10(t)
  BY DEF IsFraction
<1> HIDE DEF c, t
<1> DEFINE u == s - t
<1>5. u \in Nat /\ s + e = u + (t + e)
  BY <1>2
<1>6. c * Pow10(u) = n
  BY <1>3
<1> HIDE DEF u
<1>7. /\ Pow10(s + e) = Pow10(u) * Pow10(t + e) /\ Pow10(t + e) = Pow10(t) * Pow10(e)
      /\ Pow10(u) \in Int /\ Pow10(t) \in Int /\ Pow10(e) \in Int /\ Pow10(t + e) \in Int
  <2>1. t + e \in Nat
    BY <1>2
  <2>2. Pow10(u + (t + e)) = Pow10(u) * Pow10(t + e)
    BY <1>5, <2>1, Pow10Plus
  <2>3. Pow10(t + e) = Pow10(t) * Pow10(e)
    BY <1>2, Pow10Plus
  <2>4. Pow10(u) \in Int /\ Pow10(t) \in Int /\ Pow10(e) \in Int /\ Pow10(t + e) \in Int
    BY <1>2, <1>5, <2>1, Pow10Type
  <2> QED
    BY <1>5, <2>2, <2>3, <2>4
<1>8. c * (Pow10(u) * Pow10(t + e)) = n * Pow10(t + e)
  BY <1>2, <1>6, <1>7, ProductsAssociate
<1>9. n * (Pow10(t) * Pow10(e)) = (n * Pow10(e)) * Pow10(t)
  BY <1>7
<1> QED
  BY <1>4, <1>7, <1>8, <1>9 DEF r

LEMMA SumIs ==
  ASSUME NEW a, NEW b, Canonical(a), Canonical(b)
  PROVE  /\ Canonical(Add(a, b)) /\ Canonical(Subtract(a, b))
         /\ IsFraction(Add(a, b), a.coefficient * Pow10(b.scale) + b.coefficient * Pow10(a.scale),
                       a.scale + b.scale)
         /\ IsFraction(Subtract(a, b), a.coefficient * Pow10(b.scale) - b.coefficient * Pow10(a.scale),
                       a.scale + b.scale)
<1> DEFINE s == CommonScale(a, b)
           e == (a.scale + b.scale) - s
           x == AtScale(a, s)
           y == AtScale(b, s)
<1>1. s \in Nat /\ s >= a.scale /\ s >= b.scale /\ e \in Nat /\ a.scale \in Nat /\ b.scale \in Nat
  BY CommonScaleIs DEF Canonical
<1>2. s + e = a.scale + b.scale
  BY <1>1
<1>3. Add(a, b) = NormalizeParts(x + y, s) /\ Subtract(a, b) = NormalizeParts(x - y, s)
  BY DEF Add, Subtract
<1>4. a.scale <= s /\ b.scale <= s
  BY <1>1
<1> HIDE DEF s, e
<1>5. /\ x \in Int /\ y \in Int
      /\ AtScale(a, s + e) = x * Pow10(e) /\ AtScale(b, s + e) = y * Pow10(e)
  BY <1>1, <1>4, AtScaleIs
<1> HIDE DEF x, y
<1>6. Pow10(e) \in Int
  BY <1>1, Pow10Type
<1>7. (x + y) * Pow10(e) = x * Pow10(e) + y * Pow10(e) /\ (x - y) * Pow10(e) = x * Pow10(e) - y * Pow10(e)
  BY <1>5, <1>6, ProductsDistribute
<1>8. x + y \in Int /\ x - y \in Int
  BY <1>5
<1>9. /\ IsFraction(NormalizeParts(x + y, s), (x + y) * Pow10(e), s + e)
      /\ IsFraction(NormalizeParts(x - y, s), (x - y) * Pow10(e), s + e)
  BY <1>1, <1>8, ExactIs
<1>10. /\ a.coefficient * Pow10(b.scale) = x * Pow10(e)
       /\ b.coefficient * Pow10(a.scale) = y * Pow10(e)
  BY <1>2, <1>5, OperandsAre
<1>11. Canonical(Add(a, b)) /\ Canonical(Subtract(a, b))
  BY <1>1, <1>3, <1>8, NormalizePartsIs
<1> QED
  BY <1>2, <1>3, <1>7, <1>9, <1>10, <1>11

LEMMA ProductIs ==
  ASSUME NEW a, NEW b, Canonical(a), Canonical(b)
  PROVE  /\ Canonical(Multiply(a, b))
         /\ IsFraction(Multiply(a, b), a.coefficient * b.coefficient, a.scale + b.scale)
<1> DEFINE n == a.coefficient * b.coefficient
           s == a.scale + b.scale
<1>1. n \in Int /\ s \in Nat
  BY ProductType DEF Canonical
<1>2. Multiply(a, b) = NormalizeParts(n, s)
  BY DEF Multiply
<1> HIDE DEF n, s
<1>3. n * Pow10(0) = n /\ s + 0 = s
  BY <1>1, Pow10OfZero
<1>4. IsFraction(NormalizeParts(n, s), n * Pow10(0), s + 0)
  BY <1>1, ExactIs
<1>5. Canonical(NormalizeParts(n, s))
  BY <1>1, NormalizePartsIs
<1> QED
  BY <1>2, <1>3, <1>4, <1>5 DEF n, s

LEMMA ComparisonIs ==
  ASSUME NEW a, NEW b, Canonical(a), Canonical(b)
  PROVE  /\ Compare(a, b) \in {-1, 0, 1}
         /\ Compare(a, b) > 0 <=> a.coefficient * Pow10(b.scale) > b.coefficient * Pow10(a.scale)
         /\ Compare(a, b) < 0 <=> a.coefficient * Pow10(b.scale) < b.coefficient * Pow10(a.scale)
<1> DEFINE s == CommonScale(a, b)
           e == (a.scale + b.scale) - s
           x == AtScale(a, s)
           y == AtScale(b, s)
<1>1. s \in Nat /\ s >= a.scale /\ s >= b.scale /\ e \in Nat /\ a.scale \in Nat /\ b.scale \in Nat
  BY CommonScaleIs DEF Canonical
<1>2. s + e = a.scale + b.scale
  BY <1>1
<1>3. Compare(a, b) = IF x = y THEN 0 ELSE IF x > y THEN 1 ELSE -1
  BY DEF Compare
<1>4. a.scale <= s /\ b.scale <= s
  BY <1>1
<1> HIDE DEF s, e
<1>5. /\ x \in Int /\ y \in Int
      /\ AtScale(a, s + e) = x * Pow10(e) /\ AtScale(b, s + e) = y * Pow10(e)
  BY <1>1, <1>4, AtScaleIs
<1> HIDE DEF x, y
<1> DEFINE k == Pow10(e)
<1>6. k \in Int /\ k > 0
  BY <1>1, Pow10Type
<1>7. a.coefficient * Pow10(b.scale) = x * k /\ b.coefficient * Pow10(a.scale) = y * k
  BY <1>2, <1>5, OperandsAre
<1> HIDE DEF k
<1>8. (x < y <=> x * k < y * k) /\ (y < x <=> y * k < x * k)
  BY <1>5, <1>6, ProductsOrder
<1>9. x * k \in Int /\ y * k \in Int
  BY <1>5, <1>6, ProductType
<1>10. Compare(a, b) \in {-1, 0, 1} /\ (Compare(a, b) > 0 <=> y < x) /\ (Compare(a, b) < 0 <=> x < y)
  <2>1. CASE x = y
    BY <2>1, <1>3, <1>5
  <2>2. CASE x > y
    BY <2>2, <1>3, <1>5
  <2>3. CASE x < y
    BY <2>3, <1>3, <1>5
  <2> QED
    BY <2>1, <2>2, <2>3, <1>5
<1>11. (x * k > y * k) <=> (y * k < x * k)
  BY <1>9
<1> QED
  BY <1>7, <1>8, <1>10, <1>11

-----------------------------------------------------------------------------
(***************************************************************************)
(* DecimalArithmetic: what a rounded number is.                            *)
(***************************************************************************)
(* IsRounded for a positive denominator.                                   *)
Rounds(n, x, d, rounding) ==
  CASE rounding = "DOWN" -> Abs(n) * d <= Abs(x) /\ Abs(x) < (Abs(n) + 1) * d /\ (n < 0 => x < 0) /\ (n > 0 => x > 0)
    [] rounding = "FLOOR" -> n * d <= x /\ x < (n + 1) * d
    [] rounding = "CEIL" -> (n - 1) * d < x /\ x <= n * d
    [] rounding = "HALF_UP" -> /\ 2 * Abs(x - n * d) <= d
                               /\ 2 * Abs(x - n * d) = d => Abs(n) * d > Abs(x)

LEMMA AbsOfProduct ==
  ASSUME NEW x \in Int, NEW k \in Int, k > 0
  PROVE  Abs(x * k) = Abs(x) * k
<1>1. x * k \in Int
  OBVIOUS
<1>2. CASE x >= 0
  <2>1. x * k >= 0
    BY <1>2
  <2> QED
    BY <2>1, <1>1, <1>2, AbsIs
<1>3. CASE x < 0
  <2>1. x * k < 0 * k /\ 0 * k = 0
    BY <1>3, ProductsOrder
  <2>2. 0 - x * k = (0 - x) * k
    OBVIOUS
  <2> QED
    BY <2>1, <2>2, <1>1, <1>3, AbsIs
<1> QED
  BY <1>2, <1>3

(* Rounding does not depend on the terms of the fraction.                  *)
LEMMA RoundsExpanded ==
  ASSUME NEW n \in Int, NEW x \in Int, NEW d \in Int, d > 0, NEW k \in Int, k > 0,
         NEW rounding \in Rounding, Rounds(n, x, d, rounding)
  PROVE  Rounds(n, x * k, d * k, rounding)
<1>1. /\ x * k \in Int /\ d * k \in Int /\ n * d \in Int /\ n * (d * k) = (n * d) * k
      /\ Abs(n) \in Int /\ Abs(x) \in Int /\ Abs(n) * d \in Int /\ Abs(n) * (d * k) = (Abs(n) * d) * k
  <2>1. Abs(n) \in Int /\ Abs(x) \in Int
    BY AbsIs
  <2> QED
    BY <2>1, ProductType, ProductsAssociate
<1>2. Abs(x * k) = Abs(x) * k
  BY AbsOfProduct
<1>3. CASE rounding = "DOWN"
  <2>1. Abs(n) * d <= Abs(x) /\ Abs(x) < (Abs(n) + 1) * d /\ (n < 0 => x < 0) /\ (n > 0 => x > 0)
    BY <1>3 DEF Rounds
  <2>2. (Abs(n) * d) * k <= Abs(x) * k
    BY <2>1, <1>1, ProductsOrder
  <2>3. ((Abs(n) + 1) * d) * k = (Abs(n) + 1) * (d * k) /\ (Abs(n) + 1) * d \in Int
    BY <1>1, ProductsAssociate, ProductType
  <2>4. Abs(x) * k < ((Abs(n) + 1) * d) * k
    BY <2>1, <2>3, <1>1, ProductsOrder
  <2>5. (x < 0 => x * k < 0) /\ (x > 0 => x * k > 0)
    <3>1. 0 * k = 0 /\ (x < 0 <=> x * k < 0 * k) /\ (0 < x <=> 0 * k < x * k)
      BY ProductsOrder
    <3> QED
      BY <3>1, <1>1
  <2>6. /\ Abs(n) * (d * k) <= Abs(x * k) /\ Abs(x * k) < (Abs(n) + 1) * (d * k)
        /\ (n < 0 => x * k < 0) /\ (n > 0 => x * k > 0)
    BY <2>1, <2>2, <2>3, <2>4, <2>5, <1>1, <1>2
  <2> QED
    BY <1>3, <2>6 DEF Rounds
<1>4. CASE rounding = "FLOOR"
  <2>1. n * d <= x /\ x < (n + 1) * d
    BY <1>4 DEF Rounds
  <2>2. (n * d) * k <= x * k
    BY <2>1, <1>1, ProductsOrder
  <2>3. ((n + 1) * d) * k = (n + 1) * (d * k) /\ (n + 1) * d \in Int
    BY ProductsAssociate, ProductType
  <2>4. x * k < ((n + 1) * d) * k
    BY <2>1, <2>3, ProductsOrder
  <2>5. n * (d * k) <= x * k /\ x * k < (n + 1) * (d * k)
    BY <2>2, <2>3, <2>4, <1>1
  <2> QED
    BY <1>4, <2>5 DEF Rounds
<1>5. CASE rounding = "CEIL"
  <2>1. (n - 1) * d < x /\ x <= n * d
    BY <1>5 DEF Rounds
  <2>2. x * k <= (n * d) * k
    BY <2>1, <1>1, ProductsOrder
  <2>3. ((n - 1) * d) * k = (n - 1) * (d * k) /\ (n - 1) * d \in Int
    BY ProductsAssociate, ProductType
  <2>4. ((n - 1) * d) * k < x * k
    BY <2>1, <2>3, ProductsOrder
  <2>5. (n - 1) * (d * k) < x * k /\ x * k <= n * (d * k)
    BY <2>2, <2>3, <2>4, <1>1
  <2> QED
    BY <1>5, <2>5 DEF Rounds
<1>6. CASE rounding = "HALF_UP"
  <2> DEFINE y == x - n * d
             w == Abs(y)
  <2>1. 2 * w <= d /\ (2 * w = d => Abs(n) * d > Abs(x))
    BY <1>6 DEF Rounds
  <2>2. y \in Int /\ w \in Int
    BY <1>1, AbsIs
  <2>3. y * k = x * k - (n * d) * k
    BY <1>1, ProductsDistribute
  <2>4. x * k - n * (d * k) = y * k
    BY <2>3, <1>1
  <2>5. Abs(y * k) = w * k
    BY <2>2, AbsOfProduct
  <2> HIDE DEF y, w
  <2>6. (2 * w) * k = 2 * (w * k) /\ 2 * w \in Int
    BY <2>2
  <2>7. (2 * w <= d <=> (2 * w) * k <= d * k) /\ (2 * w = d <=> (2 * w) * k = d * k)
    BY <2>6, ProductsOrder
  <2>8. Abs(x) < Abs(n) * d <=> Abs(x) * k < (Abs(n) * d) * k
    BY <1>1, ProductsOrder
  <2>9. Abs(n) * d > Abs(x) => Abs(n) * (d * k) > Abs(x * k)
    BY <2>8, <1>1, <1>2
  <2>10. 2 * (w * k) <= d * k /\ (2 * (w * k) = d * k => Abs(n) * (d * k) > Abs(x * k))
    BY <2>1, <2>6, <2>7, <2>9
  <2>11. /\ 2 * Abs(x * k - n * (d * k)) <= d * k
         /\ 2 * Abs(x * k - n * (d * k)) = d * k => Abs(n) * (d * k) > Abs(x * k)
    BY <2>4, <2>5, <2>10
  <2> QED
    BY <1>6, <2>11 DEF Rounds
<1> QED
  BY <1>3, <1>4, <1>5, <1>6 DEF Rounding

LEMMA IsRoundedIs ==
  ASSUME NEW n \in Int, NEW x \in Int, NEW d \in Int, NEW rounding \in Rounding
  PROVE  /\ d > 0 => (IsRounded(n, x, d, rounding) <=> Rounds(n, x, d, rounding))
         /\ d < 0 => (IsRounded(n, x, d, rounding) <=> Rounds(n, 0 - x, 0 - d, rounding))
<1>1. ASSUME d > 0 PROVE IsRounded(n, x, d, rounding) <=> Rounds(n, x, d, rounding)
  <2>1. 1 * x = x /\ 1 * d = d /\ ~(d < 0)
    BY <1>1
  <2> QED
    BY <2>1 DEF IsRounded, Rounds
<1>2. ASSUME d < 0 PROVE IsRounded(n, x, d, rounding) <=> Rounds(n, 0 - x, 0 - d, rounding)
  <2>1. (-1) * x = 0 - x /\ (-1) * d = 0 - d
    OBVIOUS
  <2> QED
    BY <2>1, <1>2 DEF IsRounded, Rounds
<1> QED
  BY <1>1, <1>2

(* The quotient of two magnitudes, with its sign, as divideDecimal()       *)
(* rounds it.                                                              *)
RoundedQuotient(numerator, denominator, negative, rounding) ==
  LET remainder == numerator % denominator
      up == remainder # 0 /\ ShouldRoundUp(remainder, denominator, negative, rounding)
  IN  (numerator \div denominator) + (IF up THEN 1 ELSE 0)

Signed(negative, n) == IF negative THEN 0 - n ELSE n

LEMMA QuotientRounds ==
  ASSUME NEW x \in Nat, NEW d \in Nat, d > 0, NEW negative \in BOOLEAN, NEW rounding \in Rounding
  PROVE  /\ RoundedQuotient(x, d, negative, rounding) \in Nat
         /\ Rounds(Signed(negative, RoundedQuotient(x, d, negative, rounding)), Signed(negative, x),
                   d, rounding)
<1> DEFINE q == x \div d
           r == x % d
           up == r # 0 /\ ShouldRoundUp(r, d, negative, rounding)
           Q == q + (IF up THEN 1 ELSE 0)
           n == Signed(negative, Q)
           y == Signed(negative, x)
<1>1. RoundedQuotient(x, d, negative, rounding) = Q
  BY DEF RoundedQuotient
<1>2. q \in Int /\ r \in Int /\ 0 <= r /\ r < d /\ x = d * q + r
  BY Division
<1>3. up = (r # 0 /\ ShouldRoundUp(r, d, negative, rounding))
  OBVIOUS
<1>4. (up => Q = q + 1) /\ (~up => Q = q)
  <2> HIDE DEF q, r, up
  <2> QED
    BY <1>2
<1> HIDE DEF q, r, up
<1>5. q >= 0
  <2> SUFFICES ASSUME q + 1 <= 0 PROVE FALSE
    BY <1>2
  <2>1. (q + 1) * d <= 0 * d /\ 0 * d = 0
    BY <1>2, ProductsOrder
  <2>2. (q + 1) * d = d * q + d /\ d * q \in Int
    BY <1>2
  <2> QED
    BY <2>1, <2>2, <1>2
<1> DEFINE m == q * d
<1>6. m \in Int /\ x = m + r /\ m >= 0
  <2>1. m \in Int /\ d * q = m
    BY <1>2
  <2>2. 0 * d <= q * d /\ 0 * d = 0
    BY <1>2, <1>5, ProductsOrder
  <2> QED
    BY <2>1, <2>2, <1>2
<1>7. /\ (q + 1) * d = m + d /\ (q + 2) * d = m + 2 * d /\ q * d = m
      /\ (0 - q) * d = 0 - m /\ (0 - q + 1) * d = 0 - m + d /\ (0 - q - 1) * d = 0 - m - d
      /\ (0 - (q + 1)) * d = 0 - m - d /\ (0 - (q + 1) + 1) * d = 0 - m /\ (0 - (q + 1) - 1) * d = 0 - m - 2 * d
      /\ (q - 1) * d = m - d /\ (q + 1 - 1) * d = m /\ (q + 1 + 1) * d = m + 2 * d
  BY <1>2
<1>8. q > 0 => m > 0
  <2>1. 0 < q <=> 0 * d < q * d
    BY <1>2, ProductsOrder
  <2> QED
    BY <2>1
<1>9. Q \in Nat
  BY <1>2, <1>4, <1>5
<1>10. /\ negative => n = 0 - Q /\ y = 0 - x
       /\ ~negative => n = Q /\ y = x
  BY DEF Signed
<1> HIDE DEF Q
<1> SUFFICES Rounds(n, y, d, rounding)
  BY <1>1, <1>9
<1> HIDE DEF m, n, y
<1>11. n \in Int /\ y \in Int /\ Abs(n) = Q /\ Abs(y) = x
  BY <1>9, <1>10, AbsIs
<1>12. CASE rounding = "DOWN"
  <2>1. Q = q
    BY <1>3, <1>4, <1>12 DEF ShouldRoundUp
  <2>2. Abs(n) * d <= Abs(y) /\ Abs(y) < (Abs(n) + 1) * d
    BY <2>1, <1>2, <1>6, <1>7, <1>11
  <2>3. (n < 0 => y < 0) /\ (n > 0 => y > 0)
    BY <2>1, <1>2, <1>5, <1>6, <1>8, <1>10
  <2> QED
    BY <2>2, <2>3, <1>12 DEF Rounds
<1>13. CASE rounding = "FLOOR"
  <2>1. up <=> r # 0 /\ negative
    BY <1>3, <1>13 DEF ShouldRoundUp
  <2>2. n * d <= y /\ y < (n + 1) * d
    <3>1. CASE ~negative
      BY <3>1, <2>1, <1>2, <1>4, <1>6, <1>7, <1>10
    <3>2. CASE negative /\ r = 0
      <4>1. n = 0 - q /\ y = 0 - m
        BY <3>2, <2>1, <1>2, <1>4, <1>6, <1>10
      <4> QED
        BY <4>1, <1>2, <1>6, <1>7
    <3>3. CASE negative /\ r # 0
      <4>1. n = 0 - (q + 1) /\ y = 0 - (m + r)
        BY <3>3, <2>1, <1>2, <1>4, <1>6, <1>10
      <4> QED
        BY <4>1, <3>3, <1>2, <1>6, <1>7
    <3> QED
      BY <3>1, <3>2, <3>3
  <2> QED
    BY <2>2, <1>13 DEF Rounds
<1>14. CASE rounding = "CEIL"
  <2>1. up <=> r # 0 /\ ~negative
    BY <1>3, <1>14 DEF ShouldRoundUp
  <2>2. (n - 1) * d < y /\ y <= n * d
    <3>1. CASE negative
      <4>1. n = 0 - q /\ y = 0 - (m + r)
        BY <3>1, <2>1, <1>2, <1>4, <1>6, <1>10
      <4> QED
        BY <4>1, <1>2, <1>6, <1>7
    <3>2. CASE ~negative /\ r = 0
      <4>1. n = q /\ y = m
        BY <3>2, <2>1, <1>2, <1>4, <1>6, <1>10
      <4> QED
        BY <4>1, <1>2, <1>6, <1>7
    <3>3. CASE ~negative /\ r # 0
      <4>1. n = q + 1 /\ y = m + r
        BY <3>3, <2>1, <1>2, <1>4, <1>6, <1>10
      <4> QED
        BY <4>1, <3>3, <1>2, <1>6, <1>7
    <3> QED
      BY <3>1, <3>2, <3>3
  <2> QED
    BY <2>2, <1>14 DEF Rounds
<1>15. CASE rounding = "HALF_UP"
  <2>1. up <=> r # 0 /\ 2 * r >= d
    BY <1>3, <1>15 DEF ShouldRoundUp
  <2>2. CASE up
    <3>1. Q = q + 1 /\ 2 * r >= d
      BY <2>1, <2>2, <1>4
    <3>2. Abs(y - n * d) = d - r
      <4>1. CASE negative
        <5>1. n * d = 0 - m - d /\ y = 0 - m - r
          BY <4>1, <3>1, <1>2, <1>6, <1>7, <1>10
        <5>2. y - n * d = d - r
          BY <5>1, <1>2, <1>6
        <5> QED
          BY <5>2, <1>2, AbsIs
      <4>2. CASE ~negative
        <5>1. n * d = m + d /\ y = m + r
          BY <4>2, <3>1, <1>2, <1>6, <1>7, <1>10
        <5>2. y - n * d = 0 - (d - r) /\ d - r \in Int /\ d - r >= 0
          BY <5>1, <1>2, <1>6
        <5> QED
          BY <5>2, <1>2, AbsIs
      <4> QED
        BY <4>1, <4>2
    <3>3. Abs(n) * d = m + d /\ Abs(y) = m + r
      BY <3>1, <1>6, <1>7, <1>11
    <3>4. 2 * (d - r) <= d /\ m + d > m + r
      BY <3>1, <1>2, <1>6
    <3> QED
      BY <3>2, <3>3, <3>4, <1>15 DEF Rounds
  <2>3. CASE ~up
    <3>1. Q = q /\ 2 * r < d
      BY <2>1, <2>3, <1>2, <1>4
    <3>2. Abs(y - n * d) = r
      <4>1. CASE negative
        <5>1. n * d = 0 - m /\ y = 0 - m - r
          BY <4>1, <3>1, <1>2, <1>6, <1>7, <1>10
        <5>2. y - n * d = 0 - r
          BY <5>1, <1>2, <1>6
        <5> QED
          BY <5>2, <1>2, AbsIs
      <4>2. CASE ~negative
        <5>1. n * d = m /\ y = m + r
          BY <4>2, <3>1, <1>2, <1>6, <1>7, <1>10
        <5>2. y - n * d = r
          BY <5>1, <1>2, <1>6
        <5> QED
          BY <5>2, <1>2, AbsIs
      <4> QED
        BY <4>1, <4>2
    <3>3. 2 * r <= d /\ 2 * r # d
      BY <3>1, <1>2
    <3> QED
      BY <3>2, <3>3, <1>15 DEF Rounds
  <2> QED
    BY <2>2, <2>3
<1> QED
  BY <1>12, <1>13, <1>14, <1>15 DEF Rounding

-----------------------------------------------------------------------------
(***************************************************************************)
(* DecimalArithmetic: divideDecimal() and quantizeToStep().                *)
(***************************************************************************)
(* The magnitudes that are divided, and those of the fraction, differ by a *)
(* common factor.                                                          *)
Numerator(x, exponent) == x * (IF exponent >= 0 THEN Pow10(exponent) ELSE 1)
Denominator(y, exponent) == y * (IF exponent >= 0 THEN 1 ELSE Pow10(0 - exponent))
Factors(up, down, x, y, s, t, places) ==
  \E k \in Nat : k > 0 /\ up * k = x * (Pow10(t) * Pow10(places)) /\ down * k = y * Pow10(s)

LEMMA CommonFactor ==
  ASSUME NEW x \in Int, NEW y \in Int, NEW s \in Nat, NEW t \in Nat, NEW places \in Nat
  PROVE  Factors(Numerator(x, t + places - s), Denominator(y, t + places - s), x, y, s, t, places)
<1> DEFINE e == t + places - s
<1>1. e \in Int /\ t + places \in Nat
  OBVIOUS
<1>2. Pow10(t + places) = Pow10(t) * Pow10(places)
  BY Pow10Plus
<1>3. CASE e >= 0
  <2>1. e \in Nat /\ e + s = t + places
    BY <1>1, <1>3
  <2> HIDE DEF e
  <2>2. Pow10(t + places) = Pow10(e) * Pow10(s)
    BY <2>1, Pow10Plus
  <2>3. Pow10(e) \in Int /\ Pow10(s) \in Nat /\ Pow10(s) > 0
    BY <2>1, Pow10Type
  <2>4. (x * Pow10(e)) * Pow10(s) = x * (Pow10(t) * Pow10(places)) /\ (y * 1) * Pow10(s) = y * Pow10(s)
    BY <1>2, <2>2, <2>3, ProductsAssociate
  <2>5. \E k \in Nat : /\ k > 0
                       /\ (x * Pow10(e)) * k = x * (Pow10(t) * Pow10(places))
                       /\ (y * 1) * k = y * Pow10(s)
    BY <2>3, <2>4
  <2> QED
    BY <1>3, <2>5 DEF e, Factors, Numerator, Denominator
<1>4. CASE ~(e >= 0)
  <2> DEFINE f == 0 - e
             k == Pow10(t + places)
  <2>1. f \in Nat /\ f + (t + places) = s
    BY <1>1, <1>4
  <2> HIDE DEF e, f
  <2>2. Pow10(s) = Pow10(f) * k
    BY <1>1, <2>1, Pow10Plus
  <2>3. Pow10(f) \in Int /\ k \in Nat /\ k > 0
    BY <1>1, <2>1, Pow10Type
  <2>4. k = Pow10(t) * Pow10(places)
    BY <1>2
  <2> HIDE DEF k
  <2>5. (y * Pow10(f)) * k = y * Pow10(s) /\ (x * 1) * k = x * k
    BY <2>2, <2>3, ProductsAssociate
  <2>6. \E n \in Nat : /\ n > 0
                       /\ (x * 1) * n = x * (Pow10(t) * Pow10(places))
                       /\ (y * Pow10(f)) * n = y * Pow10(s)
    BY <2>3, <2>4, <2>5
  <2> QED
    BY <1>4, <2>6 DEF e, f, Factors, Numerator, Denominator
<1> QED
  BY <1>3, <1>4

LEMMA QuotientIs ==
  ASSUME NEW a, NEW b, Canonical(a), Canonical(b), b.coefficient # 0, NEW places \in Nat,
         NEW rounding \in Rounding
  PROVE  \E n \in Int :
           /\ Divide(a, b, places, rounding) = NormalizeParts(n, places)
           /\ IsRounded(n, (a.coefficient * Pow10(b.scale)) * Pow10(places), b.coefficient * Pow10(a.scale),
                        rounding)
<1> DEFINE x == a.coefficient
           y == b.coefficient
           s == a.scale
           t == b.scale
           negative == (x < 0) # (y < 0)
           e == t + places - s
           up == Abs(x) * (IF e >= 0 THEN Pow10(e) ELSE 1)
           down == Abs(y) * (IF e >= 0 THEN 1 ELSE Pow10(0 - e))
           n == Signed(negative, RoundedQuotient(up, down, negative, rounding))
           i == Pow10(t) * Pow10(places)
           j == Pow10(s)
<1>1. x \in Int /\ y \in Int /\ y # 0 /\ s \in Nat /\ t \in Nat
  BY DEF Canonical
<1>2. Divide(a, b, places, rounding) = NormalizeParts(n, places)
  BY DEF Divide, Signed, RoundedQuotient
<1> HIDE DEF x, y, s, t
<1>3. Abs(x) \in Nat /\ Abs(y) \in Nat /\ Abs(y) > 0
  BY <1>1, AbsIs
<1>4. PICK k \in Nat : k > 0 /\ up * k = Abs(x) * i /\ down * k = Abs(y) * j
  <2>1. Abs(x) \in Int /\ Abs(y) \in Int
    BY <1>3
  <2>2. up = Numerator(Abs(x), e) /\ down = Denominator(Abs(y), e)
    BY DEF Numerator, Denominator
  <2> HIDE DEF up, down
  <2>3. Factors(Numerator(Abs(x), e), Denominator(Abs(y), e), Abs(x), Abs(y), s, t, places)
    BY <1>1, <2>1, CommonFactor
  <2> QED
    BY <2>2, <2>3 DEF Factors
<1>5. up \in Nat /\ down \in Nat /\ down > 0
  <2>1. CASE e >= 0
    <3>1. Pow10(e) \in Nat /\ Pow10(e) > 0
      BY <2>1, <1>1, Pow10Type
    <3>2. up = Abs(x) * Pow10(e) /\ down = Abs(y) * 1
      BY <2>1
    <3> HIDE DEF up, down, e
    <3> QED
      BY <3>1, <3>2, <1>3, ProductType
  <2>2. CASE ~(e >= 0)
    <3>1. Pow10(0 - e) \in Nat /\ Pow10(0 - e) > 0
      BY <2>2, <1>1, Pow10Type
    <3>2. up = Abs(x) * 1 /\ down = Abs(y) * Pow10(0 - e)
      BY <2>2
    <3> HIDE DEF up, down, e
    <3> QED
      BY <3>1, <3>2, <1>3, ProductType
  <2> QED
    BY <2>1, <2>2
<1>6. i \in Int /\ i > 0 /\ j \in Int /\ j > 0
  BY <1>1, Pow10Type, ProductType
<1>7. (x * Pow10(t)) * Pow10(places) = x * i
  BY <1>1, Pow10Type, ProductsAssociate
<1>8. negative \in BOOLEAN
  OBVIOUS
<1>9. negative <=> ~(x < 0 <=> y < 0)
  OBVIOUS
<1> HIDE DEF up, down, i, j, negative
<1>10. RoundedQuotient(up, down, negative, rounding) \in Nat
  BY <1>5, <1>8, QuotientRounds
<1>11. n \in Int
  BY <1>10 DEF Signed
<1>12. Rounds(n, Signed(negative, up), down, rounding)
  BY <1>5, <1>8, QuotientRounds
<1> HIDE DEF n
<1>13. Rounds(n, Signed(negative, up) * k, down * k, rounding)
  <2>1. Signed(negative, up) \in Int /\ k \in Int /\ down \in Int
    BY <1>4, <1>5 DEF Signed
  <2> QED
    BY <2>1, <1>4, <1>5, <1>11, <1>12, RoundsExpanded
<1>14. Signed(negative, up) * k = Signed(negative, Abs(x) * i)
  <2>1. (0 - up) * k = 0 - up * k
    BY <1>4, <1>5
  <2> QED
    BY <2>1, <1>4 DEF Signed
<1>15. Rounds(n, Signed(negative, Abs(x) * i), Abs(y) * j, rounding)
  BY <1>4, <1>13, <1>14
<1>16. x * i \in Int /\ y * j \in Int
  BY <1>1, <1>6, ProductType
<1>17. (0 - x) * i = 0 - x * i /\ (0 - y) * j = 0 - y * j
  BY <1>1, <1>6
<1>18. CASE y > 0
  <2>1. Abs(y) * j = y * j /\ y * j > 0
    BY <1>1, <1>6, <1>18, AbsIs, ProductType
  <2>2. Signed(negative, Abs(x) * i) = x * i
    <3>1. CASE x < 0
      <4>1. negative
        BY <3>1, <1>1, <1>9, <1>18
      <4>2. Abs(x) = 0 - x
        BY <3>1, <1>1, AbsIs
      <4> QED
        BY <4>1, <4>2, <1>16, <1>17 DEF Signed
    <3>2. CASE ~(x < 0)
      <4>1. ~negative
        BY <3>2, <1>1, <1>9, <1>18
      <4>2. Abs(x) = x
        BY <3>2, <1>1, AbsIs
      <4> QED
        BY <4>1, <4>2 DEF Signed
    <3> QED
      BY <3>1, <3>2
  <2>3. IsRounded(n, x * i, y * j, rounding)
    BY <2>1, <2>2, <1>11, <1>15, <1>16, IsRoundedIs
  <2> QED
    BY <2>3, <1>2, <1>7, <1>11 DEF x, y, s, t, j
<1>19. CASE y < 0
  <2>1. Abs(y) * j = 0 - y * j
    BY <1>1, <1>6, <1>17, <1>19, AbsIs
  <2>2. y * j < 0
    <3>1. y * j < 0 * j /\ 0 * j = 0
      BY <1>1, <1>6, <1>19, ProductsOrder
    <3> QED
      BY <3>1
  <2>3. Signed(negative, Abs(x) * i) = 0 - x * i
    <3>1. CASE x < 0
      <4>1. ~negative
        BY <3>1, <1>1, <1>9, <1>19
      <4>2. Abs(x) = 0 - x
        BY <3>1, <1>1, AbsIs
      <4> QED
        BY <4>1, <4>2, <1>16, <1>17 DEF Signed
    <3>2. CASE ~(x < 0)
      <4>1. negative
        BY <3>2, <1>1, <1>9, <1>19
      <4>2. Abs(x) = x
        BY <3>2, <1>1, AbsIs
      <4> QED
        BY <4>1, <4>2 DEF Signed
    <3> QED
      BY <3>1, <3>2
  <2>4. IsRounded(n, x * i, y * j, rounding)
    BY <2>1, <2>2, <2>3, <1>11, <1>15, <1>16, IsRoundedIs
  <2> QED
    BY <2>4, <1>2, <1>7, <1>11 DEF x, y, s, t, j
<1> QED
  BY <1>1, <1>18, <1>19

LEMMA MaxOfTwo ==
  ASSUME NEW m \in Int, NEW n \in Int, m <= n
  PROVE  Max({m, n}) = n
<1>1. \A y \in {m, n} : n >= y
  OBVIOUS
<1>2. Max({m, n}) \in {m, n} /\ \A y \in {m, n} : Max({m, n}) >= y
  BY <1>1 DEF Max
<1> QED
  BY <1>2

(* The multiple of the step is the rounded quotient of them.               *)
LEMMA QuantumIs ==
  ASSUME NEW a, NEW b, Canonical(a), Canonical(b), b.coefficient > 0, NEW rounding \in Rounding
  PROVE  LET r == QuantizeToStep(a, b, rounding)
             s == Max({r.scale, a.scale + b.scale})
         IN  /\ Canonical(r) /\ IsStepAligned(r, b)
             /\ IsRounded(AtScale(r, s) \div AtScale(b, s), a.coefficient * Pow10(b.scale),
                          b.coefficient * Pow10(a.scale), rounding)
<1> DEFINE u == Divide(a, b, 0, rounding)
           r == QuantizeToStep(a, b, rounding)
           x == a.coefficient
           y == b.coefficient
           p == a.scale
           t == b.scale
<1>1. x \in Int /\ y \in Int /\ y > 0 /\ y # 0 /\ p \in Nat /\ t \in Nat
  BY DEF Canonical
<1>2. PICK n \in Int : u = NormalizeParts(n, 0) /\ IsRounded(n, (x * Pow10(t)) * Pow10(0), y * Pow10(p), rounding)
  BY <1>1, QuotientIs
<1>3. IsRounded(n, x * Pow10(t), y * Pow10(p), rounding)
  <2>1. (x * Pow10(t)) * Pow10(0) = x * Pow10(t)
    <3>1. x * Pow10(t) \in Int
      BY <1>1, Pow10Type, ProductType
    <3> QED
      BY <3>1, Pow10OfZero
  <2> QED
    BY <2>1, <1>2
<1>4. u.coefficient = n /\ u.scale = 0
  <2>1. Canonical(u) /\ u.scale <= 0 /\ AtScale(u, 0) = n
    BY <1>2, NormalizePartsIs
  <2> HIDE DEF u
  <2>2. u.coefficient \in Int /\ u.scale = 0
    BY <2>1 DEF Canonical
  <2>3. u.coefficient * Pow10(0) = u.coefficient /\ 0 - u.scale = 0
    BY <2>2, Pow10OfZero
  <2> QED
    BY <2>1, <2>2, <2>3 DEF AtScale
<1>5. r = NormalizeParts(n * y, t)
  <2>1. r = NormalizeParts(u.coefficient * y, u.scale + t)
    BY DEF QuantizeToStep, Multiply
  <2> HIDE DEF u, r, t, y
  <2>2. 0 + t = t
    BY <1>1
  <2> QED
    BY <2>1, <2>2, <1>4
<1>6. n * y \in Int
  BY <1>1, ProductType
<1>7. Canonical(r) /\ r.scale <= t /\ AtScale(r, t) = n * y
  BY <1>1, <1>5, <1>6, NormalizePartsIs
<1>8. AtScale(b, t) = y
  <2>1. t - t = 0 /\ y * 1 = y
    BY <1>1
  <2> QED
    BY <2>1, Pow10OfZero DEF AtScale
<1>9. r.scale \in Nat
  BY <1>7 DEF Canonical
<1>10. IsStepAligned(r, b)
  <2>1. CommonScale(r, b) = t
    BY <1>1, <1>7, <1>9, MaxOfTwo DEF CommonScale
  <2>2. (n * y) % y = 0
    BY <1>1, <1>6, DividesIs
  <2> HIDE DEF r, t, y
  <2> QED
    BY <2>1, <2>2, <1>7, <1>8 DEF IsStepAligned
<1>11. Max({r.scale, p + t}) = t + p
  <2> HIDE DEF r, p, t
  <2>1. p + t \in Int /\ r.scale <= p + t /\ p + t = t + p
    BY <1>1, <1>7, <1>9
  <2> QED
    BY <2>1, <1>9, MaxOfTwo
<1>12. AtScale(r, t + p) = (n * y) * Pow10(p)
  BY <1>1, <1>7, AtScaleIs
<1>13. AtScale(b, t + p) = y * Pow10(p)
  <2>1. b.scale <= t
    BY <1>1
  <2> QED
    BY <2>1, <1>1, <1>8, AtScaleIs
<1>14. AtScale(r, t + p) \div AtScale(b, t + p) = n
  <2> DEFINE k == Pow10(p)
  <2>1. k \in Int /\ k > 0
    BY <1>1, Pow10Type
  <2>2. AtScale(r, t + p) = (n * y) * k /\ AtScale(b, t + p) = y * k
    BY <1>12, <1>13
  <2> HIDE DEF k, r, p, t, y
  <2>3. y * k \in Int /\ y * k > 0 /\ (n * y) * k = n * (y * k) /\ (n * y) * k \in Int
    BY <1>1, <1>6, <2>1, ProductType, ProductsAssociate
  <2>4. ((n * y) * k) \div (y * k) = n
    BY <2>3, DividesIs
  <2> QED
    BY <2>2, <2>4
<1>15. AtScale(r, Max({r.scale, p + t})) \div AtScale(b, Max({r.scale, p + t})) = n
  BY <1>11, <1>14
<1> HIDE DEF r
<1> QED
  BY <1>3, <1>7, <1>10, <1>15 DEF r

-----------------------------------------------------------------------------
(***************************************************************************)
(* DecimalArithmetic: every call.                                          *)
(***************************************************************************)
LEMMA DecimalIsCanonical == \A d \in Decimal : Canonical(d)
<1> SUFFICES ASSUME NEW d \in Decimal PROVE Canonical(d)
  OBVIOUS
<1>1. PICK c \in (0 - MaxCoefficient) .. MaxCoefficient, s \in 0 .. MaxScale : d = NormalizeParts(c, s)
  BY DEF Decimal
<1>2. c \in Int /\ s \in Nat
  BY <1>1, DecimalAssumption
<1> QED
  BY <1>1, <1>2, NormalizePartsIs

LEMMA IntegerIsCanonical ==
  ASSUME NEW n \in Int
  PROVE  Canonical([coefficient |-> n, scale |-> 0])
BY DEF Canonical

(* What a call leaves is exact if its result is.                           *)
LEMMA CallIs ==
  ASSUME NEW f, NEW a, NEW b, NEW places, NEW rounding, NEW result,
         Call(f, a, b, places, rounding, result)
  PROVE  /\ call'.f = f /\ call'.a = a /\ call'.b = b /\ call'.places = places
         /\ call'.rounding = rounding /\ call'.result = result
         /\ Left' = a.coefficient * Pow10(b.scale) /\ Right' = b.coefficient * Pow10(a.scale)
         /\ Scale' = a.scale + b.scale
<1>1. /\ call'.f = f /\ call'.a = a /\ call'.b = b /\ call'.places = places
      /\ call'.rounding = rounding /\ call'.result = result
  BY DEF Call
<1> QED
  BY <1>1 DEF Left, Right, Scale

LEMMA NoCallIs == call = NoCall => DecimalsAreExact
<1> SUFFICES ASSUME call = NoCall PROVE DecimalsAreExact
  OBVIOUS
<1>1. call.f = "none" /\ call.a = Zero /\ call.b = Zero /\ call.result = Zero
  BY DEF NoCall
<1>2. Canonical(Zero)
  BY IntegerIsCanonical DEF Zero
<1> QED
  BY <1>1, <1>2 DEF DecimalsAreExact, DecimalTypeOK, SumsAreExact, QuotientsAreRounded, QuantaAreSteps

LEMMA CallsAreExact ==
  ASSUME NEW a \in Decimal, NEW b \in Decimal,
         \/ CallAdd(a, b) \/ CallSubtract(a, b) \/ CallMultiply(a, b) \/ CallCompare(a, b)
         \/ CallDivide(a, b) \/ CallQuantize(a, b)
  PROVE  DecimalsAreExact'
<1>1. Canonical(a) /\ Canonical(b)
  BY DecimalIsCanonical
<1> USE DEF DecimalsAreExact, DecimalTypeOK, SumsAreExact, QuotientsAreRounded, QuantaAreSteps
<1>2. CASE CallAdd(a, b)
  <2>1. Call("add", a, b, 0, "DOWN", Add(a, b))
    BY <1>2 DEF CallAdd
  <2> QED
    BY <2>1, <1>1, CallIs, SumIs
<1>3. CASE CallSubtract(a, b)
  <2>1. Call("subtract", a, b, 0, "DOWN", Subtract(a, b))
    BY <1>3 DEF CallSubtract
  <2> QED
    BY <2>1, <1>1, CallIs, SumIs
<1>4. CASE CallMultiply(a, b)
  <2>1. Call("multiply", a, b, 0, "DOWN", Multiply(a, b))
    BY <1>4 DEF CallMultiply
  <2> QED
    BY <2>1, <1>1, CallIs, ProductIs
<1>5. CASE CallCompare(a, b)
  <2> DEFINE n == Compare(a, b)
             d == [coefficient |-> n, scale |-> 0]
  <2>1. Call("compare", a, b, 0, "DOWN", d)
    BY <1>5 DEF CallCompare
  <2>2. n \in Int /\ d.coefficient = n
    BY <1>1, ComparisonIs
  <2>3. Canonical(d)
    BY <2>2, IntegerIsCanonical
  <2> HIDE DEF d
  <2> QED
    BY <2>1, <2>2, <2>3, <1>1, CallIs, ComparisonIs
<1>6. CASE CallDivide(a, b)
  <2>1. PICK places \in Places, rounding \in Rounding :
          Call("divide", a, b, places, rounding, Divide(a, b, places, rounding))
    BY <1>6 DEF CallDivide
  <2>2. b.coefficient # 0
    BY <1>6 DEF CallDivide
  <2>3. places \in Nat
    BY DecimalAssumption
  <2> DEFINE r == Divide(a, b, places, rounding)
  <2>4. PICK n \in Int :
          /\ r = NormalizeParts(n, places)
          /\ IsRounded(n, (a.coefficient * Pow10(b.scale)) * Pow10(places), b.coefficient * Pow10(a.scale),
                       rounding)
    BY <1>1, <2>2, <2>3, QuotientIs
  <2>5. Canonical(r) /\ r.scale <= places /\ AtScale(r, places) = n
    BY <2>3, <2>4, NormalizePartsIs
  <2> HIDE DEF r
  <2>6. Call("divide", a, b, places, rounding, r)
    BY <2>1 DEF r
  <2> QED
    BY <2>4, <2>5, <2>6, <1>1, CallIs
<1>7. CASE CallQuantize(a, b)
  <2>1. PICK rounding \in Rounding : Call("quantize", a, b, 0, rounding, QuantizeToStep(a, b, rounding))
    BY <1>7 DEF CallQuantize
  <2>2. b.coefficient > 0
    BY <1>7 DEF CallQuantize
  <2> QED
    BY <2>1, <2>2, <1>1, CallIs, QuantumIs
<1> QED
  BY <1>2, <1>3, <1>4, <1>5, <1>6, <1>7

(* Whatever is computed with decimals, of any size and scale, is exact, or *)
(* rounded as asked, and is in the one form of its value.                  *)
THEOREM DecimalsAreExactTheorem == DecimalSpec => []DecimalsAreExact
<1>1. DecimalInit => DecimalsAreExact
  BY NoCallIs DEF DecimalInit
<1>2. DecimalsAreExact /\ [DecimalNext]_decimalVars => DecimalsAreExact'
  <2> SUFFICES ASSUME DecimalsAreExact, [DecimalNext]_decimalVars PROVE DecimalsAreExact'
    OBVIOUS
  <2>1. CASE UNCHANGED decimalVars
    BY <2>1 DEF decimalVars, DecimalsAreExact, DecimalTypeOK, SumsAreExact, QuotientsAreRounded,
                QuantaAreSteps, Left, Right, Scale
  <2>2. CASE Discard
    <3>1. call' = NoCall
      BY <2>2 DEF Discard
    <3>2. call'.f = "none" /\ call'.a = Zero /\ call'.b = Zero /\ call'.result = Zero
      BY <3>1 DEF NoCall
    <3>3. Canonical(Zero)
      BY IntegerIsCanonical DEF Zero
    <3> QED
      BY <3>2, <3>3 DEF DecimalsAreExact, DecimalTypeOK, SumsAreExact, QuotientsAreRounded, QuantaAreSteps
  <2>3. CASE ~Discard /\ DecimalNext
    BY <2>3, CallsAreExact DEF DecimalNext
  <2> QED
    BY <2>1, <2>2, <2>3
<1> QED
  BY <1>1, <1>2, PTL DEF DecimalSpec
=============================================================================
