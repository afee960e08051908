------------------------- MODULE QueueAndCacheProofs -------------------------
(***************************************************************************)
(* Proofs about AccountCommandQueue, for any set of tasks and accounts,    *)
(* and about HistoryCache, for any keys, requests, limits and outages.     *)
(*                                                                         *)
(* The argument for the queue is QueueInv: in order of arrival, an         *)
(* account's tasks are a settled prefix, the task whose turn it is, and    *)
(* waiting tasks.                                                          *)
(*                                                                         *)
(* The argument for the cache is CacheInv: an entry is what a load of its  *)
(* limit gives, and a load is registered from its start to its end or to   *)
(* the next recovery.  That the counted bars are the held ones rests on    *)
(* what BarsOf() adds up, which is proved by induction (InductionLemmas).  *)
(***************************************************************************)
EXTENDS AccountCommandQueue, HistoryCache, InductionLemmas, SequenceTheorems, TLAPS

(* Appending an element: the length, the new last element, the old ones.   *)
LEMMA AppendFacts ==
  ASSUME NEW S, NEW q \in Seq(S), NEW e \in S
  PROVE  /\ Append(q, e) \in Seq(S)
         /\ Len(Append(q, e)) = Len(q) + 1
         /\ Len(q) \in Nat
         /\ Append(q, e)[Len(q) + 1] = e
         /\ \A i \in 1..Len(q) : Append(q, e)[i] = q[i] /\ q[i] \in S
OBVIOUS

LEMMA InitQueueInv == Init => QueueInv
<1> SUFFICES ASSUME Init PROVE QueueInv
  OBVIOUS
<1>1. TypeOK
  <2>1. arrivals \in [Account -> Seq(Task)]
    <3>1. <<>> \in Seq(Task)
      OBVIOUS
    <3> QED
      BY <3>1 DEF Init
  <2> QED
    BY <2>1 DEF Init, TypeOK, Settled, Unsettled
<1>2. \A a \in Account : arrivals[a] = <<>> /\ tails[a] = NoTask /\ Len(arrivals[a]) = 0
  BY DEF Init
<1>3. ArrivalsComplete /\ EveryTaskArrived /\ ChainedInOrder /\ SettledPrefix /\ TailIsLast
  BY <1>2 DEF Init, ArrivalsComplete, EveryTaskArrived, ChainedInOrder, SettledPrefix, TailIsLast
<1>4. BacklogBehindAwaited
  BY DEF Init, BacklogBehindAwaited
<1> QED
  BY <1>1, <1>3, <1>4 DEF QueueInv

(* A step that changes only stages, and never back to "new", keeps the     *)
(* parts of the invariant that speak of who arrived.                       *)
LEMMA StagesMove ==
  ASSUME QueueInv, UNCHANGED <<previous, awaited, draining, arrivals, backlog>>,
         stage' \in [Task -> {"new"} \cup Unsettled \cup Settled],
         \A t \in Task : (stage'[t] = "new") <=> (stage[t] = "new"),
         \A t \in Task : stage[t] \in Settled => stage'[t] \in Settled
  PROVE  ArrivalsComplete' /\ EveryTaskArrived' /\ ChainedInOrder' /\ BacklogBehindAwaited'
<1>1. ArrivalsComplete'
  <2>1. \A a \in Account : \A i \in 1..Len(arrivals[a]) : arrivals[a][i] \in Task
    BY DEF QueueInv, TypeOK
  <2> QED
    BY <2>1 DEF QueueInv, ArrivalsComplete
<1>2. EveryTaskArrived'
  BY DEF QueueInv, EveryTaskArrived
<1>3. ChainedInOrder'
  <2>1. \A a \in Account : \A i \in 1..Len(arrivals[a]) : arrivals[a][i] \in Task
    BY DEF QueueInv, TypeOK
  <2> QED
    BY <2>1 DEF QueueInv, TypeOK, ChainedInOrder
<1>4. BacklogBehindAwaited'
  BY DEF QueueInv, TypeOK, BacklogBehindAwaited
<1> QED
  BY <1>1, <1>2, <1>3, <1>4

LEMMA RunStep ==
  ASSUME QueueInv, NEW t \in Task, Run(t)
  PROVE  QueueInv'
<1> DEFINE a == AccountOf[t]
<1> DEFINE n == Len(arrivals[a])
<1>1. a \in Account /\ arrivals \in [Account -> Seq(Task)]
  BY QueueAccountOf DEF QueueInv, TypeOK
<1>2. /\ arrivals'[a] = Append(arrivals[a], t)
      /\ \A b \in Account : b # a => arrivals'[b] = arrivals[b]
      /\ arrivals' \in [Account -> Seq(Task)]
      /\ tails' = [tails EXCEPT ![a] = t]
      /\ previous' = [previous EXCEPT ![t] = tails[a]]
      /\ stage' = [stage EXCEPT ![t] = "waiting"]
      /\ stage[t] = "new"
  BY <1>1 DEF Run
<1>3. /\ n \in Nat
      /\ Len(arrivals'[a]) = n + 1
      /\ arrivals'[a][n + 1] = t
      /\ \A i \in 1..n : arrivals'[a][i] = arrivals[a][i]
  BY <1>1, <1>2, AppendFacts
<1>4. \A b \in Account : \A i \in 1..Len(arrivals[b]) :
        /\ arrivals[b][i] \in Task
        /\ arrivals[b][i] # t
        /\ stage'[arrivals[b][i]] = stage[arrivals[b][i]]
        /\ previous'[arrivals[b][i]] = previous[arrivals[b][i]]
        /\ arrivals'[b][i] = arrivals[b][i]
  <2> SUFFICES ASSUME NEW b \in Account, NEW i \in 1..Len(arrivals[b])
               PROVE  /\ arrivals[b][i] \in Task
                      /\ arrivals[b][i] # t
                      /\ stage'[arrivals[b][i]] = stage[arrivals[b][i]]
                      /\ previous'[arrivals[b][i]] = previous[arrivals[b][i]]
                      /\ arrivals'[b][i] = arrivals[b][i]
    OBVIOUS
  <2>1. arrivals[b][i] \in Task
    BY <1>1
  <2>2. arrivals[b][i] # t
    BY <1>2 DEF QueueInv, ArrivalsComplete
  <2>3. arrivals'[b][i] = arrivals[b][i]
    BY <1>1, <1>2, <1>3
  <2> QED
    BY <2>1, <2>2, <2>3, <1>2 DEF QueueInv, TypeOK
<1>4a. \A b \in Account : Len(arrivals[b]) \in Nat /\ Len(arrivals'[b]) \in Nat
                          /\ Len(arrivals[b]) <= Len(arrivals'[b])
  <2> SUFFICES ASSUME NEW b \in Account
               PROVE  Len(arrivals[b]) \in Nat /\ Len(arrivals'[b]) \in Nat
                      /\ Len(arrivals[b]) <= Len(arrivals'[b])
    OBVIOUS
  <2>1. Len(arrivals[b]) \in Nat
    BY <1>1
  <2>2. CASE b = a
    BY <2>1, <2>2, <1>3
  <2>3. CASE b # a
    BY <2>1, <2>3, <1>2
  <2> QED
    BY <2>2, <2>3
<1>5. TypeOK'
  BY <1>1, <1>2 DEF QueueInv, TypeOK, Run, Unsettled
<1>6. ArrivalsComplete'
  <2> SUFFICES ASSUME NEW b \in Account
               PROVE  /\ \A i \in 1..Len(arrivals'[b]) :
                           AccountOf[arrivals'[b][i]] = b /\ stage'[arrivals'[b][i]] # "new"
                      /\ \A i, j \in 1..Len(arrivals'[b]) :
                           arrivals'[b][i] = arrivals'[b][j] => i = j
    BY DEF ArrivalsComplete
  <2>1. CASE b = a
    <3>1. stage'[t] # "new"
      BY <1>2 DEF QueueInv, TypeOK
    <3>2. \A i \in 1..(n+1) : i \in 1..n \/ i = n + 1
      BY <1>3
    <3>3. \A i \in 1..(n+1) : AccountOf[arrivals'[a][i]] = a /\ stage'[arrivals'[a][i]] # "new"
      <4>1. \A i \in 1..n : AccountOf[arrivals'[a][i]] = a /\ stage'[arrivals'[a][i]] # "new"
        <5> SUFFICES ASSUME NEW i \in 1..n PROVE AccountOf[arrivals'[a][i]] = a /\ stage'[arrivals'[a][i]] # "new"
          OBVIOUS
        <5>1. i \in 1..Len(arrivals[a])
          OBVIOUS
        <5>2. AccountOf[arrivals[a][i]] = a /\ stage[arrivals[a][i]] # "new"
          BY <1>1, <5>1 DEF QueueInv, ArrivalsComplete
        <5> QED
          BY <1>2, <1>4, <5>1, <5>2
      <4> QED
        BY <1>3, <4>1, <3>1, <3>2
    <3>4. \A i, j \in 1..(n+1) : arrivals'[a][i] = arrivals'[a][j] => i = j
      <4>1. \A i, j \in 1..n : arrivals'[a][i] = arrivals'[a][j] => i = j
        <5>1. \A i, j \in 1..n : arrivals[a][i] = arrivals[a][j] => i = j
          BY <1>1 DEF QueueInv, ArrivalsComplete
        <5> QED
          BY <5>1, <1>3
      <4>2. \A i \in 1..n : arrivals'[a][i] # t
        BY <1>1, <1>4
      <4> QED
        BY <1>3, <4>1, <4>2, <3>2
    <3> QED
      BY <2>1, <1>3, <3>3, <3>4
  <2>2. CASE b # a
    BY <2>2, <1>2, <1>4 DEF QueueInv, ArrivalsComplete
  <2> QED
    BY <2>1, <2>2
<1>7. EveryTaskArrived'
  <2> SUFFICES ASSUME NEW u \in Task, stage'[u] # "new"
               PROVE  \E i \in 1..Len(arrivals'[AccountOf[u]]) : arrivals'[AccountOf[u]][i] = u
    BY DEF EveryTaskArrived
  <2>0. AccountOf[u] \in Account
    BY QueueAccountOf
  <2>1. CASE u = t
    BY <2>1, <1>3
  <2>2. CASE u # t
    <3>1. stage[u] # "new"
      BY <2>2, <1>2 DEF QueueInv, TypeOK
    <3>2. PICK i \in 1..Len(arrivals[AccountOf[u]]) : arrivals[AccountOf[u]][i] = u
      BY <3>1 DEF QueueInv, EveryTaskArrived
    <3>3. i \in 1..Len(arrivals'[AccountOf[u]])
      BY <3>2, <1>2, <1>3, <2>0
    <3> QED
      BY <3>2, <3>3, <1>4, <2>0
  <2> QED
    BY <2>1, <2>2
<1>8. ChainedInOrder' /\ SettledPrefix'
  <2> SUFFICES ASSUME NEW b \in Account, NEW i \in 1..Len(arrivals'[b])
               PROVE  /\ IF previous'[arrivals'[b][i]] = NoTask
                           THEN \A j \in 1..(i-1) : stage'[arrivals'[b][j]] \in Settled
                           ELSE i > 1 /\ previous'[arrivals'[b][i]] = arrivals'[b][i-1]
                      /\ stage'[arrivals'[b][i]] # "waiting"
                           => \A j \in 1..(i-1) : stage'[arrivals'[b][j]] \in Settled
    BY DEF ChainedInOrder, SettledPrefix
  <2>1. CASE i \in 1..Len(arrivals[b])
    <3>2. \A j \in 1..(i-1) : j \in 1..Len(arrivals[b])
      BY <2>1, <1>1
    <3>3. i > 1 => (i - 1) \in 1..Len(arrivals[b])
      BY <2>1, <1>1
    <3>4. /\ arrivals'[b][i] = arrivals[b][i]
          /\ stage'[arrivals'[b][i]] = stage[arrivals[b][i]]
          /\ previous'[arrivals'[b][i]] = previous[arrivals[b][i]]
      BY <2>1, <1>4
    <3>5. \A j \in 1..(i-1) : stage'[arrivals'[b][j]] = stage[arrivals[b][j]]
      BY <3>2, <1>4
    <3>6. i > 1 => arrivals'[b][i-1] = arrivals[b][i-1]
      BY <3>3, <1>4
    <3>7. IF previous[arrivals[b][i]] = NoTask
            THEN \A j \in 1..(i-1) : stage[arrivals[b][j]] \in Settled
            ELSE i > 1 /\ previous[arrivals[b][i]] = arrivals[b][i-1]
      BY <2>1 DEF QueueInv, ChainedInOrder
    <3>8. stage[arrivals[b][i]] # "waiting"
            => \A j \in 1..(i-1) : stage[arrivals[b][j]] \in Settled
      BY <2>1 DEF QueueInv, SettledPrefix
    <3> QED
      BY <3>4, <3>5, <3>6, <3>7, <3>8
  <2>2. CASE b = a /\ i = n + 1
    <3>1. arrivals'[b][i] = t /\ previous'[t] = tails[a] /\ stage'[t] = "waiting"
      BY <2>2, <1>2, <1>3 DEF QueueInv, TypeOK
    <3>2. CASE tails[a] = NoTask
      <4>1. \A j \in 1..n : stage'[arrivals'[a][j]] \in Settled
        BY <1>1, <1>4, <3>2 DEF QueueInv, TailIsLast
      <4> QED
        BY <2>2, <3>1, <3>2, <4>1, <1>3
    <3>3. CASE tails[a] # NoTask
      <4>1. n > 0 /\ tails[a] = arrivals[a][n]
        BY <1>1, <1>3, <3>3 DEF QueueInv, TailIsLast
      <4> QED
        BY <2>2, <3>1, <3>3, <4>1, <1>3
    <3> QED
      BY <3>2, <3>3
  <2> QED
    BY <2>1, <2>2, <1>2, <1>3
<1>9. TailIsLast'
  <2> SUFFICES ASSUME NEW b \in Account
               PROVE  IF tails'[b] = NoTask
                        THEN \A i \in 1..Len(arrivals'[b]) : stage'[arrivals'[b][i]] \in Settled
                        ELSE /\ arrivals'[b] # <<>>
                             /\ tails'[b] = arrivals'[b][Len(arrivals'[b])]
    BY DEF TailIsLast
  <2>1. CASE b = a
    <3>1. tails'[b] = t
      BY <2>1, <1>1, <1>2 DEF QueueInv, TypeOK
    <3>2. arrivals'[b] # <<>>
      BY <2>1, <1>3
    <3> QED
      BY <2>1, <3>1, <3>2, <1>3, QueueNoTask
  <2>2. CASE b # a
    BY <2>2, <1>1, <1>2, <1>4 DEF QueueInv, TypeOK, TailIsLast
  <2> QED
    BY <2>1, <2>2
<1>10. BacklogBehindAwaited'
  <2> SUFFICES ASSUME draining, NEW u \in backlog, stage'[u] \notin Settled
               PROVE  \E b \in Account : \E j \in 1..Len(arrivals'[b]) : \E i \in 1..j :
                        arrivals'[b][j] \in awaited /\ arrivals'[b][i] = u
    BY DEF BacklogBehindAwaited, Run
  <2>1. u \in Task /\ stage[u] \notin Settled
    BY <1>2 DEF QueueInv, TypeOK, Settled
  <2>2a. PICK b \in Account : \E j \in 1..Len(arrivals[b]) : \E i \in 1..j :
          arrivals[b][j] \in awaited /\ arrivals[b][i] = u
    BY <2>1 DEF QueueInv, BacklogBehindAwaited
  <2>2. PICK j \in 1..Len(arrivals[b]) : \E i \in 1..j :
          arrivals[b][j] \in awaited /\ arrivals[b][i] = u
    BY <2>2a
  <2>3. PICK i \in 1..j : arrivals[b][j] \in awaited /\ arrivals[b][i] = u
    BY <2>2
  <2>4. j \in 1..Len(arrivals'[b]) /\ i \in 1..Len(arrivals[b])
    BY <2>2, <2>3, <1>4a
  <2> QED
    BY <2>2, <2>3, <2>4, <1>4
<1> QED
  BY <1>5, <1>6, <1>7, <1>8, <1>9, <1>10 DEF QueueInv

LEMMA StartStep ==
  ASSUME QueueInv, NEW t \in Task, Start(t)
  PROVE  QueueInv'
<1>1. /\ stage' = [stage EXCEPT ![t] = "running"]
      /\ stage[t] = "waiting"
      /\ UNCHANGED <<tails, previous, cleaned, awaited, draining, arrivals, backlog>>
  BY DEF Start
<1>2. TypeOK'
  BY <1>1 DEF QueueInv, TypeOK, Unsettled
<1>3. /\ \A u \in Task : (stage'[u] = "new") <=> (stage[u] = "new")
      /\ \A u \in Task : stage'[u] \in Settled <=> stage[u] \in Settled
  BY <1>1 DEF QueueInv, TypeOK, Settled
<1>4. ArrivalsComplete' /\ EveryTaskArrived' /\ ChainedInOrder' /\ BacklogBehindAwaited'
  BY <1>1, <1>2, <1>3, StagesMove DEF TypeOK
<1>5. \A a \in Account : \A i \in 1..Len(arrivals[a]) : arrivals[a][i] \in Task
  BY DEF QueueInv, TypeOK
<1>6. SettledPrefix'
  <2> SUFFICES ASSUME NEW a \in Account, NEW i \in 1..Len(arrivals[a]),
                      stage'[arrivals[a][i]] # "waiting",
                      NEW j \in 1..(i-1)
               PROVE  stage'[arrivals[a][j]] \in Settled
    BY <1>1 DEF SettledPrefix
  <2>0. j \in 1..Len(arrivals[a]) /\ arrivals[a] \in Seq(Task)
    BY DEF QueueInv, TypeOK
  <2>1. CASE arrivals[a][i] # t
    BY <2>1, <2>0, <1>1, <1>3, <1>5 DEF QueueInv, TypeOK, SettledPrefix
  <2>2. CASE arrivals[a][i] = t
    <3>1. CASE previous[t] = NoTask
      BY <3>1, <2>2, <2>0, <1>3, <1>5 DEF QueueInv, ChainedInOrder
    <3>2. CASE previous[t] # NoTask
      <4>1. i > 1 /\ previous[t] = arrivals[a][i-1] /\ (i-1) \in 1..Len(arrivals[a])
        BY <3>2, <2>2, <2>0 DEF QueueInv, ChainedInOrder
      <4>2. stage[arrivals[a][i-1]] \in Settled
        BY <3>2, <4>1 DEF Start, PreviousSettled
      <4>3. stage[arrivals[a][i-1]] # "waiting"
        BY <4>2 DEF Settled
      <4>4. \A k \in 1..(i-1-1) : stage[arrivals[a][k]] \in Settled
        BY <4>1, <4>3 DEF QueueInv, SettledPrefix
      <4>5. j = i - 1 \/ j \in 1..(i-1-1)
        OBVIOUS
      <4> QED
        BY <4>2, <4>4, <4>5, <2>0, <1>3, <1>5
    <3> QED
      BY <3>1, <3>2
  <2> QED
    BY <2>1, <2>2
<1>7. TailIsLast'
  BY <1>1, <1>3, <1>5 DEF QueueInv, TailIsLast
<1> QED
  BY <1>2, <1>4, <1>6, <1>7 DEF QueueInv

LEMMA SettleStep ==
  ASSUME QueueInv, NEW t \in Task, Settle(t)
  PROVE  QueueInv'
<1>1. PICK outcome \in Settled :
        /\ stage' = [stage EXCEPT ![t] = outcome]
        /\ stage[t] = "running"
        /\ UNCHANGED <<tails, previous, cleaned, awaited, draining, arrivals, backlog>>
  BY DEF Settle
<1>2. TypeOK'
  BY <1>1 DEF QueueInv, TypeOK
<1>3. /\ \A u \in Task : (stage'[u] = "new") <=> (stage[u] = "new")
      /\ \A u \in Task : stage[u] \in Settled => stage'[u] \in Settled
      /\ \A u \in Task : (stage'[u] = "waiting") <=> (stage[u] = "waiting")
  BY <1>1 DEF QueueInv, TypeOK, Settled
<1>4. ArrivalsComplete' /\ EveryTaskArrived' /\ ChainedInOrder' /\ BacklogBehindAwaited'
  BY <1>1, <1>2, <1>3, StagesMove DEF TypeOK
<1>5. \A a \in Account : arrivals[a] \in Seq(Task)
  BY DEF QueueInv, TypeOK
<1>6. SettledPrefix'
  BY <1>1, <1>3, <1>5 DEF QueueInv, SettledPrefix
<1>7. TailIsLast'
  BY <1>1, <1>3, <1>5 DEF QueueInv, TailIsLast
<1> QED
  BY <1>2, <1>4, <1>6, <1>7 DEF QueueInv

LEMMA CleanupStep ==
  ASSUME QueueInv, NEW t \in Task, Cleanup(t)
  PROVE  QueueInv'
<1>1. /\ stage[t] \in Settled
      /\ cleaned' = cleaned \cup {t}
      /\ tails' = [tails EXCEPT ![AccountOf[t]] = IF @ = t THEN NoTask ELSE @]
      /\ UNCHANGED <<previous, stage, awaited, draining, arrivals, backlog>>
  BY DEF Cleanup
<1>2. TypeOK'
  BY <1>1 DEF QueueInv, TypeOK
<1>3. ArrivalsComplete' /\ EveryTaskArrived' /\ ChainedInOrder' /\ BacklogBehindAwaited'
      /\ SettledPrefix'
  BY <1>1 DEF QueueInv, ArrivalsComplete, EveryTaskArrived, ChainedInOrder,
              BacklogBehindAwaited, SettledPrefix
<1>4. TailIsLast'
  <2> SUFFICES ASSUME NEW a \in Account
               PROVE  IF tails'[a] = NoTask
                        THEN \A i \in 1..Len(arrivals[a]) : stage[arrivals[a][i]] \in Settled
                        ELSE arrivals[a] # <<>> /\ tails'[a] = arrivals[a][Len(arrivals[a])]
    BY <1>1 DEF TailIsLast
  <2>1. CASE tails'[a] = tails[a]
    BY <2>1 DEF QueueInv, TailIsLast
  <2>2. CASE tails'[a] # tails[a]
    <3>1. tails[a] = t /\ tails'[a] = NoTask /\ t # NoTask
      BY <2>2, <1>1, QueueNoTask DEF QueueInv, TypeOK
    <3>2. arrivals[a] # <<>> /\ t = arrivals[a][Len(arrivals[a])] /\ arrivals[a] \in Seq(Task)
      BY <3>1 DEF QueueInv, TypeOK, TailIsLast
    <3>3. Len(arrivals[a]) \in 1..Len(arrivals[a])
      BY <3>2
    <3>4. \A j \in 1..(Len(arrivals[a]) - 1) : stage[arrivals[a][j]] \in Settled
      BY <1>1, <3>2, <3>3 DEF QueueInv, SettledPrefix, Settled
    <3>5. \A i \in 1..Len(arrivals[a]) : i = Len(arrivals[a]) \/ i \in 1..(Len(arrivals[a]) - 1)
      BY <3>2
    <3> QED
      BY <1>1, <3>1, <3>2, <3>4, <3>5
  <2> QED
    BY <2>1, <2>2
<1> QED
  BY <1>2, <1>3, <1>4 DEF QueueInv

LEMMA DrainStep ==
  ASSUME QueueInv, DrainAll
  PROVE  QueueInv'
<1>1. /\ awaited' = {tails[a] : a \in Account} \ {NoTask}
      /\ backlog' = {u \in Task : stage[u] # "new"}
      /\ draining' = TRUE
      /\ UNCHANGED <<tails, previous, stage, cleaned, arrivals>>
  BY DEF DrainAll
<1>2. TypeOK'
  BY <1>1 DEF QueueInv, TypeOK
<1>3. ArrivalsComplete' /\ EveryTaskArrived' /\ ChainedInOrder' /\ SettledPrefix' /\ TailIsLast'
  BY <1>1 DEF QueueInv, ArrivalsComplete, EveryTaskArrived, ChainedInOrder,
              SettledPrefix, TailIsLast
<1>4. BacklogBehindAwaited'
  <2> SUFFICES ASSUME NEW u \in Task, stage[u] # "new", stage[u] \notin Settled
               PROVE  \E a \in Account : \E j \in 1..Len(arrivals[a]) : \E i \in 1..j :
                        arrivals[a][j] \in awaited' /\ arrivals[a][i] = u
    BY <1>1 DEF BacklogBehindAwaited
  <2> DEFINE a == AccountOf[u]
  <2>1. a \in Account /\ arrivals[a] \in Seq(Task)
    BY QueueAccountOf DEF QueueInv, TypeOK
  <2>2. PICK i \in 1..Len(arrivals[a]) : arrivals[a][i] = u
    BY DEF QueueInv, EveryTaskArrived
  <2>3. tails[a] # NoTask /\ tails[a] = arrivals[a][Len(arrivals[a])]
    BY <2>1, <2>2 DEF QueueInv, TailIsLast
  <2>4. tails[a] \in awaited'
    BY <1>1, <2>1, <2>3
  <2>5. Len(arrivals[a]) \in 1..Len(arrivals[a]) /\ i \in 1..Len(arrivals[a])
    BY <2>1, <2>2
  <2> QED
    BY <2>1, <2>2, <2>3, <2>4, <2>5
<1> QED
  BY <1>2, <1>3, <1>4 DEF QueueInv

(***************************************************************************)
(* The chain of promises behaves as the invariant says, in every           *)
(* reachable state.                                                        *)
(***************************************************************************)
THEOREM QueueInvariant == Spec => []QueueInv
<1>1. Init => QueueInv
  BY InitQueueInv
<1>2. QueueInv /\ [Next]_vars => QueueInv'
  <2> SUFFICES ASSUME QueueInv, [Next]_vars
               PROVE  QueueInv'
    OBVIOUS
  <2>1. ASSUME NEW t \in Task, Run(t) PROVE QueueInv'
    BY <2>1, RunStep
  <2>2. ASSUME NEW t \in Task, Start(t) PROVE QueueInv'
    BY <2>2, StartStep
  <2>3. ASSUME NEW t \in Task, Settle(t) PROVE QueueInv'
    BY <2>3, SettleStep
  <2>4. ASSUME NEW t \in Task, Cleanup(t) PROVE QueueInv'
    BY <2>4, CleanupStep
  <2>5. CASE DrainAll
    BY <2>5, DrainStep
  <2>6. CASE UNCHANGED vars
    BY <2>6 DEF vars, QueueInv, TypeOK, ArrivalsComplete, EveryTaskArrived, ChainedInOrder,
                SettledPrefix, TailIsLast, BacklogBehindAwaited
  <2> QED
    BY <2>1, <2>2, <2>3, <2>4, <2>5, <2>6 DEF Next
<1> QED
  BY <1>1, <1>2, PTL DEF Spec

(***************************************************************************)
(* The entry of the map: its command is one of the account's that was      *)
(* submitted and not cleaned up, and only settled commands are cleaned up. *)
(***************************************************************************)
TailInv ==
  /\ \A a \in Account : tails[a] # NoTask =>
       tails[a] \notin cleaned /\ AccountOf[tails[a]] = a /\ stage[tails[a]] # "new"
  /\ \A t \in cleaned : stage[t] \in Settled

LEMMA TailInvIsInductive ==
  ASSUME TypeOK, TailInv, [Next]_vars
  PROVE  TailInv'
<1>1. ASSUME NEW t \in Task, Run(t) PROVE TailInv'
  <2>1. AccountOf[t] \in Account /\ t \notin cleaned /\ cleaned' = cleaned
    BY <1>1, QueueAccountOf DEF Run, TailInv, Settled
  <2>2. stage'[t] = "waiting" /\ \A u \in Task : u # t => stage'[u] = stage[u]
    BY <1>1 DEF Run, TypeOK
  <2>3. \A a \in Account : tails'[a] = IF a = AccountOf[t] THEN t ELSE tails[a]
    BY <1>1 DEF Run, TypeOK
  <2>4. \A a \in Account : tails'[a] # NoTask =>
          tails'[a] \notin cleaned /\ AccountOf[tails'[a]] = a /\ stage'[tails'[a]] # "new"
    BY <2>1, <2>2, <2>3 DEF TailInv, TypeOK
  <2>5. \A u \in cleaned : stage'[u] \in Settled
    BY <2>1, <2>2 DEF TailInv, TypeOK
  <2> QED
    BY <2>1, <2>4, <2>5 DEF TailInv
<1>2. ASSUME NEW t \in Task, Start(t) \/ Settle(t) PROVE TailInv'
  <2>1. t \notin cleaned /\ tails' = tails /\ cleaned' = cleaned
    BY <1>2 DEF Start, Settle, TailInv, Settled
  <2>2. stage'[t] # "new" /\ \A u \in Task : u # t => stage'[u] = stage[u]
    BY <1>2 DEF Start, Settle, TypeOK, Settled
  <2> QED
    BY <2>1, <2>2 DEF TailInv, TypeOK
<1>3. ASSUME NEW t \in Task, Cleanup(t) PROVE TailInv'
  <2>1. stage[t] \in Settled /\ stage' = stage /\ cleaned' = cleaned \cup {t}
    BY <1>3 DEF Cleanup
  <2>2. \A a \in Account : tails'[a] # NoTask => tails'[a] = tails[a] /\ tails[a] # t
    <3> SUFFICES ASSUME NEW a \in Account, tails'[a] # NoTask
                 PROVE  tails'[a] = tails[a] /\ tails[a] # t
      OBVIOUS
    <3>1. tails'[a] = IF a = AccountOf[t] /\ tails[a] = t THEN NoTask ELSE tails[a]
      BY <1>3 DEF Cleanup, TypeOK
    <3> QED
      BY <3>1 DEF TailInv
  <2> QED
    BY <2>1, <2>2 DEF TailInv
<1>4. CASE DrainAll
  BY <1>4 DEF DrainAll, TailInv
<1>5. CASE UNCHANGED vars
  BY <1>5 DEF vars, TailInv
<1> QED
  BY <1>1, <1>2, <1>3, <1>4, <1>5 DEF Next

(***************************************************************************)
(* Commands of one account never overlap, whatever the number of tasks and *)
(* however they settle, and the map has an entry exactly for the accounts  *)
(* with work: the queue is a lock per account (account-command-queue.js).  *)
(***************************************************************************)
THEOREM QueueIsALock == Spec => []QueueIsSound
<1>1. QueueInv => MutualExclusion
  <2> SUFFICES ASSUME QueueInv, NEW t \in Task, NEW u \in Task, t # u,
                      AccountOf[t] = AccountOf[u], stage[t] = "running", stage[u] = "running"
               PROVE  FALSE
    BY DEF MutualExclusion
  <2> DEFINE a == AccountOf[t]
  <2>1. a \in Account /\ arrivals[a] \in Seq(Task)
    BY QueueAccountOf DEF QueueInv, TypeOK
  <2>2. PICK i \in 1..Len(arrivals[a]) : arrivals[a][i] = t
    BY DEF QueueInv, EveryTaskArrived
  <2>3. PICK j \in 1..Len(arrivals[a]) : arrivals[a][j] = u
    BY DEF QueueInv, EveryTaskArrived
  <2>4. i \in 1..(j-1) \/ j \in 1..(i-1)
    BY <2>2, <2>3
  <2> QED
    BY <2>1, <2>2, <2>3, <2>4 DEF QueueInv, SettledPrefix, Settled
<1>2. Init => TailInv
  BY DEF Init, TailInv
<1>3. QueueInv /\ TailInv /\ [Next]_vars => TailInv'
  BY TailInvIsInductive DEF QueueInv
<1>4. QueueInv /\ TailInv => TailTracksPending
  <2> SUFFICES ASSUME QueueInv, TailInv, NEW a \in Account
               PROVE  LET own == {t \in Task : AccountOf[t] = a /\ stage[t] # "new"}
                      IN  /\ (\E t \in own : stage[t] \in Unsettled) => tails[a] # NoTask
                          /\ own \subseteq cleaned => tails[a] = NoTask
    BY DEF TailTracksPending
  <2> DEFINE own == {t \in Task : AccountOf[t] = a /\ stage[t] # "new"}
  <2>1. ASSUME NEW t \in own, stage[t] \in Unsettled, tails[a] = NoTask PROVE FALSE
    <3>1. PICK i \in 1..Len(arrivals[a]) : arrivals[a][i] = t
      BY <2>1 DEF QueueInv, EveryTaskArrived
    <3>2. stage[t] \in Settled
      BY <2>1, <3>1 DEF QueueInv, TailIsLast
    <3> QED
      BY <2>1, <3>2 DEF Settled, Unsettled
  <2>2. ASSUME own \subseteq cleaned, tails[a] # NoTask PROVE FALSE
    <3>1. tails[a] \in own
      BY <2>2 DEF QueueInv, TypeOK, TailInv
    <3> QED
      BY <2>2, <3>1 DEF TailInv
  <2> QED
    BY <2>1, <2>2
<1>5. QueueInv => TypeOK
  BY DEF QueueInv
<1> QED
  BY <1>1, <1>2, <1>3, <1>4, <1>5, QueueInvariant, PTL DEF Spec, QueueIsSound

(***************************************************************************)
(* Waiting for the ends of the chains is waiting for the whole backlog: a  *)
(* shutdown that awaits drainAll() leaves no accepted command unfinished.  *)
(***************************************************************************)
THEOREM DrainAllIsComplete == Spec => []DrainCoversBacklog
<1>1. QueueInv => DrainCoversBacklog
  <2> SUFFICES ASSUME QueueInv, draining, \A w \in awaited : stage[w] \in Settled,
                      NEW t \in backlog, stage[t] \notin Settled
               PROVE  FALSE
    BY DEF DrainCoversBacklog
  <2>1a. PICK a \in Account : \E j \in 1..Len(arrivals[a]) : \E i \in 1..j :
          arrivals[a][j] \in awaited /\ arrivals[a][i] = t
    BY DEF QueueInv, BacklogBehindAwaited
  <2>1. PICK j \in 1..Len(arrivals[a]) : \E i \in 1..j :
          arrivals[a][j] \in awaited /\ arrivals[a][i] = t
    BY <2>1a
  <2>2. PICK i \in 1..j : arrivals[a][j] \in awaited /\ arrivals[a][i] = t
    BY <2>1
  <2>3. stage[arrivals[a][j]] \in Settled
    BY <2>2
  <2>4. i = j \/ i \in 1..(j-1)
    BY <2>1, <2>2
  <2> QED
    BY <2>1, <2>2, <2>3, <2>4 DEF QueueInv, SettledPrefix, Settled
<1> QED
  BY <1>1, QueueInvariant, PTL

(***************************************************************************)
(* The refinement.  An account always has a point up to which its arrivals *)
(* have settled and after which none has; it moves when a command settles. *)
(***************************************************************************)
ServedExists == \A a \in Account : \E k \in 0..Len(arrivals[a]) : SettledUpTo(a, k)

LEMMA ServedIs ==
  TypeOK => \A b \in Account : \A k \in 0..Len(arrivals[b]) :
              SettledUpTo(b, k) => Served(b) = k
<1> SUFFICES ASSUME TypeOK, NEW a \in Account, NEW k \in 0..Len(arrivals[a]),
                    SettledUpTo(a, k)
             PROVE  Served(a) = k
  OBVIOUS
<1>1. Len(arrivals[a]) \in Nat
  BY DEF TypeOK
<1>2. ASSUME NEW m \in 0..Len(arrivals[a]), SettledUpTo(a, m) PROVE m = k
  <2>1. CASE m < k
    <3>1. k \in 1..Len(arrivals[a]) /\ ~(k <= m)
      BY <2>1, <1>1
    <3> QED
      BY <1>2, <3>1 DEF SettledUpTo
  <2>2. CASE k < m
    <3>1. m \in 1..Len(arrivals[a]) /\ ~(m <= k)
      BY <2>2, <1>1
    <3> QED
      BY <1>2, <3>1 DEF SettledUpTo
  <2> QED
    BY <2>1, <2>2, <1>1
<1> QED
  BY <1>2 DEF Served

LEMMA ServedIsNext ==
  (TypeOK => \A b \in Account : \A k \in 0..Len(arrivals[b]) :
               SettledUpTo(b, k) => Served(b) = k)'
BY ServedIs, PTL

(* The line of an account: its length, its head and its tail.              *)
LEMMA LineFacts ==
  ASSUME NEW S, NEW q \in Seq(S), NEW k \in 0..Len(q)
  PROVE  /\ SubSeq(q, k + 1, Len(q)) \in Seq(S)
         /\ \A t \in S : Append(SubSeq(q, k + 1, Len(q)), t)
                           = SubSeq(Append(q, t), k + 1, Len(q) + 1)
         /\ k < Len(q) => /\ SubSeq(q, k + 1, Len(q)) # <<>>
                          /\ Head(SubSeq(q, k + 1, Len(q))) = q[k + 1]
                          /\ Tail(SubSeq(q, k + 1, Len(q))) = SubSeq(q, k + 2, Len(q))
<1>1. Len(q) \in Nat /\ k \in Int /\ k + 1 \in Int /\ \A i \in 1..Len(q) : q[i] \in S
  OBVIOUS
<1>2. \A i \in (k+1)..Len(q) : q[i] \in S
  BY <1>1
<1>3. /\ SubSeq(q, k + 1, Len(q)) \in Seq(S)
      /\ Len(SubSeq(q, k + 1, Len(q))) = Len(q) - k
      /\ \A i \in 1..(Len(q) - k) : SubSeq(q, k + 1, Len(q))[i] = q[k + i]
  <2> DEFINE r == SubSeq(q, k + 1, Len(q))
  <2>1. /\ r \in Seq(S)
        /\ Len(r) = IF k + 1 <= Len(q) THEN Len(q) - (k + 1) + 1 ELSE 0
        /\ \A i \in 1..(Len(q) - (k + 1) + 1) : r[i] = q[k + 1 + i - 1]
    BY <1>1, <1>2, SubSeqProperties
  <2> HIDE DEF r
  <2> QED
    BY <2>1, <1>1 DEF r
<1>4. ASSUME NEW t \in S
      PROVE  Append(SubSeq(q, k + 1, Len(q)), t) = SubSeq(Append(q, t), k + 1, Len(q) + 1)
  <2> DEFINE p == Append(q, t)
             r == SubSeq(q, k + 1, Len(q))
             v == SubSeq(p, k + 1, Len(q) + 1)
             u == Append(r, t)
  <2>1. /\ p \in Seq(S)
        /\ Len(p) = Len(q) + 1
        /\ \A i \in 1..Len(q) : p[i] = q[i]
        /\ p[Len(q) + 1] = t
    BY AppendFacts
  <2>2. /\ u \in Seq(S)
        /\ Len(u) = Len(r) + 1
        /\ \A i \in 1..Len(r) : u[i] = r[i]
        /\ u[Len(r) + 1] = t
    <3>1. r \in Seq(S)
      BY <1>3
    <3> HIDE DEF r
    <3> QED
      BY <3>1, AppendFacts
  <2>3. \A i \in (k + 1)..(Len(q) + 1) : p[i] \in S
    BY <1>1, <2>1
  <2>4. /\ v \in Seq(S)
        /\ Len(v) = Len(q) - k + 1
        /\ \A i \in 1..(Len(q) - k + 1) : v[i] = p[k + i]
    <3> HIDE DEF p
    <3>1. /\ v \in Seq(S)
          /\ Len(v) = IF k + 1 <= Len(q) + 1 THEN Len(q) + 1 - (k + 1) + 1 ELSE 0
          /\ \A i \in 1..(Len(q) + 1 - (k + 1) + 1) : v[i] = p[k + 1 + i - 1]
      <4>1. Len(q) + 1 \in Int
        BY <1>1
      <4> QED
        BY <1>1, <2>3, <4>1, SubSeqProperties
    <3> HIDE DEF v
    <3>2. Len(v) = Len(q) - k + 1 /\ Len(q) + 1 - (k + 1) + 1 = Len(q) - k + 1
      BY <3>1, <1>1
    <3>3. ASSUME NEW i \in 1..(Len(q) - k + 1) PROVE v[i] = p[k + i]
      <4>1. k + 1 + i - 1 = k + i
        BY <1>1
      <4>2. v[i] = p[k + 1 + i - 1]
        BY <3>1, <3>2
      <4> QED
        BY <4>1, <4>2
    <3> QED
      BY <3>1, <3>2, <3>3
  <2>5. Len(u) = Len(v)
    BY <2>2, <2>4, <1>3, <1>1
  <2>6. \A i \in 1..Len(v) : u[i] = v[i]
    <3> HIDE DEF p, r, u, v
    <3> SUFFICES ASSUME NEW i \in 1..(Len(q) - k + 1) PROVE u[i] = v[i]
      BY <2>4
    <3>0. Len(r) = Len(q) - k /\ \A j \in 1..(Len(q) - k) : r[j] = q[k + j]
      BY <1>3 DEF r
    <3>1. CASE i \in 1..(Len(q) - k)
      <4>1. k + i \in 1..Len(q)
        BY <3>1, <1>1
      <4> QED
        BY <3>0, <3>1, <4>1, <2>1, <2>2, <2>4
    <3>2. CASE i = Len(q) - k + 1
      <4>1. k + i = Len(q) + 1
        BY <3>2, <1>1
      <4> QED
        BY <3>0, <3>2, <4>1, <2>1, <2>2, <2>4
    <3> QED
      BY <3>1, <3>2, <1>1
  <2> HIDE DEF p, r, u, v
  <2>7. u = v
    BY <2>2, <2>4, <2>5, <2>6
  <2> QED
    BY <2>7 DEF u, v, r, p
<1>5. ASSUME k < Len(q)
      PROVE  /\ SubSeq(q, k + 1, Len(q)) # <<>>
             /\ Head(SubSeq(q, k + 1, Len(q))) = q[k + 1]
             /\ Tail(SubSeq(q, k + 1, Len(q))) = SubSeq(q, k + 2, Len(q))
  <2> DEFINE m == k + 1
             n == k + 2
  <2>1. m \in 1..Len(q) /\ Len(q) \in m..Len(q) /\ m + 1 = n
    BY <1>1, <1>5
  <2>2. Len(SubSeq(q, m, Len(q))) # 0
    BY <1>1, <1>3, <1>5
  <2> HIDE DEF m, n
  <2>3. /\ Head(SubSeq(q, m, Len(q))) = q[m]
        /\ Tail(SubSeq(q, m, Len(q))) = SubSeq(q, m + 1, Len(q))
    BY <2>1, HeadTailOfSubSeq
  <2>4. Tail(SubSeq(q, m, Len(q))) = SubSeq(q, n, Len(q))
    BY <2>1, <2>3
  <2>5. SubSeq(q, m, Len(q)) # <<>>
    <3>1. Len(<<>>) = 0
      OBVIOUS
    <3> QED
      BY <2>2, <3>1, Zenon
  <2> QED
    BY <2>3, <2>4, <2>5 DEF m, n
<1> QED
  BY <1>3, <1>4, <1>5

(* A step that neither adds an arrival nor settles one leaves the lines.   *)
LEMMA LinesStay ==
  ASSUME TypeOK, TypeOK', ServedExists, UNCHANGED arrivals,
         \A t \in Task : stage'[t] \in Settled <=> stage[t] \in Settled
  PROVE  ServedExists' /\ Lines' = Lines
<1>1. ASSUME NEW a \in Account
      PROVE  Served(a)' = Served(a) /\ \E k \in 0..Len(arrivals'[a]) : SettledUpTo(a, k)'
  <2>1. PICK k \in 0..Len(arrivals[a]) : SettledUpTo(a, k)
    BY DEF ServedExists
  <2>2. \A i \in 1..Len(arrivals[a]) : arrivals[a][i] \in Task
    BY DEF TypeOK
  <2>3. SettledUpTo(a, k)'
    BY <2>1, <2>2 DEF SettledUpTo
  <2>4. Served(a) = k
    BY <2>1, ServedIs
  <2>5. Served(a)' = k
    BY <2>3, ServedIsNext
  <2> QED
    BY <2>3, <2>4, <2>5
<1>2. Lines' = Lines
  BY <1>1 DEF Lines
<1> QED
  BY <1>1, <1>2 DEF ServedExists

(* run() puts the command at the end of its account's line.                *)
LEMMA RunSubmits ==
  ASSUME QueueInv, TypeOK', ServedExists, NEW t \in Task, Run(t)
  PROVE  ServedExists' /\ Serial!Submit(t)
<1> DEFINE a == AccountOf[t]
           n == Len(arrivals[a])
<1>1. a \in Account /\ arrivals \in [Account -> Seq(Task)] /\ arrivals[a] \in Seq(Task)
  BY QueueAccountOf DEF QueueInv, TypeOK
<1>2. /\ arrivals'[a] = Append(arrivals[a], t)
      /\ \A b \in Account : b # a => arrivals'[b] = arrivals[b]
      /\ stage' = [stage EXCEPT ![t] = "waiting"]
      /\ stage[t] = "new"
  BY <1>1 DEF Run
<1>3. /\ n \in Nat
      /\ Len(arrivals'[a]) = n + 1
      /\ arrivals'[a][n + 1] = t
      /\ \A i \in 1..n : arrivals'[a][i] = arrivals[a][i]
  BY <1>1, <1>2, AppendFacts
<1>4. \A b \in Account : \A i \in 1..Len(arrivals[b]) :
        stage'[arrivals[b][i]] = stage[arrivals[b][i]]
  <2>1. \A b \in Account : \A i \in 1..Len(arrivals[b]) :
          arrivals[b][i] \in Task /\ arrivals[b][i] # t
    BY <1>2 DEF QueueInv, TypeOK, ArrivalsComplete
  <2> QED
    BY <1>2, <2>1 DEF QueueInv, TypeOK
<1>5. stage'[t] \notin Settled
  BY <1>2 DEF QueueInv, TypeOK, Settled
<1>6. ASSUME NEW b \in Account
      PROVE  /\ Served(b) \in 0..Len(arrivals[b])
             /\ Served(b)' = Served(b)
             /\ \E k \in 0..Len(arrivals'[b]) : SettledUpTo(b, k)'
  <2>1. PICK k \in 0..Len(arrivals[b]) : SettledUpTo(b, k)
    BY DEF ServedExists
  <2>2. Served(b) = k
    BY <2>1, ServedIs DEF QueueInv
  <2>3. SettledUpTo(b, k)' /\ k \in 0..Len(arrivals'[b])
    <3>1. CASE b # a
      BY <3>1, <1>2, <1>4, <2>1 DEF SettledUpTo
    <3>2. CASE b = a
      <4>1. k \in 0..(n + 1)
        BY <3>2, <2>1, <1>3
      <4>2. ASSUME NEW i \in 1..(n + 1)
            PROVE  stage'[arrivals'[a][i]] \in Settled <=> i <= k
        <5>1. CASE i \in 1..n
          BY <5>1, <3>2, <2>1, <1>3, <1>4, <1>1 DEF SettledUpTo
        <5>2. CASE i = n + 1
          <6>1. ~(i <= k)
            BY <5>2, <3>2, <2>1, <1>3
          <6> QED
            BY <5>2, <6>1, <1>3, <1>5
        <5> QED
          BY <5>1, <5>2, <1>3
      <4> QED
        BY <4>1, <4>2, <3>2, <1>3 DEF SettledUpTo
    <3> QED
      BY <3>1, <3>2
  <2>4. Served(b)' = k
    BY <2>3, ServedIsNext
  <2> QED
    BY <2>1, <2>2, <2>3, <2>4
<1>7. ServedExists'
  BY <1>6 DEF ServedExists
<1>8. Lines' = [Lines EXCEPT ![a] = Append(@, t)]
  <2> DEFINE k == Served(a)
  <2>1. k \in 0..n
    BY <1>1, <1>6
  <2>2. Append(SubSeq(arrivals[a], k + 1, n), t) = SubSeq(Append(arrivals[a], t), k + 1, n + 1)
    <3> HIDE DEF k
    <3> QED
      BY <2>1, <1>1, LineFacts
  <2>3. SubSeq(arrivals'[a], Served(a)' + 1, Len(arrivals'[a])) = Append(Lines[a], t)
    BY <2>2, <1>1, <1>2, <1>3, <1>6 DEF Lines
  <2>4. \A b \in Account : b # a =>
          SubSeq(arrivals'[b], Served(b)' + 1, Len(arrivals'[b])) = Lines[b]
    BY <1>2, <1>6 DEF Lines
  <2>5. \A b \in Account : Lines'[b] = IF b = a THEN Append(Lines[a], t) ELSE Lines[b]
    BY <2>3, <2>4 DEF Lines
  <2> QED
    BY <2>5, <1>1 DEF Lines
<1>9. Running' = Running
  <2>1. \A u \in Task : stage'[u] = "running" <=> stage[u] = "running"
    BY <1>2 DEF QueueInv, TypeOK
  <2> QED
    BY <2>1 DEF Running
<1> QED
  BY <1>7, <1>8, <1>9 DEF Serial!Submit

(* The command that begins is the head of its account's line.              *)
LEMMA StartBegins ==
  ASSUME QueueInv, TypeOK', ServedExists, NEW t \in Task, Start(t)
  PROVE  ServedExists' /\ Serial!Begin(t)
<1> DEFINE a == AccountOf[t]
<1>1. a \in Account /\ arrivals[a] \in Seq(Task) /\ Len(arrivals[a]) \in Nat
  BY QueueAccountOf DEF QueueInv, TypeOK
<1>2. /\ stage' = [stage EXCEPT ![t] = "running"]
      /\ stage[t] = "waiting"
      /\ UNCHANGED arrivals
  BY DEF Start
<1>3. \A u \in Task : stage'[u] \in Settled <=> stage[u] \in Settled
  BY <1>2 DEF QueueInv, TypeOK, Settled
<1>4. ServedExists' /\ Lines' = Lines
  BY <1>2, <1>3, LinesStay DEF QueueInv
<1>5. PICK i \in 1..Len(arrivals[a]) : arrivals[a][i] = t
  BY <1>2 DEF QueueInv, EveryTaskArrived
<1>6. \A j \in 1..(i-1) : stage[arrivals[a][j]] \in Settled
  <2>1. CASE previous[t] = NoTask
    BY <2>1, <1>1, <1>5 DEF QueueInv, ChainedInOrder
  <2>2. CASE previous[t] # NoTask
    <3>1. i > 1 /\ previous[t] = arrivals[a][i-1] /\ (i-1) \in 1..Len(arrivals[a])
      BY <2>2, <1>1, <1>5 DEF QueueInv, ChainedInOrder
    <3>2. stage[arrivals[a][i-1]] \in Settled
      BY <2>2, <3>1 DEF Start, PreviousSettled
    <3>3. \A k \in 1..(i-1-1) : stage[arrivals[a][k]] \in Settled
      BY <1>1, <3>1, <3>2 DEF QueueInv, SettledPrefix, Settled
    <3>4. \A j \in 1..(i-1) : j = i - 1 \/ j \in 1..(i-1-1)
      OBVIOUS
    <3> QED
      BY <3>2, <3>3, <3>4
  <2> QED
    BY <2>1, <2>2
<1>7. Served(a) = i - 1
  <2>1. i - 1 \in 0..Len(arrivals[a])
    BY <1>1, <1>5
  <2>2. ASSUME NEW m \in 1..Len(arrivals[a])
        PROVE  stage[arrivals[a][m]] \in Settled <=> m <= i - 1
    <3>1. CASE m \in 1..(i-1)
      BY <3>1, <1>6
    <3>2. CASE m = i
      BY <3>2, <1>2, <1>5 DEF Settled
    <3>3. CASE m > i
      <4>1. i \in 1..(m-1)
        BY <3>3
      <4>2. stage[arrivals[a][m]] = "waiting"
        BY <4>1, <1>1, <1>2, <1>5 DEF QueueInv, SettledPrefix, Settled
      <4> QED
        BY <4>2, <3>3 DEF Settled
    <3> QED
      BY <3>1, <3>2, <3>3
  <2>3. SettledUpTo(a, i - 1)
    BY <2>2 DEF SettledUpTo
  <2> QED
    BY <2>1, <2>3, <1>1, ServedIs DEF QueueInv
<1>8. Lines[a] # <<>> /\ Head(Lines[a]) = t
  <2> DEFINE k == Served(a)
  <2>1. k \in 0..Len(arrivals[a]) /\ k < Len(arrivals[a]) /\ k + 1 = i
    BY <1>1, <1>5, <1>7
  <2> HIDE DEF k
  <2>2. /\ SubSeq(arrivals[a], k + 1, Len(arrivals[a])) # <<>>
        /\ Head(SubSeq(arrivals[a], k + 1, Len(arrivals[a]))) = arrivals[a][k + 1]
    BY <2>1, <1>1, LineFacts
  <2> QED
    BY <2>1, <2>2, <1>1, <1>5 DEF Lines, k
<1>9. t \notin Running /\ Running' = Running \cup {t}
  BY <1>2 DEF Running, QueueInv, TypeOK
<1> QED
  BY <1>1, <1>4, <1>8, <1>9 DEF Serial!Begin

(* The command that ends leaves the head of its account's line.            *)
LEMMA SettleFinishes ==
  ASSUME QueueInv, TypeOK', ServedExists, NEW t \in Task, Settle(t)
  PROVE  ServedExists' /\ Serial!Finish(t)
<1> DEFINE a == AccountOf[t]
<1>1. a \in Account /\ arrivals[a] \in Seq(Task) /\ Len(arrivals[a]) \in Nat
  BY QueueAccountOf DEF QueueInv, TypeOK
<1>2. /\ stage[t] = "running"
      /\ stage'[t] \in Settled
      /\ \A u \in Task : u # t => stage'[u] = stage[u]
      /\ UNCHANGED arrivals
  BY DEF Settle, QueueInv, TypeOK
<1>3. PICK i \in 1..Len(arrivals[a]) : arrivals[a][i] = t
  BY <1>2 DEF QueueInv, EveryTaskArrived
<1>4. \A m \in 1..Len(arrivals[a]) : stage[arrivals[a][m]] \in Settled <=> m <= i - 1
  <2> SUFFICES ASSUME NEW m \in 1..Len(arrivals[a])
               PROVE  stage[arrivals[a][m]] \in Settled <=> m <= i - 1
    OBVIOUS
  <2>1. CASE m \in 1..(i-1)
    BY <2>1, <1>1, <1>2, <1>3 DEF QueueInv, SettledPrefix
  <2>2. CASE m = i
    BY <2>2, <1>2, <1>3 DEF Settled
  <2>3. CASE m > i
    <3>1. i \in 1..(m-1)
      BY <2>3
    <3>2. stage[arrivals[a][m]] = "waiting"
      BY <3>1, <1>1, <1>2, <1>3 DEF QueueInv, SettledPrefix, Settled
    <3> QED
      BY <3>2, <2>3 DEF Settled
  <2> QED
    BY <2>1, <2>2, <2>3
<1>5. i - 1 \in 0..Len(arrivals[a]) /\ i \in 0..Len(arrivals[a])
  BY <1>1, <1>3
<1>6. Served(a) = i - 1
  <2>1. SettledUpTo(a, i - 1)
    BY <1>4 DEF SettledUpTo
  <2> QED
    BY <2>1, <1>1, <1>5, ServedIs DEF QueueInv
<1>7. SettledUpTo(a, i)' /\ Served(a)' = i
  <2>1. ASSUME NEW m \in 1..Len(arrivals[a])
        PROVE  stage'[arrivals[a][m]] \in Settled <=> m <= i
    <3>1. arrivals[a][m] \in Task
      BY <1>1
    <3>2. m # i => arrivals[a][m] # t
      BY <1>1, <1>3 DEF QueueInv, ArrivalsComplete
    <3> QED
      BY <3>1, <3>2, <1>2, <1>3, <1>4
  <2>2. SettledUpTo(a, i)'
    BY <2>1, <1>2 DEF SettledUpTo
  <2> QED
    BY <2>2, <1>1, <1>2, <1>5, ServedIsNext
<1>8. ASSUME NEW b \in Account, b # a
      PROVE  /\ Served(b)' = Served(b)
             /\ \E k \in 0..Len(arrivals'[b]) : SettledUpTo(b, k)'
  <2>1. PICK k \in 0..Len(arrivals[b]) : SettledUpTo(b, k)
    BY DEF ServedExists
  <2>2. \A m \in 1..Len(arrivals[b]) : arrivals[b][m] \in Task /\ arrivals[b][m] # t
    BY <1>8 DEF QueueInv, TypeOK, ArrivalsComplete
  <2>3. SettledUpTo(b, k)'
    BY <2>1, <2>2, <1>2 DEF SettledUpTo
  <2>4. Served(b) = k
    BY <2>1, ServedIs DEF QueueInv
  <2>5. Served(b)' = k
    BY <2>3, <1>2, ServedIsNext
  <2> QED
    BY <2>3, <2>4, <2>5, <1>2
<1>9. ServedExists'
  BY <1>2, <1>5, <1>7, <1>8 DEF ServedExists
<1>10. Lines' = [Lines EXCEPT ![a] = Tail(@)]
  <2> DEFINE k == Served(a)
  <2>1. k \in 0..Len(arrivals[a]) /\ k < Len(arrivals[a]) /\ i + 1 = k + 2
    BY <1>1, <1>3, <1>6
  <2>2. Tail(SubSeq(arrivals[a], k + 1, Len(arrivals[a]))) = SubSeq(arrivals[a], k + 2, Len(arrivals[a]))
    <3> HIDE DEF k
    <3> QED
      BY <2>1, <1>1, LineFacts
  <2>3. SubSeq(arrivals'[a], Served(a)' + 1, Len(arrivals'[a])) = Tail(Lines[a])
    <3>1. SubSeq(arrivals'[a], Served(a)' + 1, Len(arrivals'[a]))
            = SubSeq(arrivals[a], k + 2, Len(arrivals[a]))
      BY <2>1, <1>2, <1>7
    <3> QED
      BY <3>1, <2>2, <1>1 DEF Lines
  <2>4. \A b \in Account : b # a =>
          SubSeq(arrivals'[b], Served(b)' + 1, Len(arrivals'[b])) = Lines[b]
    BY <1>2, <1>8 DEF Lines
  <2>5. \A b \in Account : Lines'[b] = IF b = a THEN Tail(Lines[a]) ELSE Lines[b]
    BY <2>3, <2>4 DEF Lines
  <2> QED
    BY <2>5, <1>1 DEF Lines
<1>11. t \in Running /\ Running' = Running \ {t}
  BY <1>2 DEF Running, Settled
<1> QED
  BY <1>9, <1>10, <1>11 DEF Serial!Finish

(***************************************************************************)
(* Every behaviour of the chained promises is one of a queue that serves   *)
(* each account one command at a time, in the order of arrival, whatever   *)
(* the outcome of the earlier ones (account-command-queue.js:8-21).        *)
(***************************************************************************)
THEOREM QueueImplementsSerialExecution == Spec => ImplementsSerialExecution
<1>1. Init => ServedExists /\ Serial!SerialInit
  <2> SUFFICES ASSUME Init PROVE ServedExists /\ Serial!SerialInit
    OBVIOUS
  <2>1. ASSUME NEW a \in Account
        PROVE  SettledUpTo(a, 0) /\ 0 \in 0..Len(arrivals[a]) /\ Lines[a] = <<>>
    <3>1. arrivals[a] = <<>> /\ Len(arrivals[a]) = 0
      BY DEF Init
    <3>2. Served(a) = 0
      BY <3>1 DEF Served, SettledUpTo
    <3>3. SubSeq(arrivals[a], 1, 0) = <<>>
      BY SubSeqEmpty
    <3> QED
      BY <3>1, <3>2, <3>3 DEF SettledUpTo, Lines
  <2>2. Running = {}
    BY DEF Init, Running
  <2>3. Lines = [a \in Account |-> <<>>]
    BY <2>1 DEF Lines
  <2> QED
    BY <2>1, <2>2, <2>3 DEF ServedExists, Serial!SerialInit
<1>2. QueueInv /\ QueueInv' /\ ServedExists /\ [Next]_vars
        => ServedExists' /\ [Serial!SerialNext]_(Serial!serialVars)
  <2> SUFFICES ASSUME QueueInv, QueueInv', ServedExists, [Next]_vars
               PROVE  ServedExists' /\ [Serial!SerialNext]_(Serial!serialVars)
    OBVIOUS
  <2>0. TypeOK /\ TypeOK'
    BY DEF QueueInv
  <2>1. ASSUME NEW t \in Task, Run(t)
        PROVE  ServedExists' /\ [Serial!SerialNext]_(Serial!serialVars)
    BY <2>0, <2>1, RunSubmits DEF Serial!SerialNext
  <2>2. ASSUME NEW t \in Task, Start(t)
        PROVE  ServedExists' /\ [Serial!SerialNext]_(Serial!serialVars)
    BY <2>0, <2>2, StartBegins DEF Serial!SerialNext
  <2>3. ASSUME NEW t \in Task, Settle(t)
        PROVE  ServedExists' /\ [Serial!SerialNext]_(Serial!serialVars)
    BY <2>0, <2>3, SettleFinishes DEF Serial!SerialNext
  <2>4. ASSUME UNCHANGED <<stage, arrivals>>
        PROVE  ServedExists' /\ [Serial!SerialNext]_(Serial!serialVars)
    <3>1. ServedExists' /\ Lines' = Lines
      BY <2>0, <2>4, LinesStay
    <3>2. Running' = Running
      BY <2>4 DEF Running
    <3> QED
      BY <3>1, <3>2 DEF Serial!serialVars
  <2>5. (\E t \in Task : Run(t) \/ Start(t) \/ Settle(t)) \/ UNCHANGED <<stage, arrivals>>
    BY DEF Next, Cleanup, DrainAll, vars
  <2> QED
    BY <2>1, <2>2, <2>3, <2>4, <2>5
<1> QED
  BY <1>1, <1>2, QueueInvariant, PTL DEF Spec, ImplementsSerialExecution, Serial!SerialSpec

-----------------------------------------------------------------------------
(***************************************************************************)
(* HistoryCache: what BarsOf() adds up.                                    *)
(***************************************************************************)
Counts(g, es) ==
  /\ g \in [0 .. Len(es) -> Nat]
  /\ g[0] = 0
  /\ \A n \in 1 .. Len(es) : g[n] = g[n - 1] + es[n].bars

LEMMA EntryFields ==
  ASSUME NEW e \in EntryOf
  PROVE  /\ e.key \in HistoryKey /\ e.limit \in Limit /\ e.exhausted \in BOOLEAN
         /\ e.bars \in Nat /\ e.bars > 0 /\ e.generation \in Generation
BY DEF EntryOf

LEMMA BarsAreCounts ==
  ASSUME NEW es \in Seq(EntryOf)
  PROVE  \E g : Counts(g, es) /\ BarsOf(es) = g[Len(es)]
<1> DEFINE N == Len(es)
           step == [n \in 1 .. N |-> [b \in Nat |-> b + es[n].bars]]
           IsCount(u) == u = [n \in 0 .. N |-> IF n = 0 THEN 0 ELSE u[n - 1] + es[n].bars]
           h == CHOOSE u : IsCount(u)
<1>1. N \in Nat /\ \A n \in 1 .. N : es[n] \in EntryOf
  BY LenProperties, ElementOfSeq
<1>2. \A n \in 1 .. N : es[n].bars \in Nat
  BY <1>1, EntryFields
<1>3. step \in [1 .. N -> [Nat -> Nat]]
  BY <1>2
<1>4. PICK g : Iterates(g, N, Nat, 0, step)
  <2> HIDE DEF step, N
  <2> QED
    BY <1>1, <1>3, IterationExists
<1>5. /\ g \in [0 .. N -> Nat] /\ g[0] = 0
      /\ \A n \in 1 .. N : g[n] = g[n - 1] + es[n].bars
  <2>1. \A n \in 1 .. N : \A b \in Nat : step[n][b] = b + es[n].bars
    OBVIOUS
  <2> HIDE DEF step, N
  <2>2. /\ g \in [0 .. N -> Nat] /\ g[0] = 0
        /\ \A n \in 1 .. N : g[n] = step[n][g[n - 1]]
    BY <1>4 DEF Iterates
  <2>3. \A n \in 1 .. N : g[n - 1] \in Nat
    BY <1>1, <2>2
  <2> QED
    BY <2>1, <2>2, <2>3
<1>6. IsCount(g)
  <2>1. \A n \in 0 .. N : g[n] = IF n = 0 THEN 0 ELSE g[n - 1] + es[n].bars
    BY <1>1, <1>5
  <2> QED
    BY <2>1, <1>5
<1>7. IsCount(h)
  <2> HIDE DEF IsCount
  <2> QED
    BY <1>6
<1>8. BarsOf(es) = h[N]
  BY DEF BarsOf
<1>9. \A n \in 0 .. N : h[n] = IF n = 0 THEN 0 ELSE h[n - 1] + es[n].bars
  <2> HIDE DEF h
  <2> QED
    BY <1>7
<1> HIDE DEF h, IsCount, step, N
<1>10. \A n \in 0 .. N : h[n] = g[n]
  <2>1. h[0] = g[0]
    BY <1>1, <1>5, <1>9
  <2>2. \A n \in 1 .. N : h[n - 1] = g[n - 1] => h[n] = g[n]
    BY <1>1, <1>5, <1>9
  <2>3. StepAlike(h, g, N)
    BY <2>2 DEF StepAlike
  <2>4. Agree(h, g, N)
    BY <1>1, <2>1, <2>3, StepAlikeAgree
  <2> QED
    BY <2>4 DEF Agree
<1> QED
  BY <1>1, <1>5, <1>8, <1>10 DEF Counts, N

LEMMA NoBars == BarsOf(<<>>) = 0
<1>1. <<>> \in Seq(EntryOf) /\ Len(<<>>) = 0
  BY EmptySeq
<1>2. PICK g : Counts(g, <<>>) /\ BarsOf(<<>>) = g[Len(<<>>)]
  BY <1>1, BarsAreCounts
<1> QED
  BY <1>1, <1>2 DEF Counts

(* The bars of two parts add up.                                           *)
LEMMA BarsAddUp ==
  ASSUME NEW s \in Seq(EntryOf), NEW t \in Seq(EntryOf)
  PROVE  BarsOf(s \o t) = BarsOf(s) + BarsOf(t) /\ BarsOf(s) \in Nat
<1>1. s \o t \in Seq(EntryOf) /\ Len(s \o t) = Len(s) + Len(t) /\ Len(s) \in Nat /\ Len(t) \in Nat
  BY ConcatProperties, LenProperties
<1>2. PICK f : Counts(f, s) /\ BarsOf(s) = f[Len(s)]
  BY BarsAreCounts
<1>3. PICK g : Counts(g, t) /\ BarsOf(t) = g[Len(t)]
  BY BarsAreCounts
<1>4. PICK h : Counts(h, s \o t) /\ BarsOf(s \o t) = h[Len(s \o t)]
  BY <1>1, BarsAreCounts
<1>5. \A n \in 0 .. Len(s) : h[n] = f[n]
  <2>1. h[0] = f[0]
    BY <1>2, <1>4 DEF Counts
  <2>2. \A n \in 1 .. Len(s) : h[n - 1] = f[n - 1] => h[n] = f[n]
    <3> SUFFICES ASSUME NEW n \in 1 .. Len(s), h[n - 1] = f[n - 1] PROVE h[n] = f[n]
      OBVIOUS
    <3>1. n \in 1 .. Len(s \o t) /\ (s \o t)[n] = s[n]
      BY <1>1, ConcatProperties
    <3>2. h[n] = h[n - 1] + (s \o t)[n].bars /\ f[n] = f[n - 1] + s[n].bars
      BY <3>1, <1>2, <1>4 DEF Counts
    <3> QED
      BY <3>1, <3>2
  <2> DEFINE M == Len(s)
  <2>3. M \in Nat /\ \A n \in 1 .. M : h[n - 1] = f[n - 1] => h[n] = f[n]
    BY <1>1, <2>2
  <2> HIDE DEF M
  <2>4. StepAlike(h, f, M)
    BY <2>3 DEF StepAlike
  <2>5. Agree(h, f, M)
    BY <2>1, <2>3, <2>4, StepAlikeAgree
  <2> QED
    BY <2>5 DEF Agree, M
<1> DEFINE P == {n \in 0 .. Len(t) : h[Len(s) + n] = f[Len(s)] + g[n]}
<1>6. f[Len(s)] \in Nat /\ \A n \in 0 .. Len(t) : g[n] \in Nat
  BY <1>1, <1>2, <1>3 DEF Counts
<1>7. 0 \in P
  <2>1. h[Len(s) + 0] = h[Len(s)] /\ h[Len(s)] = f[Len(s)] /\ g[0] = 0
    BY <1>1, <1>3, <1>5 DEF Counts
  <2> QED
    BY <1>1, <1>6, <2>1
<1>8. ASSUME NEW n \in 1 .. Len(t), n - 1 \in P PROVE n \in P
  <2> DEFINE m == Len(s) + n
  <2>1. m \in 1 .. Len(s \o t) /\ (s \o t)[m] = t[n] /\ m - 1 = Len(s) + (n - 1)
    <3>1. m \in 1 .. Len(s) + Len(t) /\ ~(m <= Len(s)) /\ m - Len(s) = n
      BY <1>1
    <3> QED
      BY <1>1, <3>1, ConcatProperties
  <2>2. h[m] = h[m - 1] + (s \o t)[m].bars
    BY <2>1, <1>4 DEF Counts
  <2>3. g[n] = g[n - 1] + t[n].bars
    BY <1>3 DEF Counts
  <2>4. h[m - 1] = f[Len(s)] + g[n - 1]
    BY <1>8, <2>1
  <2>5. t[n].bars \in Nat /\ g[n - 1] \in Nat
    BY <1>1, <1>6, ElementOfSeq, EntryFields
  <2>6. h[m] = f[Len(s)] + g[n]
    BY <2>1, <2>2, <2>3, <2>4, <2>5, <1>6
  <2> QED
    BY <2>6, <1>1
<1>9. \A n \in 0 .. Len(t) : n \in P
  <2> HIDE DEF P
  <2> QED
    BY <1>1, <1>7, <1>8, IntervalInduction
<1>10. h[Len(s) + Len(t)] = f[Len(s)] + g[Len(t)]
  BY <1>1, <1>9
<1> QED
  BY <1>1, <1>2, <1>3, <1>4, <1>6, <1>10

LEMMA BarsOfOne ==
  ASSUME NEW e \in EntryOf
  PROVE  BarsOf(<<e>>) = e.bars
<1>1. <<e>> \in Seq(EntryOf) /\ Len(<<e>>) = 1 /\ <<e>>[1] = e
  OBVIOUS
<1>2. PICK g : Counts(g, <<e>>) /\ BarsOf(<<e>>) = g[Len(<<e>>)]
  BY <1>1, BarsAreCounts
<1>3. g[1] = g[1 - 1] + <<e>>[1].bars /\ g[0] = 0
  BY <1>1, <1>2 DEF Counts
<1> QED
  BY <1>1, <1>2, <1>3, EntryFields

(***************************************************************************)
(* What the cache does to its entries.                                     *)
(***************************************************************************)
Whole(e) ==
  /\ e.bars = Smaller(e.limit, Available[e.key])
  /\ e.exhausted = (e.bars < e.limit)
  /\ e.generation = generation

Unique(es) == \A i, j \in 1 .. Len(es) : es[i].key = es[j].key => i = j

Sound(c) ==
  /\ c.entries \in Seq(EntryOf) /\ Unique(c.entries)
  /\ \A i \in 1 .. Len(c.entries) : Whole(c.entries[i])
  /\ c.total = BarsOf(c.entries)

LEMMA SoundCache ==
  ASSUME NEW es \in Seq(EntryOf), NEW total, Unique(es), total = BarsOf(es),
         \A i \in 1 .. Len(es) : Whole(es[i])
  PROVE  Sound([entries |-> es, total |-> total])
BY DEF Sound

LEMMA RemovedIs ==
  ASSUME NEW es \in Seq(EntryOf), NEW i \in 1 .. Len(es)
  PROVE  /\ Removed(es, i) \in Seq(EntryOf)
         /\ Len(Removed(es, i)) = Len(es) - 1
         /\ \A j \in 1 .. Len(es) - 1 : Removed(es, i)[j] = IF j < i THEN es[j] ELSE es[j + 1]
         /\ BarsOf(es) = BarsOf(Removed(es, i)) + es[i].bars
         /\ BarsOf(Removed(es, i)) \in Nat
         /\ es[i] \in EntryOf
<1> DEFINE a == SubSeq(es, 1, i - 1)
           b == SubSeq(es, i + 1, Len(es))
           r == SubSeq(es, i, Len(es))
<1>1. Len(es) \in Nat /\ \A j \in 1 .. Len(es) : es[j] \in EntryOf
  BY LenProperties, ElementOfSeq
<1>2. /\ a \in Seq(EntryOf) /\ Len(a) = i - 1
      /\ \A j \in 1 .. i - 1 : a[j] = es[j]
  BY <1>1, SubSeqProperties
<1>3. /\ b \in Seq(EntryOf) /\ Len(b) = Len(es) - i
      /\ \A j \in 1 .. Len(es) - i : b[j] = es[i + j]
  <2>1. i + 1 \in Int /\ \A j \in (i + 1) .. Len(es) : es[j] \in EntryOf
    BY <1>1
  <2>2. /\ b \in Seq(EntryOf) /\ Len(b) = IF i + 1 <= Len(es) THEN Len(es) - (i + 1) + 1 ELSE 0
        /\ \A j \in 1 .. Len(es) - (i + 1) + 1 : b[j] = es[(i + 1) + j - 1]
    BY <1>1, <2>1, SubSeqProperties
  <2>3. Len(b) = Len(es) - i
    BY <1>1, <2>2
  <2>4. ASSUME NEW j \in 1 .. Len(es) - i PROVE b[j] = es[i + j]
    <3>1. j \in 1 .. Len(es) - (i + 1) + 1 /\ (i + 1) + j - 1 = i + j
      BY <1>1
    <3> QED
      BY <2>2, <3>1
  <2> QED
    BY <2>2, <2>3, <2>4
<1>4. r \in Seq(EntryOf) /\ r = <<es[i]>> \o b
  <2>1. i \in 1 .. Len(es) /\ Len(es) \in i .. Len(es)
    BY <1>1
  <2>2. r = <<es[i]>> \o b
    BY <2>1, SubSeqRecursiveFirst
  <2>3. <<es[i]>> \in Seq(EntryOf)
    BY <1>1
  <2> HIDE DEF b, r
  <2> QED
    BY <2>2, <2>3, <1>3, ConcatProperties
<1>5. es = a \o r
  <2>1. 1 \in 1 .. Len(es) + 1 /\ i - 1 \in 1 - 1 .. Len(es) /\ Len(es) \in i - 1 .. Len(es) /\ i - 1 + 1 = i
    BY <1>1
  <2>2. SubSeq(es, 1, i - 1) \o SubSeq(es, i - 1 + 1, Len(es)) = SubSeq(es, 1, Len(es))
    BY <2>1, ConcatAdjacentSubSeq
  <2>3. SubSeq(es, 1, Len(es)) = es
    BY SubSeqFull
  <2> QED
    BY <2>1, <2>2, <2>3
<1>6. Removed(es, i) = a \o b
  BY DEF Removed
<1> HIDE DEF a, b, r
<1>7. BarsOf(es) = BarsOf(a) + BarsOf(r) /\ BarsOf(a) \in Nat /\ BarsOf(r) = BarsOf(<<es[i]>>) + BarsOf(b)
  <2>1. <<es[i]>> \in Seq(EntryOf)
    BY <1>1
  <2> QED
    BY <2>1, <1>2, <1>3, <1>4, <1>5, BarsAddUp
<1>8. BarsOf(Removed(es, i)) = BarsOf(a) + BarsOf(b) /\ BarsOf(b) \in Nat
  BY <1>2, <1>3, <1>6, BarsAddUp
<1>9. BarsOf(<<es[i]>>) = es[i].bars /\ es[i].bars \in Nat
  BY <1>1, BarsOfOne, EntryFields
<1>10. /\ Removed(es, i) \in Seq(EntryOf) /\ Len(Removed(es, i)) = Len(es) - 1
       /\ \A j \in 1 .. Len(es) - 1 : Removed(es, i)[j] = IF j <= i - 1 THEN a[j] ELSE b[j - (i - 1)]
  <2>1. Len(a) + Len(b) = Len(es) - 1
    BY <1>1, <1>2, <1>3
  <2>2. /\ a \o b \in Seq(EntryOf) /\ Len(a \o b) = Len(a) + Len(b)
        /\ \A j \in 1 .. Len(a) + Len(b) : (a \o b)[j] = IF j <= Len(a) THEN a[j] ELSE b[j - Len(a)]
    BY <1>2, <1>3, ConcatProperties
  <2> QED
    BY <2>1, <2>2, <1>2, <1>6
<1>11. ASSUME NEW j \in 1 .. Len(es) - 1 PROVE Removed(es, i)[j] = IF j < i THEN es[j] ELSE es[j + 1]
  <2>1. CASE j < i
    <3>1. j <= i - 1 /\ j \in 1 .. i - 1
      BY <1>1, <2>1
    <3> QED
      BY <2>1, <3>1, <1>2, <1>10
  <2>2. CASE ~(j < i)
    <3>1. ~(j <= i - 1) /\ j - (i - 1) \in 1 .. Len(es) - i /\ i + (j - (i - 1)) = j + 1
      BY <1>1, <2>2
    <3> QED
      BY <2>2, <3>1, <1>3, <1>10
  <2> QED
    BY <2>1, <2>2
<1> QED
  BY <1>1, <1>7, <1>8, <1>9, <1>10, <1>11

(* Taking an entry out leaves the others.                                  *)
LEMMA RemovedStaysSound ==
  ASSUME NEW es \in Seq(EntryOf), Unique(es), NEW i \in 1 .. Len(es),
         \A j \in 1 .. Len(es) : Whole(es[j])
  PROVE  /\ Unique(Removed(es, i))
         /\ \A j \in 1 .. Len(Removed(es, i)) : Whole(Removed(es, i)[j])
         /\ \A j \in 1 .. Len(Removed(es, i)) : Removed(es, i)[j].key # es[i].key
<1> DEFINE r == Removed(es, i)
           At(j) == IF j < i THEN j ELSE j + 1
<1>1. Len(es) \in Nat /\ Len(r) = Len(es) - 1
  BY LenProperties, RemovedIs
<1>2. \A j \in 1 .. Len(es) - 1 : r[j] = es[At(j)]
  BY RemovedIs
<1>3. \A j \in 1 .. Len(es) - 1 : At(j) \in 1 .. Len(es) /\ At(j) # i
  BY <1>1
<1>4. \A j, k \in 1 .. Len(es) - 1 : At(j) = At(k) => j = k
  BY <1>1
<1> HIDE DEF r, At
<1>5. Unique(r)
  BY <1>1, <1>2, <1>3, <1>4 DEF Unique
<1>6. \A j \in 1 .. Len(r) : Whole(r[j])
  BY <1>1, <1>2, <1>3
<1>7. \A j \in 1 .. Len(r) : r[j].key # es[i].key
  BY <1>1, <1>2, <1>3 DEF Unique
<1> QED
  BY <1>5, <1>6, <1>7 DEF r

LEMMA DeleteAtIs ==
  ASSUME NEW c, Sound(c), NEW i \in 1 .. Len(c.entries)
  PROVE  /\ Sound(DeleteAt(c, i))
         /\ Len(DeleteAt(c, i).entries) = Len(c.entries) - 1
         /\ DeleteAt(c, i).total <= c.total
         /\ c.total \in Nat /\ DeleteAt(c, i).total \in Nat
         /\ \A j \in 1 .. Len(DeleteAt(c, i).entries) : DeleteAt(c, i).entries[j].key # c.entries[i].key
<1> DEFINE es == c.entries
           r == Removed(es, i)
           total == AboveZero(c.total - es[i].bars)
<1>1. es \in Seq(EntryOf) /\ Unique(es) /\ (\A j \in 1 .. Len(es) : Whole(es[j])) /\ c.total = BarsOf(es)
  BY DEF Sound
<1>2. DeleteAt(c, i) = [entries |-> r, total |-> total]
  BY DEF DeleteAt
<1> HIDE DEF es, r
<1>3. i \in 1 .. Len(es)
  BY DEF es
<1>4. /\ r \in Seq(EntryOf) /\ Len(r) = Len(es) - 1 /\ BarsOf(es) = BarsOf(r) + es[i].bars
      /\ BarsOf(r) \in Nat /\ es[i].bars \in Nat
  BY <1>1, <1>3, RemovedIs, EntryFields DEF r
<1>5. total = BarsOf(r) /\ total <= c.total /\ c.total \in Nat
  BY <1>1, <1>4 DEF AboveZero
<1>6. /\ Unique(r) /\ \A j \in 1 .. Len(r) : Whole(r[j])
      /\ \A j \in 1 .. Len(r) : r[j].key # es[i].key
  BY <1>1, <1>3, RemovedStaysSound DEF r
<1> HIDE DEF total
<1>7. Sound([entries |-> r, total |-> total])
  BY <1>4, <1>5, <1>6, SoundCache
<1> QED
  BY <1>2, <1>4, <1>5, <1>6, <1>7 DEF es

LEMMA DeleteIs ==
  ASSUME NEW c, Sound(c), NEW k
  PROVE  /\ Sound(Delete(c, k))
         /\ \A j \in 1 .. Len(Delete(c, k).entries) : Delete(c, k).entries[j].key # k
<1>1. CASE Places(c.entries, k) = {}
  BY <1>1 DEF Delete, Places
<1>2. CASE Places(c.entries, k) # {}
  <2>1. PICK i \in Places(c.entries, k) : Delete(c, k) = DeleteAt(c, i)
    BY <1>2 DEF Delete
  <2>2. i \in 1 .. Len(c.entries) /\ c.entries[i].key = k
    BY <2>1 DEF Places
  <2> QED
    BY <2>1, <2>2, DeleteAtIs
<1> QED
  BY <1>1, <1>2

(* A new entry may be put at the end.                                      *)
LEMMA PutIs ==
  ASSUME NEW c, Sound(c), NEW e \in EntryOf, Whole(e),
         \A j \in 1 .. Len(c.entries) : c.entries[j].key # e.key
  PROVE  Sound(Put(c, e))
<1> DEFINE es == c.entries
           r == Append(es, e)
           total == c.total + e.bars
<1>1. es \in Seq(EntryOf) /\ Unique(es) /\ (\A j \in 1 .. Len(es) : Whole(es[j])) /\ c.total = BarsOf(es)
  BY DEF Sound
<1>2. Put(c, e) = [entries |-> r, total |-> total]
  BY DEF Put
<1>3. \A j \in 1 .. Len(es) : es[j].key # e.key
  OBVIOUS
<1> HIDE DEF es
<1>4. /\ r \in Seq(EntryOf) /\ Len(r) = Len(es) + 1 /\ Len(es) \in Nat /\ r[Len(es) + 1] = e
      /\ \A j \in 1 .. Len(es) : r[j] = es[j]
  BY <1>1, AppendProperties, LenProperties
<1>5. total = BarsOf(r)
  <2>1. <<e>> \in Seq(EntryOf) /\ r = es \o <<e>>
    BY <1>1, AppendIsConcat
  <2> QED
    BY <1>1, <2>1, BarsAddUp, BarsOfOne
<1> HIDE DEF r, total
<1>6. Unique(r)
  BY <1>1, <1>3, <1>4 DEF Unique
<1>7. \A j \in 1 .. Len(r) : Whole(r[j])
  BY <1>1, <1>4
<1> QED
  BY <1>2, <1>4, <1>5, <1>6, <1>7, SoundCache

(* Dropping the oldest entries leaves what the others hold.                *)
LEMMA WithoutOldestIs ==
  ASSUME NEW c, Sound(c), NEW n \in 0 .. Len(c.entries)
  PROVE  /\ Sound(WithoutOldest(c, n))
         /\ Len(WithoutOldest(c, n).entries) = Len(c.entries) - n
         /\ n = Len(c.entries) => WithoutOldest(c, n).total = 0
<1> DEFINE es == c.entries
           a == SubSeq(es, 1, n)
           r == SubSeq(es, n + 1, Len(es))
           total == AboveZero(c.total - BarsOf(a))
<1>1. es \in Seq(EntryOf) /\ Unique(es) /\ (\A j \in 1 .. Len(es) : Whole(es[j])) /\ c.total = BarsOf(es)
  BY DEF Sound
<1>2. WithoutOldest(c, n) = [entries |-> r, total |-> total] /\ n \in 0 .. Len(es)
  BY DEF WithoutOldest
<1> HIDE DEF es
<1>3. Len(es) \in Nat /\ \A j \in 1 .. Len(es) : es[j] \in EntryOf
  BY <1>1, LenProperties, ElementOfSeq
<1>4. a \in Seq(EntryOf)
  <2>1. \A j \in 1 .. n : es[j] \in EntryOf
    BY <1>2, <1>3
  <2> QED
    BY <1>1, <1>2, <1>3, <2>1, SubSeqProperties
<1>5. /\ r \in Seq(EntryOf) /\ Len(r) = Len(es) - n
      /\ \A j \in 1 .. Len(es) - n : r[j] = es[n + j]
  <2>1. n + 1 \in Int /\ \A j \in (n + 1) .. Len(es) : es[j] \in EntryOf
    BY <1>2, <1>3
  <2>2. /\ r \in Seq(EntryOf) /\ Len(r) = IF n + 1 <= Len(es) THEN Len(es) - (n + 1) + 1 ELSE 0
        /\ \A j \in 1 .. Len(es) - (n + 1) + 1 : r[j] = es[(n + 1) + j - 1]
    BY <1>1, <1>3, <2>1, SubSeqProperties
  <2>3. Len(r) = Len(es) - n
    BY <1>2, <1>3, <2>2
  <2>4. ASSUME NEW j \in 1 .. Len(es) - n PROVE r[j] = es[n + j]
    <3>1. j \in 1 .. Len(es) - (n + 1) + 1 /\ (n + 1) + j - 1 = n + j
      BY <1>2, <1>3
    <3> QED
      BY <2>2, <3>1
  <2> QED
    BY <2>2, <2>3, <2>4
<1>6. es = a \o r
  <2>1. 1 \in 1 .. Len(es) + 1 /\ n \in 1 - 1 .. Len(es) /\ Len(es) \in n .. Len(es)
    BY <1>2, <1>3
  <2>2. SubSeq(es, 1, n) \o SubSeq(es, n + 1, Len(es)) = SubSeq(es, 1, Len(es))
    BY <1>1, <2>1, ConcatAdjacentSubSeq
  <2>3. SubSeq(es, 1, Len(es)) = es
    BY <1>1, SubSeqFull
  <2> QED
    BY <2>2, <2>3
<1> HIDE DEF a, r
<1>7. BarsOf(es) = BarsOf(a) + BarsOf(r) /\ BarsOf(a) \in Nat /\ BarsOf(r) \in Nat
  <2>1. r \o <<>> = r /\ <<>> \in Seq(EntryOf)
    BY <1>5
  <2> QED
    BY <1>4, <1>5, <1>6, <2>1, BarsAddUp
<1>8. total = BarsOf(r)
  BY <1>1, <1>7 DEF AboveZero
<1>9. n = Len(es) => total = 0
  <2> SUFFICES ASSUME n = Len(es) PROVE total = 0
    OBVIOUS
  <2>1. r = <<>>
    BY <1>3, <1>5, EmptySeq
  <2> QED
    BY <2>1, <1>8, NoBars
<1> HIDE DEF total
<1>10. \A j \in 1 .. Len(r) : n + j \in 1 .. Len(es)
  BY <1>2, <1>3, <1>5
<1>11. Unique(r)
  <2> SUFFICES ASSUME NEW i \in 1 .. Len(r), NEW j \in 1 .. Len(r), r[i].key = r[j].key PROVE i = j
    BY DEF Unique
  <2>1. r[i] = es[n + i] /\ r[j] = es[n + j] /\ n + i \in 1 .. Len(es) /\ n + j \in 1 .. Len(es)
    BY <1>5, <1>10
  <2>2. n + i = n + j
    BY <1>1, <2>1 DEF Unique
  <2> QED
    BY <1>2, <2>2
<1>12. \A j \in 1 .. Len(r) : Whole(r[j])
  BY <1>1, <1>5, <1>10
<1> QED
  BY <1>2, <1>5, <1>8, <1>9, <1>11, <1>12, SoundCache DEF es

(* #evict() leaves a cache that fits.                                      *)
Held == Sound(Cache) /\ Fits(Cache)

LEMMA EvictHolds ==
  ASSUME NEW c, Sound(c), Evict(c), generation' = generation
  PROVE  Held'
<1>1. PICK n \in 0 .. Len(c.entries) : /\ Fits(WithoutOldest(c, n)) \/ n = Len(c.entries)
                                       /\ SetCache(WithoutOldest(c, n))
  BY DEF Evict
<1> DEFINE d == WithoutOldest(c, n)
<1>2. Sound(d) /\ Len(d.entries) = Len(c.entries) - n /\ (n = Len(c.entries) => d.total = 0)
  BY WithoutOldestIs
<1>3. Len(c.entries) \in Nat
  BY LenProperties DEF Sound
<1>4. Fits(d)
  <2>1. n = Len(c.entries) => Len(d.entries) = 0
    BY <1>2, <1>3
  <2> QED
    BY <1>1, <1>2, <2>1, HistoryAssumption DEF Fits
<1>5. Cache' = [entries |-> d.entries, total |-> d.total]
  BY <1>1 DEF Cache, SetCache
<1> HIDE DEF d
<1>6. Sound(Cache')
  BY <1>2, <1>5 DEF Sound
<1>7. Fits(Cache')
  BY <1>4, <1>5 DEF Fits
<1>8. Sound(Cache)'
  BY <1>6 DEF Sound, Whole, Unique
<1> QED
  BY <1>7, <1>8 DEF Held, Fits

(***************************************************************************)
(* The entries of a state.                                                 *)
(***************************************************************************)
HeldParts ==
  /\ entries \in Seq(EntryOf) /\ Len(entries) <= MaxEntries /\ totalBars \in Nat
  /\ \A i \in 1 .. Len(entries) : entries[i].generation = generation
  /\ BarsAreCounted /\ EntriesAreLoads

(* What the invariant says of the entries is what the lemmas say of them.  *)
LEMMA HeldIsParts == Held <=> HeldParts
<1>1. Cache.entries = entries /\ Cache.total = totalBars
  BY DEF Cache
<1>2. ASSUME entries \in Seq(EntryOf) PROVE BarsOf(entries) \in Nat
  <2>1. entries \o <<>> = entries /\ <<>> \in Seq(EntryOf)
    BY <1>2
  <2> QED
    BY <1>2, <2>1, BarsAddUp
<1>3. ASSUME Held PROVE HeldParts
  <2>1. entries \in Seq(EntryOf) /\ Unique(entries) /\ (\A j \in 1 .. Len(entries) : Whole(entries[j]))
        /\ totalBars = BarsOf(entries) /\ Len(entries) <= MaxEntries /\ totalBars <= MaxBars
    BY <1>1, <1>3 DEF Held, Sound, Fits
  <2> QED
    BY <2>1, <1>2 DEF HeldParts, BarsAreCounted, EntriesAreLoads, Unique, Whole
<1>4. ASSUME HeldParts PROVE Held
  <2>1. entries \in Seq(EntryOf) /\ Unique(entries) /\ (\A j \in 1 .. Len(entries) : Whole(entries[j]))
        /\ totalBars = BarsOf(entries) /\ Len(entries) <= MaxEntries /\ totalBars <= MaxBars
    BY <1>4 DEF HeldParts, BarsAreCounted, EntriesAreLoads, Unique, Whole
  <2> QED
    BY <2>1, <1>1 DEF Held, Sound, Fits
<1> QED
  BY <1>3, <1>4

LEMMA HeldNext == HeldParts' <=> Held'
BY HeldIsParts, PTL

(* A step that changes nothing of the entries and of the generation.       *)
LEMMA HeldStays ==
  ASSUME Held, UNCHANGED <<entries, totalBars, generation>>
  PROVE  Held'
BY DEF Held, Cache, Sound, Fits, Unique, Whole

(* The entry of a hit moves to the end.                                    *)
LEMMA TouchHolds ==
  ASSUME Held, NEW i \in 1 .. Len(entries), Touch(i), generation' = generation
  PROVE  Held'
<1> DEFINE r == Removed(entries, i)
           e == entries[i]
           t == Append(r, e)
<1>1. /\ entries \in Seq(EntryOf) /\ Unique(entries) /\ (\A j \in 1 .. Len(entries) : Whole(entries[j]))
      /\ totalBars = BarsOf(entries) /\ Len(entries) <= MaxEntries /\ totalBars <= MaxBars
  BY DEF Held, Sound, Fits, Cache
<1>2. /\ r \in Seq(EntryOf) /\ Len(r) = Len(entries) - 1 /\ e \in EntryOf
      /\ BarsOf(entries) = BarsOf(r) + e.bars
  BY <1>1, RemovedIs
<1>3. /\ Unique(r) /\ (\A j \in 1 .. Len(r) : Whole(r[j]))
      /\ \A j \in 1 .. Len(r) : r[j].key # e.key
  BY <1>1, RemovedStaysSound
<1>4. Whole(e)
  BY <1>1
<1> DEFINE c == [entries |-> r, total |-> BarsOf(r)]
<1>5. Sound(c)
  <2> HIDE DEF r
  <2> QED
    BY <1>2, <1>3, SoundCache
<1>6. \A j \in 1 .. Len(c.entries) : c.entries[j].key # e.key
  BY <1>3
<1>7. Sound(Put(c, e))
  <2> HIDE DEF c, e
  <2> QED
    BY <1>2, <1>4, <1>5, <1>6, PutIs
<1>8. Put(c, e) = [entries |-> t, total |-> totalBars]
  BY <1>1, <1>2 DEF Put
<1>9. Cache' = [entries |-> t, total |-> totalBars]
  BY DEF Touch, Cache
<1>10. Sound(Cache')
  BY <1>7, <1>8, <1>9
<1>11. Len(t) = Len(r) + 1 /\ Len(r) \in Nat
  <2> HIDE DEF r, e
  <2> QED
    BY <1>2, AppendProperties, LenProperties
<1>12. Fits(Cache')
  <2> HIDE DEF r, e, t
  <2>1. Len(t) = Len(entries) /\ Len(entries) \in Nat
    BY <1>1, <1>2, <1>11, LenProperties
  <2> QED
    BY <1>1, <1>9, <2>1 DEF Fits
<1>13. Sound(Cache)'
  <2> HIDE DEF t
  <2> QED
    BY <1>10 DEF Sound, Whole, Unique
<1> QED
  BY <1>12, <1>13 DEF Held, Fits

(* An entry that expires is deleted.                                       *)
LEMMA ExpireHolds ==
  ASSUME Held, Expire
  PROVE  Held'
<1>1. PICK i \in 1 .. Len(entries) : SetCache(DeleteAt(Cache, i))
  BY DEF Expire
<1>2. i \in 1 .. Len(Cache.entries) /\ Sound(Cache) /\ Len(entries) \in Nat
  BY LenProperties DEF Held, Sound, Cache
<1> DEFINE d == DeleteAt(Cache, i)
<1>3. Sound(d) /\ Len(d.entries) = Len(Cache.entries) - 1 /\ d.total <= Cache.total /\ d.total \in Nat /\ Cache.total \in Nat
  BY <1>2, DeleteAtIs
<1>4. Fits(d)
  <2>1. Len(Cache.entries) <= MaxEntries /\ Cache.total <= MaxBars /\ Len(Cache.entries) \in Nat
    BY <1>2 DEF Held, Fits, Cache
  <2> HIDE DEF d
  <2> QED
    BY <2>1, <1>3, HistoryAssumption DEF Fits
<1>5. Cache' = [entries |-> d.entries, total |-> d.total]
  BY <1>1 DEF Cache, SetCache
<1> HIDE DEF d
<1>6. Sound(Cache') /\ Fits(Cache')
  BY <1>3, <1>4, <1>5 DEF Sound, Fits
<1>7. Sound(Cache)'
  BY <1>6 DEF Sound, Whole, Unique, Expire
<1> QED
  BY <1>6, <1>7 DEF Held, Fits

(* A load is stored in the place of the entry that its key had.            *)
LEMMA StoreHolds ==
  ASSUME Held, NEW k \in HistoryKey, NEW e \in EntryOf, Whole(e), e.key = k,
         Evict(Put(Delete(Cache, k), e)), generation' = generation
  PROVE  Held'
<1>1. Sound(Delete(Cache, k)) /\ \A j \in 1 .. Len(Delete(Cache, k).entries) : Delete(Cache, k).entries[j].key # k
  BY DeleteIs DEF Held
<1>2. Sound(Put(Delete(Cache, k), e))
  BY <1>1, PutIs
<1> QED
  BY <1>2, EvictHolds

(***************************************************************************)
(* The requests.                                                           *)
(***************************************************************************)
AskOK(a) ==
  /\ a.step = "answered" =>
       a.answer.generation >= a.asked /\ a.answer.bars = Smaller(a.limit, Available[a.key])
  /\ a.asked <= generation
  /\ a.step = "waits" => a.from \in HistoryRequest
  /\ a.step = "loads" => a.asked <= a.started /\ a.started <= generation

AsksOK ==
  /\ inFlight \in [HistoryKey -> HistoryRequest \cup {NoRequest}]
  /\ generation \in Generation
  /\ asks \in [HistoryRequest -> Ask]
  /\ fetched \in [HistoryRequest -> [done : {"no", "yes", "failed"}, load : Load]]
  /\ \A r \in HistoryRequest : AskOK(asks[r])
  /\ OneLoadPerKey /\ LoadsAreRegistered

LEMMA InvIsParts == CacheInv <=> HeldParts /\ AsksOK
BY DEF CacheInv, CacheIsSound, CacheTypeOK, AnswersFollowRecovery, AnswersAreWhole, AsksAreInTime,
       HeldParts, AsksOK, AskOK

LEMMA InvIsPartsNext == CacheInv' <=> HeldParts' /\ AsksOK'
BY InvIsParts, PTL

LEMMA AskFields ==
  ASSUME NEW a \in Ask
  PROVE  /\ a.step \in {"new", "looks", "waits", "loads", "answered", "failed"}
         /\ a.key \in HistoryKey /\ a.limit \in Limit /\ a.from \in HistoryRequest \cup {NoRequest}
         /\ a.asked \in Generation /\ a.started \in Generation /\ a.answer \in Load
BY DEF Ask

(* A request that does not load takes a step that starts no load.          *)
LEMMA AskChanges ==
  ASSUME AsksOK, NEW r \in HistoryRequest, NEW b \in Ask, asks' = [asks EXCEPT ![r] = b],
         asks[r].step # "loads", b.step # "loads", AskOK(b),
         UNCHANGED <<inFlight, generation, fetched>>
  PROVE  AsksOK'
<1>1. asks'[r] = b /\ \A q \in HistoryRequest : q # r => asks'[q] = asks[q]
  BY DEF AsksOK
<1>2. asks' \in [HistoryRequest -> Ask]
  BY DEF AsksOK
<1>3. \A q \in HistoryRequest : AskOK(asks[q])'
  BY <1>1 DEF AsksOK, AskOK
<1>4. OneLoadPerKey'
  BY <1>1 DEF AsksOK, OneLoadPerKey
<1>5. LoadsAreRegistered'
  BY <1>1, HistoryAssumption DEF AsksOK, LoadsAreRegistered
<1> QED
  BY <1>2, <1>3, <1>4, <1>5 DEF AsksOK

(* A request starts the load of a key that none is registered for.         *)
LEMMA AskLoads ==
  ASSUME AsksOK, NEW r \in HistoryRequest, NEW b \in Ask, asks' = [asks EXCEPT ![r] = b],
         asks[r].step # "loads", b.step = "loads", b.started = generation, AskOK(b),
         inFlight[b.key] = NoRequest, inFlight' = [inFlight EXCEPT ![b.key] = r],
         UNCHANGED <<generation, fetched>>
  PROVE  AsksOK'
<1>1. asks'[r] = b /\ \A q \in HistoryRequest : q # r => asks'[q] = asks[q]
  BY DEF AsksOK
<1>2. asks' \in [HistoryRequest -> Ask] /\ inFlight' \in [HistoryKey -> HistoryRequest \cup {NoRequest}]
  BY DEF AsksOK
<1>3. \A q \in HistoryRequest : AskOK(asks[q])'
  BY <1>1 DEF AsksOK, AskOK
<1>4. \A q \in HistoryRequest : asks[q].step = "loads" /\ asks[q].key = b.key => asks[q].started # generation
  BY HistoryAssumption DEF AsksOK, LoadsAreRegistered
<1>5. OneLoadPerKey'
  BY <1>1, <1>4 DEF AsksOK, OneLoadPerKey
<1>6. b.key \in HistoryKey /\ \A k \in HistoryKey : inFlight'[k] = IF k = b.key THEN r ELSE inFlight[k]
  BY AskFields DEF AsksOK
<1>7. LoadsAreRegistered'
  <2>1. ASSUME NEW k \in HistoryKey, inFlight'[k] # NoRequest
        PROVE  asks'[inFlight'[k]].step = "loads" /\ asks'[inFlight'[k]].key = k
               /\ asks'[inFlight'[k]].started = generation
    <3>1. CASE k = b.key
      BY <3>1, <1>1, <1>6
    <3>2. CASE k # b.key
      <4>1. inFlight'[k] = inFlight[k] /\ inFlight[k] \in HistoryRequest
        BY <2>1, <3>2, <1>6 DEF AsksOK
      <4>2. asks[inFlight[k]].step = "loads" /\ asks[inFlight[k]].key = k /\ asks[inFlight[k]].started = generation
        BY <2>1, <4>1 DEF AsksOK, LoadsAreRegistered
      <4>3. inFlight[k] # r
        BY <4>2
      <4> QED
        BY <4>1, <4>2, <4>3, <1>1
    <3> QED
      BY <3>1, <3>2
  <2>2. ASSUME NEW q \in HistoryRequest, asks'[q].step = "loads", asks'[q].started = generation
        PROVE  inFlight'[asks'[q].key] = q
    <3>1. CASE q = r
      BY <3>1, <1>1, <1>6
    <3>2. CASE q # r
      <4>1. asks'[q] = asks[q] /\ asks[q].key # b.key /\ asks[q].key \in HistoryKey
        BY <2>2, <3>2, <1>1, <1>4, AskFields DEF AsksOK
      <4>2. inFlight[asks[q].key] = q
        BY <2>2, <4>1 DEF AsksOK, LoadsAreRegistered
      <4> QED
        BY <4>1, <4>2, <1>6
    <3> QED
      BY <3>1, <3>2
  <2> QED
    BY <2>1, <2>2 DEF LoadsAreRegistered
<1> QED
  BY <1>2, <1>3, <1>5, <1>7 DEF AsksOK

(* A load ends: it is not registered any more.                             *)
LEMMA LoadFinishes ==
  ASSUME AsksOK, NEW r \in HistoryRequest, NEW b \in Ask, asks' = [asks EXCEPT ![r] = b],
         asks[r].step = "loads", b.step # "loads", AskOK(b), Unregister(r), generation' = generation,
         fetched' \in [HistoryRequest -> [done : {"no", "yes", "failed"}, load : Load]]
  PROVE  AsksOK'
<1>1. asks'[r] = b /\ \A q \in HistoryRequest : q # r => asks'[q] = asks[q]
  BY DEF AsksOK
<1>2. asks' \in [HistoryRequest -> Ask]
  BY DEF AsksOK
<1>3. asks[r].key \in HistoryKey
  BY AskFields DEF AsksOK
<1>4. \A k \in HistoryKey : inFlight'[k] = IF k = asks[r].key /\ inFlight[k] = r THEN NoRequest ELSE inFlight[k]
  BY <1>3 DEF Unregister, AsksOK
<1>5. inFlight' \in [HistoryKey -> HistoryRequest \cup {NoRequest}]
  BY <1>3 DEF Unregister, AsksOK
<1>6. \A q \in HistoryRequest : AskOK(asks[q])'
  BY <1>1 DEF AsksOK, AskOK
<1>7. OneLoadPerKey'
  BY <1>1 DEF AsksOK, OneLoadPerKey
<1>8. LoadsAreRegistered'
  <2>1. ASSUME NEW k \in HistoryKey, inFlight'[k] # NoRequest
        PROVE  asks'[inFlight'[k]].step = "loads" /\ asks'[inFlight'[k]].key = k
               /\ asks'[inFlight'[k]].started = generation
    <3>1. inFlight'[k] = inFlight[k] /\ inFlight[k] \in HistoryRequest /\ ~(k = asks[r].key /\ inFlight[k] = r)
      BY <2>1, <1>4 DEF AsksOK
    <3>2. asks[inFlight[k]].step = "loads" /\ asks[inFlight[k]].key = k /\ asks[inFlight[k]].started = generation
      BY <2>1, <3>1 DEF AsksOK, LoadsAreRegistered
    <3>3. inFlight[k] # r
      BY <3>1, <3>2
    <3> QED
      BY <3>1, <3>2, <3>3, <1>1
  <2>2. ASSUME NEW q \in HistoryRequest, asks'[q].step = "loads", asks'[q].started = generation
        PROVE  inFlight'[asks'[q].key] = q
    <3>1. q # r /\ asks'[q] = asks[q] /\ asks[q].key \in HistoryKey
      BY <2>2, <1>1, AskFields DEF AsksOK
    <3>2. inFlight[asks[q].key] = q
      BY <2>2, <3>1 DEF AsksOK, LoadsAreRegistered
    <3> QED
      BY <3>1, <3>2, <1>4
  <2> QED
    BY <2>1, <2>2 DEF LoadsAreRegistered
<1> QED
  BY <1>2, <1>5, <1>6, <1>7, <1>8 DEF AsksOK

(* A hit gives as many bars as are asked for, of the present generation.    *)
LEMMA HitAnswers ==
  ASSUME Held, NEW a \in Ask, NEW i \in 1 .. Len(entries), entries[i].key = a.key,
         entries[i].exhausted \/ entries[i].limit >= a.limit
  PROVE  /\ AnswerOf(entries[i], a.limit) \in Load
         /\ AnswerOf(entries[i], a.limit).generation = generation
         /\ AnswerOf(entries[i], a.limit).bars = Smaller(a.limit, Available[a.key])
<1> DEFINE e == entries[i]
<1>1. e \in EntryOf /\ Whole(e)
  BY ElementOfSeq DEF Held, Sound, Cache
<1> HIDE DEF e
<1>2. /\ e.key = a.key /\ (e.exhausted \/ e.limit >= a.limit)
      /\ e.bars \in Nat /\ e.generation \in Generation /\ e.limit \in Limit /\ a.limit \in Limit
      /\ a.key \in HistoryKey
  BY <1>1, EntryFields, AskFields DEF e
<1>3. e.bars = Smaller(e.limit, Available[a.key]) /\ e.exhausted = (e.bars < e.limit) /\ e.generation = generation
  BY <1>1, <1>2 DEF Whole
<1>4. e.limit \in Nat /\ a.limit \in Nat /\ Available[a.key] \in Nat
  BY <1>2, HistoryAssumption
<1>5. Smaller(e.bars, a.limit) = Smaller(a.limit, Available[a.key]) /\ Smaller(e.bars, a.limit) \in Nat
  <2>1. e.exhausted => e.bars < e.limit
    BY <1>3, Zenon
  <2>2. CASE e.limit >= a.limit
    BY <2>2, <1>2, <1>3, <1>4 DEF Smaller
  <2>3. CASE e.bars < e.limit
    BY <2>3, <1>2, <1>3, <1>4 DEF Smaller
  <2> QED
    BY <2>1, <2>2, <2>3, <1>2
<1>6. AnswerOf(e, a.limit) = [bars |-> Smaller(e.bars, a.limit), generation |-> e.generation]
  BY DEF AnswerOf
<1> QED
  BY <1>2, <1>3, <1>5, <1>6 DEF Load, e

(* The look-up of a request that does not load.                            *)
LEMMA LookUpKeeps ==
  ASSUME Held, AsksOK, NEW r \in HistoryRequest, NEW a \in Ask, AskOK(a), a.key = asks[r].key,
         a.limit = asks[r].limit, asks[r].step # "loads", LookUp(r, a)
  PROVE  Held' /\ AsksOK'
<1>1. generation' = generation /\ fetched' = fetched
  BY DEF LookUp
<1>2. CASE \E i \in Hits(r) :
             /\ Touch(i) /\ UNCHANGED inFlight
             /\ asks' = [asks EXCEPT ![r] = [a EXCEPT !.step = "answered",
                                                      !.answer = AnswerOf(entries[i], a.limit)]]
  <2>1. PICK i \in Hits(r) :
             /\ Touch(i) /\ UNCHANGED inFlight
             /\ asks' = [asks EXCEPT ![r] = [a EXCEPT !.step = "answered",
                                                      !.answer = AnswerOf(entries[i], a.limit)]]
    BY <1>2
  <2>2. i \in 1 .. Len(entries) /\ entries[i].key = a.key /\ (entries[i].exhausted \/ entries[i].limit >= a.limit)
    BY <2>1 DEF Hits, Places
  <2>3. Held'
    BY <1>1, <2>1, <2>2, TouchHolds
  <2> DEFINE x == AnswerOf(entries[i], a.limit)
             b == [a EXCEPT !.step = "answered", !.answer = x]
  <2>4. x \in Load /\ x.generation = generation /\ x.bars = Smaller(a.limit, Available[a.key])
    BY <2>2, HitAnswers
  <2>5. asks' = [asks EXCEPT ![r] = b]
    BY <2>1
  <2> HIDE DEF x
  <2>6. b \in Ask
    BY <2>4 DEF Ask
  <2>7. b.step = "answered" /\ b.answer = x /\ b.limit = a.limit /\ b.key = a.key /\ b.asked = a.asked
    BY DEF Ask
  <2> HIDE DEF b
  <2>8. AskOK(b)
    <3>1. a.asked \in Generation /\ generation \in Generation
      BY AskFields DEF AsksOK
    <3> QED
      BY <3>1, <2>4, <2>7, HistoryAssumption DEF AskOK, Generation
  <2>9. AsksOK'
    BY <1>1, <2>1, <2>5, <2>6, <2>7, <2>8, AskChanges
  <2> QED
    BY <2>3, <2>9
<1>3. CASE JoinOrLoad(r, a) /\ UNCHANGED <<entries, totalBars>>
  <2>1. Held'
    BY <1>1, <1>3, HeldStays
  <2>2. CASE inFlight[a.key] # NoRequest
    <3> DEFINE b == [a EXCEPT !.step = "waits", !.from = inFlight[a.key]]
    <3>1. asks' = [asks EXCEPT ![r] = b] /\ inFlight' = inFlight
      BY <1>3, <2>2 DEF JoinOrLoad
    <3>2. inFlight[a.key] \in HistoryRequest
      BY <2>2, AskFields DEF AsksOK
    <3>3. b \in Ask
      BY <3>2 DEF Ask
    <3>4. b.step = "waits" /\ b.from \in HistoryRequest /\ b.asked = a.asked
      BY <3>2 DEF Ask
    <3> HIDE DEF b
    <3>5. AskOK(b)
      BY <3>4 DEF AskOK
    <3> QED
      BY <1>1, <2>1, <3>1, <3>3, <3>4, <3>5, AskChanges
  <2>3. CASE inFlight[a.key] = NoRequest
    <3> DEFINE b == [a EXCEPT !.step = "loads", !.started = generation]
    <3>1. asks' = [asks EXCEPT ![r] = b] /\ inFlight' = [inFlight EXCEPT ![a.key] = r]
      BY <1>3, <2>3 DEF JoinOrLoad
    <3>2. generation \in Generation
      BY DEF AsksOK
    <3>3. b \in Ask
      BY <3>2 DEF Ask
    <3>4. b.step = "loads" /\ b.started = generation /\ b.key = a.key /\ b.asked = a.asked
      BY DEF Ask
    <3> HIDE DEF b
    <3>5. AskOK(b)
      BY <3>2, <3>4, HistoryAssumption DEF AskOK, Generation
    <3> QED
      BY <1>1, <2>1, <2>3, <3>1, <3>3, <3>4, <3>5, AskLoads
  <2> QED
    BY <2>2, <2>3
<1> QED
  BY <1>2, <1>3 DEF LookUp

LEMMA RequestKeeps ==
  ASSUME Held, AsksOK, NEW r \in HistoryRequest, Request(r)
  PROVE  Held' /\ AsksOK'
<1> DEFINE a == [asks[r] EXCEPT !.asked = generation]
<1>1. asks[r] \in Ask /\ generation \in Generation /\ asks[r].step = "new"
  BY DEF AsksOK, Request
<1>2. a \in Ask /\ a.step = "new" /\ a.asked = generation /\ a.key = asks[r].key /\ a.limit = asks[r].limit
  BY <1>1 DEF Ask
<1>3. LookUp(r, a)
  BY DEF Request
<1> HIDE DEF a
<1>4. AskOK(a)
  BY <1>1, <1>2, HistoryAssumption DEF AskOK, Generation
<1> QED
  BY <1>1, <1>2, <1>3, <1>4, LookUpKeeps

LEMMA WaitEndsKeeps ==
  ASSUME Held, AsksOK, NEW r \in HistoryRequest, WaitEnds(r)
  PROVE  Held' /\ AsksOK'
<1>1. asks[r] \in Ask /\ AskOK(asks[r]) /\ asks[r].step = "waits" /\ LookUp(r, asks[r])
  BY DEF AsksOK, WaitEnds
<1> QED
  BY <1>1, LookUpKeeps

(* A request that failed.                                                  *)
LEMMA FailedAsk ==
  ASSUME AsksOK, NEW r \in HistoryRequest, asks' = [asks EXCEPT ![r].step = "failed"]
  PROVE  \E b \in Ask : asks' = [asks EXCEPT ![r] = b] /\ b.step = "failed" /\ AskOK(b)
<1> DEFINE b == [asks[r] EXCEPT !.step = "failed"]
<1>1. asks[r] \in Ask /\ AskOK(asks[r])
  BY DEF AsksOK
<1>2. b \in Ask /\ b.step = "failed" /\ b.asked = asks[r].asked
  BY <1>1 DEF Ask
<1>3. asks' = [asks EXCEPT ![r] = b]
  OBVIOUS
<1> HIDE DEF b
<1>4. AskOK(b)
  BY <1>1, <1>2 DEF AskOK
<1> QED
  BY <1>2, <1>3, <1>4

LEMMA WaitFailsKeeps ==
  ASSUME Held, AsksOK, NEW r \in HistoryRequest, WaitFails(r)
  PROVE  Held' /\ AsksOK'
<1>1. PICK b \in Ask : asks' = [asks EXCEPT ![r] = b] /\ b.step = "failed" /\ AskOK(b)
  BY FailedAsk DEF WaitFails
<1>2. asks[r].step # "loads" /\ b.step # "loads"
  BY <1>1 DEF WaitFails
<1>3. UNCHANGED <<entries, totalBars, inFlight, generation, fetched>>
  BY DEF WaitFails
<1> QED
  BY <1>1, <1>2, <1>3, AskChanges, HeldStays

LEMMA LoadFailsKeeps ==
  ASSUME Held, AsksOK, NEW r \in HistoryRequest, LoadFails(r)
  PROVE  Held' /\ AsksOK'
<1>1. PICK b \in Ask : asks' = [asks EXCEPT ![r] = b] /\ b.step = "failed" /\ AskOK(b)
  BY FailedAsk DEF LoadFails
<1>2. asks[r].step = "loads" /\ b.step # "loads" /\ Unregister(r)
  BY <1>1 DEF LoadFails
<1>3. UNCHANGED <<entries, totalBars, generation>>
  BY DEF LoadFails
<1>4. fetched' \in [HistoryRequest -> [done : {"no", "yes", "failed"}, load : Load]]
  <2>1. fetched[r] \in [done : {"no", "yes", "failed"}, load : Load]
    BY DEF AsksOK
  <2>2. [fetched[r] EXCEPT !.done = "failed"] \in [done : {"no", "yes", "failed"}, load : Load]
    BY <2>1
  <2>3. fetched' = [fetched EXCEPT ![r] = [fetched[r] EXCEPT !.done = "failed"]]
    BY DEF LoadFails
  <2> QED
    BY <2>2, <2>3 DEF AsksOK
<1> QED
  BY <1>1, <1>2, <1>3, <1>4, LoadFinishes, HeldStays

LEMMA LoadEndsKeeps ==
  ASSUME Held, AsksOK, NEW r \in HistoryRequest, LoadEnds(r)
  PROVE  Held' /\ AsksOK'
<1> DEFINE n == asks[r].limit
           k == asks[r].key
           m == Smaller(n, Available[k])
           loadOf(g) == [bars |-> m, generation |-> g]
<1>1. /\ asks[r] \in Ask /\ AskOK(asks[r]) /\ asks[r].step = "loads"
      /\ generation' = generation /\ generation \in Generation /\ Unregister(r)
  BY DEF AsksOK, LoadEnds
<1>2. PICK g \in asks[r].started .. generation :
        /\ fetched' = [fetched EXCEPT ![r] = [done |-> "yes", load |-> loadOf(g)]]
        /\ IF MayStore(r, loadOf(g))
           THEN Evict(Put(Delete(Cache, k), Stored(k, n, loadOf(g))))
           ELSE UNCHANGED <<entries, totalBars>>
        /\ Answered(r, loadOf(g))
  BY DEF LoadEnds
<1> DEFINE load == loadOf(g)
<1>3. k \in HistoryKey /\ n \in Limit /\ asks[r].started \in Generation /\ asks[r].asked \in Generation
  BY <1>1, AskFields
<1>4. n \in Nat /\ n > 0 /\ m \in Nat /\ m <= n
  <2>1. n \in Nat \ {0}
    <3> HIDE DEF n
    <3> QED
      BY <1>3, HistoryAssumption
  <2>2. Available[k] \in Nat
    <3> HIDE DEF k
    <3> QED
      BY <1>3, HistoryAssumption
  <2> QED
    BY <2>1, <2>2 DEF Smaller
<1>5. /\ g \in Generation /\ asks[r].asked <= g /\ g <= generation
      /\ asks[r].started = generation => g = generation
  <2>1. asks[r].asked <= asks[r].started
    BY <1>1 DEF AskOK
  <2> QED
    BY <1>1, <1>3, <2>1, HistoryAssumption DEF Generation
<1> HIDE DEF m
<1>6. load \in Load /\ load.bars = m /\ load.generation = g
  BY <1>4, <1>5 DEF Load
<1>7. Held'
  <2>1. CASE MayStore(r, load)
    <3> DEFINE e == Stored(k, n, load)
    <3>1. m > 0 /\ g = generation
      BY <2>1, <1>5, <1>6 DEF MayStore
    <3>2. e = [key |-> k, limit |-> n, exhausted |-> m < n, bars |-> m, generation |-> g]
      BY <1>6 DEF Stored
    <3>3. Evict(Put(Delete(Cache, k), e))
      BY <1>2, <2>1
    <3> HIDE DEF e
    <3>4. e \in EntryOf
      BY <3>1, <3>2, <1>3, <1>4, <1>5 DEF EntryOf
    <3>5. e.key = k /\ Whole(e)
      BY <3>1, <3>2 DEF Whole, m
    <3> HIDE DEF k
    <3> QED
      BY <3>3, <3>4, <3>5, <1>1, <1>3, StoreHolds
  <2>2. CASE ~MayStore(r, load)
    BY <2>2, <1>1, <1>2, HeldStays
  <2> QED
    BY <2>1, <2>2
<1>8. AsksOK'
  <2> DEFINE b == [asks[r] EXCEPT !.step = "answered", !.answer = load]
  <2>1. Answered(r, load)
    BY <1>2
  <2>2. fetched' = [fetched EXCEPT ![r] = [done |-> "yes", load |-> load]]
    BY <1>2
  <2> HIDE DEF load
  <2>3. asks' = [asks EXCEPT ![r] = b]
    BY <2>1 DEF Answered
  <2>4. b \in Ask
    BY <1>1, <1>6 DEF Ask
  <2>5. b.step = "answered" /\ b.answer = load /\ b.asked = asks[r].asked /\ b.key = k /\ b.limit = n
    BY <1>1 DEF Ask
  <2>6. fetched' \in [HistoryRequest -> [done : {"no", "yes", "failed"}, load : Load]]
    BY <2>2, <1>6 DEF AsksOK
  <2> HIDE DEF b, n, k
  <2>7. AskOK(b)
    <3>1. b.answer.generation >= b.asked /\ b.answer.bars = Smaller(b.limit, Available[b.key])
      BY <2>5, <1>3, <1>5, <1>6, HistoryAssumption DEF m, Generation
    <3>2. b.asked <= generation
      BY <1>1, <2>5 DEF AskOK
    <3> QED
      BY <3>1, <3>2, <2>5 DEF AskOK
  <2> QED
    BY <1>1, <2>3, <2>4, <2>5, <2>6, <2>7, LoadFinishes
<1> QED
  BY <1>7, <1>8

LEMMA ClearKeeps ==
  ASSUME Held, AsksOK, Clear
  PROVE  HeldParts' /\ AsksOK'
<1>1. generation \in Nat /\ generation' = generation + 1 /\ generation' \in Generation
  BY HistoryAssumption DEF AsksOK, Clear, Generation
<1>2. HeldParts'
  <2>1. Len(<<>>) = 0 /\ <<>> \in Seq(EntryOf) /\ BarsOf(<<>>) = 0
    BY EmptySeq, NoBars
  <2>2. entries' = <<>> /\ totalBars' = 0
    BY DEF Clear
  <2>3. BarsAreCounted'
    BY <2>1, <2>2, HistoryAssumption DEF BarsAreCounted
  <2>4. EntriesAreLoads'
    BY <2>1, <2>2 DEF EntriesAreLoads
  <2> QED
    BY <2>1, <2>2, <2>3, <2>4, HistoryAssumption DEF HeldParts
<1>3. \A q \in HistoryRequest : asks[q] \in Ask /\ asks[q].started \in Generation /\ asks[q].asked \in Generation
  BY AskFields DEF AsksOK
<1>4. \A q \in HistoryRequest : AskOK(asks[q])'
  <2> SUFFICES ASSUME NEW q \in HistoryRequest PROVE AskOK(asks[q])'
    OBVIOUS
  <2>1. asks'[q] = asks[q] /\ AskOK(asks[q])
    BY DEF Clear, AsksOK
  <2> QED
    BY <2>1, <1>1, <1>3, HistoryAssumption DEF AskOK, Generation
<1>5. OneLoadPerKey'
  BY DEF AsksOK, OneLoadPerKey, Clear
<1>6. LoadsAreRegistered'
  <2>1. ASSUME NEW q \in HistoryRequest, asks[q].step = "loads" PROVE asks[q].started # generation'
    BY <2>1, <1>1, <1>3, HistoryAssumption DEF AsksOK, AskOK, Generation
  <2> QED
    BY <2>1 DEF LoadsAreRegistered, Clear
<1>7. inFlight' \in [HistoryKey -> HistoryRequest \cup {NoRequest}]
  BY DEF Clear
<1> QED
  BY <1>1, <1>2, <1>4, <1>5, <1>6, <1>7 DEF AsksOK, Clear

LEMMA CacheInitHolds == CacheInit => HeldParts /\ AsksOK
<1> SUFFICES ASSUME CacheInit PROVE HeldParts /\ AsksOK
  OBVIOUS
<1>1. HeldParts
  <2>1. Len(<<>>) = 0 /\ <<>> \in Seq(EntryOf) /\ BarsOf(<<>>) = 0
    BY EmptySeq, NoBars
  <2>2. entries = <<>> /\ totalBars = 0
    BY DEF CacheInit
  <2>3. BarsAreCounted
    BY <2>1, <2>2, HistoryAssumption DEF BarsAreCounted
  <2>4. EntriesAreLoads
    BY <2>1, <2>2 DEF EntriesAreLoads
  <2> QED
    BY <2>1, <2>2, <2>3, <2>4, HistoryAssumption DEF HeldParts
<1>2. 0 \in Generation /\ NoLoad \in Load
  BY HistoryAssumption DEF Generation, NoLoad, Load
<1>3. PICK k \in [HistoryRequest -> HistoryKey], n \in [HistoryRequest -> Limit] :
        asks = [r \in HistoryRequest |-> NewAsk(k[r], n[r])]
  BY DEF CacheInit
<1>4. ASSUME NEW r \in HistoryRequest
      PROVE  asks[r] \in Ask /\ asks[r].step = "new" /\ asks[r].asked = 0
  BY <1>2, <1>3 DEF NewAsk, Ask
<1>5. asks \in [HistoryRequest -> Ask]
  BY <1>3, <1>4
<1>6. generation = 0 /\ inFlight = [k_1 \in HistoryKey |-> NoRequest]
      /\ fetched = [r \in HistoryRequest |-> [done |-> "no", load |-> NoLoad]]
  BY DEF CacheInit
<1>7. \A r \in HistoryRequest : AskOK(asks[r])
  BY <1>4, <1>6 DEF AskOK
<1>8. OneLoadPerKey /\ LoadsAreRegistered
  BY <1>4, <1>6 DEF OneLoadPerKey, LoadsAreRegistered
<1> QED
  BY <1>1, <1>2, <1>5, <1>6, <1>7, <1>8 DEF AsksOK

(* The cache of provider history, whatever requests, expiries, outages and *)
(* limits: the inductive invariant.                                        *)
THEOREM CacheInvariant == CacheSpec => []CacheInv
<1>1. CacheInit => CacheInv
  BY CacheInitHolds, InvIsParts
<1>2. CacheInv /\ [CacheNext]_historyCacheVars => CacheInv'
  <2> SUFFICES ASSUME CacheInv, [CacheNext]_historyCacheVars PROVE HeldParts' /\ AsksOK'
    BY InvIsPartsNext
  <2>1. Held /\ AsksOK
    BY InvIsParts, HeldIsParts
  <2>2. ASSUME NEW r \in HistoryRequest, Request(r) \/ WaitEnds(r) \/ WaitFails(r) \/ LoadEnds(r) \/ LoadFails(r)
        PROVE  Held' /\ AsksOK'
    BY <2>1, <2>2, RequestKeeps, WaitEndsKeeps, WaitFailsKeeps, LoadEndsKeeps, LoadFailsKeeps
  <2>3. CASE Expire
    <3>1. AsksOK'
      BY <2>1, <2>3 DEF AsksOK, AskOK, OneLoadPerKey, LoadsAreRegistered, Expire
    <3> QED
      BY <2>1, <2>3, <3>1, ExpireHolds, HeldNext
  <2>4. CASE Clear
    BY <2>1, <2>4, ClearKeeps
  <2>5. CASE UNCHANGED historyCacheVars
    <3>1. UNCHANGED <<entries, totalBars, generation>> /\ UNCHANGED <<asks, inFlight, fetched>>
      BY <2>5 DEF historyCacheVars
    <3>2. AsksOK'
      BY <2>1, <3>1 DEF AsksOK, AskOK, OneLoadPerKey, LoadsAreRegistered
    <3> QED
      BY <2>1, <3>1, <3>2, HeldStays, HeldNext
  <2> QED
    BY <2>2, <2>3, <2>4, <2>5, HeldNext DEF CacheNext
<1> QED
  BY <1>1, <1>2, PTL DEF CacheSpec

(* The answers of the cache are whole and of their own time, bars are      *)
(* counted, and a key is loaded once at a time, although a load ends after *)
(* the recovery that cleared the cache it was to fill.                     *)
THEOREM CacheIsSoundTheorem == CacheSpec => []CacheIsSound
<1>1. CacheInv => CacheIsSound
  BY DEF CacheInv
<1> QED
  BY <1>1, CacheInvariant, PTL
=============================================================================
