------------------------ MODULE ShutdownAndRelayProofs ------------------------
(***************************************************************************)
(* Proofs about RuntimeShutdown, for any works and connections, and about  *)
(* PlatformEventRelay, for any facts, snapshots, attempts and faults.      *)
(***************************************************************************)
EXTENDS RuntimeShutdown, PlatformEventRelay, FiniteSetTheorems, TLAPS

(***************************************************************************)
(* What keeps the shutdown from leaving work behind.  The command of a     *)
(* client is on an open connection until it is queued, unless the client   *)
(* hung up, and the connections end before the engines stop; an engine     *)
(* starts nothing once its stop began, and what it had started is awaited, *)
(* or was ingested.                                                        *)
(***************************************************************************)
Busy(w) == step[w] \notin {"none", "done"}
Excused(w) == w \in abandoned \cup unwatched

Begun == \A w \in Work : /\ w \in connected \cup awaits => step[w] # "none"
                         /\ step[w] = "ingesting" => source[w] = "risk"
                         /\ Busy(w) /\ source[w] = Client /\ step[w] # "queued"
                              => w \in connected \cup abandoned

NoneUnwatched ==
  phase \in {"serving", "market", "http", "trailing", "pending", "protection"} => unwatched = {}

Disconnected == phase \notin {"serving", "market", "http", "forced"} => connected = {}

StoppedEngines ==
  phase # "forced" => \A w \in Work : Busy(w) /\ source[w] \in Engine /\ ~Attached(source[w])
    => w \in unwatched \/ (w \in awaits /\ phase = source[w])

Drained ==
  phase \in {"draining", "relay", "exited"} => \A w \in Work :
    Busy(w) => Excused(w) \/ (phase = "draining" /\ w \in awaits)

ShutdownInv == ShutdownTypeOK /\ Begun /\ NoneUnwatched /\ Disconnected /\ StoppedEngines /\ Drained

LEMMA InitShutdownInv == ShutdownInit => ShutdownInv
BY DEF ShutdownInit, ShutdownInv, ShutdownTypeOK, Phase, After, Begun, NoneUnwatched, Disconnected, StoppedEngines,
   Drained, Busy, Engine

(* A work that begins: nobody waits for it yet. *)
LEMMA BeginKeepsInv ==
  ASSUME ShutdownInv, NEW w \in Work, NEW from \in Engine \cup {Client}, NEW at \in {"handling", "ingesting"},
         Begin(w, from, at), at = "ingesting" => from = "risk",
         UNCHANGED <<phase, awaits, abandoned, unwatched>>,
         \/ from \in Engine /\ Attached(from) /\ connected' = connected
         \/ from = Client /\ phase = "serving" /\ connected' = connected \cup {w}
  PROVE  ShutdownInv'
<1> USE ShutdownConstants DEF ShutdownInv
<1>0. /\ step[w] = "none" /\ step' = [step EXCEPT ![w] = at] /\ source' = [source EXCEPT ![w] = from]
      /\ step'[w] = at /\ source'[w] = from
      /\ \A v \in Work : v # w => step'[v] = step[v] /\ source'[v] = source[v]
  BY DEF Begin, ShutdownTypeOK
<1>1. w \notin awaits /\ w \notin connected
  BY <1>0 DEF Begun
<1>2. ShutdownTypeOK'
  BY <1>0, <1>1 DEF ShutdownTypeOK
<1>3. Begun'
  BY <1>0 DEF Begun, Busy, Engine
<1>4. Disconnected' /\ NoneUnwatched'
  BY DEF Disconnected, NoneUnwatched
<1>5. phase \notin {"draining", "relay", "exited", "forced"}
  BY DEF Attached, Engine
<1>6. StoppedEngines'
  <2> SUFFICES ASSUME NEW v \in Work, Busy(v)', source'[v] \in Engine, ~Attached(source[v])'
               PROVE  v \in unwatched \/ (v \in awaits /\ phase = source'[v])
    BY DEF StoppedEngines
  <2>1. v # w
    BY <1>0 DEF Attached, Engine
  <2> QED
    BY <1>0, <1>5, <2>1 DEF StoppedEngines, Busy, Attached
<1>7. Drained'
  BY <1>5 DEF Drained
<1> QED
  BY <1>2, <1>3, <1>4, <1>6, <1>7

(* A work that goes on, and may end. *)
LEMMA StepKeepsInv ==
  ASSUME ShutdownInv, NEW w \in Work, NEW to \in {"handling", "queued", "done"},
         step' = [step EXCEPT ![w] = to], Busy(w), to = "handling" => step[w] = "ingesting",
         UNCHANGED <<phase, source, awaits, abandoned, unwatched>>,
         connected' = connected \/ (to = "done" /\ connected' = connected \ {w})
  PROVE  ShutdownInv'
<1> USE ShutdownConstants DEF ShutdownInv
<1>0. step'[w] = to /\ \A v \in Work : v # w => step'[v] = step[v]
  BY DEF ShutdownTypeOK
<1>2. ShutdownTypeOK'
  BY <1>0 DEF ShutdownTypeOK
<1>3. \A v \in Work : Busy(v)' => Busy(v)
  BY <1>0 DEF Busy
<1>4. Begun'
  BY <1>0, <1>3 DEF Begun, Busy, Engine
<1>5. Disconnected' /\ NoneUnwatched'
  BY DEF Disconnected, NoneUnwatched
<1>6. StoppedEngines'
  BY <1>3 DEF StoppedEngines, Attached
<1>7. Drained'
  BY <1>3 DEF Drained, Excused
<1> QED
  BY <1>2, <1>4, <1>5, <1>6, <1>7

LEMMA HangUpKeepsInv ==
  ASSUME ShutdownInv, NEW w \in Work, HangUp(w)
  PROVE  ShutdownInv'
<1> USE ShutdownConstants DEF ShutdownInv, HangUp
<1>1. ShutdownTypeOK'
  BY DEF ShutdownTypeOK
<1>2. abandoned \subseteq abandoned' /\ (step[w] = "handling" => w \in abandoned') /\ w \in connected
  OBVIOUS
<1>3. Begun'
  <2> SUFFICES ASSUME NEW v \in Work
               PROVE  /\ v \in connected' \cup awaits => step[v] # "none"
                      /\ step[v] = "ingesting" => source[v] = "risk"
                      /\ Busy(v) /\ source[v] = Client /\ step[v] # "queued" => v \in connected' \cup abandoned'
    BY DEF Begun, Busy
  <2>1. Busy(v) /\ source[v] = Client /\ step[v] # "queued" => step[v] = "handling"
    BY DEF Begun, Busy, ShutdownTypeOK, Engine
  <2> QED
    BY <1>2, <2>1 DEF Begun
<1>4. Disconnected' /\ NoneUnwatched'
  BY DEF Disconnected, NoneUnwatched
<1>5. StoppedEngines'
  BY DEF StoppedEngines, Busy, Attached
<1>6. Drained'
  BY <1>2 DEF Drained, Busy, Excused
<1> QED
  BY <1>1, <1>3, <1>4, <1>5, <1>6

(* An engine that is attached in a phase is attached in those before it. *)
LEMMA StopsInOrder ==
  ASSUME phase \in DOMAIN After, NEW e \in Engine, ~Attached(e)', phase' = After[phase]
  PROVE  ~Attached(e) \/ phase' = e
BY DEF Attached, After, Engine

LEMMA SignalKeepsInv == ASSUME ShutdownInv, Signal PROVE ShutdownInv'
<1> USE DEF ShutdownInv, Signal
<1>1. phase = "serving" /\ phase' = "market"
  BY DEF After
<1>2. ShutdownTypeOK'
  BY <1>1 DEF ShutdownTypeOK, Phase, After, Engine
<1>3. Begun' /\ NoneUnwatched' /\ Disconnected'
  BY <1>1 DEF Begun, NoneUnwatched, Disconnected, Busy
<1>4. StoppedEngines' /\ Drained'
  BY <1>1 DEF StoppedEngines, Drained, Attached
<1> QED
  BY <1>2, <1>3, <1>4

LEMMA AdvanceKeepsInv == ASSUME ShutdownInv, AdvanceShutdown PROVE ShutdownInv'
<1> USE ShutdownConstants DEF ShutdownInv
<1>1. /\ phase \in DOMAIN After /\ phase # "serving" /\ phase' = After[phase] /\ phase' # "forced"
      /\ phase' # "market" /\ phase' # "serving"
      /\ UNCHANGED <<step, source, connected, abandoned>>
  BY DEF AdvanceShutdown, Alive, ShutdownTypeOK, Phase, After
<1>2. awaits' = Awaits(phase') /\ \A w \in awaits : ~Busy(w)
  BY DEF AdvanceShutdown, PhaseEnded, Busy
<1>3. phase = "http" => connected = {}
  BY DEF AdvanceShutdown, PhaseEnded
<1>4. phase' \in Engine => awaits' = {w \in Work : source[w] = phase' /\ step[w] \in {"handling", "queued"}}
  BY <1>2 DEF Awaits, Engine
<1>5. phase' = "draining" => awaits' = {w \in Work : step[w] = "queued"}
  BY <1>2 DEF Awaits, Engine
<1>6. phase' \notin Engine \cup {"draining"} => awaits' = {}
  BY <1>2 DEF Awaits
<1>7. \/ phase' = "risk" /\ unwatched' = {w \in Work : step[w] = "ingesting"}
      \/ phase' # "risk" /\ unwatched' = unwatched
  BY DEF AdvanceShutdown
<1>8. ShutdownTypeOK'
  <2>1. phase' \in Phase
    BY <1>1 DEF Phase, After
  <2>2. awaits' \subseteq Work /\ (phase' \in Engine => \A w \in awaits' : source[w] = phase')
    BY <1>4, <1>5, <1>6
  <2> QED
    BY <1>1, <1>7, <2>1, <2>2 DEF ShutdownTypeOK
<1>9. Begun'
  BY <1>1, <1>4, <1>5, <1>6 DEF Begun, Busy
<1>10. Disconnected'
  <2>1. phase' \notin {"http", "forced"} => connected = {}
    BY <1>1, <1>3 DEF Disconnected, After
  <2> QED
    BY <1>1, <2>1 DEF Disconnected
<1>11. \A w \in Work : Busy(w) <=> Busy(w)'
  BY <1>1 DEF Busy
<1>12. phase' = "risk" => \A w \in Work : Busy(w) /\ source[w] \in Engine => source[w] = "risk"
  <2> SUFFICES ASSUME phase' = "risk", NEW w \in Work, Busy(w), source[w] \in Engine, source[w] # "risk"
               PROVE  FALSE
    OBVIOUS
  <2>1. phase = "protection"
    BY <1>1 DEF After
  <2>2. ~Attached(source[w]) /\ w \notin unwatched
    BY <2>1 DEF Attached, NoneUnwatched
  <2> QED
    BY <1>2, <2>1, <2>2 DEF StoppedEngines
<1>13. NoneUnwatched'
  BY <1>1, <1>7 DEF NoneUnwatched, After
<1>14. StoppedEngines'
  <2> SUFFICES ASSUME NEW w \in Work, Busy(w), source[w] \in Engine, ~Attached(source[w])'
               PROVE  w \in unwatched' \/ (w \in awaits' /\ phase' = source[w])
    BY <1>1, <1>11 DEF StoppedEngines
  <2>1. ~Attached(source[w]) \/ phase' = source[w]
    <3>1. \A e \in Engine : ~Attached(e)' => ~Attached(e) \/ phase' = e
      BY <1>1, StopsInOrder
    <3> QED
      BY <1>1, <3>1 DEF Attached
  <2>2. CASE phase' = source[w]
    <3>1. step[w] \in {"handling", "queued"} \/ (step[w] = "ingesting" /\ source[w] = "risk")
      BY DEF Busy, Begun, ShutdownTypeOK
    <3> QED
      BY <1>4, <1>7, <2>2, <3>1
  <2>3. CASE ~Attached(source[w]) /\ phase' # source[w]
    <3>1. w \in unwatched
      BY <1>1, <1>2, <2>3 DEF StoppedEngines, After
    <3>2. phase' # "risk"
      BY <1>1, <3>1 DEF NoneUnwatched, After
    <3> QED
      BY <1>7, <3>1, <3>2
  <2> QED
    BY <2>1, <2>2, <2>3
<1>15. Drained'
  <2> SUFFICES ASSUME phase' \in {"draining", "relay", "exited"}, NEW w \in Work, Busy(w)
               PROVE  Excused(w)' \/ (phase' = "draining" /\ w \in awaits')
    BY <1>11 DEF Drained
  <2>1. phase \in {"risk", "draining", "relay"} /\ phase' # "risk" /\ abandoned' = abandoned /\ unwatched' = unwatched
    BY <1>1, <1>7 DEF After
  <2>2. CASE phase = "risk"
    <3>1. phase' = "draining" /\ connected = {}
      BY <1>1, <2>2 DEF After, Disconnected
    <3>2. CASE source[w] = Client
      BY <1>5, <2>1, <3>1, <3>2 DEF Begun, Excused
    <3>3. CASE source[w] \in Engine
      <4>1. ~Attached(source[w])
        BY <2>2, <3>3 DEF Attached
      <4> QED
        BY <1>2, <2>1, <2>2, <3>3, <4>1 DEF StoppedEngines, Excused
    <3> QED
      BY <3>2, <3>3 DEF ShutdownTypeOK
  <2>3. CASE phase \in {"draining", "relay"}
    BY <1>2, <2>1, <2>3 DEF Drained, Excused
  <2> QED
    BY <2>1, <2>2, <2>3
<1> QED
  BY <1>8, <1>9, <1>10, <1>13, <1>14, <1>15

LEMMA ForceKeepsInv == ASSUME ShutdownInv, ForceExit PROVE ShutdownInv'
BY DEF ShutdownInv, ForceExit, ShutdownTypeOK, Phase, Begun, NoneUnwatched, Disconnected,
   StoppedEngines, Drained, Busy, Engine

LEMMA WorkKeepsInv ==
  ASSUME ShutdownInv, NEW w \in Work,
         \/ AcceptCommand(w) \/ IngestValuation(w) \/ \E e \in Engine : Launch(w, e)
         \/ DrainBegins(w) \/ EnqueueCommand(w) \/ WorkEnds(w)
  PROVE  ShutdownInv'
<1>1. CASE AcceptCommand(w)
  BY <1>1, BeginKeepsInv DEF AcceptCommand
<1>2. CASE IngestValuation(w)
  BY <1>2, BeginKeepsInv DEF IngestValuation, Engine
<1>3. CASE \E e \in Engine : Launch(w, e)
  BY <1>3, BeginKeepsInv DEF Launch
<1>4. CASE DrainBegins(w)
  BY <1>4, StepKeepsInv DEF DrainBegins, GoTo, Busy
<1>5. CASE EnqueueCommand(w)
  BY <1>5, StepKeepsInv DEF EnqueueCommand, GoTo, Busy
<1>6. CASE WorkEnds(w)
  BY <1>6, StepKeepsInv DEF WorkEnds, GoTo, Busy, Respond
<1> QED
  BY <1>1, <1>2, <1>3, <1>4, <1>5, <1>6

LEMMA StutterKeepsShutdownInv == ASSUME ShutdownInv, UNCHANGED shutdownVars PROVE ShutdownInv'
BY DEF ShutdownInv, shutdownVars, ShutdownTypeOK, Begun, NoneUnwatched, Disconnected,
   StoppedEngines, Drained, Busy, Excused, Attached

(* The inductive invariant of the shutdown (server.js, trading.runtime.js). *)
THEOREM ShutdownInvariant == ShutdownSpec => []ShutdownInv
<1>1. ShutdownInv /\ [ShutdownNext]_shutdownVars => ShutdownInv'
  BY WorkKeepsInv, HangUpKeepsInv, SignalKeepsInv, AdvanceKeepsInv, ForceKeepsInv,
     StutterKeepsShutdownInv DEF ShutdownNext
<1> QED
  BY InitShutdownInv, <1>1, PTL DEF ShutdownSpec

(***************************************************************************)
(* Whatever the works and the connections, shutdown() disconnects the      *)
(* database under no work but that of a client that hung up before it was  *)
(* queued and what the risk engine was ingesting (trading.runtime.js).     *)
(***************************************************************************)
THEOREM ShutdownIsOrderlyTheorem == ShutdownSpec => []ShutdownIsOrderly
<1>1. ShutdownInv => ShutdownIsOrderly
  BY DEF ShutdownInv, ShutdownIsOrderly, NothingIsLeftBehind, Drained, Busy, Excused
<1> QED
  BY ShutdownInvariant, <1>1, PTL

-----------------------------------------------------------------------------
(***************************************************************************)
(* The outbox.  Records that wait have attempts left, and those that are   *)
(* given up have none; a flush holds records that wait, and the one it is  *)
(* delivering is not among those it has still to take up.                  *)
(***************************************************************************)
Bounded(d) == /\ d.status = "PENDING" => d.attempts < MaxAttempts
              /\ d.status = "DEAD" => d.attempts >= MaxAttempts

Counted(f, d) == d.attempts <= tries[f] + miscounts[f] \/ tries[f] >= MaxAttempts

RecordsBounded == \A e \in RelayEvent : Bounded(outbox[e])

BatchWaits ==
  /\ \A e \in batch : outbox[e].status = "PENDING"
  /\ current # None => outbox[current].status = "PENDING" /\ current \notin batch

DocumentIsTrue ==
  /\ Bounded(doc)
  /\ delivering = "post" => doc.status = "PENDING"
  /\ delivering = "delivered" => doc.status = "DELIVERED" /\ doc.attempts <= MaxAttempts
  /\ doc.status = "DELIVERED" => current \in received

AttemptsCounted ==
  \A f \in Fact : Counted(f, outbox[f]) /\ (current = f => Counted(f, doc))

Retrying(c) == c.step \in {"find", "create"}

\* While nothing has failed or stopped, the mark of the account is there as long
\* as a retry is stored or searched for, and there is one of either.
RetryIsMarked ==
  relayFaults = 0 /\ stops = 0 =>
    /\ relay = "up"
    /\ \A n \in PendingRetries : retryPending /\ \A m \in PendingRetries : m = n
    /\ \A c \in captures : Retrying(c) =>
         /\ retryPending /\ PendingRetries = {}
         /\ \A d \in captures : Retrying(d) => d = c

RelayInv ==
  /\ RelayTypeOK /\ RecordsBounded /\ BatchWaits /\ DocumentIsTrue /\ AttemptsCounted
  /\ RetryIsMarked /\ DeliveredWasReceived

LEMMA RelayEvents == Snapshot \subseteq RelayEvent /\ Fact \subseteq RelayEvent /\ None \notin RelayEvent
                     /\ Fact \cap Snapshot = {}
BY RelayConstants DEF RelayEvent, Snapshot, None

LEMMA Records == Absent \in Record /\ Bounded(Absent) /\ Absent.status = "absent" /\ Absent.attempts = 0
BY RelayConstants DEF Absent, Record, Bounded

LEMMA InitRelayInv == RelayInit => RelayInv
<1> SUFFICES ASSUME RelayInit PROVE RelayInv
  OBVIOUS
<1>1. RelayTypeOK
  <2>1. outbox \in [RelayEvent -> Record] /\ enqueued \in Seq(RelayEvent) /\ batch \subseteq RelayEvent /\ doc \in Record
    BY Records DEF RelayInit
  <2>2. tries \in [Fact -> 0 .. MaxAttempts] /\ miscounts \in [Fact -> Nat] /\ captures \subseteq Capture
    BY RelayConstants DEF RelayInit
  <2>3. /\ latest \in Snapshot \cup {None} /\ snapshot \in Snapshot \cup {None} /\ retryPending \in BOOLEAN
        /\ valued \in Snapshot \cup {None} /\ owed \in Snapshot \cup {None} /\ received \subseteq RelayEvent
    BY DEF RelayInit
  <2>4. relayFaults \in 0 .. MaxRelayFaults /\ stops \in 0 .. MaxStops
    BY RelayConstants DEF RelayInit
  <2>5. /\ relay \in {"up", "stopping", "draining", "exiting", "down"}
        /\ delivering \in {"idle", "post", "delivered", "failed"}
        /\ current \in RelayEvent \cup {None} /\ (delivering = "idle" <=> current = None)
    BY DEF RelayInit
  <2> QED
    BY <2>1, <2>2, <2>3, <2>4, <2>5 DEF RelayTypeOK
<1>2. RecordsBounded /\ BatchWaits /\ DocumentIsTrue /\ DeliveredWasReceived
  BY Records DEF RelayInit, RecordsBounded, BatchWaits, DocumentIsTrue, DeliveredWasReceived
<1>3. AttemptsCounted
  BY Records, RelayEvents DEF RelayInit, AttemptsCounted, Counted
<1>4. RetryIsMarked
  BY Records, RelayEvents DEF RelayInit, RetryIsMarked, PendingRetries
<1> QED
  BY <1>1, <1>2, <1>3, <1>4 DEF RelayInv

(* What a flush takes up. *)
LEMMA TakeUpProperties ==
  ASSUME RelayTypeOK, NEW b \in SUBSET RelayEvent, TakeUp(b)
  PROVE  /\ batch' \subseteq b /\ batch' \subseteq RelayEvent
         /\ delivering' \in {"idle", "post"} /\ doc' \in Record
         /\ \/ delivering' = "idle" /\ current' = None /\ doc' = Absent
            \/ /\ delivering' = "post" /\ current' \in b /\ current' \notin batch'
               /\ current' # None /\ doc' = outbox[current']
BY Records, RelayEvents DEF TakeUp, RelayTypeOK

LEMMA DueAgain == ASSUME NEW d \in Record PROVE [d EXCEPT !.due = TRUE] \in Record
BY DEF Record

LEMMA Failure ==
  ASSUME NEW d \in Record, d.attempts <= MaxAttempts, d.status # "DEAD"
  PROVE  CountFailure(d) \in Record /\ Bounded(CountFailure(d))
         /\ CountFailure(d).attempts = d.attempts + 1 /\ CountFailure(d).status \in {d.status, "DEAD"}
BY RelayConstants DEF CountFailure, Record, Bounded

LEMMA Success ==
  ASSUME NEW d \in Record, d.attempts <= MaxAttempts
  PROVE  CountSuccess(d) \in Record /\ Bounded(CountSuccess(d))
         /\ CountSuccess(d).attempts = d.attempts + 1 /\ CountSuccess(d).status = "DELIVERED"
BY RelayConstants DEF CountSuccess, Record, Bounded

(***************************************************************************)
(* Enqueuing.                                                              *)
(***************************************************************************)
LEMMA EnqueueKeeps ==
  ASSUME RelayInv, NEW e \in RelayEvent, Enqueue(e),
         UNCHANGED <<relay, flushVars, latest, snapshot, retryPending, relayHistory, relayFaults>>,
         captures' \subseteq captures,
         e \in Snapshot => \E c \in captures : Retrying(c) /\ captures' = captures \ {c}
  PROVE  RelayInv'
<1> DEFINE new == [status |-> "PENDING", attempts |-> 0, due |-> TRUE]
<1>0. UNCHANGED <<relay, batch, delivering, current, doc, latest, snapshot, retryPending, received, tries,
                  miscounts, valued, owed, stops, relayFaults>>
  BY DEF flushVars, relayHistory
<1>1. new \in Record /\ Bounded(new)
  BY RelayConstants DEF Record, Bounded
<1>2. /\ outbox' \in [RelayEvent -> Record] /\ outbox'[e] = new
      /\ \A d \in RelayEvent : d # e => outbox'[d] = outbox[d]
  BY <1>1 DEF Enqueue, RelayInv, RelayTypeOK
<1>3. enqueued' \in Seq(RelayEvent)
  BY DEF Enqueue, RelayInv, RelayTypeOK
<1>4. RelayTypeOK'
  BY <1>0, <1>2, <1>3 DEF RelayInv, RelayTypeOK
<1>5. RecordsBounded'
  BY <1>1, <1>2 DEF RelayInv, RecordsBounded
<1>6. BatchWaits'
  <2>1. \A d \in RelayEvent : outbox[d].status = "PENDING" => outbox'[d].status = "PENDING"
    BY <1>2
  <2> QED
    BY <1>0, <2>1 DEF RelayInv, BatchWaits, RelayTypeOK
<1>7. DocumentIsTrue'
  BY <1>0 DEF RelayInv, DocumentIsTrue, Bounded
<1>8. AttemptsCounted'
  <2> SUFFICES ASSUME NEW f \in Fact PROVE (Counted(f, outbox[f]) /\ (current = f => Counted(f, doc)))'
    BY DEF AttemptsCounted
  <2>1. Counted(f, outbox[f]) /\ (current = f => Counted(f, doc)) /\ f \in RelayEvent
    BY RelayEvents DEF RelayInv, AttemptsCounted
  <2>2. tries[f] \in Nat /\ miscounts[f] \in Nat
    BY RelayConstants DEF RelayInv, RelayTypeOK
  <2> QED
    BY <1>0, <1>2, <2>1, <2>2 DEF Counted
<1>9. RetryIsMarked'
  <2>1. CASE e \in Snapshot
    <3>1. PICK c \in captures : Retrying(c) /\ captures' = captures \ {c}
      BY <2>1
    <3>2. relayFaults = 0 /\ stops = 0 =>
            relay = "up" /\ retryPending /\ PendingRetries = {} /\ \A d \in captures' : ~Retrying(d)
      BY <3>1 DEF RelayInv, RetryIsMarked
    <3>3. \A n \in PendingRetries' : n # e => n \in PendingRetries
      BY <1>2, RelayEvents DEF PendingRetries
    <3> QED
      BY <1>0, <3>2, <3>3 DEF RetryIsMarked, Retrying
  <2>2. CASE e \notin Snapshot
    <3>1. PendingRetries' = PendingRetries
      BY <1>2, <2>2, RelayEvents DEF PendingRetries
    <3> QED
      BY <1>0, <3>1 DEF RelayInv, RetryIsMarked, Retrying
  <2> QED
    BY <2>1, <2>2
<1>10. DeliveredWasReceived'
  BY <1>0, <1>2 DEF RelayInv, DeliveredWasReceived
<1> QED
  BY <1>4, <1>5, <1>6, <1>7, <1>8, <1>9, <1>10 DEF RelayInv
(***************************************************************************)
(* The flush.                                                              *)
(***************************************************************************)
LEMMA FallsDueKeeps == ASSUME RelayInv, NEW e \in RelayEvent, AttemptFallsDue(e) PROVE RelayInv'
<1>0. UNCHANGED <<relay, enqueued, batch, delivering, current, doc, latest, snapshot, captures, retryPending,
                  received, tries, miscounts, valued, owed, stops, relayFaults>>
  BY DEF AttemptFallsDue, flushVars, snapshotVars, relayHistory
<1>1. outbox' = [outbox EXCEPT ![e] = [outbox[e] EXCEPT !.due = TRUE]] /\ outbox[e] \in Record
  BY DEF AttemptFallsDue, RelayInv, RelayTypeOK
<1>2. /\ outbox' \in [RelayEvent -> Record]
      /\ \A d \in RelayEvent : outbox'[d].status = outbox[d].status /\ outbox'[d].attempts = outbox[d].attempts
  BY <1>1, DueAgain DEF RelayInv, RelayTypeOK, Record
<1>3. RelayTypeOK'
  BY <1>0, <1>2 DEF RelayInv, RelayTypeOK
<1>4. RecordsBounded' /\ DeliveredWasReceived'
  BY <1>0, <1>2 DEF RelayInv, RecordsBounded, Bounded, DeliveredWasReceived
<1>5. BatchWaits'
  BY <1>0, <1>2 DEF RelayInv, BatchWaits, RelayTypeOK
<1>6. DocumentIsTrue'
  BY <1>0 DEF RelayInv, DocumentIsTrue, Bounded
<1>7. AttemptsCounted'
  BY <1>0, <1>2, RelayEvents DEF RelayInv, AttemptsCounted, Counted
<1>8. RetryIsMarked'
  <2>1. PendingRetries' = PendingRetries
    BY <1>2, RelayEvents DEF PendingRetries
  <2> QED
    BY <1>0, <2>1 DEF RelayInv, RetryIsMarked, Retrying
<1> QED
  BY <1>3, <1>4, <1>5, <1>6, <1>7, <1>8 DEF RelayInv

(* Taking up a record that waits, after the one in hand was saved as d, or was not saved. *)
LEMMA TakeUpKeeps ==
  ASSUME RelayInv, NEW b \in SUBSET RelayEvent, TakeUp(b),
         \A e \in b : outbox[e].status = "PENDING" /\ outbox'[e] = outbox[e],
         outbox' \in [RelayEvent -> Record],
         \A e \in RelayEvent : \/ outbox'[e] = outbox[e]
                               \/ /\ e = current /\ Bounded(outbox'[e])
                                  /\ outbox'[e].status = "DELIVERED" => e \in received
                                  /\ e \in Fact => Counted(e, outbox'[e]),
         UNCHANGED <<enqueued, latest, snapshot, captures, received, tries, miscounts, valued, owed, stops>>,
         relay' \in {"up", "stopping", "draining", "exiting", "down"}, retryPending' \in BOOLEAN,
         relayFaults' \in 0 .. MaxRelayFaults, RetryIsMarked'
  PROVE  RelayInv'
<1>1. /\ batch' \subseteq b /\ batch' \subseteq RelayEvent
      /\ delivering' \in {"idle", "post"} /\ doc' \in Record
      /\ \/ delivering' = "idle" /\ current' = None /\ doc' = Absent
         \/ /\ delivering' = "post" /\ current' \in b /\ current' \notin batch'
            /\ current' # None /\ doc' = outbox[current']
  BY TakeUpProperties DEF RelayInv
<1>2. RelayTypeOK'
  <2>1. current' \in RelayEvent \cup {None} /\ (delivering' = "idle" <=> current' = None)
    BY <1>1
  <2> QED
    BY <1>1, <2>1 DEF RelayInv, RelayTypeOK
<1>3. RecordsBounded'
  BY DEF RelayInv, RecordsBounded, Bounded
<1>4. DeliveredWasReceived'
  BY DEF RelayInv, DeliveredWasReceived
<1>5. BatchWaits'
  BY <1>1 DEF BatchWaits
<1>6. DocumentIsTrue'
  <2>1. CASE doc' = Absent /\ delivering' = "idle"
    BY <2>1, Records DEF DocumentIsTrue, Bounded
  <2>2. CASE delivering' = "post" /\ current' \in b /\ doc' = outbox[current']
    BY <2>2 DEF RelayInv, RecordsBounded, DocumentIsTrue, Bounded
  <2> QED
    BY <1>1, <2>1, <2>2
<1>7. AttemptsCounted'
  <2> SUFFICES ASSUME NEW f \in Fact PROVE (Counted(f, outbox[f]) /\ (current = f => Counted(f, doc)))'
    BY DEF AttemptsCounted
  <2>1. f \in RelayEvent /\ f # None
    BY RelayEvents
  <2>2. Counted(f, outbox[f]) /\ Counted(f, outbox'[f])
    BY <2>1 DEF RelayInv, AttemptsCounted, Counted
  <2>3. current' = f => doc' = outbox[f]
    BY <1>1, <2>1
  <2> QED
    BY <2>2, <2>3 DEF Counted
<1> QED
  BY <1>2, <1>3, <1>4, <1>5, <1>6, <1>7 DEF RelayInv

LEMMA FlushKeeps ==
  ASSUME RelayInv, StartFlush, UNCHANGED <<outboxVars, snapshotVars, relayHistory, relayFaults>>,
         \/ relay' = relay
         \/ relay = "stopping" /\ relay' = "draining"
  PROVE  RelayInv'
<1> DEFINE b == {e \in Due : Cardinality({f \in Due : Older(f, e)}) < BatchSize}
<1>1. TakeUp(b) /\ b \in SUBSET RelayEvent /\ \A e \in b : outbox[e].status = "PENDING"
  BY DEF StartFlush, Due
<1> HIDE DEF b
<1>2. UNCHANGED <<outbox, enqueued, latest, snapshot, captures, retryPending, received, tries, miscounts,
                  valued, owed, stops, relayFaults>>
  BY DEF outboxVars, snapshotVars, relayHistory
<1>3. RetryIsMarked'
  BY <1>2 DEF RelayInv, RetryIsMarked, Retrying, PendingRetries
<1>4. /\ relay' \in {"up", "stopping", "draining", "exiting", "down"} /\ retryPending' \in BOOLEAN
      /\ relayFaults' \in 0 .. MaxRelayFaults /\ outbox' \in [RelayEvent -> Record]
  BY <1>2 DEF RelayInv, RelayTypeOK
<1> QED
  BY <1>1, <1>2, <1>3, <1>4, TakeUpKeeps

LEMMA PostKeeps == ASSUME RelayInv, NEW e \in RelayEvent, Post(e) PROVE RelayInv'
<1>0. /\ UNCHANGED <<relay, outbox, enqueued, batch, current, latest, snapshot, captures, retryPending,
                     miscounts, valued, owed, stops, relayFaults>>
      /\ e = current /\ delivering = "post"
  BY DEF Post, outboxVars, snapshotVars
<1>1. /\ doc \in Record /\ doc.status = "PENDING" /\ doc.attempts < MaxAttempts /\ doc.attempts \in Nat
  BY <1>0, RelayConstants DEF RelayInv, RelayTypeOK, DocumentIsTrue, Bounded, Record
<1>2. received \subseteq received' /\ received' \subseteq RelayEvent
  BY DEF Post, RelayInv, RelayTypeOK
<1>3. /\ doc' \in Record /\ Bounded(doc') /\ doc'.attempts = doc.attempts + 1
      /\ \/ delivering' = "delivered" /\ doc'.status = "DELIVERED" /\ e \in received'
         \/ delivering' = "failed" /\ doc'.status # "DELIVERED"
  <2>1. doc.attempts <= MaxAttempts /\ doc.status # "DEAD"
    BY <1>1, RelayConstants
  <2>2. CASE doc' = CountSuccess(doc) /\ delivering' = "delivered" /\ e \in received'
    BY <1>1, <2>1, <2>2, Success
  <2>3. CASE doc' = CountFailure(doc) /\ delivering' = "failed"
    BY <1>1, <2>1, <2>3, Failure
  <2> QED
    BY <2>2, <2>3 DEF Post
<1>4. /\ tries' \in [Fact -> 0 .. MaxAttempts]
      /\ \A f \in Fact : tries'[f] = IF f = e /\ tries[f] < MaxAttempts THEN tries[f] + 1 ELSE tries[f]
  BY RelayConstants DEF Post, RelayInv, RelayTypeOK
<1>5. RelayTypeOK'
  <2>1. delivering' \in {"idle", "post", "delivered", "failed"} /\ (delivering' = "idle" <=> current' = None)
    BY <1>0, <1>3 DEF RelayInv, RelayTypeOK
  <2> QED
    BY <1>0, <1>2, <1>3, <1>4, <2>1 DEF RelayInv, RelayTypeOK
<1>6. RecordsBounded' /\ BatchWaits'
  BY <1>0 DEF RelayInv, RecordsBounded, Bounded, BatchWaits
<1>7. DocumentIsTrue'
  <2>1. Bounded(doc)'
    BY <1>3 DEF Bounded
  <2>2. doc'.attempts <= MaxAttempts
    BY <1>1, <1>3, RelayConstants
  <2> QED
    BY <1>0, <1>3, <2>1, <2>2 DEF DocumentIsTrue
<1>8. AttemptsCounted'
  <2> SUFFICES ASSUME NEW f \in Fact PROVE (Counted(f, outbox[f]) /\ (current = f => Counted(f, doc)))'
    BY DEF AttemptsCounted
  <2>1. Counted(f, outbox[f]) /\ (current = f => Counted(f, doc)) /\ f \in RelayEvent
    BY RelayEvents DEF RelayInv, AttemptsCounted
  <2>2. tries[f] \in 0 .. MaxAttempts /\ miscounts[f] \in Nat /\ MaxAttempts \in Nat
    BY RelayConstants DEF RelayInv, RelayTypeOK
  <2>3. tries'[f] >= tries[f] /\ (f = e => tries'[f] = tries[f] + 1 \/ tries'[f] >= MaxAttempts)
    BY <1>4, <2>2
  <2>4. Counted(f, outbox[f])'
    <3>1. outbox[f].attempts \in Nat
      BY <2>1, RelayConstants DEF RelayInv, RelayTypeOK, Record
    <3> QED
      BY <1>0, <1>4, <2>1, <2>2, <2>3, <3>1 DEF Counted
  <2>5. current' = f => Counted(f, doc)'
    BY <1>0, <1>1, <1>3, <1>4, <2>1, <2>2, <2>3 DEF Counted
  <2> QED
    BY <2>4, <2>5
<1>9. RetryIsMarked'
  BY <1>0 DEF RelayInv, RetryIsMarked, Retrying, PendingRetries
<1>10. DeliveredWasReceived'
  BY <1>0, <1>2 DEF RelayInv, DeliveredWasReceived
<1> QED
  BY <1>5, <1>6, <1>7, <1>8, <1>9, <1>10 DEF RelayInv

(* What is saved of the event in hand. *)
LEMMA SaveKeepsMark ==
  ASSUME RelayInv, current # None, outbox' = [outbox EXCEPT ![current] = doc],
         UNCHANGED <<relay, captures, relayFaults, stops>>,
         \/ retryPending' = retryPending
         \/ retryPending' = FALSE /\ current \in Snapshot /\ doc.status # "PENDING"
  PROVE  RetryIsMarked'
<1> SUFFICES ASSUME relayFaults = 0, stops = 0 PROVE RetryIsMarked'
  BY DEF RetryIsMarked
<1>1. current \in RelayEvent /\ outbox[current].status = "PENDING"
  BY DEF RelayInv, RelayTypeOK, BatchWaits
<1>2. /\ outbox'[current] = doc
      /\ \A d \in RelayEvent : d # current => outbox'[d] = outbox[d]
  BY <1>1 DEF RelayInv, RelayTypeOK
<1>3. PendingRetries' \subseteq PendingRetries
  BY <1>1, <1>2, RelayEvents DEF PendingRetries
<1>4. CASE retryPending' = retryPending
  BY <1>3, <1>4 DEF RelayInv, RetryIsMarked, Retrying
<1>5. CASE current \in Snapshot /\ doc.status # "PENDING"
  <2>1. current \in PendingRetries /\ current \notin PendingRetries'
    BY <1>1, <1>2, <1>5 DEF PendingRetries
  <2>2. PendingRetries' = {}
    BY <1>3, <2>1 DEF RelayInv, RetryIsMarked
  <2>3. \A c \in captures : ~Retrying(c)
    BY <2>1 DEF RelayInv, RetryIsMarked
  <2> QED
    BY <2>2, <2>3 DEF RelayInv, RetryIsMarked, Retrying
<1> QED
  BY <1>4, <1>5

LEMMA SaveKeeps ==
  ASSUME RelayInv, current # None, outbox' = [outbox EXCEPT ![current] = doc],
         UNCHANGED <<relay, enqueued, latest, snapshot, captures, received, tries, miscounts,
                     valued, owed, stops, relayFaults>>,
         \/ retryPending' = retryPending
         \/ retryPending' = FALSE /\ current \in Snapshot /\ doc.status # "PENDING",
         TakeUp(batch)
  PROVE  RelayInv'
<1>1. current \in RelayEvent /\ current \notin batch /\ doc \in Record
  BY DEF RelayInv, RelayTypeOK, BatchWaits
<1>2. /\ outbox'[current] = doc
      /\ \A d \in RelayEvent : d # current => outbox'[d] = outbox[d]
      /\ outbox' \in [RelayEvent -> Record]
  BY <1>1 DEF RelayInv, RelayTypeOK
<1>3. RetryIsMarked'
  BY SaveKeepsMark
<1>4. /\ relay' \in {"up", "stopping", "draining", "exiting", "down"} /\ retryPending' \in BOOLEAN
      /\ relayFaults' \in 0 .. MaxRelayFaults
  BY DEF RelayInv, RelayTypeOK
<1>5. Bounded(doc) /\ (doc.status = "DELIVERED" => current \in received)
  BY DEF RelayInv, DocumentIsTrue
<1>6. current \in Fact => Counted(current, doc)
  BY DEF RelayInv, AttemptsCounted
<1>7. batch \in SUBSET RelayEvent /\ \A e \in batch : outbox[e].status = "PENDING" /\ outbox'[e] = outbox[e]
  BY <1>1, <1>2 DEF RelayInv, RelayTypeOK, BatchWaits
<1>8. \A e \in RelayEvent : \/ outbox'[e] = outbox[e]
                            \/ /\ e = current /\ Bounded(outbox'[e])
                               /\ outbox'[e].status = "DELIVERED" => e \in received
                               /\ e \in Fact => Counted(e, outbox'[e])
  BY <1>2, <1>5, <1>6
<1> QED
  BY <1>2, <1>3, <1>4, <1>7, <1>8, TakeUpKeeps

(* A save that fails after a success: the failure is counted too. *)
LEMMA MiscountKeeps ==
  ASSUME RelayInv, delivering = "delivered", RelayFault, doc' = CountFailure(doc), delivering' = "failed",
         miscounts' = [f \in Fact |-> IF f = current THEN miscounts[f] + 1 ELSE miscounts[f]],
         UNCHANGED <<relay, outbox, enqueued, batch, current, latest, snapshot, captures, retryPending,
                     received, tries, valued, owed, stops>>
  PROVE  RelayInv'
<1>1. doc \in Record /\ doc.status = "DELIVERED" /\ doc.attempts <= MaxAttempts /\ doc.attempts \in Nat
  BY RelayConstants DEF RelayInv, RelayTypeOK, DocumentIsTrue, Record
<1>2. doc' \in Record /\ Bounded(doc') /\ doc'.attempts = doc.attempts + 1 /\ doc'.status \in {"DELIVERED", "DEAD"}
  BY <1>1, Failure
<1>3. miscounts' \in [Fact -> Nat] /\ relayFaults' \in 0 .. MaxRelayFaults /\ relayFaults' # 0
  BY RelayConstants DEF RelayFault, RelayInv, RelayTypeOK
<1>4. RelayTypeOK'
  <2>1. delivering' = "idle" <=> current' = None
    BY DEF RelayInv, RelayTypeOK
  <2> QED
    BY <1>2, <1>3, <2>1 DEF RelayInv, RelayTypeOK
<1>5. RecordsBounded' /\ BatchWaits' /\ RetryIsMarked' /\ DeliveredWasReceived'
  BY <1>3 DEF RelayInv, RecordsBounded, Bounded, BatchWaits, RetryIsMarked, DeliveredWasReceived
<1>6. DocumentIsTrue'
  <2>1. Bounded(doc)' /\ current \in received
    BY <1>1, <1>2 DEF Bounded, RelayInv, DocumentIsTrue
  <2> QED
    BY <1>2, <2>1 DEF DocumentIsTrue
<1>7. AttemptsCounted'
  <2> SUFFICES ASSUME NEW f \in Fact PROVE (Counted(f, outbox[f]) /\ (current = f => Counted(f, doc)))'
    BY DEF AttemptsCounted
  <2>1. Counted(f, outbox[f]) /\ (current = f => Counted(f, doc)) /\ outbox[f].attempts \in Nat
    BY RelayEvents, RelayConstants DEF RelayInv, AttemptsCounted, RelayTypeOK, Record
  <2>2. tries[f] \in Nat /\ miscounts[f] \in Nat /\ MaxAttempts \in Nat
    BY RelayConstants DEF RelayInv, RelayTypeOK
  <2>3. miscounts'[f] = IF f = current THEN miscounts[f] + 1 ELSE miscounts[f]
    OBVIOUS
  <2> QED
    BY <1>1, <1>2, <2>1, <2>2, <2>3 DEF Counted
<1> QED
  BY <1>4, <1>5, <1>6, <1>7 DEF RelayInv

LEMMA SaveDeliveredKeeps == ASSUME RelayInv, NEW e \in RelayEvent, SaveDelivered(e) PROVE RelayInv'
<1>1. e = current /\ delivering = "delivered" /\ current # None /\ doc.status = "DELIVERED"
  BY DEF SaveDelivered, RelayInv, RelayTypeOK, DocumentIsTrue
<1>2. CASE outbox' = [outbox EXCEPT ![e] = doc] /\ RetryEnds(e) /\ TakeUp(batch) /\ NoRelayFault /\ UNCHANGED miscounts
  BY <1>1, <1>2, SaveKeeps DEF SaveDelivered, RetryEnds, NoRelayFault
<1>3. CASE /\ RelayFault /\ doc' = CountFailure(doc) /\ delivering' = "failed"
           /\ miscounts' = [f \in Fact |-> IF f = e THEN miscounts[f] + 1 ELSE miscounts[f]]
           /\ UNCHANGED <<outbox, batch, current, retryPending>>
  BY <1>1, <1>3, MiscountKeeps DEF SaveDelivered
<1> QED
  BY <1>2, <1>3 DEF SaveDelivered

LEMMA SaveFailedKeeps == ASSUME RelayInv, NEW e \in RelayEvent, SaveFailed(e) PROVE RelayInv'
<1>1. /\ e = current /\ current # None
      /\ UNCHANGED <<relay, enqueued, latest, snapshot, captures, received, tries, miscounts, valued, owed, stops>>
  BY DEF SaveFailed, RelayInv, RelayTypeOK, relayHistory
<1>2. \/ retryPending' = retryPending
      \/ retryPending' = FALSE /\ current \in Snapshot /\ doc.status # "PENDING"
  BY <1>1 DEF SaveFailed, RetryEnds
<1>3. CASE outbox' = [outbox EXCEPT ![e] = doc] /\ TakeUp(batch) /\ NoRelayFault
  BY <1>1, <1>2, <1>3, SaveKeeps DEF NoRelayFault
<1>4. CASE RelayFault /\ TakeUp({}) /\ UNCHANGED outbox
  <2>1. relayFaults' \in 0 .. MaxRelayFaults /\ relayFaults' # 0
    BY <1>4, RelayConstants DEF RelayFault, RelayInv, RelayTypeOK
  <2>2. RetryIsMarked'
    BY <2>1 DEF RetryIsMarked
  <2>3. relay' \in {"up", "stopping", "draining", "exiting", "down"} /\ retryPending' \in BOOLEAN
        /\ outbox' \in [RelayEvent -> Record]
    BY <1>1, <1>2, <1>4 DEF RelayInv, RelayTypeOK
  <2> DEFINE none == {}
  <2>4. none \in SUBSET RelayEvent /\ TakeUp(none)
    BY <1>4
  <2>5. \A x \in none : outbox[x].status = "PENDING" /\ outbox'[x] = outbox[x]
    OBVIOUS
  <2> HIDE DEF none
  <2> QED
    BY <1>1, <1>4, <2>1, <2>2, <2>3, <2>4, <2>5, TakeUpKeeps
<1> QED
  BY <1>3, <1>4 DEF SaveFailed

(***************************************************************************)
(* Snapshots.                                                              *)
(***************************************************************************)
SnapshotTypeOK ==
  /\ latest \in Snapshot \cup {None} /\ snapshot \in Snapshot \cup {None}
  /\ captures \subseteq Capture /\ retryPending \in BOOLEAN
  /\ valued \in Snapshot \cup {None} /\ owed \in Snapshot \cup {None}
  /\ relayFaults \in 0 .. MaxRelayFaults /\ stops \in 0 .. MaxStops
  /\ relay \in {"up", "stopping", "draining", "exiting", "down"}

LEMMA SnapshotStepKeeps ==
  ASSUME RelayInv, UNCHANGED <<outbox, enqueued, batch, delivering, current, doc, tries, miscounts>>,
         received \subseteq received', received' \subseteq RelayEvent, SnapshotTypeOK', RetryIsMarked'
  PROVE  RelayInv'
<1>1. RelayTypeOK'
  BY DEF RelayInv, RelayTypeOK, SnapshotTypeOK
<1>2. RecordsBounded' /\ BatchWaits' /\ DeliveredWasReceived'
  BY DEF RelayInv, RecordsBounded, Bounded, BatchWaits, DeliveredWasReceived
<1>3. DocumentIsTrue'
  BY DEF RelayInv, DocumentIsTrue, Bounded
<1>4. AttemptsCounted'
  BY DEF RelayInv, AttemptsCounted, Counted
<1> QED
  BY <1>1, <1>2, <1>3, <1>4 DEF RelayInv

LEMMA GotoCapture ==
  ASSUME NEW c \in Capture, NEW st \in {"read", "post", "retry", "find", "create"}
  PROVE  [c EXCEPT !.step = st] \in Capture /\ [c EXCEPT !.step = st].step = st
BY DEF Capture

LEMMA QueueSnapshotKeeps == ASSUME RelayInv, NEW n \in Snapshot, QueueSnapshot(n) PROVE RelayInv'
<1>1. UNCHANGED <<relay, outbox, enqueued, batch, delivering, current, doc, captures, retryPending, received,
                  tries, miscounts, stops, relayFaults>>
  BY DEF QueueSnapshot, outboxVars, flushVars
<1>2. SnapshotTypeOK'
  BY <1>1 DEF QueueSnapshot, RelayInv, RelayTypeOK, SnapshotTypeOK
<1>3. RetryIsMarked' /\ received' \subseteq RelayEvent
  BY <1>1 DEF RelayInv, RelayTypeOK, RetryIsMarked, Retrying, PendingRetries
<1> QED
  BY <1>1, <1>2, <1>3, SnapshotStepKeeps

\* A new capture is not at its retry.
LEMMA StartCaptureProperties ==
  ASSUME RelayInv, snapshot # None, StartCapture
  PROVE  captures' \subseteq Capture /\ \A c \in captures' : Retrying(c) => c \in captures
<1>1. [seq |-> snapshot, step |-> "read"] \in Capture
  BY DEF RelayInv, RelayTypeOK, Capture
<1> QED
  BY <1>1 DEF StartCapture, RelayInv, RelayTypeOK, Retrying

LEMMA SnapshotTimerKeeps == ASSUME RelayInv, SnapshotTimer PROVE RelayInv'
<1>1. UNCHANGED <<relay, outbox, enqueued, batch, delivering, current, doc, latest, retryPending, received,
                  tries, miscounts, valued, owed, stops, relayFaults>>
  BY DEF SnapshotTimer, outboxVars, flushVars, relayHistory
<1>2. captures' \subseteq Capture /\ \A c \in captures' : Retrying(c) => c \in captures
  BY StartCaptureProperties DEF SnapshotTimer
<1>3. SnapshotTypeOK'
  BY <1>1, <1>2 DEF SnapshotTimer, RelayInv, RelayTypeOK, SnapshotTypeOK
<1>4. PendingRetries' = PendingRetries
  BY <1>1 DEF PendingRetries
<1>5. RetryIsMarked' /\ received' \subseteq RelayEvent
  BY <1>1, <1>2, <1>4 DEF RelayInv, RelayTypeOK, RetryIsMarked
<1> QED
  BY <1>1, <1>3, <1>5, SnapshotStepKeeps

LEMMA ProceedKeeps == ASSUME RelayInv, NEW c \in captures, Proceed(c) PROVE RelayInv'
<1> USE DEF Retrying
<1>0. /\ c \in Capture /\ c.seq \in Snapshot /\ captures \subseteq Capture /\ SnapshotTypeOK
      /\ received \subseteq RelayEvent
  BY DEF RelayInv, RelayTypeOK, Capture, SnapshotTypeOK
<1>1. CASE CaptureRead(c)
  <2>1. UNCHANGED <<relay, outbox, enqueued, batch, delivering, current, doc, latest, snapshot, retryPending,
                    received, tries, miscounts, valued, owed, stops, relayFaults>>
    BY <1>1 DEF CaptureRead, outboxVars, flushVars, relayHistory
  <2>2. captures' \subseteq Capture /\ \A d \in captures' : Retrying(d) => d \in captures
    <3>1. CASE Ends(c)
      BY <1>0, <3>1 DEF Ends
    <3>2. CASE Goto(c, "post")
      BY <1>0, <3>2, GotoCapture DEF Goto
    <3> QED
      BY <1>1, <3>1, <3>2 DEF CaptureRead
  <2>3. PendingRetries' = PendingRetries
    BY <2>1 DEF PendingRetries
  <2>4. SnapshotTypeOK' /\ RetryIsMarked'
    BY <1>0, <2>1, <2>2, <2>3 DEF RelayInv, RetryIsMarked, SnapshotTypeOK
  <2> QED
    BY <1>0, <2>1, <2>4, SnapshotStepKeeps
<1>2. CASE CapturePost(c)
  <2>1. UNCHANGED <<relay, outbox, enqueued, batch, delivering, current, doc, latest, snapshot, retryPending,
                    tries, miscounts, valued, stops, relayFaults>>
    BY <1>2 DEF CapturePost, outboxVars, flushVars
  <2>2. captures' \subseteq Capture /\ \A d \in captures' : Retrying(d) => d \in captures
    <3>1. CASE Ends(c)
      BY <1>0, <3>1 DEF Ends
    <3>2. CASE Goto(c, "retry")
      BY <1>0, <3>2, GotoCapture DEF Goto
    <3> QED
      BY <1>2, <3>1, <3>2 DEF CapturePost
  <2>3. PendingRetries' = PendingRetries
    BY <2>1 DEF PendingRetries
  <2>4. received \subseteq received' /\ received' \subseteq RelayEvent /\ owed' \in {owed, None}
    BY <1>0, <1>2, RelayEvents DEF CapturePost
  <2>5. SnapshotTypeOK' /\ RetryIsMarked'
    BY <1>0, <2>1, <2>2, <2>3, <2>4 DEF RelayInv, RetryIsMarked, SnapshotTypeOK
  <2> QED
    BY <2>1, <2>4, <2>5, SnapshotStepKeeps
<1>3. CASE Retry(c)
  <2>1. UNCHANGED <<relay, outbox, enqueued, batch, delivering, current, doc, latest, snapshot, received, tries,
                    miscounts, valued, owed, stops, relayFaults>>
    BY <1>3 DEF Retry, outboxVars, flushVars, relayHistory
  <2>2. PendingRetries' = PendingRetries
    BY <2>1 DEF PendingRetries
  <2>3. CASE retryPending
    <3>1. captures' = captures \ {c} /\ retryPending' = retryPending
      BY <1>3, <2>3 DEF Retry, Ends
    <3>2. SnapshotTypeOK' /\ RetryIsMarked'
      BY <1>0, <2>1, <2>2, <3>1 DEF RelayInv, RetryIsMarked, SnapshotTypeOK
    <3> QED
      BY <1>0, <2>1, <3>2, SnapshotStepKeeps
  <2>4. CASE ~retryPending
    <3> DEFINE e == [c EXCEPT !.step = "find"]
    <3>1. captures' = (captures \ {c}) \cup {e} /\ retryPending' = TRUE /\ e \in Capture
      BY <1>0, <1>3, <2>4, GotoCapture DEF Retry, Goto
    <3> HIDE DEF e
    <3>2. SnapshotTypeOK'
      BY <1>0, <2>1, <3>1 DEF SnapshotTypeOK
    <3>3. relayFaults = 0 /\ stops = 0 => relay = "up" /\ PendingRetries = {} /\ \A d \in captures : ~Retrying(d)
      BY <2>4 DEF RelayInv, RetryIsMarked
    <3>4. RetryIsMarked'
      BY <2>1, <2>2, <3>1, <3>3 DEF RetryIsMarked
    <3> QED
      BY <1>0, <2>1, <3>2, <3>4, SnapshotStepKeeps
  <2> QED
    BY <2>3, <2>4
<1>4. CASE FindRetry(c)
  <2>1. UNCHANGED <<relay, outbox, enqueued, batch, delivering, current, doc, latest, snapshot, retryPending,
                    received, tries, miscounts, valued, owed, stops, relayFaults>>
    BY <1>4 DEF FindRetry, outboxVars, flushVars, relayHistory
  <2>2. PendingRetries' = PendingRetries
    BY <2>1 DEF PendingRetries
  <2>3. Retrying(c)
    BY <1>4 DEF FindRetry
  <2>4. CASE captures' = captures \ {c}
    <3>1. SnapshotTypeOK' /\ RetryIsMarked'
      BY <1>0, <2>1, <2>2, <2>4 DEF RelayInv, RetryIsMarked, SnapshotTypeOK
    <3> QED
      BY <1>0, <2>1, <3>1, SnapshotStepKeeps
  <2>5. CASE Goto(c, "create")
    <3> DEFINE e == [c EXCEPT !.step = "create"]
    <3>1. captures' = (captures \ {c}) \cup {e} /\ e \in Capture
      BY <1>0, <2>5, GotoCapture DEF Goto
    <3> HIDE DEF e
    <3>2. SnapshotTypeOK'
      BY <1>0, <2>1, <3>1 DEF SnapshotTypeOK
    <3>3. relayFaults = 0 /\ stops = 0 => relay = "up" /\ retryPending /\ PendingRetries = {}
                                          /\ \A d \in captures : Retrying(d) => d = c
      BY <2>3 DEF RelayInv, RetryIsMarked
    <3>4. RetryIsMarked'
      BY <2>1, <2>2, <3>1, <3>3 DEF RetryIsMarked
    <3> QED
      BY <1>0, <2>1, <3>2, <3>4, SnapshotStepKeeps
  <2> QED
    BY <1>4, <2>4, <2>5 DEF FindRetry, Ends
<1>5. CASE CreateRetry(c)
  BY <1>0, <1>5, EnqueueKeeps, RelayEvents DEF CreateRetry, Ends
<1> QED
  BY <1>1, <1>2, <1>3, <1>4, <1>5 DEF Proceed

LEMMA RetryFailsKeeps == ASSUME RelayInv, NEW c \in captures, RetryFails(c) PROVE RelayInv'
<1>1. UNCHANGED <<relay, outbox, enqueued, batch, delivering, current, doc, latest, snapshot, received, tries,
                  miscounts, valued, owed, stops>>
  BY DEF RetryFails, outboxVars, flushVars, relayHistory
<1>2. relayFaults' \in 0 .. MaxRelayFaults /\ relayFaults' # 0 /\ retryPending' = FALSE /\ captures' \subseteq captures
  BY RelayConstants DEF RetryFails, RelayFault, Ends, RelayInv, RelayTypeOK
<1>3. SnapshotTypeOK' /\ RetryIsMarked' /\ received' \subseteq RelayEvent
  BY <1>1, <1>2 DEF RelayInv, RelayTypeOK, SnapshotTypeOK, RetryIsMarked
<1> QED
  BY <1>1, <1>3, SnapshotStepKeeps

(***************************************************************************)
(* The process.                                                            *)
(***************************************************************************)
LEMMA StopKeeps == ASSUME RelayInv, Stop PROVE RelayInv'
<1>1. /\ UNCHANGED <<outbox, enqueued, batch, delivering, current, doc, latest, retryPending, received,
                     tries, miscounts, valued, owed, relayFaults>>
      /\ snapshot' = None /\ relay' = "stopping"
  BY DEF Stop, outboxVars, flushVars
<1>2. captures' \subseteq Capture
  BY StartCaptureProperties DEF Stop, RelayInv, RelayTypeOK
<1>3. stops' \in 0 .. MaxStops /\ stops' # 0
  BY RelayConstants DEF Stop, RelayInv, RelayTypeOK
<1>4. SnapshotTypeOK' /\ RetryIsMarked' /\ received' \subseteq RelayEvent
  BY <1>1, <1>2, <1>3 DEF RelayInv, RelayTypeOK, SnapshotTypeOK, RetryIsMarked
<1> QED
  BY <1>1, <1>4, SnapshotStepKeeps

LEMMA StopFlushKeeps == ASSUME RelayInv, StopFlush PROVE RelayInv'
<1>1. CASE relay' = "draining" /\ StartFlush
  BY <1>1, FlushKeeps DEF StopFlush
<1>2. CASE relay' = "exiting" /\ UNCHANGED flushVars
  <2>1. UNCHANGED <<outbox, enqueued, batch, delivering, current, doc, latest, snapshot, captures, retryPending,
                    received, tries, miscounts, valued, owed, stops, relayFaults>>
    BY <1>2 DEF StopFlush, outboxVars, flushVars, snapshotVars, relayHistory
  <2>2. ~(relayFaults = 0 /\ stops = 0)
    BY DEF StopFlush, RelayInv, RetryIsMarked
  <2>3. SnapshotTypeOK' /\ RetryIsMarked' /\ received' \subseteq RelayEvent
    BY <1>2, <2>1, <2>2 DEF RelayInv, RelayTypeOK, SnapshotTypeOK, RetryIsMarked
  <2> QED
    BY <2>1, <2>3, SnapshotStepKeeps
<1> QED
  BY <1>1, <1>2 DEF StopFlush

LEMMA LoseMemoryKeeps ==
  ASSUME RelayInv, LoseMemory, owed' \in {owed, None}, relayFaults' \in 0 .. MaxRelayFaults,
         ~(relayFaults' = 0 /\ stops = 0)
  PROVE  RelayInv'
<1>1. /\ UNCHANGED <<outbox, enqueued, received, tries, miscounts, valued, stops>>
      /\ relay' = "down" /\ batch' = {} /\ delivering' = "idle" /\ current' = None /\ doc' = Absent
      /\ latest' = None /\ snapshot' = None /\ captures' = {} /\ retryPending' = FALSE
  BY DEF LoseMemory, outboxVars
<1>2. RelayTypeOK'
  BY <1>1, Records DEF RelayInv, RelayTypeOK
<1>3. RecordsBounded' /\ BatchWaits' /\ DeliveredWasReceived'
  BY <1>1 DEF RelayInv, RecordsBounded, Bounded, BatchWaits, DeliveredWasReceived
<1>4. DocumentIsTrue'
  BY <1>1, Records DEF DocumentIsTrue, Bounded
<1>5. AttemptsCounted'
  BY <1>1, RelayEvents DEF RelayInv, AttemptsCounted, Counted
<1>6. RetryIsMarked'
  BY <1>1 DEF RetryIsMarked
<1> QED
  BY <1>2, <1>3, <1>4, <1>5, <1>6 DEF RelayInv

LEMMA ExitKeeps == ASSUME RelayInv, Exit PROVE RelayInv'
<1>1. ~(relayFaults = 0 /\ stops = 0) /\ relayFaults \in 0 .. MaxRelayFaults
  BY DEF Exit, RelayInv, RelayTypeOK, RetryIsMarked
<1> QED
  BY <1>1, LoseMemoryKeeps DEF Exit

LEMMA CrashKeeps == ASSUME RelayInv, CrashRelay PROVE RelayInv'
<1>1. relayFaults' \in 0 .. MaxRelayFaults /\ relayFaults' # 0
  BY RelayConstants DEF CrashRelay, RelayFault, RelayInv, RelayTypeOK
<1> QED
  BY <1>1, LoseMemoryKeeps DEF CrashRelay

LEMMA StartKeeps == ASSUME RelayInv, Start PROVE RelayInv'
<1>1. UNCHANGED <<outbox, enqueued, batch, delivering, current, doc, latest, snapshot, captures, retryPending,
                  received, tries, miscounts, valued, owed, stops, relayFaults>> /\ relay' = "up"
  BY DEF Start, outboxVars, flushVars, snapshotVars, relayHistory
<1>2. PendingRetries' = PendingRetries
  BY <1>1 DEF PendingRetries
<1>3. SnapshotTypeOK' /\ RetryIsMarked' /\ received' \subseteq RelayEvent
  BY <1>1, <1>2 DEF RelayInv, RelayTypeOK, SnapshotTypeOK, RetryIsMarked, Retrying
<1> QED
  BY <1>1, <1>3, SnapshotStepKeeps

LEMMA StutterKeepsRelayInv == ASSUME RelayInv, UNCHANGED relayVars PROVE RelayInv'
<1>1. UNCHANGED <<relay, outbox, enqueued, batch, delivering, current, doc, latest, snapshot, captures,
                  retryPending, received, tries, miscounts, valued, owed, stops, relayFaults>>
  BY DEF relayVars, outboxVars, flushVars, snapshotVars, relayHistory
<1>2. PendingRetries' = PendingRetries
  BY <1>1 DEF PendingRetries
<1>3. SnapshotTypeOK' /\ RetryIsMarked' /\ received' \subseteq RelayEvent
  BY <1>1, <1>2 DEF RelayInv, RelayTypeOK, SnapshotTypeOK, RetryIsMarked, Retrying
<1> QED
  BY <1>1, <1>3, SnapshotStepKeeps

LEMMA EnqueueFactKeeps == ASSUME RelayInv, NEW f \in Fact, EnqueueFact(f) PROVE RelayInv'
<1>1. f \in RelayEvent /\ f \notin Snapshot
  BY RelayEvents
<1>2. UNCHANGED <<relay, flushVars, latest, snapshot, retryPending, captures, relayHistory, relayFaults>>
  BY DEF EnqueueFact, snapshotVars
<1> QED
  BY <1>1, <1>2, EnqueueKeeps DEF EnqueueFact

(* The inductive invariant of the relay (platform-event-relay.js). *)
THEOREM RelayInvariant == RelaySpec => []RelayInv
<1>1. RelayInv /\ [RelayNext]_relayVars => RelayInv'
  <2> SUFFICES ASSUME RelayInv, [RelayNext]_relayVars PROVE RelayInv'
    OBVIOUS
  <2>1. CASE Flush
    BY <2>1, FlushKeeps DEF Flush
  <2>2. CASE \E e \in RelayEvent : AttemptFallsDue(e) \/ Post(e) \/ SaveDelivered(e) \/ SaveFailed(e)
    BY <2>2, FallsDueKeeps, PostKeeps, SaveDeliveredKeeps, SaveFailedKeeps
  <2>3. CASE \/ \E n \in Snapshot : QueueSnapshot(n)
             \/ SnapshotTimer
             \/ \E c \in captures : Proceed(c) \/ RetryFails(c)
    BY <2>3, QueueSnapshotKeeps, SnapshotTimerKeeps, ProceedKeeps, RetryFailsKeeps
  <2>4. CASE Stop \/ StopFlush \/ Exit \/ CrashRelay \/ Start
    BY <2>4, StopKeeps, StopFlushKeeps, ExitKeeps, CrashKeeps, StartKeeps
  <2>5. CASE \E f \in Fact : EnqueueFact(f)
    BY <2>5, EnqueueFactKeeps
  <2>6. CASE UNCHANGED relayVars
    BY <2>6, StutterKeepsRelayInv
  <2> QED
    BY <2>1, <2>2, <2>3, <2>4, <2>5, <2>6 DEF RelayNext
<1> QED
  BY InitRelayInv, <1>1, PTL DEF RelaySpec

(***************************************************************************)
(* Whatever is lost, fails, stops or dies, the outbox calls delivered only *)
(* what the platform has received, gives a fact up only after MaxAttempts  *)
(* counted tries, and stores one retry of an account's snapshots as long   *)
(* as nothing has failed or stopped (platform-event-relay.js).             *)
(***************************************************************************)
THEOREM OutboxIsTrueTheorem == RelaySpec => []OutboxIsTrue
<1>1. RelayInv => DeadAfterAllTries
  <2> SUFFICES ASSUME RelayInv, NEW f \in Fact, outbox[f].status = "DEAD"
               PROVE  tries[f] + miscounts[f] >= MaxAttempts
    BY DEF DeadAfterAllTries
  <2>1. outbox[f].attempts >= MaxAttempts /\ Counted(f, outbox[f]) /\ outbox[f].attempts \in Nat
    BY RelayEvents, RelayConstants DEF RelayInv, RecordsBounded, Bounded, AttemptsCounted, RelayTypeOK, Record
  <2>2. tries[f] \in Nat /\ miscounts[f] \in Nat /\ MaxAttempts \in Nat
    BY RelayConstants DEF RelayInv, RelayTypeOK
  <2> QED
    BY <2>1, <2>2 DEF Counted
<1>2. RelayInv => OneRetryPerAccount
  <2> SUFFICES ASSUME RelayInv, relayFaults = 0, stops = 0 PROVE Cardinality(PendingRetries) <= 1
    BY DEF OneRetryPerAccount
  <2>1. CASE PendingRetries = {}
    BY <2>1, FS_EmptySet
  <2>2. CASE PendingRetries # {}
    <3>1. PICK n \in PendingRetries : PendingRetries = {n}
      BY <2>2 DEF RelayInv, RetryIsMarked
    <3> QED
      BY <3>1, FS_Singleton
  <2> QED
    BY <2>1, <2>2
<1>3. RelayInv => OutboxIsTrue
  BY <1>1, <1>2 DEF RelayInv, OutboxIsTrue
<1> QED
  BY RelayInvariant, <1>3, PTL
=============================================================================
