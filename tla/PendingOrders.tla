----------------------------- MODULE PendingOrders -----------------------------
(***************************************************************************)
(* The pending orders of one account on one symbol: PendingOrderService    *)
(* (pending-order.service.js), PendingOrderAmendService                    *)
(* (pending-order-amend.service.js) and the PendingOrderEngine             *)
(* (pending-order-engine.js), which watches ticks on copies of the orders  *)
(* that it keeps in memory.                                                *)
(*                                                                         *)
(* A queued transaction is one step.  Its event is emitted when the driver *)
(* has reported the commit, and no later transaction of the account can be *)
(* reported before that, so a committed order whose event is outstanding   *)
(* holds the queue (event # NoEvent).  All orders buy; a sell order is the *)
(* mirror image.  Whether an order may be placed or filled at the market   *)
(* of the moment (planPendingOrder, planMarketOpen) is left open.          *)
(***************************************************************************)
EXTENDS Naturals

CONSTANTS
  Order, TypeOf,
  Price,          \* executable prices, and limit and stop prices
  Protection,     \* stop losses, which are only told apart
  Amendment,      \* the <<limit, stop loss>> that an amendment may ask for
  Faults,         \* what may go wrong: "crash", "failure", "unknown"
  NoCopy, NoEvent, NoTerms,
  MaxFaults       \* bound

ASSUME PendingConstants ==
  /\ TypeOf \in [Order -> {"LIMIT", "STOP", "STOP_LIMIT"}]
  /\ Price \subseteq Nat
  /\ Price # {} /\ Protection # {}
  /\ Amendment \subseteq Price \X Protection
  /\ Faults \subseteq {"crash", "failure", "unknown"}
  /\ NoTerms \notin Price \X Protection
  /\ MaxFaults \in Nat
  /\ NoCopy \notin [status : {"PENDING", "TRIGGERED"}, limit : Price, stop : Price]
  /\ NoEvent \notin [order : Order, next : {"none", "execute"}]

VARIABLES
  order,    \* the order documents
  due,      \* the orders whose expiresAt lies in the past
  engine,   \* "down", "attached", or "started"
  found,    \* what the two queries of start() have returned
  copy,     \* this.orders: the engine's copies
  work,     \* this.inFlight: what the engine has launched for an order
  event,    \* the order whose event is to be emitted, and what comes after
  amended,  \* history: the terms of an order's last completed amendment
  unreported, \* history: orders whose last commit was reported as an error
  faults

vars == <<order, due, engine, found, copy, work, event, amended, unreported, faults>>

Live == {"PENDING", "TRIGGERED"}
Ended == {"FILLED", "CANCELLED", "EXPIRED", "REJECTED"}
Status == {"none"} \cup Live \cup Ended

OrderDocument == [status : Status, limit : Price, stop : Price, stopLoss : Protection]
Copies == [status : Live, limit : Price, stop : Price]
Step == {"none", "activate", "execute", "expire", "announce"}

TypeOK ==
  /\ order \in [Order -> OrderDocument]
  /\ due \subseteq Order
  /\ engine \in {"down", "attached", "started"}
  /\ found \in [queries : SUBSET Live, orders : [Order -> Copies \cup {NoCopy}]]
  /\ copy \in [Order -> Copies \cup {NoCopy}]
  /\ work \in [Order -> [step : Step, price : Price]]
  /\ event \in [order : Order, next : {"none", "execute"}] \cup {NoEvent}
  /\ amended \in [Order -> (Price \X Protection) \cup {NoTerms}]
  /\ unreported \subseteq Order
  /\ faults \in Nat

AnyPrice == CHOOSE p \in Price : TRUE
NothingFound == [queries |-> {}, orders |-> [q \in Order |-> NoCopy]]
NoWork == [step |-> "none", price |-> AnyPrice]

\* The limit of a stop-limit order that buys is not below its stop
\* (validatePlacementRelation()).
Sensible(q, limit, stop) == TypeOf[q] = "STOP_LIMIT" => limit >= stop

Init ==
  /\ order \in [Order -> [status : {"none"}, limit : Price, stop : Price,
                          stopLoss : {CHOOSE p \in Protection : TRUE}]]
  /\ \A q \in Order : Sensible(q, order[q].limit, order[q].stop)
  /\ due = {}
  /\ engine = "started"
  /\ found = NothingFound
  /\ copy = [q \in Order |-> NoCopy]
  /\ work = [q \in Order |-> NoWork]
  /\ event = NoEvent
  /\ amended = [q \in Order |-> NoTerms]
  /\ unreported = {}
  /\ faults = 0

IsLive(q) == order[q].status \in Live

\* normalizePendingOrder().
CopyOf(q) == [status |-> order[q].status, limit |-> order[q].limit, stop |-> order[q].stop]

-----------------------------------------------------------------------------
(***************************************************************************)
(* detectPendingOrderAction(), on a copy or on the document.               *)
(***************************************************************************)
Detect(q, o, price) ==
  IF q \in due THEN "expire"
  ELSE CASE o.status = "PENDING" /\ TypeOf[q] = "LIMIT" /\ price <= o.limit     -> "execute"
         [] o.status = "PENDING" /\ TypeOf[q] = "STOP" /\ price >= o.stop       -> "execute"
         [] o.status = "PENDING" /\ TypeOf[q] = "STOP_LIMIT" /\ price >= o.stop -> "activate"
         [] o.status = "TRIGGERED" /\ price <= o.limit                          -> "execute"
         [] OTHER                                                               -> "none"

QueueFree == engine # "down" /\ event = NoEvent

Fault(kind) ==
  /\ kind \in Faults
  /\ faults < MaxFaults
  /\ faults' = faults + 1

SetStatus(q, s) == order' = [order EXCEPT ![q].status = s]

Report(q, next) ==
  /\ event' = [order |-> q, next |-> next]
  /\ unreported' = unreported \ {q}
  /\ UNCHANGED faults

(***************************************************************************)
(* The commands of the trader.  The driver may report a commit as an       *)
(* error ("unknown"); the service then emits nothing.                      *)
(***************************************************************************)
CommandCommits(q) ==
  \/ Report(q, "none")
  \/ Fault("unknown") /\ unreported' = unreported \cup {q} /\ UNCHANGED event

Place(q) ==
  /\ engine = "started" /\ QueueFree
  /\ order[q].status = "none"
  /\ q \notin due
  /\ SetStatus(q, "PENDING")
  /\ CommandCommits(q)
  /\ UNCHANGED <<due, engine, found, copy, work, amended>>

Cancel(q) ==
  /\ engine = "started" /\ QueueFree
  /\ IsLive(q)
  /\ SetStatus(q, "CANCELLED")
  /\ CommandCommits(q)
  /\ UNCHANGED <<due, engine, found, copy, work, amended>>

\* Mutant: limitPrice is not immutable.
AmendLimit(q, terms) ==
  /\ engine = "started" /\ QueueFree
  /\ order[q].status = "PENDING"
  /\ Sensible(q, terms[1], order[q].stop)
  /\ order' = [order EXCEPT ![q].stopLoss = terms[2], ![q].limit = terms[1]]
  /\ amended' = [amended EXCEPT ![q] = terms]
  /\ UNCHANGED <<due, engine, found, copy, work, event, unreported, faults>>

\* amend() assigns every field and saves, but limitPrice, stopPrice, volume
\* and expiry are immutable in the schema, which ignores the assignment.  The
\* engine does not listen for the event.
Amend(q, terms) ==
  /\ engine = "started" /\ QueueFree
  /\ order[q].status = "PENDING"
  /\ Sensible(q, terms[1], order[q].stop)
  /\ order' = [order EXCEPT ![q].stopLoss = terms[2]]
  /\ amended' = [amended EXCEPT ![q] = terms]
  /\ UNCHANGED <<due, engine, found, copy, work, event, unreported, faults>>

\* AccountControlService.#cancelPending(): one updateMany, and no order event.
CancelAll ==
  /\ QueueFree
  /\ order' = [q \in Order |-> IF IsLive(q) THEN [order[q] EXCEPT !.status = "CANCELLED"]
                               ELSE order[q]]
  /\ UNCHANGED <<due, engine, found, copy, work, event, amended, unreported, faults>>

-----------------------------------------------------------------------------
(***************************************************************************)
(* The engine.  #onTick() and #checkExpiries() launch work for the copies  *)
(* that call for it and have none in flight.                               *)
(***************************************************************************)
Idle(q) == copy[q] # NoCopy /\ work[q].step = "none"

Tick(price) ==
  /\ engine = "started"
  /\ work' = [q \in Order |->
       IF Idle(q) /\ Detect(q, copy[q], price) # "none"
         THEN [step |-> Detect(q, copy[q], price), price |-> price]
         ELSE work[q]]
  /\ UNCHANGED <<order, due, engine, found, copy, event, amended, unreported, faults>>

\* Mutant: the timer looks at orders that were not triggered only.
CheckExpiriesPending ==
  /\ engine = "started"
  /\ work' = [q \in Order |-> IF Idle(q) /\ q \in due /\ copy[q].status = "PENDING"
                                THEN [NoWork EXCEPT !.step = "expire"] ELSE work[q]]
  /\ UNCHANGED <<order, due, engine, found, copy, event, amended, unreported, faults>>

CheckExpiries ==
  /\ engine = "started"
  /\ work' = [q \in Order |-> IF Idle(q) /\ q \in due
                                THEN [NoWork EXCEPT !.step = "expire"] ELSE work[q]]
  /\ UNCHANGED <<order, due, engine, found, copy, event, amended, unreported, faults>>

Turn(q, step) == QueueFree /\ work[q].step = step

Finished(q) == work' = [work EXCEPT ![q] = NoWork]

\* An engine transaction that has changed the order, and what follows it.
EngineCommits(q, s, next) ==
  /\ SetStatus(q, s)
  /\ \/ Report(q, next) /\ work' = [work EXCEPT ![q].step = "announce"]
     \/ Fault("unknown") /\ unreported' = unreported \cup {q} /\ Finished(q) /\ UNCHANGED event
  /\ UNCHANGED <<due, engine, found, copy, amended>>

\* { skipped: true }, or an error that is logged.
Skip(q) ==
  /\ Finished(q)
  /\ UNCHANGED <<order, due, engine, found, copy, event, amended, unreported, faults>>

Now(q) == Detect(q, order[q], work[q].price)

\* activateStopLimit(), and processAction() on the order it returns: the same
\* tick may fill it.
SameTick(q) ==
  LET o == [order[q] EXCEPT !.status = "TRIGGERED"]
  IN  IF Detect(q, o, work[q].price) = "execute" THEN "execute" ELSE "none"

Activate(q) ==
  /\ Turn(q, "activate")
  /\ IF order[q].status # "PENDING"
       THEN Skip(q)
       ELSE CASE Now(q) = "expire"   -> EngineCommits(q, "EXPIRED", "none")
              [] Now(q) = "activate" -> EngineCommits(q, "TRIGGERED", SameTick(q))
              [] OTHER               -> Skip(q)

\* Mutant: the engine's copy is believed.
ExecuteByCopy(q) ==
  /\ Turn(q, "execute")
  /\ IF copy[q] = NoCopy
       THEN Skip(q)
       ELSE CASE Detect(q, copy[q], work[q].price) = "expire" -> EngineCommits(q, "EXPIRED", "none")
              [] Detect(q, copy[q], work[q].price) = "execute" -> EngineCommits(q, "FILLED", "none")
              [] OTHER -> Skip(q)

\* executePendingOrder().  What is rejected for good ends the order; a stale
\* quote, or a fill beyond the limit, leaves it for a later tick.
Execute(q) ==
  /\ Turn(q, "execute")
  /\ IF ~IsLive(q)
       THEN Skip(q)
       ELSE CASE Now(q) = "expire"  -> EngineCommits(q, "EXPIRED", "none")
              [] Now(q) = "execute" -> \/ EngineCommits(q, "FILLED", "none")
                                       \/ EngineCommits(q, "REJECTED", "none")
                                       \/ Skip(q)
              [] OTHER              -> Skip(q)

\* expirePendingOrder().
Expire(q) ==
  /\ Turn(q, "expire")
  /\ IF IsLive(q) /\ q \in due THEN EngineCommits(q, "EXPIRED", "none") ELSE Skip(q)

\* A read fails or the transaction is abandoned.
WorkFails(q) ==
  /\ work[q].step \in {"activate", "execute", "expire"}
  /\ Fault("failure")
  /\ Finished(q)
  /\ UNCHANGED <<order, due, engine, found, copy, event, amended, unreported>>

\* Work that waits for this event goes on, or has ended.
AfterEvent(q) ==
  IF work[q].step # "announce" THEN UNCHANGED work
  ELSE IF event.next = "none" THEN Finished(q)
  ELSE work' = [work EXCEPT ![q].step = event.next]

\* The event reaches the engine's listener: #upsert() or #remove().
Announce ==
  /\ event # NoEvent
  /\ LET q == event.order
     IN  /\ copy' = [copy EXCEPT ![q] = IF IsLive(q) THEN CopyOf(q) ELSE NoCopy]
         /\ AfterEvent(q)
  /\ event' = NoEvent
  /\ UNCHANGED <<order, due, engine, found, amended, unreported, faults>>

-----------------------------------------------------------------------------
(***************************************************************************)
(* start(): listen, query the pending and the triggered orders, store what *)
(* they have returned.  Neither ticks nor commands come before that.       *)
(***************************************************************************)
Attach ==
  /\ engine = "down"
  /\ engine' = "attached"
  /\ UNCHANGED <<order, due, found, copy, work, event, amended, unreported, faults>>

Query(s) ==
  /\ engine = "attached"
  /\ s \in Live \ found.queries
  /\ found' = [queries |-> found.queries \cup {s},
               orders |-> [q \in Order |-> IF order[q].status = s THEN CopyOf(q)
                                           ELSE found.orders[q]]]
  /\ UNCHANGED <<order, due, engine, copy, work, event, amended, unreported, faults>>

Store ==
  /\ engine = "attached"
  /\ found.queries = Live
  /\ engine' = "started"
  /\ copy' = [q \in Order |-> IF found.orders[q] # NoCopy THEN found.orders[q] ELSE copy[q]]
  /\ found' = NothingFound
  /\ UNCHANGED <<order, due, work, event, amended, unreported, faults>>

Crash ==
  /\ engine # "down"
  /\ Fault("crash")
  /\ engine' = "down"
  /\ found' = NothingFound
  /\ copy' = [q \in Order |-> NoCopy]
  /\ work' = [q \in Order |-> NoWork]
  /\ event' = NoEvent
  /\ unreported' = {}
  /\ UNCHANGED <<order, due, amended>>

\* The clock passes an order's expiresAt.
FallDue(q) ==
  /\ q \notin due
  /\ due' = due \cup {q}
  /\ UNCHANGED <<order, engine, found, copy, work, event, amended, unreported, faults>>

EngineWork(q) == Activate(q) \/ Execute(q) \/ Expire(q)

Next ==
  \/ \E q \in Order : Place(q) \/ Cancel(q) \/ FallDue(q)
  \/ \E q \in Order, terms \in Amendment : Amend(q, terms)
  \/ CancelAll
  \/ \E price \in Price : Tick(price)
  \/ CheckExpiries
  \/ \E q \in Order : EngineWork(q) \/ WorkFails(q)
  \/ Announce
  \/ Attach \/ (\E s \in Live : Query(s)) \/ Store
  \/ Crash

Spec == Init /\ [][Next]_vars

\* Timers fire, launched work and events come to their turn, and a process that
\* died is restarted.
Fairness ==
  /\ WF_vars(CheckExpiries) /\ WF_vars(Announce)
  /\ WF_vars(Attach) /\ WF_vars(Store) /\ \A s \in Live : WF_vars(Query(s))
  /\ \A q \in Order : WF_vars(EngineWork(q))

FairSpec == Spec /\ Fairness

-----------------------------------------------------------------------------
(***************************************************************************)
(* The engine knows what it has to watch: once it has started and events   *)
(* are delivered, every live order has a copy with its present status and  *)
(* prices, after any trading, amendment, failure or restart, unless its    *)
(* last commit was reported as an error.                                   *)
(***************************************************************************)
EngineFollows ==
  (engine = "started" /\ event = NoEvent)
    => \A q \in Order \ unreported : IsLive(q) => copy[q] = CopyOf(q)

(***************************************************************************)
(* An order ends once: cancelled, filled, expired or rejected, it stays so *)
(* whatever was in flight for it.  A stop-limit order is filled after its  *)
(* stop was reached, and only what is due expires.                         *)
(***************************************************************************)
Successors(q) ==
  CASE order[q].status = "none"      -> {"PENDING"}
    [] order[q].status = "PENDING"   -> IF TypeOf[q] = "STOP_LIMIT"
                                          THEN {"TRIGGERED", "CANCELLED", "EXPIRED"} ELSE Ended
    [] order[q].status = "TRIGGERED" -> Ended
    [] order[q].status \in Ended     -> {}

OrdersEndOnce ==
  [][\A q \in Order : order'[q].status # order[q].status
       => /\ order'[q].status \in Successors(q)
          /\ order'[q].status = "EXPIRED" => q \in due]_vars

(***************************************************************************)
(* An order that is due does not stay live, whether ticks come or not,     *)
(* whatever crashes or fails: it ends, or the engine does not know of it.  *)
(***************************************************************************)
DueOrdersEnd == \A q \in Order : (q \in due /\ IsLive(q)) ~> (~IsLive(q) \/ q \in unreported)

(***************************************************************************)
(* An order that has ended does not stay in the engine.                    *)
(***************************************************************************)
EndedOrdersLeave ==
  \A q \in Order : (order[q].status \in Ended /\ copy[q] # NoCopy) ~> (copy[q] = NoCopy)

(***************************************************************************)
(* A completed amendment is what the order says.                           *)
(***************************************************************************)
AmendmentTakesEffect ==
  \A q \in Order :
    (amended[q] # NoTerms /\ IsLive(q)) => amended[q] = <<order[q].limit, order[q].stopLoss>>

\* The copies of the engine are those of live orders, and current
\* (pending-order-engine.js).
CopiesAreCurrent == TypeOK /\ EngineFollows
=============================================================================
