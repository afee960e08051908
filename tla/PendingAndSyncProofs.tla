------------------------- MODULE PendingAndSyncProofs -------------------------
(***************************************************************************)
(* Proofs about PendingOrders, for any orders, prices, amendments and      *)
(* number of faults, and about TraderSync, for any accounts, syncs,        *)
(* connections and buffer sizes.  The argument for the engine's copies:    *)
(* only the order whose event is outstanding can be ahead of its copy, and *)
(* while the engine starts, what a query has returned is current until it  *)
(* is stored.  The argument for a trader's view: what it shows, followed   *)
(* by what the buffer still holds for that account, is current, for every  *)
(* account the trader follows.                                             *)
(***************************************************************************)
EXTENDS PendingOrders, TraderSync, InductionLemmas, TLAPS

LEMMA DetectIsStep ==
  ASSUME NEW q, NEW o, NEW price
  PROVE  Detect(q, o, price) \in {"none", "activate", "execute", "expire"}
BY DEF Detect

LEMMA CopyIsCopy ==
  ASSUME TypeOK, NEW q \in Order, IsLive(q)
  PROVE  CopyOf(q) \in Copies /\ CopyOf(q) # NoCopy
<1>1. order[q] \in OrderDocument
  BY DEF TypeOK
<1>2. CopyOf(q) \in Copies
  BY <1>1 DEF OrderDocument, IsLive, CopyOf, Copies
<1> QED
  BY <1>2, PendingConstants DEF Copies, Live

-----------------------------------------------------------------------------
(***************************************************************************)
(* Type correctness.                                                       *)
(***************************************************************************)
LEMMA AnyPriceIsPrice == AnyPrice \in Price
BY PendingConstants DEF AnyPrice

LEMMA NoWorkIsWork == NoWork \in [step : Step, price : Price]
BY AnyPriceIsPrice DEF NoWork, Step

LEMMA InitTypeOK == Init => TypeOK
<1> SUFFICES ASSUME Init PROVE TypeOK
  OBVIOUS
<1>1. (CHOOSE p \in Protection : TRUE) \in Protection
  BY PendingConstants
<1>2. order \in [Order -> OrderDocument]
  BY <1>1 DEF Init, OrderDocument, Status
<1>3. NothingFound \in [queries : SUBSET Live, orders : [Order -> Copies \cup {NoCopy}]]
  BY DEF NothingFound
<1>4. work \in [Order -> [step : Step, price : Price]]
  BY NoWorkIsWork DEF Init
<1> QED
  BY <1>2, <1>3, <1>4 DEF Init, TypeOK

LEMMA SetStatusType ==
  ASSUME TypeOK, NEW q \in Order, NEW s \in Status, SetStatus(q, s)
  PROVE  order' \in [Order -> OrderDocument]
<1>1. order[q] \in OrderDocument
  BY DEF TypeOK
<1>2. [order[q] EXCEPT !.status = s] \in OrderDocument
  BY <1>1 DEF OrderDocument
<1> QED
  BY <1>2 DEF SetStatus, TypeOK

LEMMA FaultType ==
  ASSUME TypeOK, NEW kind, Fault(kind)
  PROVE  faults' \in Nat
BY DEF TypeOK, Fault

LEMMA ReportType ==
  ASSUME TypeOK, NEW q \in Order, NEW next \in {"none", "execute"},
         \/ Report(q, next)
         \/ Fault("unknown") /\ unreported' = unreported \cup {q} /\ UNCHANGED event
  PROVE  /\ event' \in [order : Order, next : {"none", "execute"}] \cup {NoEvent}
         /\ unreported' \subseteq Order
         /\ faults' \in Nat
<1>1. [order |-> q, next |-> next] \in [order : Order, next : {"none", "execute"}]
  OBVIOUS
<1> QED  BY <1>1, FaultType DEF Report, TypeOK

LEMMA CommandsKeepType ==
  ASSUME TypeOK,
         \/ \E q \in Order : Place(q) \/ Cancel(q)
         \/ \E q \in Order, terms \in Amendment : Amend(q, terms)
         \/ CancelAll
  PROVE  TypeOK'
<1>1. ASSUME NEW q \in Order, Place(q) \/ Cancel(q)
      PROVE  TypeOK'
  <2>1. CommandCommits(q) /\ (SetStatus(q, "PENDING") \/ SetStatus(q, "CANCELLED"))
    BY <1>1 DEF Place, Cancel
  <2>2. order' \in [Order -> OrderDocument]
    BY <2>1, SetStatusType DEF Status, Live, Ended
  <2>3. /\ event' \in [order : Order, next : {"none", "execute"}] \cup {NoEvent}
        /\ unreported' \subseteq Order
        /\ faults' \in Nat
    BY <2>1, ReportType DEF CommandCommits
  <2> QED  BY <1>1, <2>2, <2>3 DEF Place, Cancel, TypeOK
<1>2. ASSUME NEW q \in Order, NEW terms \in Amendment, Amend(q, terms)
      PROVE  TypeOK'
  <2>1. order[q] \in OrderDocument /\ terms \in Price \X Protection
    BY PendingConstants DEF TypeOK
  <2>2. [order[q] EXCEPT !.stopLoss = terms[2]] \in OrderDocument
    BY <2>1 DEF OrderDocument
  <2>3. order' \in [Order -> OrderDocument]
    BY <1>2, <2>2 DEF Amend, TypeOK
  <2>4. amended' \in [Order -> (Price \X Protection) \cup {NoTerms}]
    BY <1>2, <2>1 DEF Amend, TypeOK
  <2> QED  BY <1>2, <2>3, <2>4 DEF Amend, TypeOK
<1>3. CASE CancelAll
  <2>1. \A o \in OrderDocument : [o EXCEPT !.status = "CANCELLED"] \in OrderDocument
    BY DEF OrderDocument, Status, Live, Ended
  <2>2. order' \in [Order -> OrderDocument]
    BY <1>3, <2>1 DEF CancelAll, TypeOK
  <2> QED  BY <1>3, <2>2 DEF CancelAll, TypeOK
<1> QED  BY <1>1, <1>2, <1>3

LEMMA LaunchesKeepType ==
  ASSUME TypeOK, NEW price \in Price, Tick(price) \/ CheckExpiries
  PROVE  TypeOK'
<1>1. \A q \in Order : [step |-> Detect(q, copy[q], price), price |-> price]
                         \in [step : Step, price : Price]
  BY DetectIsStep DEF Step
<1>2. [NoWork EXCEPT !.step = "expire"] \in [step : Step, price : Price]
  BY NoWorkIsWork DEF Step
<1>3. work' \in [Order -> [step : Step, price : Price]]
  BY <1>1, <1>2 DEF Tick, CheckExpiries, TypeOK
<1> QED  BY <1>3 DEF Tick, CheckExpiries, TypeOK

LEMMA FinishedType ==
  ASSUME TypeOK, NEW q \in Order, Finished(q)
  PROVE  work' \in [Order -> [step : Step, price : Price]]
BY NoWorkIsWork DEF TypeOK, Finished

LEMMA EngineCommitsType ==
  ASSUME TypeOK, NEW q \in Order, NEW s \in Status, NEW next \in {"none", "execute"},
         EngineCommits(q, s, next)
  PROVE  TypeOK'
<1>1. order' \in [Order -> OrderDocument]
  BY SetStatusType DEF EngineCommits
<1>2. work[q] \in [step : Step, price : Price]
  BY DEF TypeOK
<1>3. [work[q] EXCEPT !.step = "announce"] \in [step : Step, price : Price]
  BY <1>2 DEF Step
<1>4. work' \in [Order -> [step : Step, price : Price]]
  <2>1. CASE Finished(q)
    BY <2>1, FinishedType
  <2>2. CASE work' = [work EXCEPT ![q].step = "announce"]
    BY <1>3, <2>2 DEF TypeOK
  <2> QED  BY <2>1, <2>2 DEF EngineCommits
<1>5. /\ event' \in [order : Order, next : {"none", "execute"}] \cup {NoEvent}
      /\ unreported' \subseteq Order
      /\ faults' \in Nat
  BY ReportType DEF EngineCommits
<1> QED  BY <1>1, <1>4, <1>5 DEF EngineCommits, TypeOK

\* What a turn of the engine can do.
LEMMA EngineWorkCases ==
  ASSUME NEW q \in Order, EngineWork(q)
  PROVE  \/ Skip(q)
         \/ IsLive(q) /\ q \in due /\ EngineCommits(q, "EXPIRED", "none")
         \/ /\ order[q].status = "PENDING" /\ TypeOf[q] = "STOP_LIMIT"
            /\ \E next \in {"none", "execute"} : EngineCommits(q, "TRIGGERED", next)
         \/ /\ order[q].status = "TRIGGERED" \/ (order[q].status = "PENDING" /\ TypeOf[q] # "STOP_LIMIT")
            /\ EngineCommits(q, "FILLED", "none") \/ EngineCommits(q, "REJECTED", "none")
<1>1. Now(q) = "expire" => q \in due
  BY DEF Now, Detect
<1>2. order[q].status = "PENDING" /\ Now(q) = "activate" => TypeOf[q] = "STOP_LIMIT"
  BY DEF Now, Detect
<1>3. IsLive(q) /\ Now(q) = "execute"
        => order[q].status = "TRIGGERED" \/ (order[q].status = "PENDING" /\ TypeOf[q] # "STOP_LIMIT")
  BY DEF Now, Detect, IsLive, Live
<1>4. SameTick(q) \in {"none", "execute"}
  BY DEF SameTick
<1>5. CASE Activate(q)
  BY <1>1, <1>2, <1>4, <1>5 DEF Activate, IsLive, Live
<1>6. CASE Execute(q)
  BY <1>1, <1>3, <1>6 DEF Execute
<1>7. CASE Expire(q)
  BY <1>7 DEF Expire
<1> QED  BY <1>5, <1>6, <1>7 DEF EngineWork

LEMMA EngineKeepsType ==
  ASSUME TypeOK, NEW q \in Order, EngineWork(q) \/ WorkFails(q)
  PROVE  TypeOK'
<1>1. CASE WorkFails(q)
  BY <1>1, FinishedType, FaultType DEF WorkFails, TypeOK
<1>2. CASE Skip(q)
  BY <1>2, FinishedType DEF Skip, TypeOK
<1>3. CASE \E s \in Status, next \in {"none", "execute"} : EngineCommits(q, s, next)
  BY <1>3, EngineCommitsType
<1> QED  BY <1>1, <1>2, <1>3, EngineWorkCases DEF Status, Live, Ended

LEMMA AnnounceKeepsType ==
  ASSUME TypeOK, Announce
  PROVE  TypeOK'
<1> DEFINE q == event.order
<1>1. event \in [order : Order, next : {"none", "execute"}]
  BY DEF TypeOK, Announce
<1>2. q \in Order /\ event.next \in Step
  BY <1>1 DEF Step
<1>3. work[q] \in [step : Step, price : Price]
  BY <1>2 DEF TypeOK
<1>4. [work[q] EXCEPT !.step = event.next] \in [step : Step, price : Price]
  BY <1>2, <1>3
<1>5. AfterEvent(q)
  BY DEF Announce
<1>6. work' \in [Order -> [step : Step, price : Price]]
  BY <1>2, <1>3, <1>4, <1>5, FinishedType DEF AfterEvent, TypeOK
<1>7. copy' \in [Order -> Copies \cup {NoCopy}]
  BY <1>2, CopyIsCopy DEF Announce, TypeOK
<1> QED  BY <1>6, <1>7 DEF Announce, TypeOK

LEMMA StartKeepsType ==
  ASSUME TypeOK, NEW s \in Live, Attach \/ Query(s) \/ Store
  PROVE  TypeOK'
<1>1. CASE Attach
  BY <1>1 DEF Attach, TypeOK
<1>2. CASE Query(s)
  <2>1. \A q \in Order : order[q].status = s => CopyOf(q) \in Copies
    BY CopyIsCopy DEF IsLive
  <2>2. found.queries \in SUBSET Live /\ found.orders \in [Order -> Copies \cup {NoCopy}]
    BY DEF TypeOK
  <2>3. found' \in [queries : SUBSET Live, orders : [Order -> Copies \cup {NoCopy}]]
    BY <1>2, <2>1, <2>2 DEF Query
  <2> QED  BY <1>2, <2>3 DEF Query, TypeOK
<1>3. CASE Store
  <2>1. NothingFound \in [queries : SUBSET Live, orders : [Order -> Copies \cup {NoCopy}]]
    BY DEF NothingFound
  <2>2. found.orders \in [Order -> Copies \cup {NoCopy}]
    BY DEF TypeOK
  <2>3. copy' \in [Order -> Copies \cup {NoCopy}]
    BY <1>3, <2>2 DEF Store, TypeOK
  <2> QED  BY <1>3, <2>1, <2>3 DEF Store, TypeOK
<1> QED  BY <1>1, <1>2, <1>3

LEMMA EnvironmentKeepsType ==
  ASSUME TypeOK, Crash \/ \E q \in Order : FallDue(q)
  PROVE  TypeOK'
<1>1. CASE \E q \in Order : FallDue(q)
  BY <1>1 DEF FallDue, TypeOK
<1>2. CASE Crash
  <2>1. NothingFound \in [queries : SUBSET Live, orders : [Order -> Copies \cup {NoCopy}]]
    BY DEF NothingFound
  <2> QED  BY <1>2, <2>1, NoWorkIsWork, FaultType DEF Crash, TypeOK
<1> QED  BY <1>1, <1>2

(* The variables keep their types: orders have a status and prices, the    *)
(* engine's copies are of live orders.                                     *)
THEOREM PendingTypes == Spec => []TypeOK
<1>1. ASSUME TypeOK, [Next]_vars PROVE TypeOK'
  <2>1. CASE Next
    BY <1>1, <2>1, CommandsKeepType, LaunchesKeepType, EngineKeepsType, AnnounceKeepsType,
       StartKeepsType, EnvironmentKeepsType, PendingConstants DEF Next, Live
  <2>2. CASE UNCHANGED vars
    BY <1>1, <2>2 DEF vars, TypeOK
  <2> QED  BY <1>1, <2>1, <2>2
<1> QED  BY <1>1, InitTypeOK, PTL DEF Spec

-----------------------------------------------------------------------------
(***************************************************************************)
(* The life of an order.  A step that changes one status to s.             *)
(***************************************************************************)
Ends(q) == /\ order'[q].status \in Successors(q)
           /\ order'[q].status = "EXPIRED" => q \in due

LEMMA OneStatusChanges ==
  ASSUME TypeOK, NEW q \in Order, NEW s \in Status, SetStatus(q, s),
         s \in Successors(q), s = "EXPIRED" => q \in due,
         NEW r \in Order, order'[r].status # order[r].status
  PROVE  Ends(r)
<1>1. order[q] \in OrderDocument
  BY DEF TypeOK
<1>2. order'[q].status = s
  BY <1>1 DEF SetStatus, TypeOK, OrderDocument
<1>3. r = q
  BY DEF SetStatus, TypeOK
<1> QED  BY <1>2, <1>3 DEF Ends

LEMMA CommandsEndOnce ==
  ASSUME TypeOK, NEW q \in Order, Place(q) \/ Cancel(q),
         NEW r \in Order, order'[r].status # order[r].status
  PROVE  Ends(r)
<1>1. CASE Place(q)
  <2>1. "PENDING" \in Successors(q)
    BY <1>1 DEF Place, Successors, Ended
  <2> QED  BY <1>1, <2>1, OneStatusChanges DEF Place, Status, Live
<1>2. CASE Cancel(q)
  <2>1. "CANCELLED" \in Successors(q)
    BY <1>2 DEF Cancel, IsLive, Live, Ended, Successors
  <2> QED  BY <1>2, <2>1, OneStatusChanges DEF Cancel, Status, Ended
<1> QED  BY <1>1, <1>2

LEMMA AmendEndsNothing ==
  ASSUME TypeOK, NEW q \in Order, NEW terms \in Amendment, Amend(q, terms),
         NEW r \in Order
  PROVE  order'[r].status = order[r].status /\ CopyOf(r)' = CopyOf(r)
<1>1. order[q] \in OrderDocument
  BY DEF TypeOK
<1>2. order'[r] = order[r] \/ order'[r] = [order[r] EXCEPT !.stopLoss = terms[2]]
  BY DEF Amend, TypeOK
<1>3. order[r] \in OrderDocument
  BY DEF TypeOK
<1> QED  BY <1>2, <1>3 DEF OrderDocument, CopyOf

LEMMA CancelAllEndsOnce ==
  ASSUME TypeOK, CancelAll, NEW r \in Order, order'[r].status # order[r].status
  PROVE  Ends(r)
<1>1. order[r] \in OrderDocument
  BY DEF TypeOK
<1>2. IsLive(r) /\ order'[r].status = "CANCELLED"
  BY <1>1 DEF CancelAll, OrderDocument
<1> QED  BY <1>2 DEF Ends, IsLive, Live, Ended, Successors

LEMMA EngineEndsOnce ==
  ASSUME TypeOK, NEW q \in Order, EngineWork(q),
         NEW r \in Order, order'[r].status # order[r].status
  PROVE  Ends(r)
<1>1. CASE Skip(q)
  BY <1>1 DEF Skip
<1>2. CASE IsLive(q) /\ q \in due /\ EngineCommits(q, "EXPIRED", "none")
  <2>1. "EXPIRED" \in Successors(q)
    BY <1>2 DEF IsLive, Live, Ended, Successors
  <2> QED  BY <1>2, <2>1, OneStatusChanges DEF EngineCommits, Status, Ended
<1>3. CASE /\ order[q].status = "PENDING" /\ TypeOf[q] = "STOP_LIMIT"
           /\ \E next \in {"none", "execute"} : EngineCommits(q, "TRIGGERED", next)
  <2>1. "TRIGGERED" \in Successors(q)
    BY <1>3 DEF Successors, Ended
  <2> QED  BY <1>3, <2>1, OneStatusChanges DEF EngineCommits, Status, Live
<1>4. CASE /\ order[q].status = "TRIGGERED" \/ (order[q].status = "PENDING" /\ TypeOf[q] # "STOP_LIMIT")
           /\ EngineCommits(q, "FILLED", "none") \/ EngineCommits(q, "REJECTED", "none")
  <2>1. "FILLED" \in Successors(q) /\ "REJECTED" \in Successors(q)
    BY <1>4 DEF Successors, Ended
  <2> QED  BY <1>4, <2>1, OneStatusChanges DEF EngineCommits, Status, Ended
<1> QED  BY <1>1, <1>2, <1>3, <1>4, EngineWorkCases

(* An order ends once and legally, whatever was in flight for it.          *)
THEOREM OrdersEndOnceTheorem == Spec => OrdersEndOnce
<1>1. ASSUME TypeOK, [Next]_vars
      PROVE  [\A r \in Order : order'[r].status # order[r].status => Ends(r)]_vars
  <2> SUFFICES ASSUME Next, NEW r \in Order, order'[r].status # order[r].status
               PROVE  Ends(r)
    BY <1>1
  <2>1. CASE order' = order
    BY <2>1
  <2>2. CASE \E q \in Order : Place(q) \/ Cancel(q) \/ EngineWork(q)
    BY <1>1, <2>2, CommandsEndOnce, EngineEndsOnce
  <2>3. CASE (\E q \in Order, terms \in Amendment : Amend(q, terms)) \/ CancelAll
    BY <1>1, <2>3, AmendEndsNothing, CancelAllEndsOnce
  <2> QED
    BY <2>1, <2>2, <2>3 DEF Next, FallDue, Tick, CheckExpiries, WorkFails, Announce,
       Attach, Query, Store, Crash
<1>2. ASSUME [\A r \in Order : order'[r].status # order[r].status => Ends(r)]_vars
      PROVE  [\A q \in Order : order'[q].status # order[q].status
                => /\ order'[q].status \in Successors(q)
                   /\ order'[q].status = "EXPIRED" => q \in due]_vars
  BY <1>2 DEF Ends
<1> QED  BY <1>1, <1>2, PendingTypes, PTL DEF Spec, OrdersEndOnce

-----------------------------------------------------------------------------
(***************************************************************************)
(* The engine's copies.  Only the order whose event is outstanding may be  *)
(* ahead of its copy.                                                      *)
(***************************************************************************)
Awaited(q) == event # NoEvent /\ event.order = q

Watched ==
  engine = "started" => \A q \in Order : IsLive(q) => copy[q] = CopyOf(q) \/ Awaited(q) \/ q \in unreported

\* While the engine starts, what the queries have returned is current.
FoundIsCurrent ==
  engine = "attached" =>
    \A q \in Order : IsLive(q) /\ order[q].status \in found.queries => found.orders[q] = CopyOf(q)

CopiesInv == Watched /\ FoundIsCurrent

LEMMA InitCopiesInv == Init => CopiesInv
<1> SUFFICES ASSUME Init PROVE CopiesInv
  OBVIOUS
<1>1. \A q \in Order : ~IsLive(q)
  <2> TAKE q \in Order
  <2>1. order[q] \in [status : {"none"}, limit : Price, stop : Price,
                      stopLoss : {CHOOSE p \in Protection : TRUE}]
    BY DEF Init
  <2> QED  BY <2>1 DEF IsLive, Live
<1> QED  BY <1>1 DEF Init, CopiesInv, Watched, FoundIsCurrent

\* A command or a turn of the engine that changes one order and has an event
\* to emit.
LEMMA CommitKeepsCopies ==
  ASSUME TypeOK, CopiesInv, engine # "down", event = NoEvent,
         NEW q \in Order, NEW s, SetStatus(q, s),
         NEW next \in {"none", "execute"},
         Report(q, next) \/ (unreported' = unreported \cup {q} /\ UNCHANGED event),
         engine = "started", UNCHANGED <<engine, copy, found>>
  PROVE  CopiesInv'
<1>1. Awaited(q)' \/ q \in unreported'
  BY PendingConstants DEF Awaited, Report
<1>2. \A r \in Order : r # q => order'[r] = order[r]
  BY DEF SetStatus, TypeOK
<1>3. \A r \in Order : r # q /\ IsLive(r)' => copy'[r] = CopyOf(r)' \/ r \in unreported'
  BY <1>2 DEF Report, CopiesInv, Watched, Awaited, IsLive, CopyOf
<1> QED  BY <1>1, <1>3 DEF CopiesInv, Watched, FoundIsCurrent

\* Work is launched for copies, which a process that starts does not have.
WorkWhenStarted == engine # "started" => \A q \in Order : work[q] = NoWork

LEMMA CommandsKeepCopies ==
  ASSUME TypeOK, CopiesInv,
         NEW q \in Order, Place(q) \/ Cancel(q)
  PROVE  CopiesInv'
<1>1. Report(q, "none") \/ (unreported' = unreported \cup {q} /\ UNCHANGED event)
  BY DEF Place, Cancel, CommandCommits
<1> QED
  BY <1>1, CommitKeepsCopies DEF Place, Cancel, QueueFree

LEMMA OrderChangesKeepCopies ==
  ASSUME TypeOK, CopiesInv,
         CancelAll \/ \E q \in Order, terms \in Amendment : Amend(q, terms)
  PROVE  CopiesInv'
<1>1. \A r \in Order : IsLive(r)' => IsLive(r) /\ order'[r].status = order[r].status /\ CopyOf(r)' = CopyOf(r)
  <2>1. CASE CancelAll
    <3>1. \A r \in Order : order[r] \in OrderDocument
      BY DEF TypeOK
    <3>2. \A r \in Order : [order[r] EXCEPT !.status = "CANCELLED"].status = "CANCELLED"
      BY <3>1 DEF OrderDocument
    <3>3. \A r \in Order : IsLive(r) => order'[r] = [order[r] EXCEPT !.status = "CANCELLED"]
      BY <2>1 DEF CancelAll
    <3>4. \A r \in Order : ~IsLive(r) => order'[r] = order[r]
      BY <2>1 DEF CancelAll
    <3> QED  BY <3>2, <3>3, <3>4 DEF IsLive, Live, CopyOf
  <2>2. CASE \E q \in Order, terms \in Amendment : Amend(q, terms)
    BY <2>2, AmendEndsNothing DEF IsLive
  <2> QED  BY <2>1, <2>2
<1>2. UNCHANGED <<engine, copy, found, event, unreported>>
  BY DEF CancelAll, Amend
<1> QED  BY <1>1, <1>2 DEF CopiesInv, Watched, FoundIsCurrent, Awaited

LEMMA EngineKeepsCopies ==
  ASSUME TypeOK, CopiesInv, WorkWhenStarted,
         NEW q \in Order, EngineWork(q)
  PROVE  CopiesInv'
<1>1. QueueFree /\ work[q].step # "none"
  BY DEF EngineWork, Activate, Execute, Expire, Turn
<1>2. engine = "started"
  BY <1>1 DEF WorkWhenStarted, NoWork
<1>3. CASE Skip(q)
  BY <1>3 DEF Skip, CopiesInv, Watched, FoundIsCurrent, Awaited, IsLive, CopyOf
<1>4. CASE \E s \in Status, next \in {"none", "execute"} : EngineCommits(q, s, next)
  <2>1. PICK s \in Status, next \in {"none", "execute"} : EngineCommits(q, s, next)
    BY <1>4
  <2>2. /\ Report(q, next) \/ (unreported' = unreported \cup {q} /\ UNCHANGED event)
        /\ SetStatus(q, s) /\ UNCHANGED <<engine, copy, found>>
    BY <2>1 DEF EngineCommits
  <2> QED  BY <1>1, <1>2, <2>2, CommitKeepsCopies DEF QueueFree
<1> QED  BY <1>3, <1>4, EngineWorkCases DEF Status, Live, Ended

LEMMA AnnounceKeepsCopies ==
  ASSUME TypeOK, CopiesInv, Announce
  PROVE  CopiesInv'
<1>1. event \in [order : Order, next : {"none", "execute"}]
  BY DEF TypeOK, Announce
<1>2. event.order \in Order
  BY <1>1
<1>3. IsLive(event.order) => copy'[event.order] = CopyOf(event.order)
  BY <1>2 DEF Announce, TypeOK
<1>4. \A r \in Order : r # event.order => copy'[r] = copy[r]
  BY DEF Announce, TypeOK
<1>5. \A r \in Order : IsLive(r)' = IsLive(r) /\ CopyOf(r)' = CopyOf(r)
  BY DEF Announce, IsLive, CopyOf
<1>6. UNCHANGED <<engine, found, order, unreported>>
  BY DEF Announce
<1>7. engine = "started" => \A r \in Order : IsLive(r) => copy'[r] = CopyOf(r) \/ r \in unreported
  BY <1>3, <1>4 DEF CopiesInv, Watched, Awaited
<1> QED  BY <1>5, <1>6, <1>7 DEF CopiesInv, Watched, FoundIsCurrent

LEMMA StartKeepsCopies ==
  ASSUME TypeOK, CopiesInv, found.queries = {} \/ engine = "attached",
         NEW s \in Live, Attach \/ Query(s) \/ Store
  PROVE  CopiesInv'
<1>1. \A r \in Order : IsLive(r)' = IsLive(r) /\ CopyOf(r)' = CopyOf(r) /\ order'[r] = order[r]
  BY DEF Attach, Query, Store, IsLive, CopyOf
<1>2. CASE Attach
  <2>1. engine' = "attached" /\ found'.queries = {}
    BY <1>2 DEF Attach
  <2> QED  BY <2>1 DEF CopiesInv, Watched, FoundIsCurrent
<1>3. CASE Query(s)
  <2>1. engine' = "attached" /\ engine = "attached" /\ found'.queries = found.queries \cup {s}
    BY <1>3 DEF Query
  <2>2. \A r \in Order : found'.orders[r] = IF order[r].status = s THEN CopyOf(r) ELSE found.orders[r]
    BY <1>3 DEF Query
  <2>3. \A r \in Order : IsLive(r) /\ order[r].status \in found'.queries => found'.orders[r] = CopyOf(r)
    BY <2>1, <2>2 DEF CopiesInv, FoundIsCurrent
  <2> QED  BY <1>1, <2>1, <2>3 DEF CopiesInv, Watched, FoundIsCurrent
<1>4. CASE Store
  <2>1. \A r \in Order : IsLive(r) => found.orders[r] = CopyOf(r) /\ CopyOf(r) # NoCopy
    BY <1>4, CopyIsCopy DEF Store, CopiesInv, FoundIsCurrent, IsLive
  <2>2. \A r \in Order : IsLive(r) => copy'[r] = CopyOf(r)
    BY <1>4, <2>1 DEF Store
  <2>3. engine' = "started"
    BY <1>4 DEF Store
  <2> QED  BY <1>1, <2>2, <2>3 DEF CopiesInv, Watched, FoundIsCurrent
<1> QED  BY <1>2, <1>3, <1>4

\* The state of a process that is not up.
IdleInv ==
  /\ WorkWhenStarted
  /\ engine # "attached" => found.queries = {}

LEMMA IdleInvariant ==
  ASSUME TypeOK, IdleInv, [Next]_vars
  PROVE  IdleInv'
<1>1. CASE \E q \in Order : Place(q) \/ Cancel(q) \/ FallDue(q)
  BY <1>1 DEF IdleInv, WorkWhenStarted, Place, Cancel, FallDue
<1>2. CASE CancelAll \/ \E q \in Order, terms \in Amendment : Amend(q, terms)
  BY <1>2 DEF IdleInv, WorkWhenStarted, CancelAll, Amend
<1>3. CASE CheckExpiries \/ \E price \in Price : Tick(price)
  BY <1>3 DEF IdleInv, WorkWhenStarted, CheckExpiries, Tick
<1>4. CASE \E q \in Order : EngineWork(q) \/ WorkFails(q)
  <2>1. PICK q \in Order : EngineWork(q) \/ WorkFails(q)
    BY <1>4
  <2>2. work[q].step # "none"
    BY <2>1 DEF EngineWork, Activate, Execute, Expire, Turn, WorkFails
  <2>3. engine = "started"
    BY <2>2 DEF IdleInv, WorkWhenStarted, NoWork
  <2>4. UNCHANGED <<engine, found>>
    BY <2>1, EngineWorkCases DEF WorkFails, EngineCommits, Skip
  <2> QED  BY <2>3, <2>4 DEF IdleInv, WorkWhenStarted
<1>5. CASE Announce
  <2>1. event \in [order : Order, next : {"none", "execute"}] /\ AfterEvent(event.order)
    BY <1>5 DEF TypeOK, Announce
  <2>2. engine # "started" => work' = work
    BY <2>1 DEF IdleInv, WorkWhenStarted, NoWork, AfterEvent
  <2> QED  BY <1>5, <2>2 DEF IdleInv, WorkWhenStarted, Announce
<1>6. CASE Attach \/ (\E s \in Live : Query(s)) \/ Store
  BY <1>6 DEF IdleInv, WorkWhenStarted, Attach, Query, Store, NothingFound
<1>7. CASE Crash
  BY <1>7 DEF IdleInv, WorkWhenStarted, Crash, NothingFound
<1>8. CASE UNCHANGED vars
  BY <1>8 DEF vars, IdleInv, WorkWhenStarted
<1> QED
  BY <1>1, <1>2, <1>3, <1>4, <1>5, <1>6, <1>7, <1>8 DEF Next

(* Every live order has a current copy in the engine whenever the engine   *)
(* has started and the events are delivered, unless its last commit was    *)
(* reported as an error.                                                   *)
THEOREM CopiesAreCurrentTheorem == Spec => []CopiesAreCurrent
<1>1. Init => IdleInv
  BY DEF Init, IdleInv, WorkWhenStarted, NothingFound
<1>2. ASSUME TypeOK, IdleInv, CopiesInv, [Next]_vars PROVE CopiesInv'
  <2>1. CASE \E q \in Order : Place(q) \/ Cancel(q) \/ EngineWork(q)
    BY <1>2, <2>1, CommandsKeepCopies, EngineKeepsCopies DEF IdleInv
  <2>2. CASE CancelAll \/ \E q \in Order, terms \in Amendment : Amend(q, terms)
    BY <1>2, <2>2, OrderChangesKeepCopies
  <2>3. CASE Announce
    BY <1>2, <2>3, AnnounceKeepsCopies
  <2>4. CASE Attach \/ (\E s \in Live : Query(s)) \/ Store
    BY <1>2, <2>4, StartKeepsCopies DEF IdleInv, Live
  <2>5. CASE Crash
    BY <2>5 DEF Crash, CopiesInv, Watched, FoundIsCurrent
  <2>6. CASE UNCHANGED <<order, engine, found, copy, event, unreported>>
    BY <1>2, <2>6 DEF CopiesInv, Watched, FoundIsCurrent, Awaited, IsLive, CopyOf
  <2> QED
    BY <1>2, <2>1, <2>2, <2>3, <2>4, <2>5, <2>6
       DEF Next, FallDue, Tick, CheckExpiries, WorkFails, vars
<1>3. TypeOK /\ CopiesInv => CopiesAreCurrent
  BY DEF CopiesInv, Watched, Awaited, EngineFollows, CopiesAreCurrent
<1> QED
  BY <1>1, <1>2, <1>3, InitCopiesInv, IdleInvariant, PendingTypes, PTL DEF Spec

-----------------------------------------------------------------------------
(***************************************************************************)
(* TraderSync: what Latest() and Without() make of a buffer.               *)
(***************************************************************************)
LEMMA ItemFields ==
  ASSUME NEW e \in ItemOf
  PROVE  e.account \in Account /\ e.kind \in Kind /\ e.rev \in Rev
BY DEF ItemOf

LatestSteps(g, s, a, k, x) ==
  /\ g \in [0 .. Len(s) -> Rev] /\ g[0] = x
  /\ \A n \in 1 .. Len(s) :
       g[n] = IF s[n].account = a /\ s[n].kind = k THEN s[n].rev ELSE g[n - 1]

LEMMA LatestIsSteps ==
  ASSUME NEW s \in Seq(ItemOf), NEW a, NEW k, NEW x \in Rev
  PROVE  \E g : LatestSteps(g, s, a, k, x) /\ Latest(s, a, k, x) = g[Len(s)]
<1> DEFINE N == Len(s)
           Hit(n) == s[n].account = a /\ s[n].kind = k
           step == [n \in 1 .. N |-> [y \in Rev |-> IF Hit(n) THEN s[n].rev ELSE y]]
           IsLatest(u) == u = [n \in 0 .. N |-> IF n = 0 THEN x ELSE IF Hit(n) THEN s[n].rev ELSE u[n - 1]]
           h == CHOOSE u : IsLatest(u)
<1>1. N \in Nat /\ \A n \in 1 .. N : s[n] \in ItemOf
  BY LenProperties, ElementOfSeq
<1>2. \A n \in 1 .. N : s[n].rev \in Rev
  BY <1>1, ItemFields
<1>3. step \in [1 .. N -> [Rev -> Rev]]
  <2> HIDE DEF Hit, N
  <2> QED
    BY <1>2
<1>4. PICK g : Iterates(g, N, Rev, x, step)
  <2> HIDE DEF step, N
  <2> QED
    BY <1>1, <1>3, IterationExists
<1>5. /\ g \in [0 .. N -> Rev] /\ g[0] = x
      /\ \A n \in 1 .. N : g[n] = IF Hit(n) THEN s[n].rev ELSE g[n - 1]
  <2>1. \A n \in 1 .. N : \A y \in Rev : step[n][y] = IF Hit(n) THEN s[n].rev ELSE y
    OBVIOUS
  <2> HIDE DEF step, N, Hit
  <2>2. /\ g \in [0 .. N -> Rev] /\ g[0] = x
        /\ \A n \in 1 .. N : g[n] = step[n][g[n - 1]]
    BY <1>4 DEF Iterates
  <2>3. \A n \in 1 .. N : g[n - 1] \in Rev
    BY <1>1, <2>2
  <2> QED
    BY <2>1, <2>2, <2>3
<1>6. IsLatest(g)
  <2> HIDE DEF Hit, N
  <2>1. \A n \in 0 .. N : g[n] = IF n = 0 THEN x ELSE IF Hit(n) THEN s[n].rev ELSE g[n - 1]
    BY <1>1, <1>5
  <2> QED
    BY <2>1, <1>5
<1>7. IsLatest(h)
  <2> HIDE DEF IsLatest
  <2> QED
    BY <1>6
<1>8. Latest(s, a, k, x) = h[N]
  BY DEF Latest
<1> HIDE DEF Hit
<1>9. \A n \in 0 .. N : h[n] = IF n = 0 THEN x ELSE IF Hit(n) THEN s[n].rev ELSE h[n - 1]
  <2> HIDE DEF h
  <2> QED
    BY <1>7
<1> HIDE DEF h, IsLatest, step, N
<1>10. \A n \in 0 .. N : h[n] = g[n]
  <2>1. h[0] = g[0]
    BY <1>1, <1>5, <1>9
  <2>2. \A n \in 1 .. N : h[n - 1] = g[n - 1] => h[n] = g[n]
    BY <1>1, <1>5, <1>9
  <2>3. N \in Nat
    BY <1>1
  <2>4. StepAlike(h, g, N)
    BY <2>2 DEF StepAlike
  <2>5. Agree(h, g, N)
    BY <2>1, <2>3, <2>4, StepAlikeAgree
  <2> QED
    BY <2>5 DEF Agree
<1> QED
  BY <1>1, <1>5, <1>8, <1>10 DEF LatestSteps, N, Hit

LEMMA LatestOfNone ==
  ASSUME NEW a, NEW k, NEW x \in Rev
  PROVE  Latest(<<>>, a, k, x) = x
<1>1. <<>> \in Seq(ItemOf) /\ Len(<<>>) = 0
  BY EmptySeq
<1>2. PICK g : LatestSteps(g, <<>>, a, k, x) /\ Latest(<<>>, a, k, x) = g[Len(<<>>)]
  BY <1>1, LatestIsSteps
<1> QED
  BY <1>1, <1>2 DEF LatestSteps

LEMMA LatestOfAppend ==
  ASSUME NEW s \in Seq(ItemOf), NEW e \in ItemOf, NEW a, NEW k, NEW x \in Rev
  PROVE  /\ Latest(Append(s, e), a, k, x) =
              IF e.account = a /\ e.kind = k THEN e.rev ELSE Latest(s, a, k, x)
         /\ Latest(s, a, k, x) \in Rev
<1> DEFINE t == Append(s, e)
           M == Len(s)
<1>1. t \in Seq(ItemOf) /\ M \in Nat /\ Len(t) = M + 1 /\ t[M + 1] = e /\ \A n \in 1 .. M : t[n] = s[n]
  BY AppendProperties, LenProperties
<1> HIDE DEF t
<1>2. PICK f : LatestSteps(f, s, a, k, x) /\ Latest(s, a, k, x) = f[M]
  BY LatestIsSteps
<1>3. PICK g : LatestSteps(g, t, a, k, x) /\ Latest(t, a, k, x) = g[M + 1]
  BY <1>1, LatestIsSteps
<1> HIDE DEF M
<1>4. /\ f[0] = x /\ f[M] \in Rev
      /\ \A n \in 1 .. M : f[n] = IF s[n].account = a /\ s[n].kind = k THEN s[n].rev ELSE f[n - 1]
  BY <1>1, <1>2 DEF LatestSteps, M
<1>5. /\ g[0] = x
      /\ \A n \in 1 .. M + 1 : g[n] = IF t[n].account = a /\ t[n].kind = k THEN t[n].rev ELSE g[n - 1]
  BY <1>1, <1>3 DEF LatestSteps
<1>6. \A n \in 0 .. M : g[n] = f[n]
  <2>1. \A n \in 1 .. M : g[n - 1] = f[n - 1] => g[n] = f[n]
    <3> SUFFICES ASSUME NEW n \in 1 .. M, g[n - 1] = f[n - 1] PROVE g[n] = f[n]
      OBVIOUS
    <3>1. n \in 1 .. M + 1 /\ t[n] = s[n]
      BY <1>1
    <3> QED
      BY <3>1, <1>4, <1>5
  <2>2. M \in Nat /\ g[0] = f[0]
    BY <1>1, <1>4, <1>5
  <2>3. StepAlike(g, f, M)
    BY <2>1 DEF StepAlike
  <2>4. Agree(g, f, M)
    BY <2>2, <2>3, StepAlikeAgree
  <2> QED
    BY <2>4 DEF Agree
<1>7. g[M] = f[M] /\ M + 1 - 1 = M /\ M + 1 \in 1 .. M + 1
  BY <1>1, <1>6
<1>8. g[M + 1] = IF e.account = a /\ e.kind = k THEN e.rev ELSE f[M]
  BY <1>1, <1>5, <1>7
<1> QED
  BY <1>2, <1>3, <1>4, <1>8 DEF t

LEMMA LatestIsRev ==
  ASSUME NEW s \in Seq(ItemOf), NEW a, NEW k, NEW x \in Rev
  PROVE  Latest(s, a, k, x) \in Rev
<1>1. PICK g : LatestSteps(g, s, a, k, x) /\ Latest(s, a, k, x) = g[Len(s)]
  BY LatestIsSteps
<1> QED
  BY <1>1, LenProperties DEF LatestSteps

(* The items decide what is seen, or leave what was seen before.           *)
LEMMA LatestDecides ==
  ASSUME NEW s \in Seq(ItemOf), NEW a, NEW k, NEW x \in Rev, NEW y \in Rev
  PROVE  Latest(s, a, k, x) = x \/ Latest(s, a, k, x) = Latest(s, a, k, y)
<1> DEFINE P == {t \in Seq(ItemOf) : Latest(t, a, k, x) = x \/ Latest(t, a, k, x) = Latest(t, a, k, y)}
<1>1. <<>> \in P
  BY LatestOfNone, EmptySeq
<1>2. ASSUME NEW t \in Seq(ItemOf), NEW e \in ItemOf, t \in P PROVE Append(t, e) \in P
  <2>1. Append(t, e) \in Seq(ItemOf)
    BY AppendProperties
  <2>2. CASE e.account = a /\ e.kind = k
    BY <1>2, <2>1, <2>2, LatestOfAppend
  <2>3. CASE ~(e.account = a /\ e.kind = k)
    BY <1>2, <2>1, <2>3, LatestOfAppend
  <2> QED
    BY <2>2, <2>3
<1>3. \A t \in Seq(ItemOf) : t \in P
  <2> HIDE DEF P
  <2> QED
    BY <1>1, <1>2, SequenceInduction
<1> QED
  BY <1>3

(* Nothing is seen of an account that no item is about.                    *)
LEMMA LatestOfOthers ==
  ASSUME NEW s \in Seq(ItemOf), NEW a, NEW k, NEW x \in Rev, \A n \in 1 .. Len(s) : s[n].account # a
  PROVE  Latest(s, a, k, x) = x
<1>1. PICK g : LatestSteps(g, s, a, k, x) /\ Latest(s, a, k, x) = g[Len(s)]
  BY LatestIsSteps
<1> DEFINE P == {n \in 0 .. Len(s) : g[n] = x}
           M == Len(s)
<1>2. M \in Nat /\ 0 \in P
  BY <1>1, LenProperties DEF LatestSteps
<1>3. \A n \in 1 .. M : n - 1 \in P => n \in P
  BY <1>1, <1>2 DEF LatestSteps
<1>4. \A n \in 0 .. M : n \in P
  <2> HIDE DEF P, M
  <2> QED
    BY <1>2, <1>3, IntervalInduction
<1> QED
  BY <1>1, <1>2, <1>4

WithoutSteps(g, s, ids) ==
  /\ g \in [0 .. Len(s) -> Seq(ItemOf)] /\ g[0] = <<>>
  /\ \A n \in 1 .. Len(s) : g[n] = IF s[n].account \in ids THEN g[n - 1] ELSE Append(g[n - 1], s[n])

LEMMA WithoutIsSteps ==
  ASSUME NEW s \in Seq(ItemOf), NEW ids
  PROVE  \E g : WithoutSteps(g, s, ids) /\ Without(s, ids) = g[Len(s)]
<1> DEFINE N == Len(s)
           Hit(n) == s[n].account \in ids
           Then(n, y) == IF Hit(n) THEN y ELSE Append(y, s[n])
           step == [n \in 1 .. N |-> [y \in Seq(ItemOf) |-> Then(n, y)]]
           IsRest(u) == u = [n \in 0 .. N |-> IF n = 0 THEN <<>> ELSE Then(n, u[n - 1])]
           h == CHOOSE u : IsRest(u)
<1>1. N \in Nat /\ \A n \in 1 .. N : s[n] \in ItemOf
  BY LenProperties, ElementOfSeq
<1>2. \A n \in 1 .. N : \A y \in Seq(ItemOf) : Then(n, y) \in Seq(ItemOf)
  BY <1>1, AppendProperties
<1>3. step \in [1 .. N -> [Seq(ItemOf) -> Seq(ItemOf)]]
  <2> HIDE DEF Then, N
  <2> QED
    BY <1>2
<1>4. PICK g : Iterates(g, N, Seq(ItemOf), <<>>, step)
  <2>1. <<>> \in Seq(ItemOf)
    BY EmptySeq
  <2> HIDE DEF step, N
  <2> QED
    BY <1>1, <1>3, <2>1, IterationExists
<1>5. /\ g \in [0 .. N -> Seq(ItemOf)] /\ g[0] = <<>>
      /\ \A n \in 1 .. N : g[n] = Then(n, g[n - 1])
  <2>1. \A n \in 1 .. N : \A y \in Seq(ItemOf) : step[n][y] = Then(n, y)
    OBVIOUS
  <2> HIDE DEF step, N, Then
  <2>2. /\ g \in [0 .. N -> Seq(ItemOf)] /\ g[0] = <<>>
        /\ \A n \in 1 .. N : g[n] = step[n][g[n - 1]]
    BY <1>4 DEF Iterates
  <2>3. \A n \in 1 .. N : g[n - 1] \in Seq(ItemOf)
    BY <1>1, <2>2
  <2> QED
    BY <2>1, <2>2, <2>3
<1>6. IsRest(g)
  <2> HIDE DEF Then, N
  <2>1. \A n \in 0 .. N : g[n] = IF n = 0 THEN <<>> ELSE Then(n, g[n - 1])
    BY <1>1, <1>5
  <2> QED
    BY <2>1, <1>5
<1>7. IsRest(h)
  <2> HIDE DEF IsRest
  <2> QED
    BY <1>6
<1>8. Without(s, ids) = h[N]
  BY DEF Without
<1> HIDE DEF Then
<1>9. \A n \in 0 .. N : h[n] = IF n = 0 THEN <<>> ELSE Then(n, h[n - 1])
  <2> HIDE DEF h
  <2> QED
    BY <1>7
<1> HIDE DEF h, IsRest, step, N
<1>10. \A n \in 0 .. N : h[n] = g[n]
  <2>1. h[0] = g[0]
    BY <1>1, <1>5, <1>9
  <2>2. \A n \in 1 .. N : h[n - 1] = g[n - 1] => h[n] = g[n]
    BY <1>1, <1>5, <1>9
  <2>3. N \in Nat
    BY <1>1
  <2>4. StepAlike(h, g, N)
    BY <2>2 DEF StepAlike
  <2>5. Agree(h, g, N)
    BY <2>1, <2>3, <2>4, StepAlikeAgree
  <2> QED
    BY <2>5 DEF Agree
<1> QED
  BY <1>1, <1>5, <1>8, <1>10 DEF WithoutSteps, N, Then

LEMMA WithoutNone ==
  ASSUME NEW ids
  PROVE  Without(<<>>, ids) = <<>>
<1>1. <<>> \in Seq(ItemOf) /\ Len(<<>>) = 0
  BY EmptySeq
<1>2. PICK g : WithoutSteps(g, <<>>, ids) /\ Without(<<>>, ids) = g[Len(<<>>)]
  BY <1>1, WithoutIsSteps
<1> QED
  BY <1>1, <1>2 DEF WithoutSteps

LEMMA WithoutOfAppend ==
  ASSUME NEW s \in Seq(ItemOf), NEW e \in ItemOf, NEW ids
  PROVE  Without(Append(s, e), ids) =
           IF e.account \in ids THEN Without(s, ids) ELSE Append(Without(s, ids), e)
<1> DEFINE t == Append(s, e)
           M == Len(s)
<1>1. t \in Seq(ItemOf) /\ M \in Nat /\ Len(t) = M + 1 /\ t[M + 1] = e /\ \A n \in 1 .. M : t[n] = s[n]
  BY AppendProperties, LenProperties
<1> HIDE DEF t
<1>2. PICK f : WithoutSteps(f, s, ids) /\ Without(s, ids) = f[M]
  BY WithoutIsSteps
<1>3. PICK g : WithoutSteps(g, t, ids) /\ Without(t, ids) = g[M + 1]
  BY <1>1, WithoutIsSteps
<1> HIDE DEF M
<1>4. /\ f[0] = <<>>
      /\ \A n \in 1 .. M : f[n] = IF s[n].account \in ids THEN f[n - 1] ELSE Append(f[n - 1], s[n])
  BY <1>1, <1>2 DEF WithoutSteps, M
<1>5. /\ g[0] = <<>>
      /\ \A n \in 1 .. M + 1 : g[n] = IF t[n].account \in ids THEN g[n - 1] ELSE Append(g[n - 1], t[n])
  BY <1>1, <1>3 DEF WithoutSteps
<1>6. \A n \in 0 .. M : g[n] = f[n]
  <2>1. \A n \in 1 .. M : g[n - 1] = f[n - 1] => g[n] = f[n]
    <3> SUFFICES ASSUME NEW n \in 1 .. M, g[n - 1] = f[n - 1] PROVE g[n] = f[n]
      OBVIOUS
    <3>1. n \in 1 .. M + 1 /\ t[n] = s[n]
      BY <1>1
    <3> QED
      BY <3>1, <1>4, <1>5
  <2>2. M \in Nat /\ g[0] = f[0]
    BY <1>1, <1>4, <1>5
  <2>3. StepAlike(g, f, M)
    BY <2>1 DEF StepAlike
  <2>4. Agree(g, f, M)
    BY <2>2, <2>3, StepAlikeAgree
  <2> QED
    BY <2>4 DEF Agree
<1>7. g[M] = f[M] /\ M + 1 - 1 = M /\ M + 1 \in 1 .. M + 1
  BY <1>1, <1>6
<1>8. g[M + 1] = IF e.account \in ids THEN f[M] ELSE Append(f[M], e)
  BY <1>1, <1>5, <1>7
<1> QED
  BY <1>2, <1>3, <1>8 DEF t

Left(t, s, ids) ==
  /\ t \in Seq(ItemOf) /\ Len(t) <= Len(s)
  /\ \A n \in 1 .. Len(t) : t[n].account \notin ids /\ \E m \in 1 .. Len(s) : t[n] = s[m]
  /\ \A a, k : \A x \in Rev : a \notin ids => Latest(t, a, k, x) = Latest(s, a, k, x)

(* What is left without the items of some accounts: the items of the       *)
(* others, which show what they showed before.                             *)
LEMMA WithoutIs ==
  ASSUME NEW s \in Seq(ItemOf), NEW ids
  PROVE  Left(Without(s, ids), s, ids)
<1> DEFINE P == {t \in Seq(ItemOf) : Left(Without(t, ids), t, ids)}
<1>1. <<>> \in P
  <2>1. <<>> \in Seq(ItemOf) /\ Len(<<>>) = 0
    BY EmptySeq
  <2>2. Without(<<>>, ids) = <<>>
    BY WithoutNone
  <2>3. Left(<<>>, <<>>, ids)
    BY <2>1 DEF Left
  <2> QED
    BY <2>1, <2>2, <2>3
<1>2. ASSUME NEW t \in Seq(ItemOf), NEW e \in ItemOf, t \in P PROVE Append(t, e) \in P
  <2> DEFINE w == Without(t, ids)
             u == Append(t, e)
  <2>1. u \in Seq(ItemOf) /\ Len(u) = Len(t) + 1 /\ Len(t) \in Nat /\ u[Len(t) + 1] = e
        /\ \A n \in 1 .. Len(t) : u[n] = t[n]
    BY AppendProperties, LenProperties
  <2>2. Left(w, t, ids) /\ w \in Seq(ItemOf) /\ Len(w) \in Nat /\ Len(w) <= Len(t)
    BY <1>2, LenProperties DEF Left
  <2>3. Without(u, ids) = IF e.account \in ids THEN w ELSE Append(w, e)
    BY WithoutOfAppend
  <2> HIDE DEF w
  <2>4. \A a, k : \A x \in Rev :
          Latest(u, a, k, x) = IF e.account = a /\ e.kind = k THEN e.rev ELSE Latest(t, a, k, x)
    BY LatestOfAppend
  <2>5. \A a, k : \A x \in Rev :
          Latest(Append(w, e), a, k, x) = IF e.account = a /\ e.kind = k THEN e.rev ELSE Latest(w, a, k, x)
    BY <2>2, LatestOfAppend
  <2>6. ASSUME NEW n \in 1 .. Len(w) PROVE w[n].account \notin ids /\ \E m \in 1 .. Len(u) : w[n] = u[m]
    <3>1. PICK m \in 1 .. Len(t) : w[n] = t[m]
      BY <2>2 DEF Left
    <3>2. m \in 1 .. Len(u) /\ u[m] = t[m]
      BY <2>1
    <3> QED
      BY <3>1, <3>2, <2>2 DEF Left
  <2>7. CASE e.account \in ids
    <3>1. \A a, k : \A x \in Rev : a \notin ids => Latest(w, a, k, x) = Latest(u, a, k, x)
      BY <2>2, <2>4, <2>7 DEF Left
    <3>2. Left(w, u, ids)
      <4> HIDE DEF u
      <4> QED
        BY <2>1, <2>2, <2>6, <3>1 DEF Left
    <3> QED
      BY <2>1, <2>3, <2>7, <3>2
  <2>8. CASE e.account \notin ids
    <3> DEFINE v == Append(w, e)
    <3>1. v \in Seq(ItemOf) /\ Len(v) = Len(w) + 1 /\ v[Len(w) + 1] = e /\ \A n \in 1 .. Len(w) : v[n] = w[n]
      BY <2>2, AppendProperties
    <3>2. \A a, k : \A x \in Rev : a \notin ids => Latest(v, a, k, x) = Latest(u, a, k, x)
      BY <2>2, <2>4, <2>5 DEF Left
    <3> HIDE DEF v, u
    <3>3. ASSUME NEW n \in 1 .. Len(v) PROVE v[n].account \notin ids /\ \E m \in 1 .. Len(u) : v[n] = u[m]
      <4>1. CASE n \in 1 .. Len(w)
        BY <4>1, <3>1, <2>6
      <4>2. CASE n = Len(w) + 1
        BY <4>2, <3>1, <2>1, <2>8
      <4> QED
        BY <4>1, <4>2, <2>2, <3>1
    <3>4. Left(v, u, ids)
      BY <2>1, <2>2, <3>1, <3>2, <3>3 DEF Left
    <3> QED
      BY <2>1, <2>3, <2>8, <3>4 DEF v, u
  <2> QED
    BY <2>7, <2>8
<1>3. \A t \in Seq(ItemOf) : t \in P
  <2> HIDE DEF P
  <2> QED
    BY <1>1, <1>2, SequenceInduction
<1> QED
  BY <1>3

(***************************************************************************)
(* Types.                                                                  *)
(***************************************************************************)
LEMMA SyncFields ==
  ASSUME NEW y \in Sync
  PROVE  /\ y.step \in {"new", "documents", "valuation", "answer", "done"}
         /\ y.reason \in {"initial", "later"} /\ y.accounts \in SUBSET Account
         /\ y.snapshot \in [Account -> [Kind -> Rev]]
BY DEF Sync

LEMMA SyncMake ==
  ASSUME NEW step \in {"new", "documents", "valuation", "answer", "done"}, NEW reason \in {"initial", "later"},
         NEW ids \in SUBSET Account, NEW view \in [Account -> [Kind -> Rev]]
  PROVE  [step |-> step, reason |-> reason, accounts |-> ids, snapshot |-> view] \in Sync
BY DEF Sync

LEMMA NewSyncIsSync == NewSync \in Sync /\ Unseen \in [Account -> [Kind -> Rev]] /\ 0 \in Rev /\ 1 \in Rev /\ 1 \in SyncId
<1>1. 0 \in Rev /\ 1 \in Rev /\ 1 \in SyncId
  BY SyncAssumption DEF Rev, SyncId
<1>2. Unseen \in [Account -> [Kind -> Rev]]
  BY <1>1 DEF Unseen
<1>3. NewSync \in Sync
  <2> HIDE DEF Unseen
  <2> QED
    BY <1>2, SyncMake DEF NewSync
<1> QED
  BY <1>1, <1>2, <1>3

LEMMA StartedIs ==
  ASSUME NEW ids \in SUBSET Account
  PROVE  LET b == [NewSync EXCEPT !.step = IF ids = {} THEN "done" ELSE "documents", !.accounts = ids]
         IN  /\ b \in Sync /\ b.accounts = ids
             /\ ids = {} => b.step = "done"
             /\ ids # {} => b.step = "documents"
<1> DEFINE step == IF ids = {} THEN "done" ELSE "documents"
           b == [NewSync EXCEPT !.step = step, !.accounts = ids]
<1>1. step \in {"documents", "done"} /\ (ids = {} => step = "done") /\ (ids # {} => step = "documents")
  OBVIOUS
<1> HIDE DEF step
<1>2. b = [step |-> step, reason |-> "later", accounts |-> ids, snapshot |-> Unseen]
  <2> DEFINE c == [NewSync EXCEPT !.step = step]
  <2>1. c = [step |-> step, reason |-> "later", accounts |-> {}, snapshot |-> Unseen]
    BY DEF NewSync
  <2>2. b = [c EXCEPT !.accounts = ids]
    BY DEF NewSync
  <2> HIDE DEF b, c
  <2> QED
    BY <2>1, <2>2
<1>3. b \in Sync
  <2>1. step \in {"new", "documents", "valuation", "answer", "done"}
    BY <1>1
  <2> HIDE DEF b
  <2> QED
    BY <1>2, <2>1, NewSyncIsSync, SyncMake
<1>4. b.step = step /\ b.accounts = ids
  BY <1>2
<1> QED
  BY <1>1, <1>3, <1>4 DEF step

LEMMA StartSyncTypes ==
  ASSUME SyncTypeOK, NEW i \in SyncId, NEW ids \in SUBSET Account, StartSync(i, ids)
  PROVE  syncs' \in [SyncId -> Sync] /\ disordered' \in SUBSET Account
<1> DEFINE b == [NewSync EXCEPT !.step = IF ids = {} THEN "done" ELSE "documents", !.accounts = ids]
<1>1. b \in Sync
  BY StartedIs
<1>2. syncs' = [syncs EXCEPT ![i] = b]
  BY DEF StartSync
<1> HIDE DEF b
<1>3. syncs' \in [SyncId -> Sync]
  BY <1>1, <1>2 DEF SyncTypeOK
<1>4. disordered' \in SUBSET Account
  BY DEF StartSync, SyncTypeOK
<1> QED
  BY <1>3, <1>4

LEMMA WithType ==
  ASSUME SyncTypeOK, NEW a \in Account, NEW k \in Kind, NEW r \in Rev
  PROVE  /\ With(a, k, r) \in [Account -> [Kind -> Rev]]
         /\ With(a, k, r)[a][k] = r
         /\ \A b \in Account, m \in Kind : b # a \/ m # k => With(a, k, r)[b][m] = shown[b][m]
BY DEF SyncTypeOK, With

LEMMA RouteTypes ==
  ASSUME SyncTypeOK, NEW a \in Account, NEW k \in Kind, NEW r \in Rev, Route(a, k, r)
  PROVE  /\ link' \in {"new", "open", "closed"}
         /\ buffer' \in Seq(ItemOf) /\ Len(buffer') <= MaxSyncBuffer
         /\ delayed' \in [Account -> Rev] /\ shown' \in [Account -> [Kind -> Rev]]
<1>1. CASE UNCHANGED <<link, buffer, delayed, shown>>
  BY <1>1 DEF SyncTypeOK
<1>2. CASE link' = "closed" /\ UNCHANGED <<buffer, delayed, shown>>
  BY <1>2 DEF SyncTypeOK
<1>3. CASE /\ ~(Len(buffer) >= MaxSyncBuffer) /\ buffer' = Append(buffer, Item(a, k, r))
           /\ UNCHANGED <<link, delayed, shown>>
  <2>1. Item(a, k, r) \in ItemOf
    BY DEF Item, ItemOf
  <2>2. buffer \in Seq(ItemOf) /\ Len(buffer) \in Nat
    BY LenProperties DEF SyncTypeOK
  <2>3. Append(buffer, Item(a, k, r)) \in Seq(ItemOf) /\ Len(Append(buffer, Item(a, k, r))) = Len(buffer) + 1
    BY <2>1, <2>2, AppendProperties
  <2> QED
    BY <1>3, <2>2, <2>3, SyncAssumption DEF SyncTypeOK
<1>4. CASE Delayed(a, r) /\ UNCHANGED <<link, buffer, shown>>
  BY <1>4 DEF SyncTypeOK, Delayed
<1>5. CASE Show(With(a, k, r)) /\ UNCHANGED <<link, buffer, delayed>>
  BY <1>5, WithType DEF SyncTypeOK, Show
<1> QED
  BY <1>1, <1>2, <1>3, <1>4, <1>5 DEF Route

LEMMA FlushedType ==
  ASSUME SyncTypeOK, NEW view \in [Account -> [Kind -> Rev]], NEW ids
  PROVE  Flushed(view, ids) \in [Account -> [Kind -> Rev]]
<1>1. \A a \in Account : \A k \in Kind : Latest(buffer, a, k, view[a][k]) \in Rev
  BY LatestIsRev DEF SyncTypeOK
<1> QED
  BY <1>1 DEF Flushed

LEMMA SnapshottedType ==
  ASSUME SyncTypeOK, NEW view \in [Account -> [Kind -> Rev]], NEW i \in SyncId
  PROVE  Snapshotted(view, i) \in [Account -> [Kind -> Rev]]
<1>1. syncs[i].snapshot \in [Account -> [Kind -> Rev]]
  BY SyncFields DEF SyncTypeOK
<1> QED
  BY <1>1 DEF Snapshotted

LEMMA WithoutType ==
  ASSUME SyncTypeOK, NEW ids
  PROVE  Without(buffer, ids) \in Seq(ItemOf) /\ Len(Without(buffer, ids)) <= MaxSyncBuffer
         /\ Left(Without(buffer, ids), buffer, ids)
<1>1. buffer \in Seq(ItemOf) /\ Len(buffer) \in Nat
  BY LenProperties DEF SyncTypeOK
<1>2. Left(Without(buffer, ids), buffer, ids)
  BY <1>1, WithoutIs
<1>3. Without(buffer, ids) \in Seq(ItemOf) /\ Len(Without(buffer, ids)) <= Len(buffer)
  BY <1>2 DEF Left
<1> QED
  BY <1>1, <1>2, <1>3, LenProperties, SyncAssumption DEF SyncTypeOK

LEMMA EndSyncTypes ==
  ASSUME SyncTypeOK, NEW i \in SyncId, EndSync(i)
  PROVE  /\ syncs' \in [SyncId -> Sync] /\ syncing' \in SUBSET Account
         /\ buffer' \in Seq(ItemOf) /\ Len(buffer') <= MaxSyncBuffer
<1> DEFINE b == [NewSync EXCEPT !.step = "done"]
<1>1. b \in Sync
  <2>1. b = [step |-> "done", reason |-> "later", accounts |-> {}, snapshot |-> Unseen]
    BY DEF NewSync
  <2> HIDE DEF b
  <2> QED
    BY <2>1, NewSyncIsSync, SyncMake
<1>2. syncs' = [syncs EXCEPT ![i] = b]
  BY DEF EndSync
<1> HIDE DEF b
<1>3. syncs' \in [SyncId -> Sync]
  BY <1>1, <1>2 DEF SyncTypeOK
<1>4. syncing' \in SUBSET Account
  BY DEF EndSync, SyncTypeOK
<1> QED
  BY <1>3, <1>4, WithoutType DEF EndSync, Kept

LEMMA DroppedTypes ==
  ASSUME SyncTypeOK, NEW ids
  PROVE  DropDelayed(ids) \in [Account -> Rev] /\ Hidden(ids) \in [Account -> [Kind -> Rev]]
<1>1. \A a \in Account : Unseen[a] \in [Kind -> Rev] /\ shown[a] \in [Kind -> Rev] /\ delayed[a] \in Rev
  BY NewSyncIsSync DEF SyncTypeOK
<1> QED
  BY <1>1, NewSyncIsSync DEF DropDelayed, Hidden

(* A read of one kind.                                                     *)
ReadOf(i, k) == [a \in Account |-> [syncs[i].snapshot[a] EXCEPT ![k] = committed[a][k]]]

LEMMA ReadTypes ==
  ASSUME SyncTypeOK, NEW i \in SyncId, NEW k \in Kind, NEW step \in {"valuation", "answer"},
         syncs' = [syncs EXCEPT ![i].step = step, ![i].snapshot = ReadOf(i, k)]
  PROVE  /\ syncs' \in [SyncId -> Sync]
         /\ syncs'[i].step = step /\ syncs'[i].accounts = syncs[i].accounts
         /\ \A a \in Account : /\ syncs'[i].snapshot[a][k] = committed[a][k]
                               /\ \A m \in Kind : m # k => syncs'[i].snapshot[a][m] = syncs[i].snapshot[a][m]
         /\ \A j \in SyncId : j # i => syncs'[j] = syncs[j]
<1> DEFINE y == syncs[i]
           v == ReadOf(i, k)
           b == [step |-> step, reason |-> y.reason, accounts |-> y.accounts, snapshot |-> v]
<1>1. y \in Sync /\ y.snapshot \in [Account -> [Kind -> Rev]] /\ syncs \in [SyncId -> Sync]
      /\ y.reason \in {"initial", "later"} /\ y.accounts \in SUBSET Account
  BY SyncFields DEF SyncTypeOK
<1>2. /\ v \in [Account -> [Kind -> Rev]]
      /\ \A a \in Account : v[a][k] = committed[a][k] /\ \A m \in Kind : m # k => v[a][m] = y.snapshot[a][m]
  BY <1>1 DEF SyncTypeOK, ReadOf
<1> HIDE DEF v
<1>3. syncs' = [syncs EXCEPT ![i] = b]
  <2>1. y = [step |-> y.step, reason |-> y.reason, accounts |-> y.accounts, snapshot |-> y.snapshot]
    BY <1>1 DEF Sync
  <2>2. [y EXCEPT !.step = step, !.snapshot = v] = b
    <3> DEFINE c == [y EXCEPT !.step = step]
    <3>1. c = [step |-> step, reason |-> y.reason, accounts |-> y.accounts, snapshot |-> y.snapshot]
      BY <1>1 DEF Sync
    <3>2. [c EXCEPT !.snapshot = v] = b
      <4> HIDE DEF c, y
      <4> QED
        BY <3>1
    <3>3. [y EXCEPT !.step = step, !.snapshot = v] = [c EXCEPT !.snapshot = v]
      BY <1>1 DEF Sync
    <3> HIDE DEF c, y, b
    <3> QED
      BY <3>2, <3>3
  <2>3. syncs' = [syncs EXCEPT ![i] = [y EXCEPT !.step = step, !.snapshot = v]]
    BY <1>1 DEF v
  <2> HIDE DEF y, b
  <2> QED
    BY <2>2, <2>3
<1>4. b \in Sync
  BY <1>1, <1>2, SyncMake
<1>5. b.step = step /\ b.accounts = y.accounts /\ b.snapshot = v
  OBVIOUS
<1> HIDE DEF b, y
<1>6. syncs' \in [SyncId -> Sync] /\ syncs'[i] = b /\ \A j \in SyncId : j # i => syncs'[j] = syncs[j]
  BY <1>1, <1>3, <1>4
<1>7. syncs'[i].step = step /\ syncs'[i].accounts = y.accounts /\ syncs'[i].snapshot = v
  BY <1>5, <1>6
<1> QED
  BY <1>2, <1>6, <1>7 DEF y

(***************************************************************************)
(* The invariant, and what starting, ending and regrouping reads does.     *)
(***************************************************************************)
Current == /\ BufferedIsAwaited /\ MarkedIsRead /\ FollowedIsGranted /\ NewIsUntouched
           /\ LastBufferedIsLast /\ FollowedIsCurrent

LEMMA SyncInvIs == SyncInv <=> SyncTypeOK /\ Current
<1>1. ASSUME SyncTypeOK, FollowedIsCurrent PROVE TraderIsCurrent
  <2> SUFFICES ASSUME NEW a \in Account, Settled(a), a \notin disordered PROVE shown[a] = committed[a]
    BY DEF TraderIsCurrent
  <2>1. ViewIsCurrent(a) /\ ReadFor(a) = {} /\ delayed[a] = 0 /\ announced[a] = committed[a]["documents"]
    BY <1>1 DEF FollowedIsCurrent, Settled
  <2>2. shown[a]["documents"] = committed[a]["documents"] /\ shown[a]["valuation"] = committed[a]["valuation"]
    BY <2>1 DEF ViewIsCurrent
  <2>3. shown[a] \in [Kind -> Rev] /\ committed[a] \in [Kind -> Rev]
    BY <1>1 DEF SyncTypeOK
  <2>4. \A k \in Kind : shown[a][k] = committed[a][k]
    BY <2>2 DEF Kind
  <2> QED
    BY <2>3, <2>4
<1> QED
  BY <1>1 DEF SyncInv, SyncIsSound, Current

LEMMA SyncInvIsNext == SyncInv' <=> (SyncTypeOK' /\ Current')
BY SyncInvIs, PTL

\* What a step does to the reads, where it starts one for the accounts ids.
ReadsGrowBy(ids) ==
  \A a \in Account :
    /\ a \notin ids => /\ ReadFor(a)' = ReadFor(a) /\ (a \in disordered' => a \in disordered)
                       /\ (a \in disordered => a \in disordered')
                       /\ \A j \in ReadFor(a) : syncs'[j] = syncs[j]
    /\ a \in ids => /\ ReadFor(a)' # {}
                    /\ \/ a \in disordered'
                       \/ delayed[a] = 0 /\ \E i \in SyncId : ReadFor(a)' = {i} /\ syncs'[i].step = "documents"

LEMMA StartGrows ==
  ASSUME SyncTypeOK, NEW i \in SyncId, syncs[i].step = "new", NEW ids \in SUBSET Account, StartSync(i, ids)
  PROVE  ReadsGrowBy(ids)
<1> DEFINE b == [NewSync EXCEPT !.step = IF ids = {} THEN "done" ELSE "documents", !.accounts = ids]
<1>1. /\ b.accounts = ids /\ (ids = {} => b.step = "done") /\ (ids # {} => b.step = "documents")
      /\ syncs' = [syncs EXCEPT ![i] = b] /\ syncs \in [SyncId -> Sync]
  BY StartedIs DEF StartSync, SyncTypeOK
<1> HIDE DEF b
<1>2. syncs'[i] = b /\ \A j \in SyncId : j # i => syncs'[j] = syncs[j]
  BY <1>1
<1>3. disordered' = (disordered \ ids) \cup {a \in ids : ReadFor(a) # {} \/ delayed[a] # 0}
  BY DEF StartSync
<1>4. ASSUME NEW a \in Account, a \notin ids
      PROVE  /\ ReadFor(a)' = ReadFor(a) /\ (a \in disordered' => a \in disordered) /\ (a \in disordered => a \in disordered')
             /\ \A j \in ReadFor(a) : syncs'[j] = syncs[j]
  <2>1. ReadFor(a)' = ReadFor(a)
    BY <1>1, <1>2, <1>4 DEF ReadFor, Reading
  <2>2. \A j \in ReadFor(a) : syncs'[j] = syncs[j]
    BY <1>2 DEF ReadFor, Reading
  <2>3. (a \in disordered' => a \in disordered) /\ (a \in disordered => a \in disordered')
    BY <1>3, <1>4
  <2> QED
    BY <2>1, <2>2, <2>3
<1>5. ASSUME NEW a \in Account, a \in ids
      PROVE  /\ ReadFor(a)' # {}
             /\ \/ a \in disordered'
                \/ delayed[a] = 0 /\ \E q \in SyncId : ReadFor(a)' = {q} /\ syncs'[q].step = "documents"
  <2>1. b.step = "documents" /\ i \in ReadFor(a)'
    BY <1>1, <1>2, <1>5 DEF ReadFor, Reading
  <2>2. ASSUME a \notin disordered' PROVE delayed[a] = 0 /\ ReadFor(a)' = {i}
    <3>1. ReadFor(a) = {} /\ delayed[a] = 0
      BY <1>3, <1>5, <2>2
    <3>2. \A j \in SyncId : j # i => j \notin ReadFor(a)'
      BY <1>2, <3>1 DEF ReadFor, Reading
    <3>3. ReadFor(a)' \subseteq SyncId
      BY DEF ReadFor
    <3> QED
      BY <2>1, <3>1, <3>2, <3>3
  <2> QED
    BY <2>1, <2>2, <1>2
<1> QED
  BY <1>4, <1>5 DEF ReadsGrowBy

LEMMA NothingGrows ==
  ASSUME UNCHANGED <<syncs, disordered>>
  PROVE  ReadsGrowBy({})
BY DEF ReadsGrowBy, ReadFor, Reading

(* Accounts are dropped and accounts are read on an open socket.           *)
LEMMA RegroupKeeps ==
  ASSUME SyncTypeOK, Current, Open, link' = link, UNCHANGED <<committed, announced>>,
         SyncTypeOK', followed' \subseteq principal',
         NEW d \in SUBSET Account, NEW ids \in SUBSET Account, ReadsGrowBy(ids),
         followed' = (followed \ d) \cup ids, ids \cap d = {},
         syncing' = (syncing \ d) \cup ids, Left(buffer', buffer, d),
         \A a \in Account : IF a \in d THEN delayed'[a] = 0 ELSE delayed'[a] = delayed[a] /\ shown'[a] = shown[a]
  PROVE  Current'
<1>1. /\ BufferedIsAwaited /\ (\A a \in syncing : ReadFor(a) # {}) /\ FollowedIsGranted
      /\ LastBufferedIsLast /\ FollowedIsCurrent /\ Open'
  BY DEF Current, MarkedIsRead, Open
<1>2. buffer \in Seq(ItemOf) /\ followed \subseteq Account /\ syncing \subseteq Account
      /\ committed \in [Account -> [Kind -> Rev]] /\ announced \in [Account -> Rev]
      /\ followed' \subseteq Account /\ syncing' \subseteq Account
  BY DEF SyncTypeOK
<1>3. BufferedIsAwaited'
  <2> SUFFICES ASSUME NEW n \in 1 .. Len(buffer') PROVE buffer'[n].account \in followed' /\ buffer'[n].account \in syncing'
    BY DEF BufferedIsAwaited
  <2>1. PICK m \in 1 .. Len(buffer) : buffer'[n] = buffer[m]
    BY DEF Left
  <2>2. buffer'[n].account \notin d
    BY DEF Left
  <2>3. buffer[m].account \in followed /\ buffer[m].account \in syncing
    BY <1>1, <2>1 DEF BufferedIsAwaited
  <2> QED
    BY <2>1, <2>2, <2>3
<1>4. MarkedIsRead'
  <2> SUFFICES ASSUME NEW a \in syncing' PROVE ReadFor(a)' # {}
    BY DEF MarkedIsRead
  <2>1. a \in Account
    BY <1>2
  <2>2. CASE a \in ids
    BY <2>1, <2>2 DEF ReadsGrowBy
  <2>3. CASE a \notin ids
    BY <2>1, <2>3, <1>1 DEF ReadsGrowBy
  <2> QED
    BY <2>2, <2>3
<1>5. FollowedIsGranted'
  <2> SUFFICES ASSUME NEW a \in Account, delayed'[a] # 0 PROVE a \in followed'
    BY DEF FollowedIsGranted
  <2>1. a \notin d /\ delayed[a] # 0
    OBVIOUS
  <2> QED
    BY <2>1, <1>1 DEF FollowedIsGranted
<1>6. NewIsUntouched'
  BY DEF NewIsUntouched, Open
<1>7. \A a \in followed', k \in Kind, x \in Rev : Latest(buffer', a, k, x) = Latest(buffer, a, k, x)
  <2>1. \A a \in followed' : a \notin d
    OBVIOUS
  <2> QED
    BY <2>1 DEF Left
<1>8. LastBufferedIsLast'
  <2> SUFFICES ASSUME NEW a \in followed'
               PROVE  /\ Latest(buffer', a, "documents", announced[a]) = announced[a]
                      /\ Latest(buffer', a, "valuation", committed[a]["valuation"]) = committed[a]["valuation"]
    BY DEF LastBufferedIsLast
  <2>1. a \in Account /\ announced[a] \in Rev /\ committed[a]["valuation"] \in Rev
        /\ "documents" \in Kind /\ "valuation" \in Kind
    BY <1>2 DEF Kind
  <2>2. CASE a \in followed
    BY <2>1, <2>2, <1>1, <1>7 DEF LastBufferedIsLast
  <2>3. CASE a \notin followed
    <3>1. \A n \in 1 .. Len(buffer) : buffer[n].account # a
      BY <2>3, <1>1 DEF BufferedIsAwaited
    <3> QED
      BY <2>1, <3>1, <1>2, <1>7, LatestOfOthers
  <2> QED
    BY <2>2, <2>3
<1>9. FollowedIsCurrent'
  <2> SUFFICES ASSUME NEW a \in followed', a \notin disordered' PROVE ReadIsCurrent(a)' /\ ViewIsCurrent(a)'
    BY DEF FollowedIsCurrent
  <2>1. a \in Account /\ a \notin d /\ delayed'[a] = delayed[a] /\ shown'[a] = shown[a]
    BY <1>2
  <2>2. CASE a \in ids
    <3>1. PICK i \in SyncId : delayed[a] = 0 /\ ReadFor(a)' = {i} /\ syncs'[i].step = "documents"
      BY <2>1, <2>2 DEF ReadsGrowBy
    <3>2. a \in syncing'
      BY <2>2
    <3>3. ReadIsCurrent(a)'
      BY <2>1, <3>1, <3>2 DEF ReadIsCurrent
    <3>4. ViewIsCurrent(a)'
      BY <3>1 DEF ViewIsCurrent
    <3> QED
      BY <3>3, <3>4
  <2>3. CASE a \notin ids
    <3>1. a \in followed /\ a \notin disordered /\ ReadFor(a)' = ReadFor(a) /\ \A j \in ReadFor(a) : syncs'[j] = syncs[j]
      BY <2>1, <2>3 DEF ReadsGrowBy
    <3>2. ReadIsCurrent(a) /\ ViewIsCurrent(a)
      BY <3>1, <1>1 DEF FollowedIsCurrent
    <3>3. a \in syncing => a \in syncing'
      BY <2>1
    <3>4. ASSUME NEW i \in ReadFor(a)
          PROVE  /\ Latest(buffer', a, "documents", syncs'[i].snapshot[a]["documents"]) =
                      Latest(buffer, a, "documents", syncs[i].snapshot[a]["documents"])
                 /\ Latest(buffer', a, "valuation", syncs'[i].snapshot[a]["valuation"]) =
                      Latest(buffer, a, "valuation", syncs[i].snapshot[a]["valuation"])
      <4>1. i \in SyncId /\ syncs'[i] = syncs[i]
        BY <3>1 DEF ReadFor
      <4>2. syncs[i].snapshot \in [Account -> [Kind -> Rev]] /\ "documents" \in Kind /\ "valuation" \in Kind
        BY <4>1, SyncFields DEF SyncTypeOK, Kind
      <4>3. syncs[i].snapshot[a]["documents"] \in Rev /\ syncs[i].snapshot[a]["valuation"] \in Rev
        BY <4>2, <2>1
      <4> QED
        BY <4>1, <4>2, <4>3, <1>7
    <3>5. ReadIsCurrent(a)'
      BY <2>1, <3>1, <3>2, <3>3, <3>4 DEF ReadIsCurrent
    <3>6. ViewIsCurrent(a)'
      BY <2>1, <3>1, <3>2 DEF ViewIsCurrent
    <3> QED
      BY <3>5, <3>6
  <2> QED
    BY <2>2, <2>3
<1> QED
  BY <1>3, <1>4, <1>5, <1>6, <1>8, <1>9 DEF Current

(* A read ends, with a snapshot or without one.                            *)
LEMMA EndKeeps ==
  ASSUME SyncTypeOK, Current, SyncTypeOK', NEW i \in SyncId, Reading(i), EndSync(i), link' \in {link, "closed"},
         UNCHANGED <<principal, followed, delayed, committed, announced>>,
         \A a \in Account : a \notin syncs[i].accounts =>
           /\ shown'[a] = shown[a] /\ (a \in disordered => a \in disordered'),
         \A a \in followed : Open' /\ a \in syncs[i].accounts /\ a \notin disordered' =>
           /\ syncs[i].step = "answer" /\ a \notin disordered
           /\ \A k \in Kind : shown'[a][k] = Latest(buffer, a, k, syncs[i].snapshot[a][k])
  PROVE  Current'
<1> DEFINE ids == syncs[i].accounts
<1>1. /\ BufferedIsAwaited /\ (Open' => \A a \in syncing : ReadFor(a) # {}) /\ FollowedIsGranted
      /\ (Open' => Open) /\ (link' = "new" => link = "new")
  BY DEF Current, MarkedIsRead, Open
<1>2. /\ buffer \in Seq(ItemOf) /\ followed \subseteq Account /\ syncing \subseteq Account /\ ids \subseteq Account
      /\ committed \in [Account -> [Kind -> Rev]] /\ announced \in [Account -> Rev]
      /\ shown' \in [Account -> [Kind -> Rev]] /\ "documents" \in Kind /\ "valuation" \in Kind
  BY SyncFields DEF SyncTypeOK, Kind
<1>3. /\ syncing' = syncing \ ids /\ buffer' = Without(buffer, ids \cap followed)
      /\ syncs'[i].step = "done" /\ \A j \in SyncId : j # i => syncs'[j] = syncs[j]
  <2>1. syncs' = [syncs EXCEPT ![i] = [NewSync EXCEPT !.step = "done"]] /\ syncs \in [SyncId -> Sync]
    BY DEF EndSync, SyncTypeOK
  <2>2. [NewSync EXCEPT !.step = "done"].step = "done"
    BY DEF NewSync
  <2> QED
    BY <2>1, <2>2 DEF EndSync, Kept
<1>4. Left(buffer', buffer, ids \cap followed)
  BY <1>3, WithoutType
<1>5. \A a \in Account : a \notin ids => ReadFor(a)' = ReadFor(a) /\ \A j \in ReadFor(a) : syncs'[j] = syncs[j]
  <2> SUFFICES ASSUME NEW a \in Account, a \notin ids
               PROVE  ReadFor(a)' = ReadFor(a) /\ \A j \in ReadFor(a) : syncs'[j] = syncs[j]
    OBVIOUS
  <2>1. i \notin ReadFor(a) /\ i \notin ReadFor(a)'
    BY <1>3 DEF ReadFor, Reading
  <2>2. \A j \in SyncId : j # i => (j \in ReadFor(a) <=> j \in ReadFor(a)')
    BY <1>3 DEF ReadFor, Reading
  <2>3. ReadFor(a) \subseteq SyncId /\ ReadFor(a)' \subseteq SyncId
    BY DEF ReadFor
  <2> QED
    BY <1>3, <2>1, <2>2, <2>3
<1>6. \A a \in ids : i \in ReadFor(a) /\ ReadFor(a)' = ReadFor(a) \ {i}
  <2> SUFFICES ASSUME NEW a \in ids PROVE i \in ReadFor(a) /\ ReadFor(a)' = ReadFor(a) \ {i}
    OBVIOUS
  <2>1. i \in ReadFor(a) /\ i \notin ReadFor(a)'
    BY <1>3 DEF ReadFor, Reading
  <2>2. \A j \in SyncId : j # i => (j \in ReadFor(a) <=> j \in ReadFor(a)')
    BY <1>3 DEF ReadFor, Reading
  <2>3. ReadFor(a) \subseteq SyncId /\ ReadFor(a)' \subseteq SyncId
    BY DEF ReadFor
  <2> QED
    BY <2>1, <2>2, <2>3
<1> HIDE DEF ids
<1>7. BufferedIsAwaited'
  <2> SUFFICES ASSUME NEW n \in 1 .. Len(buffer') PROVE buffer'[n].account \in followed /\ buffer'[n].account \in syncing'
    BY DEF BufferedIsAwaited
  <2>1. PICK m \in 1 .. Len(buffer) : buffer'[n] = buffer[m]
    BY <1>4 DEF Left
  <2>2. buffer'[n].account \notin ids \cap followed
    BY <1>4 DEF Left
  <2>3. buffer[m].account \in followed /\ buffer[m].account \in syncing
    BY <1>1, <2>1 DEF BufferedIsAwaited
  <2> QED
    BY <2>1, <2>2, <2>3, <1>3
<1>8. MarkedIsRead'
  <2> SUFFICES ASSUME Open', NEW a \in syncing' PROVE ReadFor(a)' # {}
    BY DEF MarkedIsRead
  <2>1. a \in Account /\ a \notin ids /\ a \in syncing
    BY <1>2, <1>3
  <2> QED
    BY <2>1, <1>1, <1>5
<1>9. FollowedIsGranted'
  BY <1>1 DEF FollowedIsGranted
<1>10. NewIsUntouched'
  <2>1. link # "new"
    BY DEF Current, NewIsUntouched, Reading
  <2> QED
    BY <1>1, <2>1 DEF NewIsUntouched
<1>11. \A a \in followed : a \notin ids => \A k \in Kind, x \in Rev : Latest(buffer', a, k, x) = Latest(buffer, a, k, x)
  BY <1>4 DEF Left
<1>12. LastBufferedIsLast'
  <2> SUFFICES ASSUME NEW a \in followed, Open'
               PROVE  /\ Latest(buffer', a, "documents", announced[a]) = announced[a]
                      /\ Latest(buffer', a, "valuation", committed[a]["valuation"]) = committed[a]["valuation"]
    BY DEF LastBufferedIsLast
  <2>1. a \in Account /\ announced[a] \in Rev /\ committed[a]["valuation"] \in Rev
    BY <1>2
  <2>2. CASE a \notin ids
    BY <2>1, <2>2, <1>1, <1>2, <1>11 DEF LastBufferedIsLast, Current
  <2>3. CASE a \in ids
    <3>1. buffer' \in Seq(ItemOf) /\ \A n \in 1 .. Len(buffer') : buffer'[n].account # a
      BY <2>3, <1>4 DEF Left
    <3> QED
      BY <2>1, <3>1, LatestOfOthers
  <2> QED
    BY <2>2, <2>3
<1>13. FollowedIsCurrent'
  <2> SUFFICES ASSUME NEW a \in followed, Open', a \notin disordered' PROVE ReadIsCurrent(a)' /\ ViewIsCurrent(a)'
    BY DEF FollowedIsCurrent
  <2>1. a \in Account /\ Open
    BY <1>1, <1>2
  <2>2. CASE a \in ids
    <3>1. /\ syncs[i].step = "answer" /\ a \notin disordered
          /\ \A k \in Kind : shown'[a][k] = Latest(buffer, a, k, syncs[i].snapshot[a][k])
      BY <2>2 DEF ids
    <3>2. ReadIsCurrent(a)
      BY <2>1, <3>1 DEF Current, FollowedIsCurrent
    <3>3. i \in ReadFor(a) /\ ReadFor(a)' = ReadFor(a) \ {i}
      BY <2>2, <1>6
    <3>4. ReadFor(a)' = {}
      BY <3>2, <3>3 DEF ReadIsCurrent
    <3>5. /\ delayed[a] = 0
          /\ shown'[a]["documents"] \in {announced[a], committed[a]["documents"]}
          /\ shown'[a]["valuation"] = committed[a]["valuation"]
      BY <1>2, <3>1, <3>2, <3>3 DEF ReadIsCurrent
    <3> QED
      BY <3>4, <3>5 DEF ReadIsCurrent, ViewIsCurrent
  <2>3. CASE a \notin ids
    <3>1. /\ a \notin disordered /\ shown'[a] = shown[a]
          /\ ReadFor(a)' = ReadFor(a) /\ \A j \in ReadFor(a) : syncs'[j] = syncs[j]
      BY <2>1, <2>3, <1>5 DEF ids
    <3>2. ReadIsCurrent(a) /\ ViewIsCurrent(a)
      BY <2>1, <3>1 DEF Current, FollowedIsCurrent
    <3>3. a \in syncing => a \in syncing'
      BY <1>3, <2>3
    <3>4. ASSUME NEW j \in ReadFor(a)
          PROVE  /\ Latest(buffer', a, "documents", syncs'[j].snapshot[a]["documents"]) =
                      Latest(buffer, a, "documents", syncs[j].snapshot[a]["documents"])
                 /\ Latest(buffer', a, "valuation", syncs'[j].snapshot[a]["valuation"]) =
                      Latest(buffer, a, "valuation", syncs[j].snapshot[a]["valuation"])
      <4>1. j \in SyncId /\ syncs'[j] = syncs[j]
        BY <3>1 DEF ReadFor
      <4>2. syncs[j].snapshot \in [Account -> [Kind -> Rev]]
        BY <4>1, SyncFields DEF SyncTypeOK
      <4>3. syncs[j].snapshot[a]["documents"] \in Rev /\ syncs[j].snapshot[a]["valuation"] \in Rev
        BY <4>2, <2>1, <1>2
      <4> QED
        BY <4>1, <4>3, <1>2, <1>11, <2>3
    <3>5. ReadIsCurrent(a)'
      BY <2>1, <3>1, <3>2, <3>3, <3>4 DEF ReadIsCurrent
    <3>6. ViewIsCurrent(a)'
      BY <2>1, <3>1, <3>2 DEF ViewIsCurrent
    <3> QED
      BY <3>5, <3>6
  <2> QED
    BY <2>2, <2>3
<1> QED
  BY <1>7, <1>8, <1>9, <1>10, <1>12, <1>13 DEF Current

(* An event of an account is routed: a change was announced, or valued.    *)
Tells(a, k, r) ==
  /\ \A b \in Account : b # a => announced'[b] = announced[b] /\ committed'[b] = committed[b]
  /\ \/ k = "documents" /\ announced'[a] = r /\ committed'[a] = committed[a] /\ committed[a]["documents"] = r
     \/ /\ k = "valuation" /\ announced'[a] = announced[a] /\ r # 0
        /\ committed'[a]["documents"] = committed[a]["documents"] /\ committed'[a]["valuation"] = r

\* What is true of the accounts that the event is not about stays so.
LEMMA OthersKeep ==
  ASSUME SyncTypeOK, Current, SyncTypeOK', NEW a \in Account, Open, Open',
         UNCHANGED <<followed, syncing, syncs, disordered>>, NEW b \in followed, b # a,
         announced'[b] = announced[b], committed'[b] = committed[b], delayed'[b] = delayed[b], shown'[b] = shown[b],
         \A k \in Kind, x \in Rev : Latest(buffer', b, k, x) = Latest(buffer, b, k, x)
  PROVE  /\ Latest(buffer', b, "documents", announced'[b]) = announced'[b]
         /\ Latest(buffer', b, "valuation", committed'[b]["valuation"]) = committed'[b]["valuation"]
         /\ b \notin disordered => ReadIsCurrent(b)' /\ ViewIsCurrent(b)'
<1>1. b \in Account /\ announced[b] \in Rev /\ committed[b]["valuation"] \in Rev
      /\ "documents" \in Kind /\ "valuation" \in Kind
  BY DEF SyncTypeOK, Kind
<1>2. /\ Latest(buffer', b, "documents", announced'[b]) = announced'[b]
      /\ Latest(buffer', b, "valuation", committed'[b]["valuation"]) = committed'[b]["valuation"]
  BY <1>1 DEF Current, LastBufferedIsLast
<1>3. ReadFor(b)' = ReadFor(b)
  BY DEF ReadFor, Reading
<1>4. ASSUME NEW j \in ReadFor(b)
      PROVE  syncs[j].snapshot[b]["documents"] \in Rev /\ syncs[j].snapshot[b]["valuation"] \in Rev
  BY <1>1, SyncFields DEF SyncTypeOK, ReadFor
<1>5. ASSUME b \notin disordered PROVE ReadIsCurrent(b)' /\ ViewIsCurrent(b)'
  <2>1. ReadIsCurrent(b) /\ ViewIsCurrent(b)
    BY <1>5 DEF Current, FollowedIsCurrent
  <2>2. ReadIsCurrent(b)'
    BY <1>1, <1>3, <1>4, <2>1 DEF ReadIsCurrent
  <2>3. ViewIsCurrent(b)'
    BY <1>1, <1>3, <2>1 DEF ViewIsCurrent
  <2> QED
    BY <2>2, <2>3
<1> QED
  BY <1>2, <1>5

LEMMA EventKeeps ==
  ASSUME SyncTypeOK, Current, SyncTypeOK', NEW a \in Account, NEW k \in Kind, NEW r \in Rev,
         Route(a, k, r), Tells(a, k, r),
         UNCHANGED <<principal, checks, followed, syncing, syncs, disordered>>
  PROVE  Current'
<1>1. /\ BufferedIsAwaited /\ MarkedIsRead /\ FollowedIsGranted /\ NewIsUntouched
      /\ LastBufferedIsLast /\ FollowedIsCurrent
  BY DEF Current
<1>2. /\ buffer \in Seq(ItemOf) /\ followed \subseteq Account /\ syncing \subseteq Account
      /\ committed \in [Account -> [Kind -> Rev]] /\ announced \in [Account -> Rev]
      /\ committed' \in [Account -> [Kind -> Rev]] /\ announced' \in [Account -> Rev]
      /\ "documents" \in Kind /\ "valuation" \in Kind
  BY DEF SyncTypeOK, Kind
<1>3. \A b \in Account : ReadFor(b)' = ReadFor(b)
  BY DEF ReadFor, Reading
<1>4. ASSUME NEW b \in Account, NEW j \in ReadFor(b)
      PROVE  j \in SyncId /\ syncs[j].snapshot[b]["documents"] \in Rev /\ syncs[j].snapshot[b]["valuation"] \in Rev
  BY <1>2, SyncFields DEF SyncTypeOK, ReadFor
<1>5. CASE ~Open \/ a \notin followed
  <2>1. UNCHANGED <<link, buffer, delayed, shown>>
    BY <1>5 DEF Route
  <2>2. BufferedIsAwaited' /\ MarkedIsRead' /\ FollowedIsGranted' /\ NewIsUntouched'
    <3>1. BufferedIsAwaited'
      BY <1>1, <2>1 DEF BufferedIsAwaited
    <3>2. MarkedIsRead'
      BY <1>1, <1>2, <1>3, <2>1 DEF MarkedIsRead, Open
    <3>3. FollowedIsGranted'
      BY <1>1, <2>1 DEF FollowedIsGranted, Open
    <3>4. NewIsUntouched'
      BY <1>1, <2>1 DEF NewIsUntouched
    <3> QED
      BY <3>1, <3>2, <3>3, <3>4
  <2>3. ASSUME Open', NEW b \in followed
        PROVE  /\ Latest(buffer', b, "documents", announced'[b]) = announced'[b]
               /\ Latest(buffer', b, "valuation", committed'[b]["valuation"]) = committed'[b]["valuation"]
               /\ b \notin disordered => ReadIsCurrent(b)' /\ ViewIsCurrent(b)'
    <3>1. Open /\ b # a /\ b \in Account
      BY <2>1, <2>3, <1>2, <1>5 DEF Open
    <3>2. announced'[b] = announced[b] /\ committed'[b] = committed[b]
      BY <3>1 DEF Tells
    <3> QED
      BY <2>1, <2>3, <3>1, <3>2, OthersKeep
  <2>4. LastBufferedIsLast' /\ FollowedIsCurrent'
    BY <2>3 DEF LastBufferedIsLast, FollowedIsCurrent
  <2> QED
    BY <2>2, <2>4 DEF Current
<1>6. CASE link' = "closed" /\ UNCHANGED <<buffer, delayed, shown>>
  BY <1>1, <1>6 DEF Current, BufferedIsAwaited, MarkedIsRead, FollowedIsGranted, NewIsUntouched,
                    LastBufferedIsLast, FollowedIsCurrent, Open
<1>7. CASE /\ Open /\ a \in followed /\ a \in syncing
           /\ buffer' = Append(buffer, Item(a, k, r)) /\ UNCHANGED <<link, delayed, shown>>
  <2> DEFINE e == Item(a, k, r)
  <2>1. e \in ItemOf /\ e.account = a /\ e.kind = k /\ e.rev = r
    BY DEF Item, ItemOf
  <2> HIDE DEF e
  <2>2. buffer' = Append(buffer, e) /\ Open'
    BY <1>7 DEF e, Open
  <2>3. \A b, m : \A x \in Rev : Latest(buffer', b, m, x) = IF b = a /\ m = k THEN r ELSE Latest(buffer, b, m, x)
    BY <1>2, <2>1, <2>2, LatestOfAppend
  <2>4. /\ Len(buffer) \in Nat /\ Len(buffer') = Len(buffer) + 1 /\ buffer'[Len(buffer) + 1] = e
        /\ \A n \in 1 .. Len(buffer) : buffer'[n] = buffer[n]
    BY <1>2, <2>1, <2>2, AppendProperties, LenProperties
  <2>5. BufferedIsAwaited'
    <3> SUFFICES ASSUME NEW n \in 1 .. Len(buffer') PROVE buffer'[n].account \in followed /\ buffer'[n].account \in syncing
      BY DEF BufferedIsAwaited
    <3>1. CASE n \in 1 .. Len(buffer)
      BY <3>1, <2>4, <1>1 DEF BufferedIsAwaited
    <3>2. CASE n = Len(buffer) + 1
      BY <3>2, <2>1, <2>4, <1>7
    <3> QED
      BY <3>1, <3>2, <2>4
  <2>6. MarkedIsRead' /\ FollowedIsGranted' /\ NewIsUntouched'
    <3>1. MarkedIsRead'
      BY <1>1, <1>2, <1>3, <1>7 DEF MarkedIsRead, Open
    <3>2. FollowedIsGranted'
      BY <1>1, <1>7 DEF FollowedIsGranted, Open
    <3>3. NewIsUntouched'
      BY <2>2 DEF NewIsUntouched, Open
    <3> QED
      BY <3>1, <3>2, <3>3
  <2>7. ASSUME NEW b \in followed
        PROVE  /\ Latest(buffer', b, "documents", announced'[b]) = announced'[b]
               /\ Latest(buffer', b, "valuation", committed'[b]["valuation"]) = committed'[b]["valuation"]
               /\ b \notin disordered => ReadIsCurrent(b)' /\ ViewIsCurrent(b)'
    <3>1. CASE b # a
      <4>1. announced'[b] = announced[b] /\ committed'[b] = committed[b]
        BY <3>1, <1>2 DEF Tells
      <4>2. \A m \in Kind, x \in Rev : Latest(buffer', b, m, x) = Latest(buffer, b, m, x)
        BY <3>1, <2>3
      <4> QED
        BY <3>1, <4>1, <4>2, <1>7, <2>2, OthersKeep
    <3>2. CASE b = a
      <4>1. /\ Latest(buffer, a, "documents", announced[a]) = announced[a]
            /\ Latest(buffer, a, "valuation", committed[a]["valuation"]) = committed[a]["valuation"]
        BY <1>1, <1>7 DEF LastBufferedIsLast
      <4>2. announced[a] \in Rev /\ announced'[a] \in Rev /\ committed[a]["valuation"] \in Rev
            /\ committed'[a]["valuation"] \in Rev
        BY <1>2
      <4>3. /\ Latest(buffer', a, "documents", announced'[a]) = announced'[a]
            /\ Latest(buffer', a, "valuation", committed'[a]["valuation"]) = committed'[a]["valuation"]
        <5>1. CASE k = "documents"
          BY <5>1, <4>1, <4>2, <2>3 DEF Tells
        <5>2. CASE k = "valuation"
          BY <5>2, <4>1, <4>2, <2>3 DEF Tells
        <5> QED
          BY <5>1, <5>2 DEF Tells
      <4>4. ViewIsCurrent(a)'
        BY <1>1, <1>3, <1>7 DEF MarkedIsRead, ViewIsCurrent
      <4>5. ASSUME a \notin disordered PROVE ReadIsCurrent(a)'
        <5>1. ReadIsCurrent(a)
          BY <4>5, <1>1, <1>7 DEF FollowedIsCurrent
        <5>2. ASSUME NEW i \in ReadFor(a)
              PROVE  /\ \A j \in ReadFor(a) : i = j
                     /\ delayed[a] = 0
                     /\ syncs[i].step # "documents" =>
                          Latest(buffer', a, "documents", syncs[i].snapshot[a]["documents"])
                            \in {announced'[a], committed'[a]["documents"]}
                     /\ syncs[i].step = "answer" =>
                          Latest(buffer', a, "valuation", syncs[i].snapshot[a]["valuation"]) = committed'[a]["valuation"]
          <6>1. CASE k = "documents"
            BY <6>1, <5>1, <5>2, <1>4, <2>3 DEF Tells, ReadIsCurrent
          <6>2. CASE k = "valuation"
            BY <6>2, <5>1, <5>2, <1>4, <2>3 DEF Tells, ReadIsCurrent
          <6> QED
            BY <6>1, <6>2 DEF Tells
        <5> QED
          BY <1>3, <1>7, <5>2 DEF ReadIsCurrent
      <4> QED
        BY <3>2, <4>3, <4>4, <4>5
    <3> QED
      BY <3>1, <3>2
  <2>8. LastBufferedIsLast' /\ FollowedIsCurrent'
    BY <2>7 DEF LastBufferedIsLast, FollowedIsCurrent
  <2> QED
    BY <2>5, <2>6, <2>8 DEF Current
<1>8. ASSUME Open, a \in followed, a \notin syncing, UNCHANGED <<link, buffer>>,
             \/ k = "valuation" /\ Delayed(a, r) /\ shown' = shown
             \/ k = "documents" /\ Show(With(a, k, r)) /\ delayed' = delayed
      PROVE  Current'
  <2>1. Open' /\ \A b \in Account : b # a => delayed'[b] = delayed[b] /\ shown'[b] = shown[b]
    <3>1. CASE k = "valuation" /\ Delayed(a, r) /\ shown' = shown
      BY <1>8, <3>1 DEF Delayed, SyncTypeOK, Open
    <3>2. CASE k = "documents" /\ Show(With(a, k, r)) /\ delayed' = delayed
      BY <1>8, <3>2 DEF Show, With, SyncTypeOK, Open
    <3> QED
      BY <1>8, <3>1, <3>2
  <2>2. \A n \in 1 .. Len(buffer) : buffer[n].account # a
    BY <1>1, <1>8 DEF BufferedIsAwaited
  <2>3. \A m : \A x \in Rev : Latest(buffer, a, m, x) = x
    BY <1>2, <2>2, LatestOfOthers
  <2>4. BufferedIsAwaited' /\ MarkedIsRead' /\ NewIsUntouched'
    <3>1. BufferedIsAwaited'
      BY <1>1, <1>8 DEF BufferedIsAwaited
    <3>2. MarkedIsRead'
      BY <1>1, <1>2, <1>3, <1>8 DEF MarkedIsRead, Open
    <3>3. NewIsUntouched'
      BY <2>1 DEF NewIsUntouched, Open
    <3> QED
      BY <3>1, <3>2, <3>3
  <2>5. FollowedIsGranted'
    BY <1>1, <1>8, <2>1 DEF FollowedIsGranted
  <2>6. ASSUME NEW b \in followed
        PROVE  /\ Latest(buffer', b, "documents", announced'[b]) = announced'[b]
               /\ Latest(buffer', b, "valuation", committed'[b]["valuation"]) = committed'[b]["valuation"]
               /\ b \notin disordered => ReadIsCurrent(b)' /\ ViewIsCurrent(b)'
    <3>1. CASE b # a
      <4>1. announced'[b] = announced[b] /\ committed'[b] = committed[b] /\ delayed'[b] = delayed[b] /\ shown'[b] = shown[b]
        BY <3>1, <1>2, <2>1 DEF Tells
      <4>2. \A m \in Kind, x \in Rev : Latest(buffer', b, m, x) = Latest(buffer, b, m, x)
        BY <1>8
      <4> QED
        BY <3>1, <4>1, <4>2, <1>8, <2>1, OthersKeep
    <3>2. CASE b = a
      <4>1. announced'[a] \in Rev /\ committed'[a]["valuation"] \in Rev
        BY <1>2
      <4>2. ASSUME a \notin disordered PROVE ReadIsCurrent(a)' /\ ViewIsCurrent(a)'
        <5>1. ReadIsCurrent(a) /\ ViewIsCurrent(a)
          BY <4>2, <1>1, <1>8 DEF FollowedIsCurrent
        <5>2. ReadFor(a) = {} /\ ReadFor(a)' = {}
          BY <5>1, <1>3, <1>8 DEF ReadIsCurrent
        <5>3. /\ shown[a]["documents"] \in {announced[a], committed[a]["documents"]}
              /\ committed[a]["valuation"] = IF delayed[a] = 0 THEN shown[a]["valuation"] ELSE delayed[a]
          BY <5>1, <5>2 DEF ViewIsCurrent
        <5>4. CASE k = "valuation" /\ Delayed(a, r) /\ shown' = shown
          <6>1. delayed'[a] = r /\ r # 0 /\ committed'[a]["valuation"] = r /\ committed'[a]["documents"] = committed[a]["documents"]
                /\ announced'[a] = announced[a]
            BY <5>4 DEF Delayed, SyncTypeOK, Tells
          <6> QED
            BY <6>1, <5>2, <5>3, <5>4 DEF ReadIsCurrent, ViewIsCurrent
        <5>5. CASE k = "documents" /\ Show(With(a, k, r)) /\ delayed' = delayed
          <6>1. shown' = With(a, k, r)
            BY <5>5, <1>8 DEF Show
          <6>2. shown'[a]["documents"] = r /\ shown'[a]["valuation"] = shown[a]["valuation"]
            <7>1. /\ With(a, "documents", r)[a]["documents"] = r
                  /\ \A c \in Account, m \in Kind : c # a \/ m # "documents" => With(a, "documents", r)[c][m] = shown[c][m]
              <8>1. SyncTypeOK /\ a \in Account /\ r \in Rev /\ "documents" \in Kind
                BY <1>2 DEF Kind
              <8> QED
                BY <8>1, WithType
            <7> QED
              BY <6>1, <5>5, <1>2, <7>1
          <6>3. announced'[a] = r /\ committed'[a] = committed[a]
            BY <5>5 DEF Tells
          <6> QED
            BY <6>2, <6>3, <5>2, <5>3, <5>5 DEF ReadIsCurrent, ViewIsCurrent
        <5> QED
          BY <1>8, <5>4, <5>5
      <4> QED
        BY <3>2, <4>1, <4>2, <2>3, <1>8
    <3> QED
      BY <3>1, <3>2
  <2>7. LastBufferedIsLast' /\ FollowedIsCurrent'
    BY <2>6 DEF LastBufferedIsLast, FollowedIsCurrent
  <2> QED
    BY <2>4, <2>5, <2>7 DEF Current
<1>9. k = "documents" \/ k = "valuation"
  BY DEF Kind
<1> QED
  BY <1>5, <1>6, <1>7, <1>8, <1>9 DEF Route

(***************************************************************************)
(* Each action keeps the types and the invariant.                          *)
(***************************************************************************)
LEMMA TradingStays ==
  ASSUME Current, UNCHANGED <<link, principal, followed, syncing, buffer, syncs, delayed, committed, announced,
                              shown, disordered>>,
         link = "new" => \A c \in CheckId : checks'[c].step = "new"
  PROVE  Current'
<1>1. \A a : ReadFor(a)' = ReadFor(a)
  BY DEF ReadFor, Reading
<1>2. BufferedIsAwaited' /\ FollowedIsGranted'
  BY DEF Current, BufferedIsAwaited, FollowedIsGranted, Open
<1>3. MarkedIsRead'
  BY <1>1 DEF Current, MarkedIsRead, Open
<1>4. NewIsUntouched'
  BY DEF Current, NewIsUntouched
<1>5. LastBufferedIsLast'
  BY DEF Current, LastBufferedIsLast, Open
<1>6. FollowedIsCurrent'
  BY <1>1 DEF Current, FollowedIsCurrent, ReadIsCurrent, ViewIsCurrent, Open
<1> QED
  BY <1>2, <1>3, <1>4, <1>5, <1>6 DEF Current

LEMMA CommitDocumentsKeeps ==
  ASSUME SyncTypeOK, Current, NEW a \in Account, CommitDocuments(a)
  PROVE  SyncTypeOK' /\ Current'
<1>1. /\ committed \in [Account -> [Kind -> Rev]] /\ "documents" \in Kind /\ "valuation" \in Kind /\ followed \subseteq Account
  BY DEF SyncTypeOK, Kind
<1> DEFINE r == committed[a]["documents"] + 1
<1>2. r \in Rev
  BY <1>1, SyncAssumption DEF CommitDocuments, Rev
<1>3. committed' = [committed EXCEPT ![a]["documents"] = r]
  BY DEF CommitDocuments
<1> HIDE DEF r
<1>4. committed' \in [Account -> [Kind -> Rev]]
  BY <1>1, <1>2, <1>3
<1>5. SyncTypeOK'
  BY <1>4 DEF SyncTypeOK, CommitDocuments
<1>6. /\ \A b \in Account : committed'[b]["valuation"] = committed[b]["valuation"]
      /\ \A b \in Account : committed'[b]["documents"] = committed[b]["documents"] \/ announced[b] = committed[b]["documents"]
  BY <1>1, <1>3 DEF CommitDocuments
<1>7. \A b : ReadFor(b)' = ReadFor(b)
  BY DEF ReadFor, Reading, CommitDocuments
<1>8. BufferedIsAwaited' /\ FollowedIsGranted' /\ NewIsUntouched'
  BY DEF Current, BufferedIsAwaited, FollowedIsGranted, NewIsUntouched, Open, CommitDocuments
<1>9. MarkedIsRead'
  BY <1>7 DEF Current, MarkedIsRead, Open, CommitDocuments
<1>10. LastBufferedIsLast'
  BY <1>1, <1>6 DEF Current, LastBufferedIsLast, Open, CommitDocuments
<1>11. FollowedIsCurrent'
  <2> SUFFICES ASSUME NEW b \in followed, Open, b \notin disordered PROVE ReadIsCurrent(b)' /\ ViewIsCurrent(b)'
    BY DEF FollowedIsCurrent, Open, CommitDocuments
  <2>1. ReadIsCurrent(b) /\ ViewIsCurrent(b) /\ b \in Account
    BY <1>1 DEF Current, FollowedIsCurrent
  <2>2. announced' = announced /\ shown' = shown /\ delayed' = delayed /\ syncs' = syncs /\ buffer' = buffer /\ syncing' = syncing
    BY DEF CommitDocuments
  <2>3. ReadIsCurrent(b)'
    BY <1>6, <1>7, <2>1, <2>2 DEF ReadIsCurrent
  <2>4. ViewIsCurrent(b)'
    BY <1>6, <1>7, <2>1, <2>2 DEF ViewIsCurrent
  <2> QED
    BY <2>3, <2>4
<1> QED
  BY <1>5, <1>8, <1>9, <1>10, <1>11 DEF Current

LEMMA AnnounceDocumentsKeeps ==
  ASSUME SyncTypeOK, Current, NEW a \in Account, AnnounceDocuments(a)
  PROVE  SyncTypeOK' /\ Current'
<1> DEFINE r == committed[a]["documents"]
<1>1. r \in Rev /\ "documents" \in Kind
  BY DEF SyncTypeOK, Kind
<1>2. announced' = [announced EXCEPT ![a] = r] /\ announced \in [Account -> Rev]
  BY DEF AnnounceDocuments, SyncTypeOK
<1>3. announced' \in [Account -> Rev] /\ announced'[a] = r
  BY <1>1, <1>2
<1>4. Route(a, "documents", r)
  BY <1>3 DEF AnnounceDocuments
<1>5. SyncTypeOK'
  BY <1>1, <1>3, <1>4, RouteTypes DEF SyncTypeOK, AnnounceDocuments
<1>6. Tells(a, "documents", r)
  BY <1>2, <1>3 DEF Tells, AnnounceDocuments
<1>7. UNCHANGED <<principal, checks, followed, syncing, syncs, disordered>>
  BY DEF AnnounceDocuments
<1> HIDE DEF r
<1> QED
  BY <1>1, <1>4, <1>5, <1>6, <1>7, EventKeeps

LEMMA RevalueKeeps ==
  ASSUME SyncTypeOK, Current, NEW a \in Account, Revalue(a)
  PROVE  SyncTypeOK' /\ Current'
<1> DEFINE r == committed[a]["valuation"] + 1
<1>1. committed \in [Account -> [Kind -> Rev]] /\ "documents" \in Kind /\ "valuation" \in Kind
  BY DEF SyncTypeOK, Kind
<1>2. r \in Rev /\ r # 0
  BY <1>1, SyncAssumption DEF Revalue, Rev
<1>3. committed' = [committed EXCEPT ![a]["valuation"] = r]
  BY DEF Revalue
<1>4. UNCHANGED <<principal, checks, followed, syncing, syncs, disordered>>
  BY DEF Revalue
<1> HIDE DEF r
<1>5. /\ committed' \in [Account -> [Kind -> Rev]]
      /\ committed'[a]["valuation"] = r /\ committed'[a]["documents"] = committed[a]["documents"]
      /\ \A b \in Account : b # a => committed'[b] = committed[b]
  BY <1>1, <1>2, <1>3
<1>6. Route(a, "valuation", r)
  BY <1>5 DEF Revalue
<1>7. SyncTypeOK'
  BY <1>1, <1>2, <1>5, <1>6, RouteTypes DEF SyncTypeOK, Revalue
<1>8. Tells(a, "valuation", r)
  BY <1>2, <1>5 DEF Tells, Revalue
<1> QED
  BY <1>1, <1>2, <1>4, <1>6, <1>7, <1>8, EventKeeps

LEMMA SendDelayedKeeps ==
  ASSUME SyncTypeOK, Current, NEW a \in Account, SendDelayed(a)
  PROVE  SyncTypeOK' /\ Current'
<1> DEFINE r == delayed[a]
           view == With(a, "valuation", r)
<1>1. /\ r \in Rev /\ r # 0 /\ "documents" \in Kind /\ "valuation" \in Kind /\ followed \subseteq Account
      /\ delayed \in [Account -> Rev] /\ shown \in [Account -> [Kind -> Rev]]
  BY DEF SyncTypeOK, SendDelayed, Kind
<1>2. /\ view \in [Account -> [Kind -> Rev]] /\ view[a]["valuation"] = r
      /\ \A b \in Account, m \in Kind : b # a \/ m # "valuation" => view[b][m] = shown[b][m]
  BY <1>1, WithType
<1>3. delayed' = [delayed EXCEPT ![a] = 0] /\ shown' = IF Open THEN view ELSE shown
  BY DEF SendDelayed, Delayed, Show
<1> HIDE DEF view
<1>4. SyncTypeOK'
  BY <1>1, <1>2, <1>3, NewSyncIsSync DEF SyncTypeOK, SendDelayed
<1>5. delayed'[a] = 0 /\ \A b \in Account : b # a => delayed'[b] = delayed[b]
  BY <1>1, <1>3
<1>6. \A b : ReadFor(b)' = ReadFor(b)
  BY DEF ReadFor, Reading, SendDelayed
<1>7. BufferedIsAwaited' /\ LastBufferedIsLast'
  BY DEF Current, BufferedIsAwaited, LastBufferedIsLast, Open, SendDelayed
<1>8. MarkedIsRead'
  BY <1>6 DEF Current, MarkedIsRead, Open, SendDelayed
<1>9. FollowedIsGranted' /\ NewIsUntouched'
  BY <1>5 DEF Current, FollowedIsGranted, NewIsUntouched, Open, SendDelayed
<1>10. FollowedIsCurrent'
  <2> SUFFICES ASSUME NEW b \in followed, Open, b \notin disordered PROVE ReadIsCurrent(b)' /\ ViewIsCurrent(b)'
    BY DEF FollowedIsCurrent, Open, SendDelayed
  <2>1. ReadIsCurrent(b) /\ ViewIsCurrent(b) /\ b \in Account
    BY <1>1 DEF Current, FollowedIsCurrent
  <2>2. announced' = announced /\ committed' = committed /\ syncs' = syncs /\ buffer' = buffer /\ syncing' = syncing
    BY DEF SendDelayed
  <2>3. shown' = view
    BY <1>3
  <2>4. ReadIsCurrent(b)'
    BY <1>5, <1>6, <2>1, <2>2 DEF ReadIsCurrent
  <2>5. shown'[b]["documents"] = shown[b]["documents"]
    BY <1>1, <1>2, <2>1, <2>3
  <2>6. CASE b = a
    <3>1. ReadFor(a) = {}
      BY <1>1, <2>1, <2>6 DEF ReadIsCurrent
    <3>2. committed[a]["valuation"] = r
      BY <1>1, <2>1, <2>6, <3>1 DEF ViewIsCurrent
    <3>3. ViewIsCurrent(b)'
      BY <1>2, <1>5, <1>6, <2>1, <2>2, <2>3, <2>5, <2>6, <3>1, <3>2 DEF ViewIsCurrent
    <3> QED
      BY <2>4, <3>3
  <2>7. CASE b # a
    <3>1. shown'[b]["valuation"] = shown[b]["valuation"] /\ delayed'[b] = delayed[b]
      BY <1>1, <1>2, <1>5, <2>1, <2>3, <2>7
    <3>2. ViewIsCurrent(b)'
      BY <1>6, <2>1, <2>2, <2>5, <3>1 DEF ViewIsCurrent
    <3> QED
      BY <2>4, <3>2
  <2> QED
    BY <2>6, <2>7
<1> QED
  BY <1>4, <1>7, <1>8, <1>9, <1>10 DEF Current

(* A snapshot is read in two parts.                                        *)
LEMMA ReadKeeps ==
  ASSUME SyncTypeOK, Current, NEW i \in SyncId, NEW k \in Kind, NEW step \in {"valuation", "answer"},
         \/ k = "documents" /\ step = "valuation" /\ syncs[i].step = "documents"
         \/ k = "valuation" /\ step = "answer" /\ syncs[i].step = "valuation",
         syncs' = [syncs EXCEPT ![i].step = step, ![i].snapshot = ReadOf(i, k)],
         UNCHANGED <<link, eligible, principal, checks, followed, syncing, buffer, delayed, committed,
                     announced, shown, disordered, grantChanges>>
  PROVE  SyncTypeOK' /\ Current'
<1>1. /\ syncs' \in [SyncId -> Sync]
      /\ syncs'[i].step = step /\ syncs'[i].accounts = syncs[i].accounts
      /\ \A a \in Account : /\ syncs'[i].snapshot[a][k] = committed[a][k]
                            /\ \A m \in Kind : m # k => syncs'[i].snapshot[a][m] = syncs[i].snapshot[a][m]
      /\ \A j \in SyncId : j # i => syncs'[j] = syncs[j]
  BY ReadTypes
<1>2. SyncTypeOK'
  BY <1>1 DEF SyncTypeOK
<1>3. ASSUME NEW a PROVE ReadFor(a)' = ReadFor(a)
  <2>1. Reading(i) /\ Reading(i)'
    BY <1>1 DEF Reading
  <2>2. \A j \in SyncId : (Reading(j)' <=> Reading(j)) /\ syncs'[j].accounts = syncs[j].accounts
    BY <1>1, <2>1 DEF Reading
  <2>3. ReadFor(a)' = {j \in SyncId : Reading(j)' /\ a \in syncs'[j].accounts}
    BY DEF ReadFor
  <2> QED
    BY <2>2, <2>3 DEF ReadFor
<1>4. BufferedIsAwaited' /\ FollowedIsGranted'
  BY DEF Current, BufferedIsAwaited, FollowedIsGranted, Open
<1>5. MarkedIsRead'
  BY <1>3 DEF Current, MarkedIsRead, Open
<1>6. NewIsUntouched'
  BY DEF Current, NewIsUntouched
<1>7. LastBufferedIsLast'
  BY DEF Current, LastBufferedIsLast, Open
<1>8. FollowedIsCurrent'
  <2> SUFFICES ASSUME NEW a \in followed, Open, a \notin disordered PROVE ReadIsCurrent(a)' /\ ViewIsCurrent(a)'
    BY DEF FollowedIsCurrent, Open
  <2>1. ReadIsCurrent(a) /\ ViewIsCurrent(a) /\ a \in Account
        /\ Latest(buffer, a, "documents", announced[a]) = announced[a]
        /\ Latest(buffer, a, "valuation", committed[a]["valuation"]) = committed[a]["valuation"]
    BY DEF Current, FollowedIsCurrent, LastBufferedIsLast, SyncTypeOK
  <2>2. /\ buffer \in Seq(ItemOf) /\ announced[a] \in Rev /\ committed[a]["documents"] \in Rev
        /\ committed[a]["valuation"] \in Rev /\ "documents" \in Kind /\ "valuation" \in Kind
    BY <2>1 DEF SyncTypeOK, Kind
  <2>3. ViewIsCurrent(a)'
    BY <1>3, <2>1 DEF ViewIsCurrent
  <2>4. ASSUME NEW j \in ReadFor(a)
        PROVE  /\ syncs'[j].step # "documents" =>
                    Latest(buffer, a, "documents", syncs'[j].snapshot[a]["documents"])
                      \in {announced[a], committed[a]["documents"]}
               /\ syncs'[j].step = "answer" =>
                    Latest(buffer, a, "valuation", syncs'[j].snapshot[a]["valuation"]) = committed[a]["valuation"]
    <3>1. j \in SyncId
      BY DEF ReadFor
    <3>2. CASE j # i
      BY <3>1, <3>2, <1>1, <2>1 DEF ReadIsCurrent
    <3>3. CASE j = i /\ k = "documents"
      <4>1. Latest(buffer, a, "documents", committed[a]["documents"]) \in {announced[a], committed[a]["documents"]}
        BY <2>1, <2>2, LatestDecides
      <4> QED
        BY <3>3, <4>1, <1>1, <2>1
    <3>4. CASE j = i /\ k = "valuation"
      <4>1. syncs'[i].snapshot[a]["documents"] = syncs[i].snapshot[a]["documents"]
            /\ syncs'[i].snapshot[a]["valuation"] = committed[a]["valuation"]
        BY <1>1, <2>1, <2>2, <3>4
      <4> QED
        BY <3>4, <4>1, <2>1 DEF ReadIsCurrent
    <3> QED
      BY <3>2, <3>3, <3>4
  <2>5. ReadIsCurrent(a)'
    BY <1>3, <2>1, <2>4 DEF ReadIsCurrent
  <2> QED
    BY <2>3, <2>5
<1> QED
  BY <1>2, <1>4, <1>5, <1>6, <1>7, <1>8 DEF Current

LEMMA ReadsKeep ==
  ASSUME SyncTypeOK, Current, NEW i \in SyncId, ReadDocuments(i) \/ ReadValuation(i)
  PROVE  SyncTypeOK' /\ Current'
<1>1. "documents" \in Kind /\ "valuation" \in Kind
  BY DEF Kind
<1>2. CASE ReadDocuments(i)
  <2>1. syncs' = [syncs EXCEPT ![i].step = "valuation", ![i].snapshot = ReadOf(i, "documents")]
    BY <1>2 DEF ReadDocuments, ReadOf, SyncTypeOK
  <2> QED
    BY <1>1, <1>2, <2>1, ReadKeeps DEF ReadDocuments
<1>3. CASE ReadValuation(i)
  <2>1. syncs' = [syncs EXCEPT ![i].step = "answer", ![i].snapshot = ReadOf(i, "valuation")]
    BY <1>3 DEF ReadValuation, ReadOf, SyncTypeOK
  <2> QED
    BY <1>1, <1>3, <2>1, ReadKeeps DEF ReadValuation
<1> QED
  BY <1>2, <1>3

LEMMA SendSnapshotKeeps ==
  ASSUME SyncTypeOK, Current, NEW i \in SyncId, SendSnapshot(i)
  PROVE  SyncTypeOK' /\ Current'
<1> DEFINE ids == syncs[i].accounts
           first == Snapshotted(shown, i)
           view == Flushed(first, ids)
<1>1. syncs[i].step = "answer" /\ EndSync(i) /\ Reading(i) /\ shown' = IF Open THEN view ELSE shown
  BY DEF SendSnapshot, Reading, Show
<1>2. UNCHANGED <<link, eligible, principal, checks, followed, delayed, committed, announced, disordered, grantChanges>>
  BY DEF SendSnapshot
<1>3. shown \in [Account -> [Kind -> Rev]] /\ followed \subseteq Account
  BY DEF SyncTypeOK
<1>4. first \in [Account -> [Kind -> Rev]]
  BY <1>3, SnapshottedType
<1>5. view \in [Account -> [Kind -> Rev]]
  <2> HIDE DEF first
  <2> QED
    BY <1>4, FlushedType
<1>6. \A a \in Account : IF a \in ids THEN first[a] = syncs[i].snapshot[a] ELSE first[a] = shown[a]
  BY DEF Snapshotted
<1>7. \A a \in Account : IF a \in ids /\ a \in followed
                         THEN \A k \in Kind : view[a][k] = Latest(buffer, a, k, first[a][k])
                         ELSE view[a] = first[a]
  <2> HIDE DEF first
  <2> QED
    BY DEF Flushed
<1> HIDE DEF view, first
<1>8. SyncTypeOK'
  <2>1. shown' \in [Account -> [Kind -> Rev]]
    BY <1>1, <1>3, <1>5
  <2> QED
    BY <1>1, <1>2, <2>1, EndSyncTypes DEF SyncTypeOK
<1>9. \A a \in Account : a \notin ids => shown'[a] = shown[a] /\ (a \in disordered => a \in disordered')
  BY <1>1, <1>2, <1>6, <1>7
<1>10. \A a \in followed : Open' /\ a \in ids /\ a \notin disordered' =>
         /\ syncs[i].step = "answer" /\ a \notin disordered
         /\ \A k \in Kind : shown'[a][k] = Latest(buffer, a, k, syncs[i].snapshot[a][k])
  <2>1. Open' => Open /\ shown' = view
    BY <1>1, <1>2 DEF Open
  <2> QED
    BY <1>1, <1>2, <1>3, <1>6, <1>7, <2>1
<1> QED
  BY <1>1, <1>2, <1>8, <1>9, <1>10, EndKeeps

LEMMA SyncFailsKeeps ==
  ASSUME SyncTypeOK, Current, NEW i \in SyncId, SyncFails(i)
  PROVE  SyncTypeOK' /\ Current'
<1> DEFINE ids == syncs[i].accounts
           view == Flushed(shown, ids)
<1>1. EndSync(i) /\ Reading(i) /\ link' \in {link, "closed"} /\ shown' = (IF Open THEN view ELSE shown)
      /\ disordered' = disordered \cup ids
  BY DEF SyncFails, Reading, Show
<1>2. UNCHANGED <<eligible, principal, checks, followed, delayed, committed, announced, grantChanges>>
  BY DEF SyncFails
<1>3. shown \in [Account -> [Kind -> Rev]] /\ followed \subseteq Account /\ ids \subseteq Account
  BY SyncFields DEF SyncTypeOK
<1>4. view \in [Account -> [Kind -> Rev]]
  BY <1>3, FlushedType
<1>5. \A a \in Account : a \notin ids => view[a] = shown[a]
  BY DEF Flushed
<1> HIDE DEF view
<1>6. SyncTypeOK'
  <2>1. shown' \in [Account -> [Kind -> Rev]] /\ disordered' \in SUBSET Account /\ link' \in {"new", "open", "closed"}
    BY <1>1, <1>3, <1>4 DEF SyncTypeOK
  <2> QED
    BY <1>1, <1>2, <2>1, EndSyncTypes DEF SyncTypeOK
<1>7. \A a \in Account : a \notin ids => shown'[a] = shown[a] /\ (a \in disordered => a \in disordered')
  BY <1>1, <1>5
<1>8. \A a \in followed : Open' /\ a \in ids /\ a \notin disordered' =>
         /\ syncs[i].step = "answer" /\ a \notin disordered
         /\ \A k \in Kind : shown'[a][k] = Latest(buffer, a, k, syncs[i].snapshot[a][k])
  BY <1>1
<1> QED
  BY <1>1, <1>2, <1>6, <1>7, <1>8, EndKeeps

LEMMA NothingDropped ==
  ASSUME SyncTypeOK, buffer' = buffer
  PROVE  Left(buffer', buffer, {})
<1>1. buffer \in Seq(ItemOf) /\ Len(buffer) \in Nat
  BY LenProperties DEF SyncTypeOK
<1> QED
  BY <1>1 DEF Left

(* The trader asks for a snapshot, or for more accounts.                   *)
LEMMA RequestKeepsSync ==
  ASSUME SyncTypeOK, Current, NEW i \in SyncId, NEW ids \in SUBSET Account,
         RequestSnapshot(i, ids) \/ Subscribe(i, ids)
  PROVE  SyncTypeOK' /\ Current'
<1>1. Open /\ syncs[i].step = "new" /\ ids \subseteq principal
  BY DEF RequestSnapshot, Subscribe, Accepts
<1>2. PICK more \in SUBSET Account : /\ StartSync(i, more) /\ syncing' = syncing \cup more
                                     /\ followed' = followed \cup more /\ followed' \subseteq principal
  <2>1. followed \subseteq principal /\ followed \subseteq Account
    BY DEF Current, FollowedIsGranted, SyncTypeOK
  <2>2. CASE RequestSnapshot(i, ids)
    <3>1. ids \cap followed \in SUBSET Account /\ followed = followed \cup (ids \cap followed)
      OBVIOUS
    <3> QED
      BY <2>1, <2>2, <3>1 DEF RequestSnapshot
  <2>3. CASE Subscribe(i, ids)
    BY <1>1, <2>1, <2>3 DEF Subscribe
  <2> QED
    BY <2>2, <2>3
<1>3. UNCHANGED <<link, eligible, principal, checks, buffer, delayed, committed, announced, shown, grantChanges>>
  BY DEF RequestSnapshot, Subscribe
<1>4. SyncTypeOK'
  BY <1>2, <1>3, StartSyncTypes DEF SyncTypeOK
<1>5. ReadsGrowBy(more)
  BY <1>1, <1>2, StartGrows
<1>6. Left(buffer', buffer, {})
  BY <1>3, NothingDropped
<1> DEFINE d == {}
<1>7. d \in SUBSET Account /\ Left(buffer', buffer, d) /\ followed' = (followed \ d) \cup more /\ more \cap d = {}
      /\ syncing' = (syncing \ d) \cup more /\ followed' \subseteq principal'
      /\ \A a \in Account : IF a \in d THEN delayed'[a] = 0 ELSE delayed'[a] = delayed[a] /\ shown'[a] = shown[a]
  BY <1>2, <1>3, <1>6
<1> HIDE DEF d
<1> QED
  BY <1>1, <1>3, <1>4, <1>5, <1>7, RegroupKeeps

LEMMA UnsubscribeKeeps ==
  ASSUME SyncTypeOK, Current, NEW ids \in SUBSET Account, Unsubscribe(ids)
  PROVE  SyncTypeOK' /\ Current'
<1>1. /\ Open /\ followed' = followed \ ids /\ syncing' = syncing \ ids /\ buffer' = Without(buffer, ids)
      /\ delayed' = DropDelayed(ids) /\ shown' = Hidden(ids)
      /\ UNCHANGED <<link, eligible, principal, checks, syncs, committed, announced, disordered, grantChanges>>
  BY DEF Unsubscribe, DropBuffered
<1>2. SyncTypeOK'
  <2>1. /\ buffer' \in Seq(ItemOf) /\ Len(buffer') <= MaxSyncBuffer
        /\ delayed' \in [Account -> Rev] /\ shown' \in [Account -> [Kind -> Rev]]
    BY <1>1, WithoutType, DroppedTypes
  <2>2. followed' \in SUBSET Account /\ syncing' \in SUBSET Account
    BY <1>1 DEF SyncTypeOK
  <2> QED
    BY <1>1, <2>1, <2>2 DEF SyncTypeOK
<1>3. Left(buffer', buffer, ids)
  BY <1>1, WithoutType
<1>4. ReadsGrowBy({})
  BY <1>1, NothingGrows
<1>5. \A a \in Account : IF a \in ids THEN delayed'[a] = 0 ELSE delayed'[a] = delayed[a] /\ shown'[a] = shown[a]
  BY <1>1 DEF DropDelayed, Hidden
<1>6. followed' \subseteq principal'
  BY <1>1 DEF Current, FollowedIsGranted
<1> DEFINE none == {}
<1>7. none \in SUBSET Account /\ ReadsGrowBy(none) /\ followed' = (followed \ ids) \cup none /\ none \cap ids = {}
      /\ syncing' = (syncing \ ids) \cup none
  BY <1>1, <1>4
<1> HIDE DEF none
<1> QED
  BY <1>1, <1>2, <1>3, <1>5, <1>6, <1>7, RegroupKeeps

LEMMA ReconcileKeeps ==
  ASSUME SyncTypeOK, Current, NEW c \in CheckId, NEW i \in SyncId, Reconcile(c, i)
  PROVE  SyncTypeOK' /\ Current'
<1> DEFINE granted == checks[c].accounts
           added == granted \ followed
           removed == followed \ granted
<1>1. /\ checks[c].step = "resolved" /\ principal' = granted /\ followed' = granted
      /\ buffer' = Without(buffer, removed) /\ delayed' = DropDelayed(removed) /\ shown' = Hidden(removed)
      /\ UNCHANGED <<link, eligible, committed, announced, grantChanges>>
      /\ SetCheck(c, "done", {})
  BY DEF Reconcile, DropBuffered
<1>2. \/ added = {} /\ syncing' = syncing \ removed /\ UNCHANGED <<syncs, disordered>>
      \/ i \in FirstNew /\ StartSync(i, added) /\ syncing' = (syncing \ removed) \cup added
  BY DEF Reconcile
<1>3. checks[c] \in Check /\ granted \subseteq Account /\ checks \in [CheckId -> Check]
      /\ followed \subseteq Account /\ syncing \subseteq Account
  BY DEF SyncTypeOK, Check
<1>4. ReadsGrowBy(added) /\ syncing' = (syncing \ removed) \cup added
      /\ syncs' \in [SyncId -> Sync] /\ disordered' \in SUBSET Account
  <2>1. CASE added = {} /\ syncing' = syncing \ removed /\ UNCHANGED <<syncs, disordered>>
    <3>1. ReadsGrowBy({})
      BY <2>1, NothingGrows
    <3> HIDE DEF added
    <3> QED
      BY <2>1, <3>1 DEF SyncTypeOK
  <2>2. CASE i \in FirstNew /\ StartSync(i, added) /\ syncing' = (syncing \ removed) \cup added
    <3>1. added \in SUBSET Account /\ syncs[i].step = "new"
      BY <1>3, <2>2 DEF FirstNew
    <3> HIDE DEF added
    <3> QED
      BY <2>2, <3>1, StartGrows, StartSyncTypes
  <2> QED
    BY <1>2, <2>1, <2>2
<1>5. checks' \in [CheckId -> Check]
  BY <1>1, <1>3 DEF SetCheck, Check
<1>6. SyncTypeOK'
  <2>1. /\ buffer' \in Seq(ItemOf) /\ Len(buffer') <= MaxSyncBuffer
        /\ delayed' \in [Account -> Rev] /\ shown' \in [Account -> [Kind -> Rev]]
    <3> HIDE DEF removed
    <3> QED
      BY <1>1, WithoutType, DroppedTypes
  <2>2. followed' \in SUBSET Account /\ principal' \in SUBSET Account /\ syncing' \in SUBSET Account
    BY <1>1, <1>3, <1>4
  <2> QED
    BY <1>1, <1>4, <1>5, <2>1, <2>2 DEF SyncTypeOK
<1>7. CASE Open
  <2>1. Left(buffer', buffer, removed)
    <3> HIDE DEF removed
    <3> QED
      BY <1>1, WithoutType
  <2>2. \A a \in Account : IF a \in removed THEN delayed'[a] = 0 ELSE delayed'[a] = delayed[a] /\ shown'[a] = shown[a]
    <3> HIDE DEF removed
    <3> QED
      BY <1>1 DEF DropDelayed, Hidden
  <2>3. followed' = (followed \ removed) \cup added /\ added \cap removed = {} /\ followed' \subseteq principal'
        /\ added \in SUBSET Account /\ removed \in SUBSET Account
    BY <1>1, <1>3
  <2> HIDE DEF added, removed
  <2> QED
    BY <1>1, <1>4, <1>6, <1>7, <2>1, <2>2, <2>3, RegroupKeeps
<1>8. CASE ~Open
  <2>1. link # "new" /\ ~Open'
    BY <1>1, <1>8 DEF Current, NewIsUntouched, Open
  <2>2. BufferedIsAwaited'
    <3>1. Left(buffer', buffer, removed)
      <4> HIDE DEF removed
      <4> QED
        BY <1>1, WithoutType
    <3> SUFFICES ASSUME NEW n \in 1 .. Len(buffer') PROVE buffer'[n].account \in followed' /\ buffer'[n].account \in syncing'
      BY DEF BufferedIsAwaited
    <3>2. PICK m \in 1 .. Len(buffer) : buffer'[n] = buffer[m]
      BY <3>1 DEF Left
    <3>3. buffer'[n].account \notin removed
      BY <3>1 DEF Left
    <3>4. buffer[m].account \in followed /\ buffer[m].account \in syncing
      BY <3>2 DEF Current, BufferedIsAwaited
    <3> QED
      BY <1>1, <1>4, <3>2, <3>3, <3>4
  <2>3. MarkedIsRead' /\ FollowedIsGranted' /\ NewIsUntouched' /\ LastBufferedIsLast' /\ FollowedIsCurrent'
    BY <1>1, <2>1 DEF MarkedIsRead, FollowedIsGranted, NewIsUntouched, LastBufferedIsLast, FollowedIsCurrent
  <2> QED
    BY <1>6, <2>2, <2>3 DEF Current
<1> QED
  BY <1>6, <1>7, <1>8

LEMMA ConnectKeeps ==
  ASSUME SyncTypeOK, Current, Connect
  PROVE  SyncTypeOK' /\ Current'
<1> DEFINE step == IF eligible = {} THEN "done" ELSE "documents"
           b == [NewSync EXCEPT !.step = step, !.reason = "initial", !.accounts = eligible]
<1>1. /\ buffer = <<>> /\ disordered = {} /\ (\A i \in SyncId : syncs[i].step = "new")
      /\ \A a \in Account : delayed[a] = 0
  BY DEF Current, NewIsUntouched, Connect
<1>2. /\ link' = "open" /\ principal' = eligible /\ followed' = eligible /\ syncing' = eligible
      /\ syncs' = [syncs EXCEPT ![1] = b] /\ syncs \in [SyncId -> Sync] /\ eligible \in SUBSET Account
      /\ UNCHANGED <<eligible, checks, buffer, delayed, committed, announced, shown, disordered, grantChanges>>
  BY DEF Connect, SyncTypeOK
<1>3. b \in Sync /\ b.step = step /\ b.accounts = eligible /\ step \in {"done", "documents"}
      /\ (eligible # {} => step = "documents")
  <2>1. step \in {"done", "documents"} /\ (eligible # {} => step = "documents")
    OBVIOUS
  <2> HIDE DEF step
  <2> DEFINE x == [NewSync EXCEPT !.step = step]
             y == [x EXCEPT !.reason = "initial"]
             z == [step |-> step, reason |-> "initial", accounts |-> eligible, snapshot |-> Unseen]
  <2>2. x = [step |-> step, reason |-> "later", accounts |-> {}, snapshot |-> Unseen]
    BY DEF NewSync
  <2>3. y = [step |-> step, reason |-> "initial", accounts |-> {}, snapshot |-> Unseen]
    <3> HIDE DEF x
    <3> QED
      BY <2>2
  <2>4. b = [y EXCEPT !.accounts = eligible]
    BY DEF NewSync
  <2>5. b = z
    <3> HIDE DEF b, y
    <3> QED
      BY <2>3, <2>4
  <2>6. z \in Sync
    <3>1. step \in {"new", "documents", "valuation", "answer", "done"}
      BY <2>1
    <3> QED
      BY <1>2, <3>1, NewSyncIsSync, SyncMake
  <2> HIDE DEF b
  <2> QED
    BY <2>1, <2>5, <2>6
<1> HIDE DEF b, step
<1>4. syncs' \in [SyncId -> Sync] /\ syncs'[1] = b /\ 1 \in SyncId /\ \A j \in SyncId : j # 1 => syncs'[j] = syncs[j]
  BY <1>2, <1>3, NewSyncIsSync
<1>5. SyncTypeOK'
  BY <1>2, <1>4 DEF SyncTypeOK
<1>6. ASSUME NEW a \in eligible PROVE ReadFor(a)' = {1} /\ syncs'[1].step = "documents"
  <2>1. syncs'[1].step = "documents" /\ a \in syncs'[1].accounts
    BY <1>3, <1>4
  <2>2. \A j \in SyncId : j \in ReadFor(a)' <=> j = 1
    BY <1>1, <1>4, <2>1 DEF ReadFor, Reading
  <2>3. ReadFor(a)' \subseteq SyncId
    BY DEF ReadFor
  <2> QED
    BY <1>4, <2>1, <2>2, <2>3
<1>7. Len(<<>>) = 0
  BY EmptySeq
<1>8. BufferedIsAwaited' /\ MarkedIsRead' /\ FollowedIsGranted' /\ NewIsUntouched'
  <2>1. BufferedIsAwaited'
    BY <1>1, <1>2, <1>7 DEF BufferedIsAwaited
  <2>2. MarkedIsRead'
    BY <1>2, <1>6 DEF MarkedIsRead
  <2>3. FollowedIsGranted' /\ NewIsUntouched'
    BY <1>1, <1>2 DEF FollowedIsGranted, NewIsUntouched
  <2> QED
    BY <2>1, <2>2, <2>3
<1>9. LastBufferedIsLast'
  <2> SUFFICES ASSUME NEW a \in eligible
               PROVE  /\ Latest(<<>>, a, "documents", announced[a]) = announced[a]
                      /\ Latest(<<>>, a, "valuation", committed[a]["valuation"]) = committed[a]["valuation"]
    BY <1>1, <1>2 DEF LastBufferedIsLast
  <2>1. announced[a] \in Rev /\ committed[a]["valuation"] \in Rev
    BY <1>2 DEF SyncTypeOK, Kind
  <2> QED
    BY <2>1, LatestOfNone
<1>10. FollowedIsCurrent'
  <2> SUFFICES ASSUME NEW a \in eligible PROVE ReadIsCurrent(a)' /\ ViewIsCurrent(a)'
    BY <1>2 DEF FollowedIsCurrent
  <2> QED
    BY <1>1, <1>2, <1>6 DEF ReadIsCurrent, ViewIsCurrent
<1> QED
  BY <1>5, <1>8, <1>9, <1>10 DEF Current

LEMMA HangupKeeps ==
  ASSUME SyncTypeOK, Current, Hangup
  PROVE  SyncTypeOK' /\ Current'
<1>1. /\ ~Open' /\ link' = "closed"
      /\ UNCHANGED <<eligible, principal, checks, followed, syncing, buffer, syncs, committed, announced, shown,
                     disordered, grantChanges>>
  BY DEF Hangup, Open
<1>2. delayed' \in [Account -> Rev]
  BY NewSyncIsSync DEF Hangup
<1>3. SyncTypeOK'
  BY <1>1, <1>2 DEF SyncTypeOK
<1>4. Current'
  BY <1>1 DEF Current, BufferedIsAwaited, MarkedIsRead, FollowedIsGranted, NewIsUntouched, LastBufferedIsLast, FollowedIsCurrent
<1> QED
  BY <1>3, <1>4

(* What the heartbeat asks changes nothing of the trading state.           *)
LEMMA ChecksKeep ==
  ASSUME SyncTypeOK, Current, NEW c \in CheckId, StartCheck(c) \/ ResolveGrants(c) \/ CheckRefused(c)
  PROVE  SyncTypeOK' /\ Current'
<1>1. PICK step \in {"asked", "resolved", "done"}, ids \in SUBSET Account : SetCheck(c, step, ids)
  <2>1. eligible \in SUBSET Account /\ {} \in SUBSET Account
    BY DEF SyncTypeOK
  <2> QED
    BY <2>1 DEF StartCheck, ResolveGrants, CheckRefused
<1>2. checks' \in [CheckId -> Check]
  BY <1>1 DEF SetCheck, SyncTypeOK, Check
<1>3. link # "new"
  BY DEF StartCheck, ResolveGrants, CheckRefused, Current, NewIsUntouched, Open
<1>4. /\ UNCHANGED <<eligible, principal, followed, grantChanges>>
      /\ UNCHANGED <<syncing, buffer, syncs, delayed, committed, announced, shown, disordered>>
      /\ link' = link \/ link' = "closed"
  BY DEF StartCheck, ResolveGrants, CheckRefused, KeepTrading
<1>5. SyncTypeOK'
  BY <1>2, <1>4 DEF SyncTypeOK
<1>6. CASE link' = link
  BY <1>3, <1>4, <1>5, <1>6, TradingStays
<1>7. CASE link' = "closed"
  BY <1>4, <1>5, <1>7 DEF Current, BufferedIsAwaited, MarkedIsRead, FollowedIsGranted, NewIsUntouched,
                          LastBufferedIsLast, FollowedIsCurrent, Open
<1> QED
  BY <1>4, <1>5, <1>6, <1>7

LEMMA ChangeGrantsKeeps ==
  ASSUME SyncTypeOK, Current, NEW ids \in SUBSET Account, ChangeGrants(ids)
  PROVE  SyncTypeOK' /\ Current'
<1>1. SyncTypeOK'
  BY SyncAssumption DEF SyncTypeOK, ChangeGrants
<1>2. Current'
  BY TradingStays DEF ChangeGrants, Current, NewIsUntouched
<1> QED
  BY <1>1, <1>2

LEMMA SyncInitHolds ==
  ASSUME SyncInit
  PROVE  SyncTypeOK /\ Current
<1>1. SyncTypeOK
  <2>1. 0 \in Rev /\ 1 \in Rev /\ NewSync \in Sync /\ Unseen \in [Account -> [Kind -> Rev]]
    BY NewSyncIsSync
  <2>2. <<>> \in Seq(ItemOf) /\ Len(<<>>) = 0
    BY EmptySeq
  <2>3. [step |-> "new", accounts |-> {}] \in Check
    BY DEF Check
  <2>4. committed \in [Account -> [Kind -> Rev]] /\ announced \in [Account -> Rev] /\ delayed \in [Account -> Rev]
    BY <2>1 DEF SyncInit
  <2>5. syncs \in [SyncId -> Sync] /\ checks \in [CheckId -> Check]
    <3> HIDE DEF NewSync
    <3> QED
      BY <2>1, <2>3 DEF SyncInit
  <2> QED
    BY <2>1, <2>2, <2>4, <2>5, SyncAssumption DEF SyncInit, SyncTypeOK
<1>2. Len(<<>>) = 0
  BY EmptySeq
<1>3. BufferedIsAwaited /\ MarkedIsRead /\ LastBufferedIsLast /\ FollowedIsCurrent
  BY <1>2 DEF SyncInit, BufferedIsAwaited, MarkedIsRead, LastBufferedIsLast, FollowedIsCurrent, Open
<1>4. FollowedIsGranted
  BY DEF SyncInit, FollowedIsGranted, Open
<1>5. NewIsUntouched
  BY DEF SyncInit, NewIsUntouched, NewSync
<1> QED
  BY <1>1, <1>3, <1>4, <1>5 DEF Current

(* The socket of a trader, whatever is announced, asked for, granted and   *)
(* revoked while snapshots are read: the inductive invariant.              *)
THEOREM SyncInvariant == SyncSpec => []SyncInv
<1>1. SyncInit => SyncInv
  BY SyncInitHolds, SyncInvIs
<1>2. SyncInv /\ [SyncNext]_syncVars => SyncInv'
  <2> SUFFICES ASSUME SyncInv, [SyncNext]_syncVars PROVE SyncTypeOK' /\ Current'
    BY SyncInvIsNext
  <2>1. SyncTypeOK /\ Current
    BY SyncInvIs
  <2>2. ASSUME NEW a \in Account, CommitDocuments(a) \/ AnnounceDocuments(a) \/ Revalue(a) \/ SendDelayed(a)
        PROVE  SyncTypeOK' /\ Current'
    BY <2>1, <2>2, CommitDocumentsKeeps, AnnounceDocumentsKeeps, RevalueKeeps, SendDelayedKeeps
  <2>3. ASSUME NEW i \in SyncId, ReadDocuments(i) \/ ReadValuation(i) \/ SendSnapshot(i) \/ SyncFails(i)
        PROVE  SyncTypeOK' /\ Current'
    BY <2>1, <2>3, ReadsKeep, SendSnapshotKeeps, SyncFailsKeeps
  <2>4. ASSUME NEW i \in FirstNew, NEW ids \in SUBSET Account, RequestSnapshot(i, ids) \/ Subscribe(i, ids)
        PROVE  SyncTypeOK' /\ Current'
    <3>1. i \in SyncId
      BY DEF FirstNew
    <3> QED
      BY <2>1, <2>4, <3>1, RequestKeepsSync
  <2>5. ASSUME NEW ids \in SUBSET Account, Unsubscribe(ids) \/ ChangeGrants(ids)
        PROVE  SyncTypeOK' /\ Current'
    BY <2>1, <2>5, UnsubscribeKeeps, ChangeGrantsKeeps
  <2>6. CASE Connect \/ Hangup
    BY <2>1, <2>6, ConnectKeeps, HangupKeeps
  <2>7. ASSUME NEW c \in CheckId, StartCheck(c) \/ ResolveGrants(c) \/ CheckRefused(c)
        PROVE  SyncTypeOK' /\ Current'
    BY <2>1, <2>7, ChecksKeep
  <2>8. ASSUME NEW c \in CheckId, NEW i \in SyncId, Reconcile(c, i)
        PROVE  SyncTypeOK' /\ Current'
    BY <2>1, <2>8, ReconcileKeeps
  <2>9. CASE UNCHANGED syncVars
    <3>1. SyncTypeOK'
      BY <2>1, <2>9 DEF SyncTypeOK, syncVars
    <3>2. Current'
      BY <2>1, <2>9, TradingStays DEF syncVars, Current, NewIsUntouched
    <3> QED
      BY <3>1, <3>2
  <2> QED
    BY <2>2, <2>3, <2>4, <2>5, <2>6, <2>7, <2>8, <2>9 DEF SyncNext
<1> QED
  BY <1>1, <1>2, PTL DEF SyncSpec

(* What is buffered and delayed is for accounts that are granted and will  *)
(* be released, and at rest the trader sees what is stored.                *)
THEOREM SyncIsSoundTheorem == SyncSpec => []SyncIsSound
<1>1. SyncInv => SyncIsSound
  BY DEF SyncInv
<1> QED
  BY <1>1, SyncInvariant, PTL
=============================================================================
