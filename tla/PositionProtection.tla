--------------------------- MODULE PositionProtection ---------------------------
(***************************************************************************)
(* Stop loss, take profit and trailing stop of the open positions of one   *)
(* account on one symbol: PositionProtectionService, TrailingStopService   *)
(* and their planners, ProtectionTriggerEngine and TrailingStopEngine.     *)
(*                                                                         *)
(* As in PendingOrders, a queued transaction is one step, and holds the    *)
(* queue until its events are emitted (announced # {}).  The queue is free *)
(* to serve its commands in any order here.  Prices are in points, without *)
(* a spread, and 0 stands for null.  The prices of a sold position are     *)
(* counted downwards, so that more is better for it too.  A command that   *)
(* the account's funds or limits refuse does nothing and is left out; a    *)
(* reversal is a close and an opening.                                     *)
(***************************************************************************)
EXTENDS Naturals

CONSTANTS
  Position,
  Side,                  \* what market orders open: "BUY", "SELL"
  MaxPrice,              \* bids and stops are 1 .. MaxPrice
  Target,                \* take profits
  Distance,              \* distancePoints of a trailing stop
  ProtectionFaults,      \* what may go wrong: "crash", "failure", "unknown"
  MaxProtectionFaults    \* bound

ASSUME ProtectionConstants ==
  /\ MaxPrice \in Nat \ {0} /\ Distance \in Nat \ {0} /\ MaxProtectionFaults \in Nat
  /\ Side \subseteq {"BUY", "SELL"}
  /\ Target \subseteq 1 .. MaxPrice

VARIABLES
  bid,           \* the bid in the quote store
  position,      \* the position documents
  engines,       \* "down" or "started"
  watched,       \* ProtectionTriggerEngine.positions: its copies
  trailed,       \* TrailingStopEngine.positions
  closing,       \* ProtectionTriggerEngine.inFlight: the price of the tick, and
                 \* whether the close has been committed
  advancing,     \* TrailingStopEngine.inFlight: the price of the tick
  announced,     \* the positions of the events that are to be emitted
  closes,        \* history: how often a position was closed
  changed,       \* history: positions the trader has changed since a close was
                 \* launched, or whose change the engine had not heard of
  silent,        \* history: positions whose last commit was reported as an error
  protectionFaults

protectionVars == <<bid, position, engines, watched, trailed, closing, advancing, announced,
                    closes, changed, silent, protectionFaults>>

Bid == 1 .. MaxPrice
Level == 0 .. MaxPrice
Null == 0

NoPosition == [status |-> "none", side |-> "BUY", entry |-> 1, stop |-> Null, take |-> Null,
               trailing |-> FALSE, best |-> Null]
NotWatched == [stop |-> Null, take |-> Null]
NoClose == [price |-> Null, committed |-> FALSE]

ProtectionTypeOK ==
  /\ bid \in Bid
  /\ position \in [Position -> [status : {"none", "OPEN", "CLOSED"}, side : {"BUY", "SELL"},
                                entry : Bid, stop : Level, take : Level,
                                trailing : BOOLEAN, best : Level]]
  /\ \A p \in Position : /\ position[p].trailing <=> position[p].best # Null
                         /\ position[p].trailing => position[p].stop # Null
  /\ engines \in {"down", "started"}
  /\ watched \in [Position -> [stop : Level, take : Level]]
  /\ trailed \subseteq Position
  /\ closing \in [Position -> [price : Level, committed : BOOLEAN]]
  /\ advancing \in [Position -> Level]
  /\ announced \subseteq Position /\ changed \subseteq Position /\ silent \subseteq Position
  /\ closes \in [Position -> Nat]
  /\ protectionFaults \in 0 .. MaxProtectionFaults

ProtectionInit ==
  /\ bid \in Bid
  /\ position = [p \in Position |-> NoPosition]
  /\ engines = "started"
  /\ watched = [p \in Position |-> NotWatched] /\ trailed = {}
  /\ closing = [p \in Position |-> NoClose] /\ advancing = [p \in Position |-> Null]
  /\ announced = {} /\ changed = {} /\ silent = {}
  /\ closes = [p \in Position |-> 0]
  /\ protectionFaults = 0

ProtectionFault(kind) ==
  /\ kind \in ProtectionFaults
  /\ protectionFaults < MaxProtectionFaults
  /\ protectionFaults' = protectionFaults + 1

IsOpen(p) == position[p].status = "OPEN"
PriceFor(side, price) == IF side = "BUY" THEN price ELSE MaxPrice + 1 - price
PriceOf(p, price) == PriceFor(position[p].side, price)
Higher(x, y) == IF x >= y THEN x ELSE y

\* validateProtectionAgainstMarket().
ValidAgainst(price, stop, take) ==
  /\ stop = Null \/ stop < price
  /\ take = Null \/ take > price

\* detectProtectionTrigger(), on a copy or on the document.
Hit(o, price) == \/ o.stop # Null /\ price <= o.stop
                 \/ o.take # Null /\ price >= o.take

-----------------------------------------------------------------------------
(***************************************************************************)
(* Transactions of the account.                                            *)
(***************************************************************************)
QueueIsFree == engines = "started" /\ announced = {}

\* The commit is reported and events follow, or it is reported as an error.
Commits(ps) ==
  \/ announced' = ps /\ silent' = silent \ ps /\ UNCHANGED protectionFaults
  \/ ProtectionFault("unknown") /\ silent' = silent \cup ps /\ UNCHANGED announced

ByTrader(p) == changed' = changed \cup {p}

Opened(side, stop, take) ==
  [NoPosition EXCEPT !.status = "OPEN", !.side = side, !.entry = PriceFor(side, bid),
                     !.stop = stop, !.take = take]
\* The levels of a closed position are read by nobody.
Closed(p) == [NoPosition EXCEPT !.status = "CLOSED", !.side = position[p].side]

OpenPosition(p, side, stop, take) ==
  /\ QueueIsFree /\ position[p].status = "none"
  /\ ValidAgainst(PriceFor(side, bid), stop, take)
  /\ position' = [position EXCEPT ![p] = Opened(side, stop, take)]
  /\ Commits({p})
  /\ UNCHANGED <<bid, engines, watched, trailed, closing, advancing, closes, changed>>

ClosePosition(p) ==
  /\ QueueIsFree /\ IsOpen(p)
  /\ position' = [position EXCEPT ![p] = Closed(p)]
  /\ closes' = [closes EXCEPT ![p] = @ + 1]
  /\ Commits({p})
  /\ UNCHANGED <<bid, engines, watched, trailed, closing, advancing, changed>>

\* A stop that the trader sets ends the trailing stop.
WithStop(o, stop) == [o EXCEPT !.stop = stop, !.trailing = FALSE, !.best = Null]

\* updateProtection().  A stop that is not given is kept.
SetStop(p, stop) ==
  /\ QueueIsFree /\ IsOpen(p) /\ stop # position[p].stop
  /\ ValidAgainst(PriceOf(p, bid), stop, position[p].take)
  /\ position' = [position EXCEPT ![p] = WithStop(position[p], stop)]
  /\ ByTrader(p) /\ Commits({p})
  /\ UNCHANGED <<bid, engines, watched, trailed, closing, advancing, closes>>

SetTake(p, take) ==
  /\ QueueIsFree /\ IsOpen(p) /\ take # position[p].take
  /\ ValidAgainst(PriceOf(p, bid), position[p].stop, take)
  /\ position' = [position EXCEPT ![p].take = take]
  /\ ByTrader(p) /\ Commits({p})
  /\ UNCHANGED <<bid, engines, watched, trailed, closing, advancing, closes>>

\* moveStopToBreakEven().
BreakEven(p) ==
  /\ QueueIsFree /\ IsOpen(p)
  /\ PriceOf(p, bid) > position[p].entry /\ position[p].stop # position[p].entry
  /\ ValidAgainst(PriceOf(p, bid), position[p].entry, position[p].take)
  /\ position' = [position EXCEPT ![p] = WithStop(position[p], position[p].entry)]
  /\ ByTrader(p) /\ Commits({p})
  /\ UNCHANGED <<bid, engines, watched, trailed, closing, advancing, closes>>

\* Mutant: a stop behind the new distance is taken.
LooserStop(o, best) == best - Distance
\* tighterStop() of trailingStopFromBest().
TighterStop(o, best) == Higher(o.stop, best - Distance)

\* configure() with enabled: trailing starts over from the present bid.
EnableTrailing(p) ==
  /\ QueueIsFree /\ IsOpen(p)
  /\ LET o    == position[p]
         best == PriceOf(p, bid)
         next == [o EXCEPT !.stop = TighterStop(o, best), !.trailing = TRUE, !.best = best]
     IN  /\ best > Distance /\ next # o
         /\ ValidAgainst(best, next.stop, next.take)
         /\ position' = [position EXCEPT ![p] = next]
  /\ ByTrader(p) /\ Commits({p})
  /\ UNCHANGED <<bid, engines, watched, trailed, closing, advancing, closes>>

DisableTrailing(p) ==
  /\ QueueIsFree /\ IsOpen(p) /\ position[p].trailing
  /\ position' = [position EXCEPT ![p].trailing = FALSE, ![p].best = Null]
  /\ ByTrader(p) /\ Commits({p})
  /\ UNCHANGED <<bid, engines, watched, trailed, closing, advancing, closes>>

-----------------------------------------------------------------------------
(***************************************************************************)
(* The engines.  A tick launches a close for each copy that it hits and an *)
(* advance for each trailed position, unless one is in flight.             *)
(***************************************************************************)
Launches(p, price) == closing[p] = NoClose /\ Hit(watched[p], PriceOf(p, price))

ProtectionTick(price) ==
  /\ engines = "started"
  /\ bid' = price
  /\ closing' = [p \in Position |-> IF Launches(p, price)
                   THEN [price |-> price, committed |-> FALSE] ELSE closing[p]]
  /\ changed' = {p \in changed : Launches(p, price) => p \in announced \cup silent}
  /\ advancing' = [p \in Position |-> IF p \in trailed /\ advancing[p] = Null
                                        THEN price ELSE advancing[p]]
  /\ UNCHANGED <<position, engines, watched, trailed, announced, closes, silent, protectionFaults>>

CloseEnds(p) == closing' = [closing EXCEPT ![p] = NoClose]
AdvanceEnds(p) == advancing' = [advancing EXCEPT ![p] = Null]

StillOpen(p) == IsOpen(p)

\* #execute(): closeMarketPosition() looks whether the position is open, and
\* not whether its stop is still the one that was hit.
ProtectiveClose(p) ==
  /\ QueueIsFree /\ closing[p] # NoClose
  /\ IF StillOpen(p)
       THEN /\ position' = [position EXCEPT ![p] = Closed(p)]
            /\ closes' = [closes EXCEPT ![p] = @ + 1]
            /\ Commits({p})
            /\ IF announced' = {} THEN CloseEnds(p)
               ELSE closing' = [closing EXCEPT ![p].committed = TRUE]
       ELSE CloseEnds(p) /\ UNCHANGED <<position, closes, announced, silent, protectionFaults>>
  /\ UNCHANGED <<bid, engines, watched, trailed, advancing, changed>>

\* No fresh quote, or the transaction was given up.
ProtectiveCloseFails(p) ==
  /\ QueueIsFree /\ closing[p] # NoClose
  /\ ProtectionFault("failure")
  /\ CloseEnds(p)
  /\ UNCHANGED <<bid, position, engines, watched, trailed, advancing, announced, closes, changed,
                 silent>>

\* Mutant: the best price is saved all the same.
BestAnyway(o, price) ==
  LET best == Higher(o.best, price)
      stop == TighterStop(o, best)
  IN  [o EXCEPT !.best = best, !.stop = IF ValidAgainst(price, stop, o.take) THEN stop ELSE @]

\* planTrailingAdvance(): nothing is saved when the stop that would follow is
\* not valid at the price of the tick.
Advanced(o, price) ==
  LET best == Higher(o.best, price)
      stop == TighterStop(o, best)
  IN  IF stop # o.stop /\ ~ValidAgainst(price, stop, o.take)
        THEN o ELSE [o EXCEPT !.best = best, !.stop = stop]

Advance(p) ==
  /\ QueueIsFree /\ advancing[p] # Null
  /\ LET o == position[p]
     IN  IF IsOpen(p) /\ o.trailing /\ Advanced(o, PriceOf(p, advancing[p])) # o
           THEN /\ position' = [position EXCEPT ![p] = Advanced(o, PriceOf(p, advancing[p]))]
                /\ Commits({p})
           ELSE UNCHANGED <<position, announced, silent, protectionFaults>>
  /\ AdvanceEnds(p)
  /\ UNCHANGED <<bid, engines, watched, trailed, closing, closes, changed>>

CopyOfProtection(p) ==
  IF IsOpen(p) THEN [stop |-> position[p].stop, take |-> position[p].take] ELSE NotWatched

\* trading.position.opened, updated and closed reach #upsert() and #remove()
\* of both engines, and the work that has led to them ends.
AnnouncePositions ==
  /\ announced # {}
  /\ watched' = [p \in Position |-> IF p \in announced THEN CopyOfProtection(p) ELSE watched[p]]
  /\ trailed' = (trailed \ announced) \cup {p \in announced : IsOpen(p) /\ position[p].trailing}
  /\ closing' = [p \in Position |-> IF closing[p].committed THEN NoClose ELSE closing[p]]
  /\ announced' = {}
  /\ UNCHANGED <<bid, position, engines, advancing, closes, changed, silent, protectionFaults>>

-----------------------------------------------------------------------------
CrashEngines ==
  /\ engines = "started"
  /\ ProtectionFault("crash")
  /\ engines' = "down"
  /\ watched' = [p \in Position |-> NotWatched] /\ trailed' = {}
  /\ closing' = [p \in Position |-> NoClose] /\ advancing' = [p \in Position |-> Null]
  /\ announced' = {} /\ silent' = {} /\ changed' = {}
  /\ UNCHANGED <<bid, position, closes>>

\* Mutant: the open positions are not loaded.
StartEnginesEmpty ==
  /\ engines = "down"
  /\ engines' = "started"
  /\ UNCHANGED <<bid, position, watched, trailed, closing, advancing, announced, closes, changed,
                 silent, protectionFaults>>

\* start() of both engines.  Neither ticks nor commands come before they have
\* stored what their queries return.
StartEngines ==
  /\ engines = "down"
  /\ engines' = "started"
  /\ watched' = [p \in Position |-> CopyOfProtection(p)]
  /\ trailed' = {p \in Position : IsOpen(p) /\ position[p].trailing}
  /\ UNCHANGED <<bid, position, closing, advancing, announced, closes, changed, silent,
                 protectionFaults>>

ProtectionNext ==
  \/ \E p \in Position :
       \/ \E side \in Side, stop \in Level, take \in Target \cup {Null} : OpenPosition(p, side, stop, take)
       \/ \E stop \in Level : SetStop(p, stop)
       \/ \E take \in Target \cup {Null} : SetTake(p, take)
       \/ ClosePosition(p) \/ BreakEven(p) \/ EnableTrailing(p) \/ DisableTrailing(p)
       \/ ProtectiveClose(p) \/ ProtectiveCloseFails(p) \/ Advance(p)
  \/ \E price \in Bid : ProtectionTick(price)
  \/ AnnouncePositions
  \/ CrashEngines \/ StartEngines

Beyond(p) == IsOpen(p) /\ position[p].stop # Null /\ PriceOf(p, bid) <= position[p].stop

TickBeyond == (\E p \in Position : Beyond(p)) /\ \E price \in Bid : ProtectionTick(price)

\* The feed ticks on while a position is beyond its stop, the queue serves what
\* was launched, and a process that died is restarted.
ProtectionFairness ==
  /\ SF_protectionVars(TickBeyond) /\ WF_protectionVars(AnnouncePositions)
  /\ WF_protectionVars(StartEngines)
  /\ \A p \in Position : SF_protectionVars(ProtectiveClose(p)) /\ SF_protectionVars(Advance(p))

ProtectionSpec == ProtectionInit /\ [][ProtectionNext]_protectionVars /\ ProtectionFairness

-----------------------------------------------------------------------------
(***************************************************************************)
(* Once events are delivered, both engines watch what the documents say,   *)
(* after any command, close, failure or restart, unless the last commit    *)
(* was reported as an error.                                               *)
(***************************************************************************)
EnginesFollow ==
  (engines = "started" /\ announced = {})
    => \A p \in Position \ silent :
         /\ watched[p].stop = IF IsOpen(p) THEN position[p].stop ELSE Null
         /\ watched[p].take = IF IsOpen(p) THEN position[p].take ELSE Null
         /\ p \in trailed <=> (IsOpen(p) /\ position[p].trailing)

(***************************************************************************)
(* A position is closed once, though the trader and the engine may both be *)
(* about to close it.                                                      *)
(***************************************************************************)
ClosedOnce == \A p \in Position : closes[p] <= 1

(***************************************************************************)
(* What a tick has hit is still hit by the stored position when its close  *)
(* comes to its turn, whatever the trailing stop has done meanwhile, unless*)
(* the trader has changed the protection since.                            *)
(***************************************************************************)
DetectionStillHolds ==
  \A p \in Position \ changed :
    (closing[p] # NoClose /\ IsOpen(p)) => Hit(position[p], PriceOf(p, closing[p].price))

(***************************************************************************)
(* A trailing stop keeps its distance from the best price, and goes one    *)
(* way only while trailing stays on, over ticks in any order, break-even   *)
(* moves and new settings.                                                 *)
(***************************************************************************)
TrailingKeepsDistance ==
  \A p \in Position : (IsOpen(p) /\ position[p].trailing)
    => position[p].stop + Distance >= position[p].best

TrailingOnlyTightens ==
  [][\A p \in Position : (position[p].trailing /\ position'[p].trailing)
       => position'[p].stop >= position[p].stop]_protectionVars

(***************************************************************************)
(* A position beyond its stop is closed, after closes that failed and      *)
(* restarts, unless the price recovers, the trader moves the stop, or the  *)
(* engine was not told of it.                                              *)
(***************************************************************************)
StopsAreExecuted == \A p \in Position : Beyond(p) ~> (~Beyond(p) \/ p \in silent)

(***************************************************************************)
(* What the engines know, launch and store of a position fits the position *)
(* (protection-trigger-engine.js, trailing-stop-engine.js).                *)
(***************************************************************************)
ProtectionIsSound ==
  /\ ProtectionTypeOK /\ EnginesFollow /\ ClosedOnce
  /\ DetectionStillHolds /\ TrailingKeepsDistance
=============================================================================
