------------------------------ MODULE MarketFeed ------------------------------
(***************************************************************************)
(* The market data of one symbol: the quote and its freshness              *)
(* (market-gateway.js, quote-store.js), the quarantine of suspicious ticks *)
(* (tick-sanity-filter.js) and the candles of one timeframe                *)
(* (candle-engine.js), fed by a stream that disconnects and by single      *)
(* prices that are fetched when the quote grows old.                       *)
(*                                                                         *)
(* Prices are not modelled: whether a tick is a jump, and whether the next *)
(* one confirms it, is left open.  Time is.  A price of the stream carries *)
(* the time of the provider, which is what its candle is chosen by.        *)
(***************************************************************************)
EXTENDS Integers, Sequences, FiniteSetsExt

CONSTANTS
  StepTime,        \* stepMs, the length of a candle
  SoftAge,         \* instrument.softQuoteAgeMs
  MaxAge,          \* instrument.maxQuoteAgeMs
  Cooldown,        \* RECOVERY_COOLDOWN_MS
  ConfirmTime,     \* MAX_PENDING_AGE_MS
  Tolerance,       \* OUT_OF_ORDER_TOLERANCE_MS
  MaxGapBars,      \* maxSyntheticGapBars
  ClosedSession,   \* the candles at whose opening the session of the instrument is closed
  Lag,             \* by how much a price of the stream may be late
  MaxPriority,     \* bound: clients that retain the symbol at once
  MaxTicks,        \* bound: prices of the stream
  MaxMarketTime    \* bound: the clock

ASSUME MarketAssumption ==
  /\ StepTime \in Nat \ {0} /\ MaxGapBars \in Nat
  /\ SoftAge \in Nat /\ MaxAge \in Nat /\ Cooldown \in Nat /\ ConfirmTime \in Nat
  /\ Tolerance \in Nat /\ Lag \in Nat
  /\ MaxPriority \in Nat /\ MaxTicks \in Nat /\ MaxMarketTime \in Nat

VARIABLES
  marketNow,
  stream,      \* "connecting", "live" or "down": the adapter's connection
  outage,      \* streamOutage
  quote,       \* the quote of the store: receivedAtMs and isStale
  symbolState, \* symbolStates
  priority,    \* priorityRefs
  fetching,    \* recoveryInFlight
  lastAttempt, \* lastRecoveryAttemptAt
  lastTime,    \* state.lastProviderTimestampMs
  quarantine,  \* state.pending
  feedLive,    \* symbolFeedLive
  broken,      \* continuityBroken
  bar,         \* state.current
  closed,      \* the candles closed so far; the last one is lastClosedOpenTimeMs, and
               \* the synthetic ones at the end are consecutiveSyntheticClosed
  silent,      \* history: the time within the outages of the stream
  late,        \* history: a price was published after the time of its candle
  ticks

quoteVars == <<quote, symbolState, fetching, lastAttempt>>
filterVars == <<lastTime, quarantine>>
candleVars == <<feedLive, broken, bar, closed>>
historyVars == <<silent, late>>
marketVars == <<marketNow, stream, outage, priority, quoteVars, filterVars, candleVars, historyVars, ticks>>

MarketTime == 0 .. MaxMarketTime
Never == -1
NoQuote == [at |-> Never, stale |-> TRUE]
NoTick == [at |-> Never, time |-> Never]
NoBar == [open |-> Never, synthetic |-> FALSE]
Bar == [open : Nat, synthetic : BOOLEAN]
SymbolState == {"WAITING", "LIVE", "REFRESHING", "STALE", "UNAVAILABLE", "DISCONNECTED", "SUBSCRIPTION_ERROR"}

MarketTypeOK ==
  /\ marketNow \in MarketTime /\ stream \in {"connecting", "live", "down"} /\ outage \in BOOLEAN
  /\ quote \in [at : MarketTime \cup {Never}, stale : BOOLEAN]
  /\ symbolState \in SymbolState /\ priority \in 0 .. MaxPriority
  /\ fetching \in BOOLEAN
  /\ lastAttempt \in MarketTime \cup {Never} /\ lastTime \in MarketTime \cup {Never}
  /\ quarantine \in [at : MarketTime, time : MarketTime] \cup {NoTick}
  /\ feedLive \in BOOLEAN /\ broken \in BOOLEAN
  /\ bar \in Bar \cup {NoBar} /\ closed \in Seq(Bar)
  /\ silent \in SUBSET MarketTime /\ late \in BOOLEAN /\ ticks \in 0 .. MaxTicks

MarketInit ==
  /\ marketNow = 0 /\ stream = "connecting" /\ outage = FALSE
  /\ quote = NoQuote /\ symbolState = "WAITING" /\ priority = 0
  /\ fetching = FALSE /\ lastAttempt = Never
  /\ lastTime = Never /\ quarantine = NoTick
  /\ feedLive = FALSE /\ broken = FALSE /\ bar = NoBar /\ closed = <<>>
  /\ silent = {} /\ late = FALSE /\ ticks = 0

-----------------------------------------------------------------------------
(***************************************************************************)
(* The candle engine.  A state of it is what a tick or the timer computes. *)
(***************************************************************************)
Bucket(time) == time \div StepTime
Started(open) == [open |-> open, synthetic |-> FALSE]
Synthetic(open) == [open |-> open, synthetic |-> TRUE]
SessionOpen(open) == open \notin ClosedSession

CandleState == [bar : Bar \cup {NoBar}, closed : Seq(Bar), broken : BOOLEAN]
Candles == [bar |-> bar, closed |-> closed, broken |-> broken]
LastOpen(c) == IF c = <<>> THEN Never ELSE c[Len(c)].open

\* consecutiveSyntheticClosed, after the candles c were closed.
TrailingSynthetic(c) ==
  LET upTo[n \in 0 .. Len(c)] ==
        IF n = 0 THEN 0 ELSE IF c[n].synthetic THEN upTo[n - 1] + 1 ELSE 0
  IN  upTo[Len(c)]

\* The loop of #fillShortGap(): n candles from first on.
Fill(c, first, n) ==
  LET upTo[m \in 0 .. n] ==
        IF m = 0 THEN c
        ELSE IF SessionOpen(first + m - 1) THEN Append(upTo[m - 1], Synthetic(first + m - 1))
        ELSE upTo[m - 1]
  IN  upTo[n]

\* Mutant: the last closed candle is filled in again.
FillFromLast(c, target) ==
  LET first == LastOpen(c)
      missing == target - first
  IN  IF c = <<>> \/ missing <= 0 \/ missing > MaxGapBars THEN c ELSE Fill(c, first, missing)

\* #fillShortGap()
FillShortGap(c, target) ==
  LET first == LastOpen(c) + 1
      missing == target - first
  IN  IF c = <<>> \/ missing <= 0 \/ missing > MaxGapBars THEN c ELSE Fill(c, first, missing)

CloseCurrent(s) == IF s.bar = NoBar THEN s.closed ELSE Append(s.closed, s.bar)

\* processTick() for a price of this time.
ProcessTick(s, time) ==
  LET b == Bucket(time)
      c == CloseCurrent(s)
  IN  IF s.bar # NoBar /\ b < s.bar.open THEN [bar |-> s.bar, closed |-> s.closed, broken |-> FALSE]
      ELSE IF s.bar # NoBar /\ b = s.bar.open THEN [bar |-> Started(b), closed |-> s.closed, broken |-> FALSE]
      ELSE [bar |-> Started(b), closed |-> IF s.broken THEN c ELSE FillShortGap(c, b), broken |-> FALSE]

\* processTick() for each of these prices, in order.
ProcessTicks(sent) ==
  LET upTo[n \in 0 .. Len(sent)] ==
        IF n = 0 THEN Candles ELSE ProcessTick(upTo[n - 1], sent[n].time)
  IN  upTo[Len(sent)]

\* #canCreateLiveSynthetic()
CanSynthesize(c, open) ==
  feedLive /\ ~broken /\ TrailingSynthetic(c) < MaxGapBars /\ SessionOpen(open)

\* One round of the loop in flushExpired().
FlushOne(s) ==
  LET c == CloseCurrent(s)
      next == s.bar.open + 1
  IN  IF s.bar = NoBar \/ Bucket(marketNow) < next THEN s
      ELSE [bar |-> IF CanSynthesize(c, next) THEN Synthetic(next) ELSE NoBar, closed |-> c, broken |-> s.broken]

SetCandles(s) == bar' = s.bar /\ closed' = s.closed /\ broken' = s.broken

\* setSymbolLive(symbol, false)
StopFeed == feedLive' = FALSE /\ broken' = (broken \/ feedLive) /\ UNCHANGED <<bar, closed>>

\* The loop of flushExpired(), with its bound.
Flushed ==
  LET upTo[n \in 0 .. MaxGapBars + 2] == IF n = 0 THEN Candles ELSE FlushOne(upTo[n - 1])
  IN  upTo[MaxGapBars + 2]

FlushExpired ==
  /\ Flushed # Candles /\ SetCandles(Flushed)
  /\ UNCHANGED <<marketNow, stream, outage, priority, quoteVars, filterVars, feedLive, historyVars, ticks>>

-----------------------------------------------------------------------------
(***************************************************************************)
(* ensureFreshQuote().                                                     *)
(***************************************************************************)
TooOld(q, age) == q.at = Never \/ marketNow - q.at > age

\* What a handler leaves that stored q and state, and then asks for a fresh
\* price if wanted.
Ensure(q, state, wanted) ==
  /\ quote' = q
  /\ IF /\ wanted
        /\ q.stale \/ TooOld(q, SoftAge)
        /\ ~fetching
        /\ q.at # Never /\ lastAttempt # Never => marketNow - lastAttempt >= Cooldown
     THEN /\ fetching' = TRUE /\ lastAttempt' = marketNow
          /\ symbolState' = IF TooOld(q, MaxAge) THEN state ELSE "REFRESHING"
     ELSE symbolState' = state /\ UNCHANGED <<fetching, lastAttempt>>

Stale(q) == [q EXCEPT !.stale = TRUE]

\* retainPriority(), for a client that subscribes to the symbol.
RetainPriority ==
  /\ priority < MaxPriority /\ priority' = priority + 1
  /\ Ensure(quote, symbolState, TooOld(quote, SoftAge))
  /\ UNCHANGED <<marketNow, stream, outage, filterVars, candleVars, historyVars, ticks>>

ReleasePriority ==
  /\ priority > 0 /\ priority' = priority - 1
  /\ UNCHANGED <<marketNow, stream, outage, quoteVars, filterVars, candleVars, historyVars, ticks>>

\* #publishPrice() of a fetched price, which TickSanityFilter.inspect() trusts.
RecoveryAnswers ==
  /\ fetching /\ fetching' = FALSE
  /\ quote' = [at |-> marketNow, stale |-> FALSE] /\ symbolState' = "LIVE"
  /\ quarantine' = NoTick
  /\ UNCHANGED <<marketNow, stream, outage, priority, lastAttempt, lastTime, candleVars, historyVars, ticks>>

RecoveryFails ==
  /\ fetching /\ fetching' = FALSE
  /\ IF TooOld(quote, MaxAge)
     THEN quote' = Stale(quote) /\ symbolState' = "UNAVAILABLE" /\ StopFeed
     ELSE symbolState' = "LIVE" /\ UNCHANGED <<quote, candleVars>>
  /\ UNCHANGED <<marketNow, stream, outage, priority, lastAttempt, filterVars, historyVars, ticks>>

-----------------------------------------------------------------------------
(***************************************************************************)
(* The prices of the stream: #onPrice().                                   *)
(***************************************************************************)
Tick(at, time) == [at |-> at, time |-> time]
LatestTime(sent) == Max({lastTime} \cup {sent[n].time : n \in 1 .. Len(sent)})

\* #publishPrice() of the ticks of the stream that the filter accepted, in order.
Publish(accepted) ==
  /\ quote' = [at |-> accepted[Len(accepted)].at, stale |-> FALSE] /\ symbolState' = "LIVE"
  /\ feedLive' = TRUE
  /\ SetCandles(ProcessTicks(accepted))
  /\ late' = (late \/ \E n \in 1 .. Len(accepted) : Bucket(accepted[n].time) < Bucket(marketNow))
  /\ lastTime' = LatestTime(accepted)

Held == quarantine # NoTick /\ marketNow - quarantine.at <= ConfirmTime

\* inspect(): a price that is out of order is ignored, a jump is quarantined,
\* and the next price drops, replaces or confirms it.
StreamPrice ==
  /\ stream = "live" /\ ticks < MaxTicks /\ ticks' = ticks + 1
  /\ \E time \in Max({0, marketNow - Lag}) .. marketNow :
       LET tick == Tick(marketNow, time) IN
       /\ lastTime # Never => time >= lastTime - Tolerance
       /\ \/ Publish(<<tick>>) /\ quarantine' = NoTick
          \/ Held /\ Publish(<<quarantine, tick>>) /\ quarantine' = NoTick
          \/ quote # NoQuote /\ quarantine' = tick
             /\ UNCHANGED <<quote, symbolState, candleVars, late, lastTime>>
  /\ UNCHANGED <<marketNow, stream, outage, priority, fetching, lastAttempt, silent>>

-----------------------------------------------------------------------------
(***************************************************************************)
(* The connection, the timer and the clock.                                *)
(***************************************************************************)
\* #onConnection(DISCONNECTED)
Disconnect ==
  /\ stream = "live" /\ stream' = "down" /\ outage' = TRUE
  /\ StopFeed /\ quarantine' = NoTick
  /\ Ensure(IF TooOld(quote, MaxAge) /\ quote # NoQuote THEN Stale(quote) ELSE quote,
            IF TooOld(quote, MaxAge) THEN "DISCONNECTED" ELSE symbolState, priority > 0)
  /\ UNCHANGED <<marketNow, priority, lastTime, historyVars, ticks>>

\* #onConnection(LIVE)
Connect ==
  /\ stream # "live" /\ stream' = "live" /\ outage' = FALSE
  /\ UNCHANGED <<marketNow, priority, quoteVars, filterVars, candleVars, historyVars, ticks>>

\* #onSubscriptionStatus()
SubscriptionFails ==
  /\ stream = "live" /\ symbolState' = "SUBSCRIPTION_ERROR"
  /\ UNCHANGED <<marketNow, stream, outage, priority, quote, fetching, lastAttempt, filterVars, candleVars,
                 historyVars, ticks>>

CheckQuoteFreshness ==
  /\ \/ quote = NoQuote /\ Ensure(quote, "WAITING", priority > 0) /\ UNCHANGED candleVars
     \/ /\ quote # NoQuote /\ TooOld(quote, MaxAge)
        /\ Ensure(Stale(quote), "STALE", priority > 0) /\ StopFeed
     \/ /\ quote # NoQuote /\ ~TooOld(quote, MaxAge) /\ TooOld(quote, SoftAge)
        /\ Ensure(quote, "REFRESHING", priority > 0) /\ UNCHANGED candleVars
     \/ /\ quote # NoQuote /\ ~TooOld(quote, SoftAge)
        /\ Ensure(quote, IF quote.stale THEN symbolState ELSE "LIVE", FALSE) /\ UNCHANGED candleVars
  /\ UNCHANGED <<marketNow, stream, outage, priority, filterVars, historyVars, ticks>>

Pass ==
  /\ marketNow < MaxMarketTime /\ marketNow' = marketNow + 1
  /\ silent' = IF outage THEN silent \cup {marketNow} ELSE silent
  /\ UNCHANGED <<stream, outage, priority, quoteVars, filterVars, candleVars, late, ticks>>

-----------------------------------------------------------------------------
MarketNext ==
  \/ RetainPriority \/ ReleasePriority
  \/ RecoveryAnswers \/ RecoveryFails
  \/ StreamPrice
  \/ Disconnect \/ Connect \/ SubscriptionFails
  \/ CheckQuoteFreshness \/ FlushExpired
  \/ Pass

MarketSpec == MarketInit /\ [][MarketNext]_marketVars

-----------------------------------------------------------------------------
\* What clients are told of the symbol agrees with the quote that commands
\* execute at: a state of health goes with a quote that is not marked as stale.
StateTellsStaleness == symbolState \in {"LIVE", "REFRESHING"} => ~quote.stale

\* While the stream is down nothing opens the continuity of the candles: a
\* price that is fetched meanwhile refreshes the quote and nothing else.
OnlyTheStreamIsLive == outage => ~feedLive

Below(c, open) == \A i \in 1 .. Len(c) : c[i].open < open
Ascending(c) == \A i \in 1 .. Len(c) : \A j \in 1 .. i - 1 : c[j].open < c[i].open

\* Candles are closed in their order and each of them once, as long as no price
\* comes after the time of its candle.
CandlesAdvance == ~late => Ascending(closed)

Outage(b) == \A t \in b * StepTime - 1 .. (b + 1) * StepTime - 1 : t \in silent

\* "A disconnected stream must never fabricate carry-forward chart bars"
\* (market-gateway.js:203): no synthetic candle stands for a time within an
\* outage of the stream.
OutageHasNoBars ==
  \A i \in 1 .. Len(closed) : closed[i].synthetic => ~Outage(closed[i].open)

\* It holds as long as no price comes after the time of its candle.
QuietOutageHasNoBars == ~late => OutageHasNoBars

Short(c) == \A i \in 1 .. Len(c) : TrailingSynthetic(SubSeq(c, 1, i)) <= 2 * MaxGapBars

\* At most maxSyntheticGapBars candles are carried forward by the timer, and as
\* many again by the price that ends the gap.
GapsAreShort == Short(closed)

\* Quote, health and candles agree on what the stream has said
\* (market-gateway.js, candle-engine.js).
FeedIsHonest ==
  /\ MarketTypeOK /\ StateTellsStaleness /\ OnlyTheStreamIsLive
  /\ CandlesAdvance /\ QuietOutageHasNoBars /\ GapsAreShort

-----------------------------------------------------------------------------
(***************************************************************************)
(* Why it is so.                                                           *)
(***************************************************************************)

\* Only a stream that is down is an outage, and a quote is marked as stale when
\* it is too old, which it remains until a price comes.
StreamAndQuote ==
  /\ outage => stream = "down"
  /\ quote.stale => TooOld(quote, MaxAge)
  /\ quarantine.time <= marketNow
  /\ \A t \in silent : t < marketNow

LatestOpen(s) == IF s.bar # NoBar THEN s.bar.open ELSE LastOpen(s.closed)

\* A candle is closed after its time, and one is formed at its time.
CandlesArePast(s) == s.bar.open <= Bucket(marketNow) /\ Below(s.closed, Bucket(marketNow))

\* What the timer has carried forward so far.
CarriedForward(s) ==
  /\ Short(s.closed)
  /\ s.bar = NoBar => TrailingSynthetic(s.closed) <= MaxGapBars
  /\ s.bar.synthetic => TrailingSynthetic(s.closed) < MaxGapBars

CandlesAscend(s) == Ascending(s.closed) /\ (s.bar # NoBar => Below(s.closed, s.bar.open))

\* The moment before a synthetic candle was not silent.
Heard(b) == b.synthetic => b.open * StepTime - 1 \notin silent
AllHeard(c) == \A i \in 1 .. Len(c) : Heard(c[i])
SyntheticIsHeard(s) == AllHeard(s.closed) /\ Heard(s.bar)

\* As long as the continuity is not broken the stream was not silent after the
\* last candle had begun.
UnbrokenIsHeard(s) ==
  ~s.broken /\ LatestOpen(s) # Never => \A t \in silent : t + 1 < (LatestOpen(s) + 1) * StepTime

CandlesAreSound(s, quiet) ==
  /\ CandlesArePast(s) /\ CarriedForward(s)
  /\ quiet => CandlesAscend(s) /\ SyntheticIsHeard(s) /\ UnbrokenIsHeard(s)

\* The continuity of candles that are not fed any more is broken.
CandlesAreFed == LatestOpen(Candles) # Never => feedLive \/ broken

MarketInv == FeedIsHonest /\ StreamAndQuote /\ CandlesAreSound(Candles, ~late) /\ CandlesAreFed
=============================================================================
