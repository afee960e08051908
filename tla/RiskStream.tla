------------------------------ MODULE RiskStream ------------------------------
(***************************************************************************)
(* The durable risk stream of one trading account: RiskStreamService       *)
(* (risk-stream.service.js) turns live valuations into numbered events,    *)
(* and ChallengeRiskEngine (challenge-risk-engine.js) evaluates them in    *)
(* order and breaches the account when one lies below a loss limit.        *)
(*                                                                         *)
(* Each transaction is one step; whatever the code awaits comes between    *)
(* two steps.  Ingestion and evaluation run outside the account's command  *)
(* queue, so the account's status changes under them.  breach() is the     *)
(* operation of AccountControl with LIQUIDATE_AND_LOCK, in its two parts.  *)
(* A number is given out with its event in one transaction, so riskSequence*)
(* is the length of the stream and there is never a gap to report; nor is  *)
(* a valuation ingested twice, which the event key is there to stop.  An   *)
(* event and the mark behind it change in one transaction, so a drain      *)
(* never meets an event that is evaluated already.                         *)
(***************************************************************************)
EXTENDS Naturals, Sequences

CONSTANTS
  Equity,                        \* the equities that a valuation can show
  InitialBalance,
  DailyLossLimit, MaxLossLimit,  \* 0 stands for no limit
  Controls,                      \* the control operations that are called
  Faults,                        \* what may go wrong: "crash", "failure"
  Drain, NoDrain,                \* promises of #drain()
  MaxValuations, MaxRevisions, MaxDays, MaxFaults  \* bounds

ASSUME RiskConstants ==
  /\ Equity \subseteq Nat
  /\ InitialBalance \in Nat /\ DailyLossLimit \in Nat /\ MaxLossLimit \in Nat
  /\ Controls \subseteq {"pause", "resume", "disable"}
  /\ Faults \subseteq {"crash", "failure"}
  /\ NoDrain \notin Drain
  /\ MaxValuations \in Nat /\ MaxRevisions \in Nat /\ MaxDays \in Nat /\ MaxFaults \in Nat

VARIABLES
  account,   \* the trading account document
  exposed,   \* whether the account has an open position
  today,     \* the day of the wall clock in the account's time zone
  emitted,   \* how many valuations the valuation engine has emitted
  inbox,     \* valuations whose ingestion has not committed
  events,    \* the account's risk events, by sequence
  wakes,     \* valuations ingested, their #scheduleDrain() still to come
  engine,    \* whether the risk engine is down, listening, or started
  drain,     \* the calls of #drain()
  inFlight,  \* this.inFlight.get(account)
  rerun,     \* this.rerun.has(account)
  faults     \* crashes and failures so far

vars == <<account, exposed, today, emitted, inbox, events, wakes, engine, drain,
          inFlight, rerun, faults>>
engineVars == <<wakes, engine, drain, inFlight, rerun>>

Restricted == {"BREACHED", "DISABLED"}

Valuation == [number : Nat, revision : Nat, equity : Equity]

RiskEvent ==
  [type : {"VALUATION", "RISK_DAY_ROLLOVER"}, number : Nat, day : Nat, equity : Equity,
   dailyStart : Nat, state : {"RECEIVED", "EVALUATED", "BREACHED"}]

Ended == [pc |-> "none", status |-> "ACTIVE", sequence |-> 0, outcome |-> "EVALUATED"]

DrainState ==
  [pc : {"none", "account", "event", "restrict", "liquidate", "complete", "settle"},
   status : {"ACTIVE", "PAUSED"} \cup Restricted,
   sequence : Nat, outcome : {"EVALUATED", "BREACHED"}]

TypeOK ==
  /\ account \in [status : {"ACTIVE", "PAUSED"} \cup Restricted, revision : Nat,
                  riskDay : Nat, dailyStart : Nat, evaluated : Nat]
  /\ exposed \in BOOLEAN
  /\ today \in Nat /\ emitted \in Nat /\ faults \in Nat
  /\ inbox \subseteq Valuation
  /\ events \in Seq(RiskEvent)
  /\ wakes \subseteq Nat
  /\ engine \in {"down", "listening", "started"}
  /\ drain \in [Drain -> DrainState]
  /\ inFlight \in Drain \cup {NoDrain}
  /\ rerun \in BOOLEAN

Init ==
  /\ account = [status |-> "ACTIVE", revision |-> 0, riskDay |-> 1,
                dailyStart |-> InitialBalance, evaluated |-> 0]
  /\ exposed = FALSE
  /\ today = 1 /\ emitted = 0 /\ faults = 0
  /\ inbox = {} /\ wakes = {}
  /\ events = <<>>
  /\ engine = "started"
  /\ drain = [d \in Drain |-> Ended]
  /\ inFlight = NoDrain
  /\ rerun = FALSE

-----------------------------------------------------------------------------
\* The valuation engine emits a live valuation (after a tick, a trade or a
\* ledger entry); #ingest() begins its transaction, and nothing orders it
\* after the ingestion of the valuation before.
Emit(e) ==
  /\ engine # "down"
  /\ emitted < MaxValuations
  /\ emitted' = emitted + 1
  /\ inbox' = inbox \cup {[number |-> emitted + 1, revision |-> account.revision, equity |-> e]}
  /\ UNCHANGED <<account, exposed, today, events, engineVars, faults>>

(***************************************************************************)
(* ingestValuation(): a valuation of an older financial revision is        *)
(* dropped; the first one accepted on a new day sets the day's baseline.   *)
(***************************************************************************)
NewDay == account.riskDay # today

Baseline(v) == IF NewDay THEN v.equity ELSE account.dailyStart

Event(type, v) ==
  [type |-> type, number |-> v.number, day |-> today, equity |-> v.equity,
   dailyStart |-> Baseline(v), state |-> "RECEIVED"]

\* Mutant: the account keeps its old day.
RolloverKeptDay(v) == [account EXCEPT !.dailyStart = Baseline(v)]

Rollover(v) == [account EXCEPT !.riskDay = today, !.dailyStart = Baseline(v)]

AppendEvents(v) ==
  /\ account' = Rollover(v)
  /\ events' = events \o (IF NewDay THEN <<Event("RISK_DAY_ROLLOVER", v)>> ELSE <<>>)
                      \o <<Event("VALUATION", v)>>

Ingest(v) ==
  /\ v.revision = account.revision
  /\ AppendEvents(v)
  /\ inbox' = inbox \ {v}
  /\ wakes' = wakes \cup {v.number}
  /\ UNCHANGED <<exposed, today, emitted, engine, drain, inFlight, rerun, faults>>

IngestStale(v) ==
  /\ v.revision # account.revision
  /\ inbox' = inbox \ {v}
  /\ UNCHANGED <<account, exposed, today, emitted, events, engineVars, faults>>

\* The ingestion fails, with or without its effect: logged, and nothing is
\* scheduled.
IngestFails(v) ==
  /\ "failure" \in Faults /\ faults < MaxFaults
  /\ faults' = faults + 1
  /\ inbox' = inbox \ {v}
  /\ \/ v.revision = account.revision /\ AppendEvents(v)
     \/ UNCHANGED <<account, events>>
  /\ UNCHANGED <<exposed, today, emitted, engineVars>>

-----------------------------------------------------------------------------
(***************************************************************************)
(* #scheduleDrain(): one drain at a time; a wake that comes while it runs  *)
(* makes it run again.                                                     *)
(***************************************************************************)
StartDrain(d) ==
  /\ drain[d].pc = "none"
  /\ drain' = [drain EXCEPT ![d] = [Ended EXCEPT !.pc = "account"]]
  /\ inFlight' = d

\* Mutant: every wake starts a drain.
ScheduleDrainAnyway ==
  /\ \E d \in Drain : StartDrain(d)
  /\ UNCHANGED rerun

\* Mutant: a wake that comes while a drain runs is lost.
ScheduleDrainForgetful ==
  IF inFlight = NoDrain
    THEN (\E d \in Drain : StartDrain(d)) /\ UNCHANGED rerun
    ELSE UNCHANGED <<drain, inFlight, rerun>>

ScheduleDrain ==
  IF inFlight = NoDrain
    THEN (\E d \in Drain : StartDrain(d)) /\ UNCHANGED rerun
    ELSE rerun' = TRUE /\ UNCHANGED <<drain, inFlight>>

Wake(n) ==
  /\ n \in wakes
  /\ wakes' = wakes \ {n}
  /\ ScheduleDrain
  /\ UNCHANGED <<account, exposed, today, emitted, inbox, events, engine, faults>>

\* getNext() reads the account, and after that the event behind the last one
\* evaluated.
ReadAccount(d) ==
  /\ drain[d].pc = "account"
  /\ drain' = [drain EXCEPT ![d].pc = "event", ![d].status = account.status,
                            ![d].sequence = account.evaluated + 1]
  /\ UNCHANGED <<account, exposed, today, emitted, inbox, events, wakes, engine, inFlight,
                 rerun, faults>>

\* evaluateRiskContext().
BelowLimit(equity, start, limit) == limit > 0 /\ equity + limit <= start

Breached(e) ==
  /\ e.type = "VALUATION"
  /\ \/ BelowLimit(e.equity, InitialBalance, MaxLossLimit)
     \/ BelowLimit(e.equity, e.dailyStart, DailyLossLimit)

\* Mutant: only the overall limit locks the account.
NeedsControlForMaxLoss(e, status) ==
  BelowLimit(e.equity, InitialBalance, MaxLossLimit) /\ e.type = "VALUATION" /\ status = "ACTIVE"

\* breach() is called for an account that was active when it was read.
NeedsControl(e, status) == Breached(e) /\ status = "ACTIVE"

ReadEvent(d) ==
  LET n == drain[d].sequence
  IN  /\ drain[d].pc = "event"
      /\ n \in DOMAIN events
      /\ drain' = [drain EXCEPT
           ![d].pc = IF NeedsControl(events[n], drain[d].status) THEN "restrict" ELSE "complete",
           ![d].outcome = IF Breached(events[n]) THEN "BREACHED" ELSE "EVALUATED"]
      /\ UNCHANGED <<account, exposed, today, emitted, inbox, events, wakes, engine, inFlight,
                     rerun, faults>>

NothingLeft(d) ==
  /\ drain[d].pc = "event"
  /\ drain[d].sequence \notin DOMAIN events
  /\ drain' = [drain EXCEPT ![d].pc = "settle"]
  /\ UNCHANGED <<account, exposed, today, emitted, inbox, events, wakes, engine, inFlight,
                 rerun, faults>>

-----------------------------------------------------------------------------
\* Mutant: the positions stay.
BreachLocksOnly(d) ==
  /\ drain[d].pc = "restrict"
  /\ account' = [account EXCEPT !.status = IF @ \in Restricted THEN @ ELSE "BREACHED"]
  /\ drain' = [drain EXCEPT ![d].pc = "complete"]
  /\ UNCHANGED <<exposed, today, emitted, inbox, events, wakes, engine, inFlight, rerun, faults>>

\* breach(): the queued restriction keeps another terminal status.
BreachRestricts(d) ==
  /\ drain[d].pc = "restrict"
  /\ account' = [account EXCEPT !.status = IF @ \in Restricted THEN @ ELSE "BREACHED"]
  /\ drain' = [drain EXCEPT ![d].pc = "liquidate"]
  /\ UNCHANGED <<exposed, today, emitted, inbox, events, wakes, engine, inFlight, rerun, faults>>

BreachLiquidates(d) ==
  /\ drain[d].pc = "liquidate"
  /\ exposed' = FALSE
  /\ account' = [account EXCEPT !.revision = IF exposed THEN @ + 1 ELSE @]
  /\ drain' = [drain EXCEPT ![d].pc = "complete"]
  /\ UNCHANGED <<today, emitted, inbox, events, wakes, engine, inFlight, rerun, faults>>

(***************************************************************************)
(* complete(): one transaction for the event and the account.  A breach    *)
(* ends the drain, whatever is behind it in the stream.                    *)
(***************************************************************************)

Complete(d) ==
  LET n == drain[d].sequence
  IN  /\ drain[d].pc = "complete"
      /\ n = account.evaluated + 1
      /\ events' = [events EXCEPT ![n].state = IF @ = "RECEIVED" THEN drain[d].outcome ELSE @]
      /\ account' = [account EXCEPT !.evaluated = n]
      /\ drain' = [drain EXCEPT ![d].pc = IF drain[d].outcome = "BREACHED" THEN "settle"
                                          ELSE "account"]
      /\ UNCHANGED <<exposed, today, emitted, inbox, wakes, engine, inFlight, rerun, faults>>

\* A read, a transaction or the liquidation fails: #drain() rejects, and the
\* error is logged.
DrainFails(d) ==
  /\ drain[d].pc \notin {"none", "settle"}
  /\ "failure" \in Faults /\ faults < MaxFaults
  /\ faults' = faults + 1
  /\ drain' = [drain EXCEPT ![d].pc = "settle"]
  /\ UNCHANGED <<account, exposed, today, emitted, inbox, events, wakes, engine, inFlight, rerun>>

\* finally(): the entry goes, and a wake that came meanwhile is honoured.
Settle(d) ==
  LET ended == [drain EXCEPT ![d] = Ended]
  IN  /\ drain[d].pc = "settle"
      /\ IF rerun
           THEN drain' = [ended EXCEPT ![d].pc = "account"] /\ UNCHANGED inFlight
           ELSE drain' = ended /\ inFlight' = IF inFlight = d THEN NoDrain ELSE inFlight
      /\ rerun' = FALSE
      /\ UNCHANGED <<account, exposed, today, emitted, inbox, events, wakes, engine, faults>>

-----------------------------------------------------------------------------
\* The process dies; start() listens first, then drains what was left over.
Crash ==
  /\ engine # "down"
  /\ "crash" \in Faults /\ faults < MaxFaults
  /\ faults' = faults + 1
  /\ engine' = "down"
  /\ inbox' = {} /\ wakes' = {}
  /\ drain' = [d \in Drain |-> Ended]
  /\ inFlight' = NoDrain
  /\ rerun' = FALSE
  /\ UNCHANGED <<account, exposed, today, emitted, events>>

Listen ==
  /\ engine = "down"
  /\ engine' = "listening"
  /\ UNCHANGED <<account, exposed, today, emitted, inbox, events, wakes, drain, inFlight, rerun,
                 faults>>

Recover ==
  /\ engine = "listening"
  /\ engine' = "started"
  /\ IF \E i \in DOMAIN events : events[i].state = "RECEIVED"
       THEN ScheduleDrain
       ELSE UNCHANGED <<drain, inFlight, rerun>>
  /\ UNCHANGED <<account, exposed, today, emitted, inbox, events, wakes, faults>>

-----------------------------------------------------------------------------
\* What else happens to the account: positions, control operations, midnight.
Trade(open) ==
  /\ open => account.status = "ACTIVE"
  /\ account.revision < MaxRevisions
  /\ exposed' = open
  /\ account' = [account EXCEPT !.revision = @ + 1]
  /\ UNCHANGED <<today, emitted, inbox, events, engineVars, faults>>

ControlTarget(c) ==
  CASE c = "pause" -> "PAUSED" [] c = "resume" -> "ACTIVE" [] c = "disable" -> "DISABLED"

Control(c) ==
  /\ account.status \notin Restricted
  /\ account' = [account EXCEPT !.status = ControlTarget(c)]
  /\ UNCHANGED <<exposed, today, emitted, inbox, events, engineVars, faults>>

Midnight ==
  /\ today < MaxDays
  /\ today' = today + 1
  /\ UNCHANGED <<account, exposed, emitted, inbox, events, engineVars, faults>>

DrainStep(d) ==
  \/ ReadAccount(d) \/ ReadEvent(d) \/ NothingLeft(d)
  \/ BreachRestricts(d) \/ BreachLiquidates(d)
  \/ Complete(d) \/ Settle(d)

Next ==
  \/ \E e \in Equity : Emit(e)
  \/ \E v \in inbox : Ingest(v) \/ IngestStale(v) \/ IngestFails(v)
  \/ \E n \in wakes : Wake(n)
  \/ \E d \in Drain : DrainStep(d) \/ DrainFails(d)
  \/ Crash \/ Listen \/ Recover
  \/ \E open \in BOOLEAN : Trade(open)
  \/ \E c \in Controls : Control(c)
  \/ Midnight

Spec == Init /\ [][Next]_vars

\* The event loop runs what is ready, and a process that died is restarted.
Fairness ==
  /\ WF_vars(Listen \/ Recover)
  /\ WF_vars(\E n \in wakes : Wake(n))
  /\ \A d \in Drain : WF_vars(DrainStep(d))

FairSpec == Spec /\ Fairness

-----------------------------------------------------------------------------
(***************************************************************************)
(* The events evaluated are the first ones of the stream, as far as the    *)
(* account's lastEvaluatedRiskSequence says: a crash or a failure between  *)
(* two transactions neither skips an event nor evaluates one again.        *)
(***************************************************************************)
EvaluatedInOrder ==
  /\ account.evaluated <= Len(events)
  /\ \A i \in DOMAIN events : events[i].state = "RECEIVED" <=> i > account.evaluated

(***************************************************************************)
(* complete() is only called with the sequence that follows the last one:  *)
(* inFlight and rerun keep a second drain from completing the event under  *)
(* this one, so RISK_SEQUENCE_OUT_OF_ORDER is never raised.                *)
(***************************************************************************)
CompletionsInOrder ==
  \A d \in Drain :
    drain[d].pc \in {"restrict", "liquidate", "complete"} =>
      drain[d].sequence = account.evaluated + 1

(***************************************************************************)
(* The valuations of one day are judged against one baseline, whatever     *)
(* order they are ingested in around midnight and whatever crashes.        *)
(***************************************************************************)
OneBaselinePerDay ==
  \A i, j \in DOMAIN events :
    events[i].day = events[j].day => events[i].dailyStart = events[j].dailyStart

(***************************************************************************)
(* An event found to be a breach has taken the account's right to trade    *)
(* for good: it is BREACHED, or DISABLED already, even if a later          *)
(* valuation lies above the limit again.                                   *)
(***************************************************************************)
BreachEnforced ==
  \A i \in DOMAIN events : events[i].state = "BREACHED" => account.status \in Restricted

(***************************************************************************)
(* Once a breach is on record the account that it breached holds no        *)
(* position, unless a fault came between its restriction and the end of    *)
(* its liquidation: the replay then finds an account that is BREACHED and  *)
(* completes the event without closing anything.                           *)
(***************************************************************************)
BreachLeavesNoExposure ==
  (account.status = "BREACHED" /\ \E i \in DOMAIN events : events[i].state = "BREACHED")
    => \/ ~exposed
       \/ faults > 0

(***************************************************************************)
(* Every event of the stream is evaluated at some time.                    *)
(***************************************************************************)
EveryEventEvaluated ==
  \A n \in 1 .. (MaxValuations + MaxDays) :
    (n <= Len(events)) ~> (account.evaluated >= n)

(***************************************************************************)
(* ... and in a process that neither fails nor restarts the drains catch   *)
(* up with the stream once no more comes: no wake is lost between a drain  *)
(* that finds nothing left and its finally().                              *)
(***************************************************************************)
DrainsCatchUp ==
  (account.evaluated < Len(events)) ~> (account.evaluated = Len(events) \/ faults > 0)

\* The stream is evaluated in its order, by one drain at a time
\* (challenge-risk-engine.js, risk-stream.service.js).
StreamIsOrdered == TypeOK /\ EvaluatedInOrder /\ CompletionsInOrder
=============================================================================
