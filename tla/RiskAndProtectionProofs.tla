----------------------- MODULE RiskAndProtectionProofs -----------------------
(***************************************************************************)
(* Proofs about RiskStream, for any number of valuations, days, crashes    *)
(* and failures, and about PositionProtection, for any positions, prices,  *)
(* distance and number of faults.                                          *)
(*                                                                         *)
(* The argument for the stream: inFlight names the only drain there is, so *)
(* nothing moves the end of the evaluated events under it; and a baseline  *)
(* changes only on a day that no event has yet.                            *)
(*                                                                         *)
(* The argument for protection: a command, a close and an advance each     *)
(* replace the document of one position.  The lemma DocumentChanges says   *)
(* which replacements keep the invariant, and each action is one of them.  *)
(***************************************************************************)
EXTENDS RiskStream, PositionProtection, SequenceTheorems, TLAPS

AccountState ==
  [status : {"ACTIVE", "PAUSED"} \cup Restricted, revision : Nat,
   riskDay : Nat, dailyStart : Nat, evaluated : Nat]

Reading == {"event", "restrict", "liquidate", "complete"}

\* inFlight names the drain that runs, if one does.
OneDrain == \A d \in Drain : drain[d].pc # "none" => inFlight = d

\* What a drain has read is the next event to evaluate.
DrainAtHead ==
  \A d \in Drain :
    /\ drain[d].pc \in Reading => drain[d].sequence = account.evaluated + 1
    /\ drain[d].pc \in Reading \ {"event"} => drain[d].sequence \in DOMAIN events

\* The account is at a day that has come, its events at days it has been at,
\* and those of its own day have its own baseline.
DaysInOrder ==
  /\ account.riskDay <= today
  /\ \A i \in DOMAIN events :
       /\ events[i].day <= account.riskDay
       /\ events[i].day = account.riskDay => events[i].dailyStart = account.dailyStart

StreamInv ==
  /\ TypeOK
  /\ EvaluatedInOrder
  /\ OneDrain
  /\ DrainAtHead
  /\ DaysInOrder
  /\ OneBaselinePerDay

LEMMA InitStreamInv == Init => StreamInv
<1> SUFFICES ASSUME Init PROVE StreamInv
  OBVIOUS
<1>1. \A d \in Drain : drain[d] = Ended
  BY DEF Init
<1>2. TypeOK
  <2>1. Ended \in DrainState
    BY DEF Ended, DrainState
  <2>2. drain \in [Drain -> DrainState]
    BY <2>1 DEF Init
  <2>3. account \in AccountState
    BY RiskConstants DEF Init, AccountState
  <2>4. events \in Seq(RiskEvent)
    BY DEF Init
  <2> QED  BY <2>2, <2>3, <2>4 DEF Init, TypeOK, AccountState
<1>3. EvaluatedInOrder /\ DaysInOrder /\ OneBaselinePerDay
  BY DEF Init, EvaluatedInOrder, DaysInOrder, OneBaselinePerDay
<1>4. OneDrain /\ DrainAtHead
  BY <1>1 DEF OneDrain, DrainAtHead, Ended, Reading
<1> QED
  BY <1>2, <1>3, <1>4 DEF StreamInv

-----------------------------------------------------------------------------
(* A step that leaves the stream and the drains alone, and of the account  *)
(* changes the status and the financial revision at most.                  *)
LEMMA StreamUntouched ==
  ASSUME StreamInv, TypeOK', UNCHANGED <<events, drain, inFlight>>, today' \in {today, today + 1},
         account'.riskDay = account.riskDay, account'.dailyStart = account.dailyStart,
         account'.evaluated = account.evaluated
  PROVE  StreamInv'
<1>1. EvaluatedInOrder' /\ OneBaselinePerDay'
  BY DEF StreamInv, EvaluatedInOrder, OneBaselinePerDay
<1>2. OneDrain' /\ DrainAtHead'
  BY DEF StreamInv, OneDrain, DrainAtHead
<1>3. DaysInOrder'
  BY DEF StreamInv, TypeOK, DaysInOrder
<1> QED
  BY <1>1, <1>2, <1>3 DEF StreamInv

(* What an ingestion appends: one or two events of today with the baseline *)
(* of the account as it is afterwards.                                     *)
LEMMA AppendedEvents ==
  ASSUME TypeOK, NEW v \in Valuation, AppendEvents(v)
  PROVE  /\ events' \in Seq(RiskEvent)
         /\ Len(events) <= Len(events')
         /\ \A i \in DOMAIN events : events'[i] = events[i]
         /\ \A i \in DOMAIN events' \ DOMAIN events :
              /\ events'[i].state = "RECEIVED"
              /\ events'[i].day = today
              /\ events'[i].dailyStart = Baseline(v)
<1> DEFINE first == IF NewDay THEN <<Event("RISK_DAY_ROLLOVER", v)>> ELSE <<>>
           last == <<Event("VALUATION", v)>>
<1>1. Event("RISK_DAY_ROLLOVER", v) \in RiskEvent /\ Event("VALUATION", v) \in RiskEvent
  BY RiskConstants DEF TypeOK, Event, Baseline, Valuation, RiskEvent
<1>2. first \in Seq(RiskEvent) /\ last \in Seq(RiskEvent)
  BY <1>1
<1>3. /\ \A i \in DOMAIN first : first[i] = Event("RISK_DAY_ROLLOVER", v)
      /\ \A i \in DOMAIN last : last[i] = Event("VALUATION", v)
  OBVIOUS
<1>4. events \in Seq(RiskEvent) /\ events' = (events \o first) \o last
  BY DEF TypeOK, AppendEvents
<1>5. /\ events \o first \in Seq(RiskEvent)
      /\ Len(events \o first) = Len(events) + Len(first)
      /\ \A i \in 1 .. Len(events) + Len(first) :
           (events \o first)[i] = IF i <= Len(events) THEN events[i] ELSE first[i - Len(events)]
  <2> HIDE DEF first
  <2> QED  BY <1>2, <1>4, ConcatProperties
<1>6. /\ events' \in Seq(RiskEvent)
      /\ Len(events') = Len(events) + Len(first) + Len(last)
      /\ \A i \in 1 .. Len(events) + Len(first) + Len(last) :
           events'[i] = IF i <= Len(events) + Len(first) THEN (events \o first)[i]
                        ELSE last[i - (Len(events) + Len(first))]
  <2> HIDE DEF first, last
  <2> QED  BY <1>2, <1>4, <1>5, ConcatProperties
<1>7. Len(first) \in Nat /\ Len(last) \in Nat /\ Len(events) \in Nat
  BY <1>2, <1>4
<1>8. \A i \in DOMAIN events : events'[i] = events[i]
  <2> HIDE DEF first, last
  <2> QED  BY <1>4, <1>5, <1>6, <1>7
<1>9. \A i \in DOMAIN events' \ DOMAIN events :
        events'[i] \in {Event("RISK_DAY_ROLLOVER", v), Event("VALUATION", v)}
  <2> HIDE DEF first, last
  <2> SUFFICES ASSUME NEW i \in DOMAIN events' \ DOMAIN events
               PROVE  events'[i] \in {Event("RISK_DAY_ROLLOVER", v), Event("VALUATION", v)}
    OBVIOUS
  <2>0. i \in 1 .. Len(events) + Len(first) + Len(last) /\ i > Len(events)
    BY <1>4, <1>6, <1>7
  <2>1. CASE i <= Len(events) + Len(first)
    <3>1. i - Len(events) \in DOMAIN first
      BY <1>2, <1>7, <2>0, <2>1
    <3> QED  BY <1>3, <1>5, <1>6, <1>7, <2>0, <2>1, <3>1
  <2>2. CASE i > Len(events) + Len(first)
    <3>1. i - (Len(events) + Len(first)) \in DOMAIN last
      BY <1>2, <1>7, <2>0, <2>2
    <3> QED  BY <1>3, <1>6, <1>7, <2>0, <2>2, <3>1
  <2> QED  BY <1>7, <2>0, <2>1, <2>2
<1>10. Len(events) <= Len(events')
  BY <1>6, <1>7
<1> HIDE DEF first, last
<1> QED
  BY <1>6, <1>8, <1>9, <1>10 DEF Event

(* An ingestion that commits, whatever comes of its answer.                *)
LEMMA AppendKeepsStream ==
  ASSUME StreamInv, TypeOK', NEW v \in Valuation, AppendEvents(v),
         UNCHANGED <<today, drain, inFlight>>
  PROVE  StreamInv'
<1>0. TypeOK /\ DaysInOrder /\ account \in AccountState /\ today \in Nat
  BY DEF StreamInv, TypeOK, AccountState
<1>1. /\ events' \in Seq(RiskEvent)
      /\ Len(events) <= Len(events')
      /\ \A i \in DOMAIN events : events'[i] = events[i]
      /\ \A i \in DOMAIN events' \ DOMAIN events :
           events'[i].state = "RECEIVED" /\ events'[i].day = today
           /\ events'[i].dailyStart = Baseline(v)
  BY <1>0, AppendedEvents
<1>2. /\ account'.riskDay = today /\ account'.dailyStart = Baseline(v)
      /\ account'.evaluated = account.evaluated
  BY <1>0 DEF AppendEvents, Rollover, AccountState
<1>3. events \in Seq(RiskEvent) /\ Len(events) \in Nat /\ Len(events') \in Nat
      /\ DOMAIN events = 1 .. Len(events) /\ DOMAIN events' = 1 .. Len(events')
  BY <1>0, <1>1 DEF TypeOK
<1>4. EvaluatedInOrder'
  BY <1>0, <1>1, <1>2, <1>3 DEF StreamInv, EvaluatedInOrder, AccountState
<1>5. OneDrain' /\ DrainAtHead'
  BY <1>2, <1>3, <1>1 DEF StreamInv, OneDrain, DrainAtHead
<1>6. \A i \in DOMAIN events : events[i].day \in Nat
  <2>1. \A i \in 1 .. Len(events) : events[i] \in RiskEvent
    BY <1>3, ElementOfSeq
  <2> QED  BY <1>3, <2>1 DEF RiskEvent
<1>7. \A i \in DOMAIN events : events[i].day = today => events[i].dailyStart = Baseline(v)
  BY <1>0, <1>6 DEF DaysInOrder, Baseline, NewDay, AccountState
<1>8. \A i \in DOMAIN events' :
        events'[i].day <= today /\ (events'[i].day = today => events'[i].dailyStart = Baseline(v))
  <2> SUFFICES ASSUME NEW i \in DOMAIN events'
               PROVE  events'[i].day <= today
                      /\ (events'[i].day = today => events'[i].dailyStart = Baseline(v))
    OBVIOUS
  <2>1. CASE i \in DOMAIN events
    BY <1>0, <1>1, <1>6, <1>7, <2>1 DEF DaysInOrder, AccountState
  <2>2. CASE i \notin DOMAIN events
    BY <1>0, <1>1, <2>2
  <2> QED  BY <2>1, <2>2
<1>9. DaysInOrder'
  BY <1>0, <1>2, <1>8 DEF DaysInOrder
<1>10. OneBaselinePerDay'
  <2> SUFFICES ASSUME NEW i \in DOMAIN events', NEW j \in DOMAIN events',
                      events'[i].day = events'[j].day
               PROVE  events'[i].dailyStart = events'[j].dailyStart
    BY DEF OneBaselinePerDay
  <2>1. CASE events'[i].day = today
    BY <1>8, <2>1
  <2>2. CASE events'[i].day # today
    <3>1. i \in DOMAIN events /\ j \in DOMAIN events
      BY <1>1, <2>2
    <3> QED  BY <1>1, <3>1 DEF StreamInv, OneBaselinePerDay
  <2> QED  BY <2>1, <2>2
<1> QED
  BY <1>4, <1>5, <1>9, <1>10 DEF StreamInv

-----------------------------------------------------------------------------
LEMMA EndedType == Ended \in DrainState /\ Ended.pc = "none"
BY DEF Ended, DrainState

(* #scheduleDrain() keeps to one drain, which has read nothing yet.        *)
LEMMA ScheduleKeepsDrains ==
  ASSUME StreamInv, ScheduleDrain, UNCHANGED <<account, events>>
  PROVE  /\ drain' \in [Drain -> DrainState] /\ inFlight' \in Drain \cup {NoDrain}
         /\ rerun' \in BOOLEAN
         /\ OneDrain' /\ DrainAtHead'
<1>0. TypeOK /\ OneDrain /\ DrainAtHead /\ NoDrain \notin Drain
  BY RiskConstants DEF StreamInv
<1>1. CASE inFlight = NoDrain
  <2>1. PICK d \in Drain : StartDrain(d) /\ UNCHANGED rerun
    BY <1>1 DEF ScheduleDrain
  <2> DEFINE start == [Ended EXCEPT !.pc = "account"]
  <2>2. start \in DrainState /\ start.pc = "account"
    BY EndedType DEF DrainState
  <2>3. drain' = [drain EXCEPT ![d] = start] /\ inFlight' = d
    BY <2>1 DEF StartDrain
  <2> HIDE DEF start
  <2>4. \A x \in Drain : drain'[x] = IF x = d THEN start ELSE drain[x]
    BY <1>0, <2>3 DEF TypeOK
  <2>5. \A x \in Drain : drain[x].pc = "none"
    BY <1>0, <1>1 DEF OneDrain
  <2>6. OneDrain' /\ DrainAtHead'
    BY <2>2, <2>3, <2>4, <2>5 DEF OneDrain, DrainAtHead, Reading
  <2> QED  BY <1>0, <2>1, <2>2, <2>3, <2>6 DEF TypeOK
<1>2. CASE inFlight # NoDrain
  BY <1>0, <1>2 DEF ScheduleDrain, TypeOK, OneDrain, DrainAtHead
<1> QED
  BY <1>1, <1>2

(* A drain moves on, and the end of the evaluated events stays.            *)
LEMMA DrainMoves ==
  ASSUME StreamInv, NEW d \in Drain, NEW s \in DrainState,
         drain[d].pc # "none", drain' = [drain EXCEPT ![d] = s],
         s.pc \in Reading => s.sequence = account'.evaluated + 1,
         s.pc \in Reading \ {"event"} => s.sequence \in DOMAIN events',
         inFlight' = inFlight
  PROVE  /\ drain' \in [Drain -> DrainState]
         /\ OneDrain' /\ DrainAtHead'
<1>1. \A x \in Drain : drain'[x] = IF x = d THEN s ELSE drain[x]
  BY DEF StreamInv, TypeOK
<1>2. \A x \in Drain : x # d => drain[x].pc = "none"
  BY DEF StreamInv, OneDrain
<1>3. drain' \in [Drain -> DrainState]
  BY DEF StreamInv, TypeOK
<1> QED
  BY <1>1, <1>2, <1>3 DEF StreamInv, OneDrain, DrainAtHead, Reading

(* Events and account as they were, but for the status and the revision.   *)
LEMMA EventsKept ==
  ASSUME StreamInv, TypeOK', UNCHANGED <<events, today>>,
         account'.riskDay = account.riskDay, account'.dailyStart = account.dailyStart,
         account'.evaluated = account.evaluated,
         OneDrain', DrainAtHead'
  PROVE  StreamInv'
BY DEF StreamInv, EvaluatedInOrder, OneBaselinePerDay, DaysInOrder

-----------------------------------------------------------------------------
LEMMA EnvironmentKeepsStream ==
  ASSUME StreamInv,
         \/ \E e \in Equity : Emit(e)
         \/ \E v \in inbox : IngestStale(v)
         \/ Listen
         \/ \E open \in BOOLEAN : Trade(open)
         \/ \E c \in Controls : Control(c)
         \/ Midnight
  PROVE  StreamInv'
<1> USE DEF engineVars
<1>0. TypeOK /\ account \in AccountState /\ today \in Nat
  BY DEF StreamInv, TypeOK, AccountState
<1>1. ASSUME NEW e \in Equity, Emit(e) PROVE StreamInv'
  <2>1. inbox' \subseteq Valuation /\ emitted' \in Nat
    BY <1>0, <1>1 DEF Emit, TypeOK, Valuation, AccountState
  <2>2. TypeOK'
    BY <1>0, <1>1, <2>1 DEF Emit, TypeOK
  <2> QED  BY <1>1, <2>2, StreamUntouched DEF Emit
<1>2. ASSUME NEW v \in inbox, IngestStale(v) PROVE StreamInv'
  <2>1. TypeOK'
    BY <1>0, <1>2 DEF IngestStale, TypeOK
  <2> QED  BY <1>2, <2>1, StreamUntouched DEF IngestStale
<1>3. ASSUME Listen PROVE StreamInv'
  <2>1. TypeOK'
    BY <1>0, <1>3 DEF Listen, TypeOK
  <2> QED  BY <1>3, <2>1, StreamUntouched DEF Listen
<1>4. ASSUME NEW open \in BOOLEAN, Trade(open) PROVE StreamInv'
  <2>1. /\ account' \in AccountState /\ account'.riskDay = account.riskDay
        /\ account'.dailyStart = account.dailyStart /\ account'.evaluated = account.evaluated
    BY <1>0, <1>4 DEF Trade, AccountState
  <2>2. TypeOK'
    BY <1>0, <1>4, <2>1 DEF Trade, TypeOK, AccountState
  <2> QED  BY <1>4, <2>1, <2>2, StreamUntouched DEF Trade
<1>5. ASSUME NEW c \in Controls, Control(c) PROVE StreamInv'
  <2>1. ControlTarget(c) \in {"ACTIVE", "PAUSED", "DISABLED"}
    BY RiskConstants DEF ControlTarget
  <2>2. /\ account' \in AccountState /\ account'.riskDay = account.riskDay
        /\ account'.dailyStart = account.dailyStart /\ account'.evaluated = account.evaluated
    BY <1>0, <1>5, <2>1 DEF Control, AccountState, Restricted
  <2>3. TypeOK'
    BY <1>0, <1>5, <2>2 DEF Control, TypeOK, AccountState
  <2> QED  BY <1>5, <2>2, <2>3, StreamUntouched DEF Control
<1>6. ASSUME Midnight PROVE StreamInv'
  <2>1. TypeOK'
    BY <1>0, <1>6 DEF Midnight, TypeOK
  <2> QED  BY <1>6, <2>1, StreamUntouched DEF Midnight
<1> QED
  BY <1>1, <1>2, <1>3, <1>4, <1>5, <1>6

LEMMA IngestionKeepsStream ==
  ASSUME StreamInv, NEW v \in inbox, Ingest(v) \/ IngestFails(v)
  PROVE  StreamInv'
<1> USE DEF engineVars
<1>0. TypeOK /\ account \in AccountState /\ today \in Nat /\ v \in Valuation
  BY DEF StreamInv, TypeOK, AccountState
<1>1. ASSUME AppendEvents(v) PROVE account' \in AccountState /\ events' \in Seq(RiskEvent)
  BY <1>0, <1>1, AppendedEvents, RiskConstants
     DEF AppendEvents, Rollover, Baseline, Valuation, AccountState
<1>2. CASE Ingest(v)
  <2>1. wakes' \subseteq Nat
    BY <1>0, <1>2 DEF Ingest, TypeOK, Valuation
  <2>2. TypeOK'
    BY <1>0, <1>1, <1>2, <2>1 DEF Ingest, TypeOK, AccountState
  <2> QED  BY <1>0, <1>2, <2>2, AppendKeepsStream DEF Ingest
<1>3. CASE IngestFails(v)
  <2>1. account' \in AccountState /\ events' \in Seq(RiskEvent)
    BY <1>0, <1>1, <1>3 DEF IngestFails, TypeOK
  <2>2. TypeOK'
    BY <1>0, <1>3, <2>1 DEF IngestFails, TypeOK, AccountState
  <2>3. CASE AppendEvents(v)
    BY <1>0, <1>3, <2>2, <2>3, AppendKeepsStream DEF IngestFails
  <2>4. CASE UNCHANGED <<account, events>>
    BY <1>3, <2>2, <2>4, StreamUntouched DEF IngestFails
  <2> QED  BY <1>3, <2>3, <2>4 DEF IngestFails
<1> QED
  BY <1>2, <1>3

LEMMA WakesAndCrashesKeepStream ==
  ASSUME StreamInv, (\E n \in wakes : Wake(n)) \/ Crash \/ Recover
  PROVE  StreamInv'
<1>0. TypeOK
  BY DEF StreamInv
<1>1. ASSUME NEW n \in wakes, Wake(n) PROVE StreamInv'
  <2>1. /\ drain' \in [Drain -> DrainState] /\ inFlight' \in Drain \cup {NoDrain}
        /\ rerun' \in BOOLEAN /\ OneDrain' /\ DrainAtHead'
    BY <1>1, ScheduleKeepsDrains DEF Wake
  <2>2. TypeOK'
    BY <1>0, <1>1, <2>1 DEF Wake, TypeOK
  <2> QED  BY <1>1, <2>1, <2>2, EventsKept DEF Wake
<1>2. ASSUME Recover PROVE StreamInv'
  <2>1. /\ drain' \in [Drain -> DrainState] /\ inFlight' \in Drain \cup {NoDrain}
        /\ rerun' \in BOOLEAN /\ OneDrain' /\ DrainAtHead'
    <3>1. CASE ScheduleDrain
      BY <1>2, <3>1, ScheduleKeepsDrains DEF Recover
    <3>2. CASE UNCHANGED <<drain, inFlight, rerun>>
      BY <1>2, <3>2 DEF Recover, StreamInv, TypeOK, OneDrain, DrainAtHead
    <3> QED  BY <1>2, <3>1, <3>2 DEF Recover
  <2>2. TypeOK'
    BY <1>0, <1>2, <2>1 DEF Recover, TypeOK
  <2> QED  BY <1>2, <2>1, <2>2, EventsKept DEF Recover
<1>3. ASSUME Crash PROVE StreamInv'
  <2>1. \A d \in Drain : drain'[d].pc = "none"
    BY <1>3, EndedType DEF Crash
  <2>2. OneDrain' /\ DrainAtHead'
    BY <2>1 DEF OneDrain, DrainAtHead, Reading
  <2>3. drain' \in [Drain -> DrainState]
    BY <1>3, EndedType DEF Crash
  <2>4. engine' = "down" /\ inbox' = {} /\ wakes' = {} /\ inFlight' = NoDrain /\ rerun' = FALSE
        /\ faults' = faults + 1 /\ UNCHANGED <<account, exposed, today, emitted, events>>
    BY <1>3 DEF Crash
  <2>5. engine' \in {"down", "listening", "started"} /\ inbox' \subseteq Valuation
        /\ wakes' \subseteq Nat /\ rerun' \in BOOLEAN /\ inFlight' \in Drain \cup {NoDrain}
    BY <2>4
  <2>6. faults' \in Nat
    BY <1>0, <2>4 DEF TypeOK
  <2>7. TypeOK'
    BY <1>0, <2>3, <2>4, <2>5, <2>6, Zenon DEF TypeOK
  <2> QED  BY <2>2, <2>4, <2>7, EventsKept
<1> QED
  BY <1>1, <1>2, <1>3

-----------------------------------------------------------------------------
(* What a drain keeps of the account it has read.                          *)
AtEvent(s, status, n) == [s EXCEPT !.pc = "event", !.status = status, !.sequence = n]

LEMMA AtEventType ==
  ASSUME NEW s \in DrainState, NEW status \in {"ACTIVE", "PAUSED"} \cup Restricted, NEW n \in Nat
  PROVE  /\ AtEvent(s, status, n) \in DrainState
         /\ AtEvent(s, status, n).pc = "event" /\ AtEvent(s, status, n).sequence = n
BY DEF DrainState, AtEvent

(* A drain reads, calls breach(), fails or comes to its end.               *)
LEMMA DrainKeepsEvents ==
  ASSUME StreamInv, NEW d \in Drain,
         \/ ReadAccount(d) \/ ReadEvent(d) \/ NothingLeft(d)
         \/ BreachRestricts(d) \/ BreachLiquidates(d) \/ DrainFails(d) \/ Settle(d)
  PROVE  StreamInv'
<1>0. /\ TypeOK /\ OneDrain /\ DrainAtHead
      /\ account \in AccountState /\ drain[d] \in DrainState /\ drain \in [Drain -> DrainState]
  BY DEF StreamInv, TypeOK, AccountState
<1> DEFINE Moved(s) == /\ drain' = [drain EXCEPT ![d] = s]
                       /\ drain[d].pc # "none" /\ s \in DrainState
                       /\ s.pc \in Reading => s.sequence = account.evaluated + 1
                       /\ s.pc \in Reading \ {"event"} => s.sequence \in DOMAIN events
<1>1. ASSUME NEW s, Moved(s), UNCHANGED <<events, today, inFlight>>, account' \in AccountState,
             account'.riskDay = account.riskDay, account'.dailyStart = account.dailyStart,
             account'.evaluated = account.evaluated,
             exposed' \in BOOLEAN, faults' \in Nat, rerun' \in BOOLEAN,
             UNCHANGED <<emitted, inbox, wakes, engine>>
      PROVE  StreamInv'
  <2>1. drain' \in [Drain -> DrainState] /\ OneDrain' /\ DrainAtHead'
    BY <1>1, DrainMoves
  <2>2. TypeOK'
    BY <1>0, <1>1, <2>1 DEF TypeOK, AccountState
  <2> QED  BY <1>1, <2>1, <2>2, EventsKept
<1>2. CASE ReadAccount(d)
  <2> DEFINE s == AtEvent(drain[d], account.status, account.evaluated + 1)
  <2>0. account.status \in {"ACTIVE", "PAUSED"} \cup Restricted /\ account.evaluated + 1 \in Nat
    BY <1>0 DEF AccountState
  <2>1. s \in DrainState /\ s.pc = "event" /\ s.sequence = account.evaluated + 1
    <3> DEFINE n == account.evaluated + 1
               status == account.status
    <3>1. drain[d] \in DrainState /\ status \in {"ACTIVE", "PAUSED"} \cup Restricted /\ n \in Nat
      BY <1>0, <2>0
    <3>2. s = AtEvent(drain[d], status, n)
      OBVIOUS
    <3> HIDE DEF n, status, s
    <3>3. s \in DrainState /\ s.pc = "event" /\ s.sequence = n
      BY <3>1, <3>2, AtEventType
    <3> QED
      BY <3>3 DEF n
  <2>2. drain' = [drain EXCEPT ![d] = s]
    BY <1>0, <1>2 DEF ReadAccount, AtEvent
  <2> HIDE DEF s
  <2>3. Moved(s)
    BY <1>2, <2>1, <2>2 DEF ReadAccount
  <2> QED  BY <1>0, <1>1, <1>2, <2>3 DEF ReadAccount, TypeOK
<1>3. CASE ReadEvent(d)
  <2> DEFINE n == drain[d].sequence
             s == [drain[d] EXCEPT
                    !.pc = IF NeedsControl(events[n], drain[d].status) THEN "restrict" ELSE "complete",
                    !.outcome = IF Breached(events[n]) THEN "BREACHED" ELSE "EVALUATED"]
  <2>1. s \in DrainState /\ s.pc \in {"restrict", "complete"} /\ s.sequence = drain[d].sequence
    BY <1>0 DEF DrainState
  <2>2. drain' = [drain EXCEPT ![d] = s]
    BY <1>0, <1>3 DEF ReadEvent
  <2> HIDE DEF s
  <2>3. Moved(s)
    BY <1>0, <1>3, <2>1, <2>2 DEF ReadEvent, DrainAtHead, Reading
  <2> QED  BY <1>0, <1>1, <1>3, <2>3 DEF ReadEvent, TypeOK
<1>4. CASE NothingLeft(d) \/ DrainFails(d)
  <2> DEFINE s == [drain[d] EXCEPT !.pc = "settle"]
  <2>1. s \in DrainState /\ s.pc = "settle"
    BY <1>0 DEF DrainState
  <2>2. drain' = [drain EXCEPT ![d] = s]
    BY <1>0, <1>4 DEF NothingLeft, DrainFails
  <2> HIDE DEF s
  <2>3. Moved(s)
    BY <1>4, <2>1, <2>2 DEF NothingLeft, DrainFails, Reading
  <2>4. /\ UNCHANGED <<events, today, inFlight>> /\ UNCHANGED <<emitted, inbox, wakes, engine>>
        /\ UNCHANGED account /\ exposed' \in BOOLEAN /\ faults' \in Nat /\ rerun' \in BOOLEAN
    BY <1>0, <1>4 DEF NothingLeft, DrainFails, TypeOK
  <2> HIDE DEF Moved
  <2> QED  BY <1>0, <1>1, <2>3, <2>4
<1>5. CASE BreachRestricts(d) \/ BreachLiquidates(d)
  <2> DEFINE s == [drain[d] EXCEPT !.pc = IF @ = "restrict" THEN "liquidate" ELSE "complete"]
  <2>1. s \in DrainState /\ s.pc \in {"liquidate", "complete"} /\ s.sequence = drain[d].sequence
    BY <1>0 DEF DrainState
  <2>2. drain' = [drain EXCEPT ![d] = s]
    BY <1>0, <1>5 DEF BreachRestricts, BreachLiquidates
  <2> HIDE DEF s
  <2>3. Moved(s)
    BY <1>0, <1>5, <2>1, <2>2 DEF BreachRestricts, BreachLiquidates, DrainAtHead, Reading
  <2>4. /\ account' \in AccountState /\ account'.riskDay = account.riskDay
        /\ account'.dailyStart = account.dailyStart /\ account'.evaluated = account.evaluated
    BY <1>0, <1>5 DEF BreachRestricts, BreachLiquidates, AccountState, Restricted
  <2>5. /\ UNCHANGED <<events, today, inFlight>> /\ UNCHANGED <<emitted, inbox, wakes, engine>>
        /\ exposed' \in BOOLEAN /\ faults' \in Nat /\ rerun' \in BOOLEAN
    BY <1>0, <1>5 DEF BreachRestricts, BreachLiquidates, TypeOK
  <2> HIDE DEF Moved
  <2> QED  BY <1>1, <2>3, <2>4, <2>5
<1>6. CASE Settle(d) /\ rerun
  <2> DEFINE s == [Ended EXCEPT !.pc = "account"]
  <2>1. s \in DrainState /\ s.pc = "account"
    BY EndedType DEF DrainState
  <2>2. drain' = [drain EXCEPT ![d] = s]
    BY <1>0, <1>6 DEF Settle, Ended
  <2> HIDE DEF s
  <2>3. Moved(s)
    BY <1>6, <2>1, <2>2 DEF Settle, Reading
  <2> QED  BY <1>0, <1>1, <1>6, <2>3 DEF Settle, TypeOK
<1>7. CASE Settle(d) /\ ~rerun
  <2>1. drain' = [drain EXCEPT ![d] = Ended] /\ inFlight' \in {NoDrain, inFlight}
    BY <1>0, <1>7 DEF Settle
  <2>2. \A x \in Drain : drain'[x].pc = "none"
    BY <1>0, <1>7, <2>1, EndedType DEF Settle, OneDrain
  <2>3. OneDrain' /\ DrainAtHead'
    BY <2>2 DEF OneDrain, DrainAtHead, Reading
  <2>4. drain' \in [Drain -> DrainState]
    BY <1>0, <2>1, EndedType
  <2>5. TypeOK'
    BY <1>0, <1>7, <2>1, <2>4 DEF Settle, TypeOK
  <2> QED  BY <1>7, <2>3, <2>5, EventsKept DEF Settle
<1> QED
  BY <1>2, <1>3, <1>4, <1>5, <1>6, <1>7

(* complete() moves the end of the evaluated events by the event it marks. *)
LEMMA CompleteKeepsStream ==
  ASSUME StreamInv, NEW d \in Drain, Complete(d)
  PROVE  StreamInv'
<1> DEFINE n == drain[d].sequence
           s == [drain[d] EXCEPT !.pc = IF drain[d].outcome = "BREACHED" THEN "settle" ELSE "account"]
           e == [events[n] EXCEPT !.state = IF @ = "RECEIVED" THEN drain[d].outcome ELSE @]
<1>0. /\ TypeOK /\ OneDrain /\ DrainAtHead /\ EvaluatedInOrder
      /\ account \in AccountState /\ drain[d] \in DrainState
      /\ drain \in [Drain -> DrainState] /\ events \in Seq(RiskEvent)
  BY DEF StreamInv, TypeOK, AccountState
<1>1. n = account.evaluated + 1 /\ n \in DOMAIN events /\ n \in Nat
  BY <1>0 DEF Complete, DrainAtHead, Reading, AccountState
<1>2. events[n] \in RiskEvent
  BY <1>0, <1>1, ElementOfSeq
<1>3. /\ e \in RiskEvent /\ e.state \in {"EVALUATED", "BREACHED"}
      /\ e.day = events[n].day /\ e.dailyStart = events[n].dailyStart
  BY <1>0, <1>2 DEF RiskEvent, DrainState
<1>4. s \in DrainState /\ s.pc \in {"settle", "account"}
  BY <1>0 DEF DrainState
<1>5. events' = [events EXCEPT ![n] = e] /\ drain' = [drain EXCEPT ![d] = s]
  BY <1>0, <1>1 DEF Complete
<1> HIDE DEF n, s, e
<1>6. /\ DOMAIN events' = DOMAIN events /\ Len(events') = Len(events)
      /\ events' \in Seq(RiskEvent)
      /\ \A i \in DOMAIN events : events'[i] = IF i = n THEN e ELSE events[i]
  BY <1>0, <1>1, <1>3, <1>5
<1>7. /\ account' \in AccountState /\ account'.evaluated = n
      /\ account'.riskDay = account.riskDay /\ account'.dailyStart = account.dailyStart
  BY <1>0, <1>1 DEF Complete, AccountState, n
<1>8. drain' \in [Drain -> DrainState] /\ OneDrain' /\ DrainAtHead'
  BY <1>4, <1>5, DrainMoves DEF Complete, Reading
<1>9. TypeOK'
  BY <1>0, <1>6, <1>7, <1>8 DEF Complete, TypeOK, AccountState
<1>10. EvaluatedInOrder'
  <2>1. DOMAIN events = 1 .. Len(events) /\ Len(events) \in Nat
    BY <1>0
  <2> QED  BY <1>0, <1>1, <1>3, <1>6, <1>7, <2>1 DEF EvaluatedInOrder, AccountState
<1>11. \A i \in DOMAIN events :
         events'[i].day = events[i].day /\ events'[i].dailyStart = events[i].dailyStart
  BY <1>3, <1>6
<1>12. OneBaselinePerDay' /\ DaysInOrder'
  BY <1>6, <1>7, <1>11 DEF StreamInv, OneBaselinePerDay, DaysInOrder, Complete
<1> QED
  BY <1>8, <1>9, <1>10, <1>12 DEF StreamInv

(* The bookkeeping of the stream, for any valuations, days and faults.     *)
THEOREM StreamInvariant == Spec => []StreamInv
<1>1. ASSUME StreamInv, [Next]_vars PROVE StreamInv'
  <2>1. CASE Next
    BY <1>1, <2>1, EnvironmentKeepsStream, IngestionKeepsStream, WakesAndCrashesKeepStream,
       DrainKeepsEvents, CompleteKeepsStream DEF Next, DrainStep
  <2>2. CASE UNCHANGED vars
    BY <1>1, <2>2, StreamUntouched DEF vars, StreamInv, TypeOK
  <2> QED  BY <1>1, <2>1, <2>2
<1> QED
  BY <1>1, InitStreamInv, PTL DEF Spec

(* The events evaluated are the first of the stream, and complete() is     *)
(* called for the one that comes after them.                               *)
THEOREM EvaluationIsInOrder == Spec => []StreamIsOrdered
<1>1. StreamInv => StreamIsOrdered
  BY DEF StreamInv, DrainAtHead, Reading, CompletionsInOrder, StreamIsOrdered
<1> QED
  BY <1>1, StreamInvariant, PTL

(* The valuations of a day are judged against one baseline.                *)
THEOREM OneBaselinePerDayTheorem == Spec => []OneBaselinePerDay
<1>1. StreamInv => OneBaselinePerDay
  BY DEF StreamInv
<1> QED
  BY <1>1, StreamInvariant, PTL

-----------------------------------------------------------------------------
(***************************************************************************)
(* A breach is enforced if nobody pauses the account: then an account read *)
(* as not active is restricted, and stays so.                              *)
(***************************************************************************)
Enforcing(d) ==
  /\ drain[d].pc \in Reading =>
       drain[d].status # "PAUSED" /\ (drain[d].status \in Restricted => account.status \in Restricted)
  /\ drain[d].pc = "liquidate" => account.status \in Restricted
  /\ drain[d].pc = "complete" /\ drain[d].outcome = "BREACHED" => account.status \in Restricted

EnforceInv ==
  /\ account.status # "PAUSED"
  /\ \A d \in Drain : Enforcing(d)
  /\ BreachEnforced

LEMMA InitEnforceInv == Init => EnforceInv
<1> SUFFICES ASSUME Init PROVE EnforceInv
  OBVIOUS
<1>1. \A d \in Drain : Enforcing(d)
  BY EndedType DEF Init, Enforcing, Reading
<1> QED
  BY <1>1 DEF Init, EnforceInv, BreachEnforced

(* Nothing but pause() pauses, and nothing lifts a restriction.            *)
LEMMA RestrictionStays ==
  ASSUME "pause" \notin Controls, StreamInv, account.status # "PAUSED", Next
  PROVE  /\ account'.status # "PAUSED"
         /\ account.status \in Restricted => account'.status \in Restricted
<1> USE DEF engineVars
<1>0. account \in AccountState
  BY DEF StreamInv, TypeOK, AccountState
<1>1. CASE UNCHANGED account
  BY <1>1
<1>2. ASSUME NEW v \in inbox, AppendEvents(v) PROVE account'.status = account.status
  BY <1>0, <1>2 DEF AppendEvents, Rollover, AccountState
<1>3. ASSUME NEW d \in Drain, BreachRestricts(d) \/ BreachLiquidates(d) \/ Complete(d)
      PROVE  /\ account'.status # "PAUSED"
             /\ account.status \in Restricted => account'.status \in Restricted
  BY <1>0, <1>3 DEF BreachRestricts, BreachLiquidates, Complete, AccountState, Restricted
<1>4. ASSUME NEW open \in BOOLEAN, Trade(open) PROVE account'.status = account.status
  BY <1>0, <1>4 DEF Trade, AccountState
<1>5. ASSUME NEW c \in Controls, Control(c)
      PROVE account'.status # "PAUSED" /\ account.status \notin Restricted
  <2>1. ControlTarget(c) # "PAUSED"
    BY RiskConstants, c # "pause" DEF ControlTarget
  <2> QED  BY <1>0, <1>5, <2>1 DEF Control, AccountState
<1>6. \/ UNCHANGED account
      \/ \E v \in inbox : AppendEvents(v)
      \/ \E d \in Drain : BreachRestricts(d) \/ BreachLiquidates(d) \/ Complete(d)
      \/ \E open \in BOOLEAN : Trade(open)
      \/ \E c \in Controls : Control(c)
  BY DEF Next, DrainStep, Emit, Ingest, IngestStale, IngestFails, Wake, ReadAccount, ReadEvent,
         NothingLeft, Settle, DrainFails, Crash, Listen, Recover, Midnight
<1> QED
  BY <1>1, <1>2, <1>3, <1>4, <1>5, <1>6

(* Which drain moves, and what becomes of it.                              *)
LEMMA DrainsEnforce ==
  ASSUME "pause" \notin Controls, StreamInv, EnforceInv, Next, NEW d \in Drain
  PROVE  Enforcing(d)'
<1> USE DEF engineVars
<1>0. /\ account \in AccountState /\ drain[d] \in DrainState
      /\ drain \in [Drain -> DrainState] /\ Enforcing(d)
  BY DEF StreamInv, TypeOK, AccountState, EnforceInv
<1>1. account.status \in Restricted => account'.status \in Restricted
  BY RestrictionStays DEF EnforceInv
<1>2. CASE UNCHANGED drain[d]
  BY <1>0, <1>1, <1>2 DEF Enforcing
<1>3. CASE drain'[d].pc \notin Reading
  BY <1>3 DEF Enforcing, Reading
<1>4. CASE ReadAccount(d)
  <2>1. /\ drain'[d].pc = "event" /\ drain'[d].status = account.status /\ UNCHANGED account
    BY <1>0, <1>4 DEF ReadAccount, DrainState
  <2> QED  BY <2>1 DEF Enforcing, EnforceInv
<1>5. CASE ReadEvent(d)
  <2> DEFINE e == events[drain[d].sequence]
  <2>1. /\ drain'[d].pc = IF NeedsControl(e, drain[d].status) THEN "restrict" ELSE "complete"
        /\ drain'[d].outcome = IF Breached(e) THEN "BREACHED" ELSE "EVALUATED"
        /\ drain'[d].status = drain[d].status /\ UNCHANGED account
    BY <1>0, <1>5 DEF ReadEvent, DrainState
  <2>2. drain[d].status # "PAUSED" /\ (drain[d].status \in Restricted => account.status \in Restricted)
    BY <1>0, <1>5 DEF ReadEvent, Enforcing, Reading
  <2>3. drain[d].status \in {"ACTIVE"} \cup Restricted
    BY <1>0, <2>2 DEF DrainState
  <2> HIDE DEF e
  <2> QED  BY <2>1, <2>2, <2>3 DEF Enforcing, NeedsControl
<1>6. CASE BreachRestricts(d)
  <2>1. /\ drain'[d].pc = "liquidate" /\ drain'[d].status = drain[d].status
        /\ account'.status \in Restricted
    BY <1>0, <1>6 DEF BreachRestricts, DrainState, AccountState, Restricted
  <2> QED  BY <1>0, <1>6, <2>1 DEF BreachRestricts, Enforcing, Reading
<1>7. CASE BreachLiquidates(d)
  <2>1. drain'[d].pc = "complete" /\ drain'[d].status = drain[d].status
    BY <1>0, <1>7 DEF BreachLiquidates, DrainState
  <2>2. account.status \in Restricted
    BY <1>0, <1>7 DEF BreachLiquidates, Enforcing
  <2> QED  BY <1>0, <1>1, <1>7, <2>1, <2>2 DEF BreachLiquidates, Enforcing, Reading
<1>8. \A x \in Drain : StartDrain(x) => UNCHANGED drain[d] \/ drain'[d].pc \notin Reading
  BY <1>0, EndedType DEF StartDrain, Reading, Ended
<1>9. ScheduleDrain => UNCHANGED drain[d] \/ drain'[d].pc \notin Reading
  BY <1>8 DEF ScheduleDrain
<1>10. \A x \in Drain :
         Complete(x) \/ NothingLeft(x) \/ DrainFails(x) \/ Settle(x) =>
           UNCHANGED drain[d] \/ drain'[d].pc \notin Reading
  BY <1>0, EndedType DEF Complete, NothingLeft, DrainFails, Settle, Reading, Ended, DrainState
<1>11. \A x \in Drain \ {d} :
         ReadAccount(x) \/ ReadEvent(x) \/ BreachRestricts(x) \/ BreachLiquidates(x) =>
           UNCHANGED drain[d]
  BY <1>0 DEF ReadAccount, ReadEvent, BreachRestricts, BreachLiquidates
<1>12. Crash => drain'[d].pc \notin Reading
  BY EndedType DEF Crash, Reading
<1>13. CASE \E x \in Drain : DrainStep(x) \/ DrainFails(x)
  BY <1>2, <1>3, <1>4, <1>5, <1>6, <1>7, <1>10, <1>11, <1>13 DEF DrainStep
<1>14. CASE (\E n \in wakes : Wake(n)) \/ Recover \/ Crash
  BY <1>2, <1>3, <1>9, <1>12, <1>14 DEF Wake, Recover
<1>15. UNCHANGED drain \/ (\E x \in Drain : DrainStep(x) \/ DrainFails(x))
       \/ (\E n \in wakes : Wake(n)) \/ Recover \/ Crash
  BY DEF Next, Emit, Ingest, IngestStale, IngestFails, Listen, Trade, Control, Midnight
<1> QED
  BY <1>2, <1>13, <1>14, <1>15

LEMMA BreachStaysEnforced ==
  ASSUME "pause" \notin Controls, StreamInv, EnforceInv, Next
  PROVE  BreachEnforced'
<1> USE DEF engineVars
<1>0. TypeOK /\ events \in Seq(RiskEvent)
  BY DEF StreamInv, TypeOK
<1>1. account.status \in Restricted => account'.status \in Restricted
  BY RestrictionStays DEF EnforceInv
<1>2. CASE UNCHANGED events
  BY <1>1, <1>2 DEF BreachEnforced, EnforceInv
<1>3. ASSUME NEW v \in inbox, AppendEvents(v) PROVE BreachEnforced'
  <2>1. v \in Valuation
    BY <1>0 DEF TypeOK
  <2>2. \A i \in DOMAIN events' :
          events'[i].state = "BREACHED" => i \in DOMAIN events /\ events'[i] = events[i]
    BY <1>0, <1>3, <2>1, AppendedEvents
  <2> QED  BY <1>1, <2>2 DEF BreachEnforced, EnforceInv
<1>4. ASSUME NEW d \in Drain, Complete(d) PROVE BreachEnforced'
  <2> DEFINE n == drain[d].sequence
  <2>1. \A i \in DOMAIN events' :
          i \in DOMAIN events
          /\ (events'[i].state = "BREACHED" =>
               events[i].state = "BREACHED" \/ drain[d].outcome = "BREACHED")
    <3>1. events' = [events EXCEPT ![n].state = IF @ = "RECEIVED" THEN drain[d].outcome ELSE @]
      BY <1>4 DEF Complete
    <3>2. DOMAIN events' = DOMAIN events
      BY <3>1
    <3>3. n \in DOMAIN events /\ events[n] \in RiskEvent
      BY <1>0, <1>4, ElementOfSeq DEF StreamInv, DrainAtHead, Complete, Reading
    <3> HIDE DEF n
    <3>4. \A i \in DOMAIN events : i # n => events'[i] = events[i]
      BY <3>1
    <3>5. events'[n].state = IF events[n].state = "RECEIVED" THEN drain[d].outcome ELSE events[n].state
      BY <3>1, <3>3 DEF RiskEvent
    <3> QED  BY <3>2, <3>3, <3>4, <3>5
  <2>2. drain[d].outcome = "BREACHED" => account.status \in Restricted
    BY <1>4 DEF Complete, EnforceInv, Enforcing
  <2> QED  BY <1>1, <2>1, <2>2 DEF BreachEnforced, EnforceInv
<1>5. UNCHANGED events \/ (\E v \in inbox : AppendEvents(v)) \/ (\E d \in Drain : Complete(d))
  BY DEF Next, DrainStep, Emit, Ingest, IngestStale, IngestFails, Wake, ReadAccount, ReadEvent,
         NothingLeft, BreachRestricts, BreachLiquidates, Settle, DrainFails, Crash, Listen, Recover,
         Trade, Control, Midnight
<1> QED
  BY <1>2, <1>3, <1>4, <1>5

(* A breach on record has taken the right to trade, unless an operator's   *)
(* pause came between: then ChallengeRiskEngine does not call breach().    *)
THEOREM BreachEnforcedTheorem ==
  ASSUME "pause" \notin Controls
  PROVE  Spec => []BreachEnforced
<1>1. ASSUME StreamInv, EnforceInv, [Next]_vars PROVE EnforceInv'
  <2>1. CASE Next
    BY <1>1, <2>1, RestrictionStays, DrainsEnforce, BreachStaysEnforced DEF EnforceInv
  <2>2. CASE UNCHANGED vars
    BY <1>1, <2>2 DEF vars, EnforceInv, Enforcing, BreachEnforced
  <2> QED  BY <1>1, <2>1, <2>2
<1>2. EnforceInv => BreachEnforced
  BY DEF EnforceInv
<1> QED
  BY <1>1, <1>2, InitEnforceInv, StreamInvariant, PTL DEF Spec
-----------------------------------------------------------------------------
(***************************************************************************)
(* Without a fault, an account that is BREACHED and still holds a position *)
(* is being liquidated, and the breach is not on record yet.               *)
(***************************************************************************)
OnRecord == \E i \in DOMAIN events : events[i].state = "BREACHED"
Liquidating == \E d \in Drain : drain[d].pc = "liquidate"

ExposureInv ==
  (faults = 0 /\ account.status = "BREACHED" /\ exposed) => Liquidating /\ ~OnRecord

(* Which steps touch what ExposureInv is about.                            *)
LEMMA ExposureSteps ==
  ASSUME StreamInv, Next
  PROVE  \/ faults' # 0
         \/ \E d \in Drain : BreachRestricts(d) \/ BreachLiquidates(d) \/ Complete(d)
         \/ \E open \in BOOLEAN : Trade(open)
         \/ \E c \in Controls : Control(c)
         \/ \E v \in inbox : AppendEvents(v) /\ UNCHANGED <<exposed, drain, faults>>
         \/ \E d \in Drain : /\ ReadAccount(d) \/ ReadEvent(d) \/ NothingLeft(d) \/ Settle(d)
                             /\ UNCHANGED <<account, exposed, events, faults>>
         \/ ScheduleDrain /\ UNCHANGED <<account, exposed, events, faults>>
         \/ UNCHANGED <<account, exposed, events, faults, drain>>
<1> USE DEF engineVars
<1>0. faults \in Nat
  BY DEF StreamInv, TypeOK
<1>1. CASE \E d \in Drain : DrainStep(d) \/ DrainFails(d)
  <2>1. PICK d \in Drain : DrainStep(d) \/ DrainFails(d)
    BY <1>1
  <2>2. CASE ReadAccount(d) \/ ReadEvent(d) \/ NothingLeft(d) \/ Settle(d)
    <3>1. UNCHANGED <<account, exposed, events, faults>>
      BY <2>2 DEF ReadAccount, ReadEvent, NothingLeft, Settle
    <3> QED
      BY <2>2, <3>1
  <2>3. CASE DrainFails(d)
    BY <1>0, <2>3 DEF DrainFails
  <2> QED
    BY <2>1, <2>2, <2>3 DEF DrainStep
<1>2. CASE \E v \in inbox : Ingest(v) \/ IngestStale(v) \/ IngestFails(v)
  BY <1>0, <1>2 DEF Ingest, IngestStale, IngestFails
<1>3. CASE Crash \/ Listen \/ Recover \/ Midnight \/ (\E e \in Equity : Emit(e)) \/ \E n \in wakes : Wake(n)
  BY <1>0, <1>3 DEF Crash, Listen, Recover, Midnight, Emit, Wake
<1> QED
  BY <1>1, <1>2, <1>3 DEF Next

LEMMA ExposureStep ==
  ASSUME "pause" \notin Controls, StreamInv, EnforceInv, ExposureInv, Next
  PROVE  ExposureInv'
<1> SUFFICES ASSUME faults' = 0, account'.status = "BREACHED", exposed'
             PROVE  Liquidating' /\ ~OnRecord'
  BY DEF ExposureInv
<1>0. /\ account \in AccountState /\ drain \in [Drain -> DrainState] /\ events \in Seq(RiskEvent)
      /\ TypeOK /\ exposed \in BOOLEAN
  BY DEF StreamInv, TypeOK, AccountState
<1>1. CASE \E v \in inbox : AppendEvents(v) /\ UNCHANGED <<exposed, drain, faults>>
  <2>1. PICK v \in inbox : AppendEvents(v) /\ UNCHANGED <<exposed, drain, faults>>
    BY <1>1
  <2>2. v \in Valuation
    BY <1>0 DEF TypeOK
  <2>3. account'.status = account.status
    BY <1>0, <2>1 DEF AppendEvents, Rollover, AccountState
  <2>4. \A i \in DOMAIN events' :
          events'[i].state = "BREACHED" => i \in DOMAIN events /\ events'[i] = events[i]
    BY <1>0, <2>1, <2>2, AppendedEvents
  <2> QED
    BY <2>1, <2>3, <2>4 DEF ExposureInv, Liquidating, OnRecord
<1>2. ASSUME NEW d \in Drain, BreachRestricts(d) PROVE Liquidating' /\ ~OnRecord'
  <2>1. drain'[d].pc = "liquidate" /\ UNCHANGED <<exposed, events, faults>>
    BY <1>0, <1>2 DEF BreachRestricts, DrainState
  <2>2. account.status \in Restricted => account'.status = account.status
    BY <1>0, <1>2 DEF BreachRestricts, AccountState
  <2>3. OnRecord => account.status \in Restricted
    BY DEF EnforceInv, BreachEnforced, OnRecord
  <2>4. ~OnRecord
    BY <2>1, <2>2, <2>3 DEF ExposureInv
  <2> QED
    BY <2>1, <2>4 DEF Liquidating, OnRecord
<1>3. ASSUME NEW d \in Drain, BreachLiquidates(d) PROVE FALSE
  BY <1>3 DEF BreachLiquidates
<1>4. ASSUME NEW d \in Drain,
             ReadAccount(d) \/ ReadEvent(d) \/ NothingLeft(d) \/ Settle(d) \/ Complete(d),
             UNCHANGED <<exposed, faults>>, account'.status = account.status
      PROVE  FALSE
  <2>1. drain[d].pc \in {"account", "event", "settle", "complete"}
    BY <1>4 DEF ReadAccount, ReadEvent, NothingLeft, Settle, Complete
  <2>2. PICK x \in Drain : drain[x].pc = "liquidate"
    BY <1>4 DEF ExposureInv, Liquidating
  <2>3. x = d
    BY <2>1, <2>2 DEF StreamInv, OneDrain
  <2> QED
    BY <2>1, <2>2, <2>3
<1>5. ASSUME NEW d \in Drain, Complete(d) PROVE FALSE
  <2>1. account'.status = account.status /\ UNCHANGED <<exposed, faults>>
    BY <1>0, <1>5 DEF Complete, AccountState
  <2> QED
    BY <1>4, <1>5, <2>1
<1>6. CASE \E open \in BOOLEAN : Trade(open)
  <2>1. PICK open \in BOOLEAN : Trade(open)
    BY <1>6
  <2>2. account'.status = account.status
    BY <1>0, <2>1 DEF Trade, AccountState
  <2> QED
    BY <2>1, <2>2 DEF Trade
<1>7. ASSUME NEW c \in Controls, Control(c) PROVE FALSE
  <2>1. account'.status = ControlTarget(c)
    BY <1>0, <1>7 DEF Control, AccountState
  <2>2. c \in {"pause", "resume", "disable"}
    BY RiskConstants
  <2> QED
    BY <2>1, <2>2 DEF ControlTarget
<1>8. CASE ScheduleDrain /\ UNCHANGED <<account, exposed, events, faults>>
  <2>1. PICK x \in Drain : drain[x].pc = "liquidate"
    BY <1>8 DEF ExposureInv, Liquidating
  <2>2. inFlight # NoDrain
    BY <2>1, RiskConstants DEF StreamInv, OneDrain
  <2>3. UNCHANGED drain
    BY <1>8, <2>2 DEF ScheduleDrain
  <2> QED
    BY <1>8, <2>3 DEF ExposureInv, Liquidating, OnRecord
<1>9. CASE UNCHANGED <<account, exposed, events, faults, drain>>
  BY <1>9 DEF ExposureInv, Liquidating, OnRecord
<1> QED
  BY <1>1, <1>2, <1>3, <1>4, <1>5, <1>6, <1>7, <1>8, <1>9, ExposureSteps

(***************************************************************************)
(* A breach on record leaves no position on the account it breached,       *)
(* unless a fault came in between, and provided that nobody pauses the     *)
(* account (challenge-risk-engine.js, account-control.service.js).         *)
(***************************************************************************)
THEOREM BreachLeavesNoExposureTheorem ==
  ASSUME "pause" \notin Controls
  PROVE  Spec => []BreachLeavesNoExposure
<1>1. Init => ExposureInv
  BY DEF Init, ExposureInv
<1>2. ASSUME StreamInv, EnforceInv, [Next]_vars PROVE EnforceInv'
  <2>1. CASE Next
    BY <1>2, <2>1, RestrictionStays, DrainsEnforce, BreachStaysEnforced DEF EnforceInv
  <2>2. CASE UNCHANGED vars
    BY <1>2, <2>2 DEF vars, EnforceInv, Enforcing, BreachEnforced
  <2> QED  BY <1>2, <2>1, <2>2
<1>3. ASSUME StreamInv, EnforceInv, ExposureInv, [Next]_vars PROVE ExposureInv'
  <2>1. CASE Next
    BY <1>3, <2>1, ExposureStep
  <2>2. CASE UNCHANGED vars
    BY <1>3, <2>2 DEF vars, ExposureInv, Liquidating, OnRecord
  <2> QED  BY <1>3, <2>1, <2>2
<1>4. StreamInv /\ ExposureInv => BreachLeavesNoExposure
  BY DEF StreamInv, TypeOK, ExposureInv, OnRecord, BreachLeavesNoExposure
<1> QED
  BY <1>1, <1>2, <1>3, <1>4, InitEnforceInv, StreamInvariant, PTL DEF Spec

-----------------------------------------------------------------------------
Document == [status : {"none", "OPEN", "CLOSED"}, side : {"BUY", "SELL"}, entry : Bid,
             stop : Level, take : Level, trailing : BOOLEAN, best : Level]

\* A trailing position has a best price and a stop within the distance of it.
WellFormed(o) ==
  /\ o \in Document
  /\ o.trailing <=> o.best # Null
  /\ o.trailing => o.stop # Null /\ o.stop + Distance >= o.best

DocumentsWellFormed == position \in [Position -> Document] /\ \A p \in Position : WellFormed(position[p])

\* Who has no outstanding event and no unreported commit is known to the engines.
CopiesFollow ==
  engines = "started" => \A p \in Position : p \notin announced \cup silent =>
    watched[p] = CopyOfProtection(p) /\ (p \in trailed <=> IsOpen(p) /\ position[p].trailing)

\* A copy whose position the trader has left alone is at most as tight as the
\* document, so that what hits the copy hits the document.
Behind(c, o) == /\ c.stop # Null => o.stop >= c.stop
                /\ c.take # Null => o.take = c.take

CopiesBehind ==
  \A p \in Position :
    /\ position[p].status = "none" => watched[p] = NotWatched /\ closing[p] = NoClose
    /\ (p \notin changed /\ IsOpen(p)) => Behind(watched[p], position[p])

ClosesCounted == \A p \in Position : closes[p] = IF position[p].status = "CLOSED" THEN 1 ELSE 0

ProtectionInv ==
  /\ ProtectionTypeOK
  /\ DocumentsWellFormed
  /\ CopiesFollow
  /\ CopiesBehind
  /\ ClosesCounted
  /\ DetectionStillHolds

LEMMA InvImpliesSound == ProtectionInv => ProtectionIsSound
<1> SUFFICES ASSUME ProtectionInv PROVE ProtectionIsSound
  OBVIOUS
<1>1. EnginesFollow
  <2> SUFFICES ASSUME engines = "started", announced = {}, NEW p \in Position, p \notin silent
               PROVE  /\ watched[p].stop = IF IsOpen(p) THEN position[p].stop ELSE Null
                      /\ watched[p].take = IF IsOpen(p) THEN position[p].take ELSE Null
                      /\ p \in trailed <=> (IsOpen(p) /\ position[p].trailing)
    BY DEF EnginesFollow
  <2>1. watched[p] = CopyOfProtection(p) /\ (p \in trailed <=> IsOpen(p) /\ position[p].trailing)
    BY DEF ProtectionInv, CopiesFollow
  <2> QED
    BY <2>1 DEF CopyOfProtection, NotWatched
<1>2. ClosedOnce
  <2>1. \A p \in Position : closes[p] = 0 \/ closes[p] = 1
    BY DEF ProtectionInv, ClosesCounted
  <2>2. \A n : (n = 0 \/ n = 1) => n <= 1
    OBVIOUS
  <2> QED
    BY <2>1, <2>2 DEF ClosedOnce
<1>3. TrailingKeepsDistance
  BY DEF ProtectionInv, DocumentsWellFormed, WellFormed, TrailingKeepsDistance
<1> QED
  BY <1>1, <1>2, <1>3 DEF ProtectionInv, ProtectionIsSound

(* Replacing fields of a document. *)
LEMMA DocumentOpened ==
  ASSUME NEW o \in Document, NEW d \in {"BUY", "SELL"}, NEW e \in Bid, NEW stop \in Level, NEW take \in Level
  PROVE  [o EXCEPT !.status = "OPEN", !.side = d, !.entry = e, !.stop = stop, !.take = take] \in Document
BY DEF Document

LEMMA DocumentClosed ==
  ASSUME NEW o \in Document, NEW d \in {"BUY", "SELL"}
  PROVE  [o EXCEPT !.status = "CLOSED", !.side = d] \in Document
BY DEF Document

LEMMA DocumentUntrailed ==
  ASSUME NEW o \in Document, NEW stop \in Level, NEW t \in BOOLEAN, NEW best \in Level
  PROVE  [o EXCEPT !.stop = stop, !.trailing = t, !.best = best] \in Document
BY DEF Document

LEMMA DocumentSwitched ==
  ASSUME NEW o \in Document, NEW t \in BOOLEAN, NEW best \in Level
  PROVE  [o EXCEPT !.trailing = t, !.best = best] \in Document
BY DEF Document

LEMMA DocumentAdvanced ==
  ASSUME NEW o \in Document, NEW stop \in Level, NEW best \in Level
  PROVE  [o EXCEPT !.best = best, !.stop = stop] \in Document
BY DEF Document

LEMMA Levels == Null \in Level /\ NoPosition \in Document
BY ProtectionConstants DEF NoPosition, Document, Bid, Level, Null

LEMMA InitProtectionInv == ProtectionInit => ProtectionInv
<1> SUFFICES ASSUME ProtectionInit PROVE ProtectionInv
  OBVIOUS
<1>1. NoPosition \in Document /\ WellFormed(NoPosition) /\ NoPosition.status = "none"
  BY ProtectionConstants DEF NoPosition, Document, WellFormed, Bid, Level, Null
<1>2. \A p \in Position : position[p] = NoPosition
  BY DEF ProtectionInit
<1>3. ProtectionTypeOK /\ DocumentsWellFormed
  BY <1>1, ProtectionConstants DEF ProtectionInit, ProtectionTypeOK, DocumentsWellFormed, WellFormed,
     Document, NotWatched, NoClose, Level, Null
<1>4. CopiesFollow /\ CopiesBehind /\ ClosesCounted /\ DetectionStillHolds
  BY <1>1 DEF ProtectionInit, CopiesFollow, CopiesBehind, ClosesCounted, DetectionStillHolds,
     CopyOfProtection, IsOpen, NoPosition
<1> QED
  BY <1>3, <1>4 DEF ProtectionInv

LEMMA CommitsProperties ==
  ASSUME ProtectionTypeOK, NEW p \in Position, Commits({p}), QueueIsFree
  PROVE  /\ announced' \subseteq Position /\ silent' \subseteq Position
         /\ protectionFaults' \in 0 .. MaxProtectionFaults
         /\ \A q : q \notin announced' \cup silent' => q # p /\ q \notin announced \cup silent
BY ProtectionConstants DEF ProtectionTypeOK, Commits, QueueIsFree, ProtectionFault

(***************************************************************************)
(* A commit replaces the document of p by o.  Nobody relies on what it     *)
(* changes if the trader is recorded as the one who changed it, p was not  *)
(* open or is not open now, or the stop is tightened.                      *)
(***************************************************************************)
Tightens(p, o) == /\ IsOpen(p) /\ o.side = position[p].side
                  /\ o.take = position[p].take /\ o.stop >= position[p].stop

LEMMA DocumentChanges ==
  ASSUME ProtectionInv, NEW p \in Position, NEW o \in Document,
         WellFormed(o), o.status # "none",
         position' = [position EXCEPT ![p] = o],
         QueueIsFree, Commits({p}),
         UNCHANGED <<bid, engines, watched, trailed>>,
         advancing' \in [Position -> Level],
         closing' \in [Position -> [price : Level, committed : BOOLEAN]],
         \A q \in Position : q # p => closing'[q] = closing[q],
         o.status = "OPEN" => closing'[p] = closing[p],
         closes' = [closes EXCEPT ![p] = IF o.status = "CLOSED" THEN 1 ELSE 0],
         \/ changed' = changed \cup {p}
         \/ changed' = changed /\ (o.status = "OPEN" => position[p].status = "none" \/ Tightens(p, o))
  PROVE  ProtectionInv'
<1>0. position[p] \in Document /\ position \in [Position -> Document] /\ p \in Position
  BY DEF ProtectionInv, DocumentsWellFormed
<1>1. /\ position' \in [Position -> Document]
      /\ position'[p] = o
      /\ \A q \in Position : q # p => position'[q] = position[q]
  BY <1>0
<1>2. /\ announced' \subseteq Position /\ silent' \subseteq Position
      /\ protectionFaults' \in 0 .. MaxProtectionFaults
      /\ \A q : q \notin announced' \cup silent' => q # p /\ q \notin announced \cup silent
  BY CommitsProperties DEF ProtectionInv
<1>3. DocumentsWellFormed'
  <2>1. \A q \in Position : WellFormed(position'[q])
    BY <1>1 DEF ProtectionInv, DocumentsWellFormed
  <2> QED
    BY <1>1, <2>1 DEF DocumentsWellFormed, WellFormed
<1>4. ProtectionTypeOK'
  <2>1. \A q \in Position : /\ position'[q].trailing <=> position'[q].best # Null
                            /\ position'[q].trailing => position'[q].stop # Null
    BY <1>3 DEF DocumentsWellFormed, WellFormed
  <2>2. closes' \in [Position -> Nat] /\ changed' \subseteq Position
    BY DEF ProtectionInv, ProtectionTypeOK
  <2>3. /\ bid' \in Bid /\ engines' \in {"down", "started"} /\ trailed' \subseteq Position
        /\ watched' \in [Position -> [stop : Level, take : Level]]
    BY DEF ProtectionInv, ProtectionTypeOK
  <2> QED
    BY <1>1, <1>2, <2>1, <2>2, <2>3 DEF ProtectionTypeOK, Document
<1>5. CopiesFollow'
  BY <1>1, <1>2 DEF ProtectionInv, CopiesFollow, CopyOfProtection, IsOpen
<1>6. CopiesBehind'
  <2> SUFFICES ASSUME NEW q \in Position
               PROVE  /\ position'[q].status = "none" => watched[q] = NotWatched /\ closing'[q] = NoClose
                      /\ (q \notin changed' /\ position'[q].status = "OPEN")
                           => Behind(watched[q], position'[q])
    BY DEF CopiesBehind, IsOpen, Behind
  <2>1. CASE q # p
    BY <2>1, <1>1 DEF ProtectionInv, CopiesBehind, IsOpen
  <2>2. CASE q = p
    <3> SUFFICES ASSUME p \notin changed', o.status = "OPEN" PROVE Behind(watched[p], o)
      BY <2>2, <1>1
    <3>1. CASE position[p].status = "none"
      BY <3>1 DEF ProtectionInv, CopiesBehind, NotWatched, Behind
    <3>2. CASE position[p].status # "none"
      <4>1. changed' = changed /\ Tightens(p, o)
        BY <3>2
      <4>2. Behind(watched[p], position[p])
        BY <4>1 DEF ProtectionInv, CopiesBehind, Tightens
      <4>3. watched[p].stop \in Level /\ o.stop \in Level /\ position[p].stop \in Level
        BY <1>0 DEF ProtectionInv, ProtectionTypeOK, Document
      <4> QED
        BY <4>1, <4>2, <4>3 DEF Behind, Tightens, Level
    <3> QED
      BY <3>1, <3>2
  <2> QED
    BY <2>1, <2>2
<1>7. ClosesCounted'
  BY <1>1 DEF ProtectionInv, ProtectionTypeOK, ClosesCounted
<1>8. DetectionStillHolds'
  <2> SUFFICES ASSUME NEW q \in Position, q \notin changed', closing'[q] # NoClose,
                      position'[q].status = "OPEN"
               PROVE  Hit(position'[q], PriceFor(position'[q].side, closing'[q].price))
    BY DEF DetectionStillHolds, IsOpen, PriceOf, Hit, PriceFor
  <2>1. CASE q # p
    BY <2>1, <1>1 DEF ProtectionInv, DetectionStillHolds, IsOpen, PriceOf
  <2>2. CASE q = p
    <3>1. closing'[p] = closing[p] /\ position'[p] = o
      BY <2>2, <1>1
    <3>2. changed' = changed /\ Tightens(p, o)
      BY <2>2, <3>1, <1>1 DEF ProtectionInv, CopiesBehind
    <3>3. Hit(position[p], PriceFor(o.side, closing[p].price))
      BY <2>2, <3>1, <3>2 DEF ProtectionInv, DetectionStillHolds, PriceOf, Tightens
    <3>4. /\ position[p].stop \in Nat /\ o.stop \in Nat /\ position[p].take = o.take
          /\ o.stop >= position[p].stop
      BY <1>0, <3>2 DEF Document, Level, Tightens
    <3>5. closing[p].price \in Level
      BY DEF ProtectionInv, ProtectionTypeOK
    <3>6. PriceFor(o.side, closing[p].price) \in Nat
      BY <3>5, ProtectionConstants DEF PriceFor, Level
    <3> QED
      BY <2>2, <3>1, <3>3, <3>4, <3>6 DEF Hit, Null
  <2> QED
    BY <2>1, <2>2
<1> QED
  BY <1>3, <1>4, <1>5, <1>6, <1>7, <1>8 DEF ProtectionInv

-----------------------------------------------------------------------------
(***************************************************************************)
(* Commands of the trader.                                                 *)
(***************************************************************************)
LEMMA OpenStep ==
  ASSUME ProtectionInv, NEW p \in Position, NEW side \in Side, NEW stop \in Level,
         NEW take \in Target \cup {Null}, OpenPosition(p, side, stop, take)
  PROVE  ProtectionInv'
<1> DEFINE o == Opened(side, stop, take)
<1>1. o \in Document /\ WellFormed(o) /\ o.status = "OPEN"
  <2>1. PriceFor(side, bid) \in Bid /\ take \in Level /\ side \in {"BUY", "SELL"}
    BY ProtectionConstants DEF PriceFor, Bid, Level, Null, ProtectionInv, ProtectionTypeOK
  <2>2. o \in Document
    BY <2>1, DocumentOpened, Levels DEF Opened
  <2>3. ~o.trailing /\ o.best = Null /\ o.status = "OPEN"
    BY DEF Opened, NoPosition
  <2> QED
    BY <2>2, <2>3 DEF WellFormed
<1>2. closes' = [closes EXCEPT ![p] = IF o.status = "CLOSED" THEN 1 ELSE 0]
  BY <1>1 DEF OpenPosition, ProtectionInv, ProtectionTypeOK, ClosesCounted
<1>3. position' = [position EXCEPT ![p] = o]
  BY DEF OpenPosition
<1> HIDE DEF o
<1> QED
  BY <1>1, <1>2, <1>3, DocumentChanges DEF OpenPosition, ProtectionInv, ProtectionTypeOK

LEMMA ClosedDocument ==
  ASSUME ProtectionInv, NEW p \in Position
  PROVE  Closed(p) \in Document /\ WellFormed(Closed(p)) /\ Closed(p).status = "CLOSED"
<1>1. position[p].side \in {"BUY", "SELL"}
  BY DEF ProtectionInv, DocumentsWellFormed, Document
<1>2. Closed(p) \in Document
  BY <1>1, DocumentClosed, Levels DEF Closed
<1>3. ~Closed(p).trailing /\ Closed(p).best = Null /\ Closed(p).status = "CLOSED"
  BY DEF Closed, NoPosition
<1> QED
  BY <1>2, <1>3 DEF WellFormed

LEMMA CloseCounts ==
  ASSUME ProtectionInv, NEW p \in Position, IsOpen(p), closes' = [closes EXCEPT ![p] = @ + 1]
  PROVE  closes' = [closes EXCEPT ![p] = IF Closed(p).status = "CLOSED" THEN 1 ELSE 0]
<1>1. closes[p] = 0 /\ closes[p] + 1 = 1
  BY DEF ProtectionInv, ClosesCounted, IsOpen
<1> QED
  BY <1>1, ClosedDocument DEF ProtectionInv, ProtectionTypeOK

LEMMA CloseStep ==
  ASSUME ProtectionInv, NEW p \in Position, ClosePosition(p)
  PROVE  ProtectionInv'
<1>1. position' = [position EXCEPT ![p] = Closed(p)] /\ changed' = changed
  BY DEF ClosePosition
<1> QED
  BY <1>1, ClosedDocument, CloseCounts, DocumentChanges DEF ClosePosition, ProtectionInv, ProtectionTypeOK

\* A change of the open document of p by its trader.
LEMMA TraderChanges ==
  ASSUME ProtectionInv, NEW p \in Position, NEW o \in Document, WellFormed(o), o.status = "OPEN",
         IsOpen(p), position' = [position EXCEPT ![p] = o],
         QueueIsFree, ByTrader(p), Commits({p}),
         UNCHANGED <<bid, engines, watched, trailed, closing, advancing, closes>>
  PROVE  ProtectionInv'
<1>1. closes' = [closes EXCEPT ![p] = IF o.status = "CLOSED" THEN 1 ELSE 0]
  BY DEF ProtectionInv, ProtectionTypeOK, ClosesCounted, IsOpen
<1> QED
  BY <1>1, DocumentChanges DEF ByTrader, ProtectionInv, ProtectionTypeOK

LEMMA OpenDocument ==
  ASSUME ProtectionInv, NEW p \in Position, IsOpen(p)
  PROVE  position[p] \in Document /\ WellFormed(position[p]) /\ position[p].status = "OPEN"
BY DEF ProtectionInv, DocumentsWellFormed, IsOpen

LEMMA StopOfTrader ==
  ASSUME NEW o \in Document, NEW stop \in Level
  PROVE  /\ WithStop(o, stop) \in Document /\ WellFormed(WithStop(o, stop))
         /\ WithStop(o, stop).status = o.status /\ ~WithStop(o, stop).trailing
<1>1. WithStop(o, stop) \in Document
  <2>1. FALSE \in BOOLEAN
    OBVIOUS
  <2> QED
    BY <2>1, DocumentUntrailed, Levels DEF WithStop
<1>2. /\ WithStop(o, stop).status = o.status /\ ~WithStop(o, stop).trailing
      /\ WithStop(o, stop).best = Null
  BY DEF WithStop, Document
<1> QED
  BY <1>1, <1>2 DEF WellFormed

LEMMA SetStopStep ==
  ASSUME ProtectionInv, NEW p \in Position, NEW stop \in Level, SetStop(p, stop) \/ BreakEven(p)
  PROVE  ProtectionInv'
<1>1. IsOpen(p)
  BY DEF SetStop, BreakEven
<1>2. position[p] \in Document /\ position[p].entry \in Level
  BY <1>1, OpenDocument DEF Document, Bid, Level
<1>3. CASE SetStop(p, stop)
  BY <1>1, <1>2, <1>3, OpenDocument, StopOfTrader, TraderChanges DEF SetStop
<1>4. CASE BreakEven(p)
  BY <1>1, <1>2, <1>4, OpenDocument, StopOfTrader, TraderChanges DEF BreakEven
<1> QED
  BY <1>3, <1>4

LEMMA SetTakeStep ==
  ASSUME ProtectionInv, NEW p \in Position, NEW take \in Target \cup {Null}, SetTake(p, take)
  PROVE  ProtectionInv'
<1> DEFINE o == [position[p] EXCEPT !.take = take]
<1>1. IsOpen(p) /\ position' = [position EXCEPT ![p] = o]
  BY DEF SetTake
<1>2. take \in Level
  BY ProtectionConstants DEF Level, Null
<1>3. o \in Document /\ WellFormed(o) /\ o.status = "OPEN"
  BY <1>1, <1>2, OpenDocument DEF Document, WellFormed
<1> HIDE DEF o
<1> QED
  BY <1>1, <1>3, TraderChanges DEF SetTake

LEMMA Trailing ==
  ASSUME NEW o \in Document, NEW best \in Level, best - Distance > 0 \/ o.stop # Null, best # Null
  PROVE  /\ TighterStop(o, best) \in Level /\ TighterStop(o, best) # Null
         /\ TighterStop(o, best) + Distance >= best
         /\ TighterStop(o, best) >= o.stop
BY ProtectionConstants DEF TighterStop, Higher, Document, Level, Null

LEMMA TrailingStep ==
  ASSUME ProtectionInv, NEW p \in Position, EnableTrailing(p) \/ DisableTrailing(p)
  PROVE  ProtectionInv'
<1>1. IsOpen(p) /\ position[p] \in Document /\ WellFormed(position[p]) /\ position[p].status = "OPEN"
  BY OpenDocument DEF EnableTrailing, DisableTrailing
<1>2. CASE EnableTrailing(p)
  <2> DEFINE best == PriceOf(p, bid)
             o == [position[p] EXCEPT !.stop = TighterStop(position[p], best), !.trailing = TRUE,
                                      !.best = best]
  <2>1. best \in Level /\ best # Null /\ best > Distance
    BY <1>2, ProtectionConstants DEF EnableTrailing, PriceOf, PriceFor, Level, Bid, Null,
       ProtectionInv, ProtectionTypeOK
  <2>2. /\ TighterStop(position[p], best) \in Level /\ TighterStop(position[p], best) # Null
        /\ TighterStop(position[p], best) + Distance >= best
    <3> HIDE DEF best
    <3> QED
      BY <1>1, <2>1, Trailing, ProtectionConstants DEF Level
  <2>3. position' = [position EXCEPT ![p] = o]
    BY <1>2 DEF EnableTrailing
  <2>4. o \in Document /\ WellFormed(o) /\ o.status = "OPEN"
    <3> HIDE DEF best
    <3> QED
      BY <1>1, <2>1, <2>2 DEF Document, WellFormed
  <2> HIDE DEF o, best
  <2> QED
    BY <1>1, <1>2, <2>3, <2>4, TraderChanges DEF EnableTrailing
<1>3. CASE DisableTrailing(p)
  <2> DEFINE o == [position[p] EXCEPT !.trailing = FALSE, !.best = Null]
  <2>0. FALSE \in BOOLEAN
    OBVIOUS
  <2>1. o \in Document
    BY <1>1, <2>0, DocumentSwitched, Levels
  <2>1a. ~o.trailing /\ o.best = Null /\ o.status = "OPEN"
    BY <1>1 DEF Document
  <2>2. position' = [position EXCEPT ![p] = o]
    BY <1>3, <1>1 DEF DisableTrailing, ProtectionInv, DocumentsWellFormed, Document
  <2> HIDE DEF o
  <2> QED
    BY <1>1, <1>3, <2>1, <2>1a, <2>2, TraderChanges DEF DisableTrailing, WellFormed
<1> QED
  BY <1>2, <1>3
-----------------------------------------------------------------------------
(***************************************************************************)
(* The engines.                                                            *)
(***************************************************************************)
LEMMA ProtectionTickStep ==
  ASSUME ProtectionInv, NEW price \in Bid, ProtectionTick(price)
  PROVE  ProtectionInv'
<1>1. UNCHANGED <<position, engines, watched, trailed, announced, closes, silent, protectionFaults>>
      /\ engines = "started"
  BY DEF ProtectionTick
<1>2. /\ \A p \in Position : closing'[p] = IF Launches(p, price)
           THEN [price |-> price, committed |-> FALSE] ELSE closing[p]
      /\ changed' = {p \in changed : Launches(p, price) => p \in announced \cup silent}
  BY DEF ProtectionTick
<1>3. price \in Level
  BY ProtectionConstants DEF Bid, Level
<1>4. ProtectionTypeOK' /\ DocumentsWellFormed' /\ CopiesFollow' /\ ClosesCounted'
  <2>1. closing' \in [Position -> [price : Level, committed : BOOLEAN]]
    BY <1>3 DEF ProtectionTick, ProtectionInv, ProtectionTypeOK
  <2>2. advancing' \in [Position -> Level] /\ changed' \subseteq Position /\ bid' \in Bid
    BY <1>3 DEF ProtectionTick, ProtectionInv, ProtectionTypeOK
  <2> QED
    BY <1>1, <2>1, <2>2 DEF ProtectionInv, ProtectionTypeOK, DocumentsWellFormed, CopiesFollow,
       CopyOfProtection, IsOpen, ClosesCounted
<1>5. \A p \in Position : (p \notin changed' /\ IsOpen(p)) => Behind(watched[p], position[p])
  <2> SUFFICES ASSUME NEW p \in Position, p \notin changed', IsOpen(p)
               PROVE  Behind(watched[p], position[p])
    OBVIOUS
  <2>1. CASE p \notin changed
    BY <2>1 DEF ProtectionInv, CopiesBehind
  <2>2. CASE p \in changed
    <3>1. watched[p] = CopyOfProtection(p)
      BY <2>2, <1>1, <1>2 DEF ProtectionInv, CopiesFollow
    <3>2. position[p].stop \in Nat
      BY DEF ProtectionInv, DocumentsWellFormed, Document, Level
    <3> QED
      BY <3>1, <3>2 DEF CopyOfProtection, Behind
  <2> QED
    BY <2>1, <2>2
<1>6. \A p \in Position : Launches(p, price) => position[p].status # "none"
  <2>1. ~Hit(NotWatched, 0) /\ \A x : ~Hit(NotWatched, x)
    BY DEF Hit, NotWatched
  <2> QED
    BY <2>1 DEF Launches, ProtectionInv, CopiesBehind
<1>7. CopiesBehind'
  BY <1>1, <1>2, <1>5, <1>6 DEF ProtectionInv, CopiesBehind, IsOpen
<1>8. DetectionStillHolds'
  <2> SUFFICES ASSUME NEW p \in Position, p \notin changed', closing'[p] # NoClose, IsOpen(p)
               PROVE  Hit(position[p], PriceOf(p, closing'[p].price))
    BY <1>1 DEF DetectionStillHolds, IsOpen, PriceOf, Hit, PriceFor
  <2>1. CASE Launches(p, price)
    <3>1. closing'[p].price = price
      BY <2>1, <1>2
    <3>2. Hit(watched[p], PriceOf(p, price)) /\ Behind(watched[p], position[p])
      BY <2>1, <1>5 DEF Launches
    <3>3. /\ PriceOf(p, price) \in Nat /\ watched[p].stop \in Nat /\ position[p].stop \in Nat
      BY ProtectionConstants DEF PriceOf, PriceFor, Bid, Level, ProtectionInv, ProtectionTypeOK,
         DocumentsWellFormed, Document
    <3> QED
      BY <3>1, <3>2, <3>3 DEF Hit, Behind, Null
  <2>2. CASE ~Launches(p, price)
    <3>1. closing'[p] = closing[p] /\ p \notin changed
      BY <2>2, <1>2
    <3> QED
      BY <3>1 DEF ProtectionInv, DetectionStillHolds
  <2> QED
    BY <2>1, <2>2
<1> QED
  BY <1>4, <1>7, <1>8 DEF ProtectionInv

LEMMA NoCloseTyped == NoClose \in [price : Level, committed : BOOLEAN]
BY Levels DEF NoClose

\* Work of the engine ends, and nothing of the account has changed.
LEMMA WorkEnds ==
  ASSUME ProtectionInv,
         UNCHANGED <<bid, position, engines, watched, trailed, announced, closes, changed, silent>>,
         protectionFaults' \in 0 .. MaxProtectionFaults,
         advancing' \in [Position -> Level],
         closing' \in [Position -> [price : Level, committed : BOOLEAN]],
         \A q \in Position : closing'[q] = closing[q] \/ closing'[q] = NoClose
  PROVE  ProtectionInv'
<1>1. ProtectionTypeOK'
  BY DEF ProtectionInv, ProtectionTypeOK
<1>2. DocumentsWellFormed' /\ CopiesFollow' /\ CopiesBehind' /\ ClosesCounted'
  BY DEF ProtectionInv, DocumentsWellFormed, CopiesFollow, CopyOfProtection, IsOpen, CopiesBehind,
     ClosesCounted
<1>3. DetectionStillHolds'
  BY DEF ProtectionInv, DetectionStillHolds, IsOpen, PriceOf
<1> QED
  BY <1>1, <1>2, <1>3 DEF ProtectionInv

LEMMA FaultCounted ==
  ASSUME ProtectionInv, NEW kind, ProtectionFault(kind)
  PROVE  protectionFaults' \in 0 .. MaxProtectionFaults
BY ProtectionConstants DEF ProtectionInv, ProtectionTypeOK, ProtectionFault

LEMMA ProtectiveCloseStep ==
  ASSUME ProtectionInv, NEW p \in Position, ProtectiveClose(p) \/ ProtectiveCloseFails(p)
  PROVE  ProtectionInv'
<1>0. closing \in [Position -> [price : Level, committed : BOOLEAN]] /\ advancing \in [Position -> Level]
  BY DEF ProtectionInv, ProtectionTypeOK
<1>1. CASE ProtectiveClose(p) /\ IsOpen(p)
  <2>1. /\ position' = [position EXCEPT ![p] = Closed(p)]
        /\ closes' = [closes EXCEPT ![p] = @ + 1]
        /\ Commits({p}) /\ QueueIsFree
        /\ UNCHANGED <<bid, engines, watched, trailed, advancing, changed>>
        /\ IF announced' = {} THEN CloseEnds(p)
            ELSE closing' = [closing EXCEPT ![p].committed = TRUE]
    BY <1>1 DEF ProtectiveClose, StillOpen
  <2>2. /\ closing' \in [Position -> [price : Level, committed : BOOLEAN]]
        /\ \A q \in Position : q # p => closing'[q] = closing[q]
    <3>1. CASE announced' = {}
      BY <2>1, <3>1, <1>0, NoCloseTyped DEF CloseEnds
    <3>2. CASE announced' # {}
      BY <2>1, <3>2, <1>0
    <3> QED
      BY <3>1, <3>2
  <2>3. closes' = [closes EXCEPT ![p] = IF Closed(p).status = "CLOSED" THEN 1 ELSE 0]
    BY <1>1, <2>1, CloseCounts
  <2> QED
    BY <1>0, <2>1, <2>2, <2>3, ClosedDocument, DocumentChanges
<1>2. CASE ProtectiveClose(p) /\ ~IsOpen(p)
  <2>1. UNCHANGED <<bid, position, engines, watched, trailed, advancing, announced, closes, changed,
                    silent, protectionFaults>>
        /\ closing' = [closing EXCEPT ![p] = NoClose]
    BY <1>2 DEF ProtectiveClose, StillOpen, CloseEnds
  <2>2. protectionFaults' \in 0 .. MaxProtectionFaults
    BY <2>1 DEF ProtectionInv, ProtectionTypeOK
  <2> QED
    BY <1>0, <2>1, <2>2, NoCloseTyped, WorkEnds
<1>3. CASE ProtectiveCloseFails(p)
  BY <1>0, <1>3, NoCloseTyped, FaultCounted, WorkEnds DEF ProtectiveCloseFails, CloseEnds
<1> QED
  BY <1>1, <1>2, <1>3

(* An advance of a trailing position keeps it well-formed, and tightens.   *)
LEMMA AdvancedDocument ==
  ASSUME NEW o \in Document, WellFormed(o), o.trailing, NEW price \in Level
  PROVE  /\ Advanced(o, price) \in Document /\ WellFormed(Advanced(o, price))
         /\ Advanced(o, price).status = o.status /\ Advanced(o, price).side = o.side
         /\ Advanced(o, price).take = o.take /\ Advanced(o, price).stop >= o.stop
<1> DEFINE best == Higher(o.best, price)
           stop == TighterStop(o, best)
           a == [o EXCEPT !.best = best, !.stop = stop]
<1>0. o.best \in Nat /\ o.stop \in Nat /\ o.best # 0 /\ o.stop # 0 /\ o.best \in Level
  BY DEF Document, WellFormed, Level, Null
<1>1. best \in Level /\ best # Null
  BY <1>0 DEF Higher, Level, Null
<1>2. stop \in Level /\ stop # Null /\ stop + Distance >= best /\ stop >= o.stop
  <2> HIDE DEF best
  <2> QED
    BY <1>0, <1>1, Trailing DEF Null
<1> HIDE DEF best, stop
<1>3. a \in Document
  BY <1>1, <1>2, DocumentAdvanced
<1>4. /\ a.status = o.status /\ a.side = o.side /\ a.take = o.take /\ a.stop = stop
      /\ a.best = best /\ a.trailing = o.trailing
  BY DEF Document
<1>5. WellFormed(a)
  BY <1>1, <1>2, <1>3, <1>4 DEF WellFormed
<1>6. Advanced(o, price) = a \/ Advanced(o, price) = o
  BY DEF Advanced, best, stop
<1> HIDE DEF a
<1>7. CASE Advanced(o, price) = a
  BY <1>2, <1>3, <1>4, <1>5, <1>7
<1>8. CASE Advanced(o, price) = o
  BY <1>0, <1>8
<1> QED
  BY <1>6, <1>7, <1>8

LEMMA AdvanceStep ==
  ASSUME ProtectionInv, NEW p \in Position, Advance(p)
  PROVE  ProtectionInv'
<1> DEFINE o == Advanced(position[p], PriceOf(p, advancing[p]))
<1>0. /\ closing \in [Position -> [price : Level, committed : BOOLEAN]]
      /\ advancing \in [Position -> Level] /\ closing' = closing
  BY DEF ProtectionInv, ProtectionTypeOK, Advance
<1>1. advancing' \in [Position -> Level]
  BY <1>0, Levels DEF Advance, AdvanceEnds
<1>2. CASE IsOpen(p) /\ position[p].trailing /\ o # position[p]
  <2>1. PriceOf(p, advancing[p]) \in Level
    BY <1>0, ProtectionConstants DEF Advance, PriceOf, PriceFor, Level, Null
  <2>2. /\ position' = [position EXCEPT ![p] = o]
        /\ Commits({p}) /\ QueueIsFree
        /\ UNCHANGED <<bid, engines, watched, trailed, closing, closes, changed>>
    BY <1>2 DEF Advance
  <2>3. o \in Document /\ WellFormed(o) /\ o.status = "OPEN" /\ Tightens(p, o)
    BY <1>2, <2>1, OpenDocument, AdvancedDocument DEF Tightens
  <2>4. closes' = [closes EXCEPT ![p] = IF o.status = "CLOSED" THEN 1 ELSE 0]
    <3> HIDE DEF o
    <3> QED
      BY <1>2, <2>2, <2>3 DEF ProtectionInv, ProtectionTypeOK, ClosesCounted, IsOpen
  <2> HIDE DEF o
  <2> QED
    BY <1>0, <1>1, <2>2, <2>3, <2>4, DocumentChanges
<1>3. CASE ~(IsOpen(p) /\ position[p].trailing /\ o # position[p])
  <2>1. UNCHANGED <<bid, position, engines, watched, trailed, announced, closes, changed, silent,
                    protectionFaults>>
    BY <1>3 DEF Advance
  <2> QED
    BY <1>0, <1>1, <2>1, WorkEnds DEF ProtectionInv, ProtectionTypeOK
<1> QED
  BY <1>2, <1>3

LEMMA CopyTyped ==
  ASSUME ProtectionInv, NEW p \in Position
  PROVE  /\ CopyOfProtection(p) \in [stop : Level, take : Level]
         /\ IsOpen(p) => Behind(CopyOfProtection(p), position[p])
         /\ ~IsOpen(p) => CopyOfProtection(p) = NotWatched
<1>1. position[p].stop \in Level /\ position[p].take \in Level /\ position[p].stop \in Nat
  BY DEF ProtectionInv, DocumentsWellFormed, Document, Level
<1> QED
  BY <1>1, Levels DEF CopyOfProtection, NotWatched, Behind

LEMMA AnnounceStep == ASSUME ProtectionInv, AnnouncePositions PROVE ProtectionInv'
<1>0. closing \in [Position -> [price : Level, committed : BOOLEAN]]
  BY DEF ProtectionInv, ProtectionTypeOK
<1>1. /\ UNCHANGED <<bid, position, engines, advancing, closes, changed, silent, protectionFaults>>
      /\ announced' = {}
      /\ \A p \in Position : watched'[p] = IF p \in announced THEN CopyOfProtection(p) ELSE watched[p]
      /\ trailed' = (trailed \ announced) \cup {p \in announced : IsOpen(p) /\ position[p].trailing}
      /\ \A p \in Position : closing'[p] = closing[p] \/ closing'[p] = NoClose
  BY DEF AnnouncePositions
<1>2. ProtectionTypeOK'
  <2>1. watched' \in [Position -> [stop : Level, take : Level]]
    BY CopyTyped DEF AnnouncePositions, ProtectionInv, ProtectionTypeOK
  <2>2. closing' \in [Position -> [price : Level, committed : BOOLEAN]]
    BY <1>0, NoCloseTyped DEF AnnouncePositions
  <2> QED
    BY <1>1, <2>1, <2>2 DEF ProtectionInv, ProtectionTypeOK
<1>3. DocumentsWellFormed' /\ ClosesCounted'
  BY <1>1 DEF ProtectionInv, DocumentsWellFormed, ClosesCounted
<1>4. CopiesFollow'
  <2> SUFFICES ASSUME engines = "started", NEW p \in Position, p \notin silent
               PROVE  watched'[p] = CopyOfProtection(p)
                      /\ (p \in trailed' <=> IsOpen(p) /\ position[p].trailing)
    BY <1>1 DEF CopiesFollow, CopyOfProtection, IsOpen
  <2> QED
    BY <1>1 DEF ProtectionInv, CopiesFollow
<1>5. CopiesBehind'
  BY <1>1, CopyTyped DEF ProtectionInv, CopiesBehind, IsOpen
<1>6. DetectionStillHolds'
  BY <1>1 DEF ProtectionInv, DetectionStillHolds, IsOpen, PriceOf
<1> QED
  BY <1>2, <1>3, <1>4, <1>5, <1>6 DEF ProtectionInv

LEMMA CrashStep == ASSUME ProtectionInv, CrashEngines PROVE ProtectionInv'
<1>1. /\ UNCHANGED <<bid, position, closes>>
      /\ engines' = "down" /\ trailed' = {} /\ announced' = {} /\ silent' = {} /\ changed' = {}
      /\ \A p \in Position : watched'[p] = NotWatched /\ closing'[p] = NoClose
      /\ protectionFaults' \in 0 .. MaxProtectionFaults
  BY FaultCounted DEF CrashEngines
<1>2. ProtectionTypeOK'
  <2>1. watched' \in [Position -> [stop : Level, take : Level]] /\ advancing' \in [Position -> Level]
    BY Levels DEF CrashEngines, NotWatched
  <2>2. closing' \in [Position -> [price : Level, committed : BOOLEAN]]
    BY NoCloseTyped DEF CrashEngines
  <2> QED
    BY <1>1, <2>1, <2>2 DEF ProtectionInv, ProtectionTypeOK
<1>3. DocumentsWellFormed' /\ ClosesCounted' /\ CopiesFollow' /\ DetectionStillHolds'
  BY <1>1 DEF ProtectionInv, DocumentsWellFormed, ClosesCounted, CopiesFollow, DetectionStillHolds
<1>4. CopiesBehind'
  BY <1>1 DEF CopiesBehind, Behind, NotWatched
<1> QED
  BY <1>2, <1>3, <1>4 DEF ProtectionInv

LEMMA StartEnginesStep == ASSUME ProtectionInv, StartEngines PROVE ProtectionInv'
<1>1. /\ UNCHANGED <<bid, position, closing, advancing, announced, closes, changed, silent,
                     protectionFaults>>
      /\ \A p \in Position : watched'[p] = CopyOfProtection(p)
      /\ trailed' = {p \in Position : IsOpen(p) /\ position[p].trailing}
      /\ engines' = "started"
  BY DEF StartEngines
<1>2. ProtectionTypeOK'
  <2>1. watched' \in [Position -> [stop : Level, take : Level]]
    BY CopyTyped DEF StartEngines
  <2> QED
    BY <1>1, <2>1 DEF ProtectionInv, ProtectionTypeOK
<1>3. DocumentsWellFormed' /\ ClosesCounted' /\ DetectionStillHolds'
  BY <1>1 DEF ProtectionInv, DocumentsWellFormed, ClosesCounted, DetectionStillHolds, IsOpen, PriceOf
<1>4. CopiesFollow'
  BY <1>1 DEF CopiesFollow, CopyOfProtection, IsOpen
<1>5. CopiesBehind'
  BY <1>1, CopyTyped DEF ProtectionInv, CopiesBehind, IsOpen
<1> QED
  BY <1>2, <1>3, <1>4, <1>5 DEF ProtectionInv

LEMMA ProtectionInvIsInductive == ProtectionInv /\ [ProtectionNext]_protectionVars => ProtectionInv'
<1> SUFFICES ASSUME ProtectionInv, [ProtectionNext]_protectionVars PROVE ProtectionInv'
  OBVIOUS
<1>1. ASSUME NEW p \in Position,
             \E side \in Side, stop \in Level, take \in Target \cup {Null} : OpenPosition(p, side, stop, take)
      PROVE  ProtectionInv'
  BY <1>1, OpenStep
<1>2. ASSUME NEW p \in Position, BreakEven(p) \/ \E stop \in Level : SetStop(p, stop)
      PROVE  ProtectionInv'
  BY <1>2, SetStopStep, Levels
<1>3. ASSUME NEW p \in Position, \E take \in Target \cup {Null} : SetTake(p, take)
      PROVE  ProtectionInv'
  BY <1>3, SetTakeStep
<1>4. ASSUME NEW p \in Position,
             \/ ClosePosition(p) \/ EnableTrailing(p) \/ DisableTrailing(p)
             \/ ProtectiveClose(p) \/ ProtectiveCloseFails(p) \/ Advance(p)
      PROVE  ProtectionInv'
  BY <1>4, CloseStep, TrailingStep, ProtectiveCloseStep, AdvanceStep
<1>5. CASE \E price \in Bid : ProtectionTick(price)
  BY <1>5, ProtectionTickStep
<1>6. CASE AnnouncePositions \/ CrashEngines \/ StartEngines
  BY <1>6, AnnounceStep, CrashStep, StartEnginesStep
<1>7. CASE UNCHANGED protectionVars
  <2>1. UNCHANGED <<bid, position, engines, watched, trailed, announced, closes, changed, silent>>
        /\ closing' = closing /\ advancing' = advancing /\ protectionFaults' = protectionFaults
    BY <1>7 DEF protectionVars
  <2> QED
    BY <2>1, WorkEnds DEF ProtectionInv, ProtectionTypeOK
<1> QED
  BY <1>1, <1>2, <1>3, <1>4, <1>5, <1>6, <1>7 DEF ProtectionNext

(***************************************************************************)
(* What hits a copy hits the document, in every reachable state.           *)
(***************************************************************************)
THEOREM ProtectionInvariant == ProtectionSpec => []ProtectionInv
BY InitProtectionInv, ProtectionInvIsInductive, PTL DEF ProtectionSpec

(***************************************************************************)
(* The engines follow the documents, a position is closed once, what a     *)
(* tick has hit is still hit when the close has its turn, and a trailing   *)
(* stop keeps its distance (protection-trigger-engine.js).                 *)
(***************************************************************************)
THEOREM ProtectionIsSoundTheorem == ProtectionSpec => []ProtectionIsSound
BY ProtectionInvariant, InvImpliesSound, PTL

-----------------------------------------------------------------------------
(***************************************************************************)
(* One step never loosens the stop of a position that stays trailing.      *)
(***************************************************************************)
Tightened(q) == (position[q].trailing /\ position'[q].trailing) => position'[q].stop >= position[q].stop

\* A step that replaces the document of p by o.
LEMMA ReplacementTightens ==
  ASSUME ProtectionInv, NEW p \in Position, NEW o, position' = [position EXCEPT ![p] = o],
         (position[p].trailing /\ o.trailing) => o.stop >= position[p].stop
  PROVE  \A q \in Position : Tightened(q)
<1>1. position \in [Position -> Document]
  BY DEF ProtectionInv, DocumentsWellFormed
<1>2. \A q \in Position : position[q].stop \in Nat
  BY <1>1 DEF Document, Level
<1> QED
  BY <1>1, <1>2 DEF Tightened

LEMMA SameTightens ==
  ASSUME ProtectionInv, UNCHANGED position
  PROVE  \A q \in Position : Tightened(q)
BY DEF ProtectionInv, DocumentsWellFormed, Document, Level, Tightened

LEMMA ClosedTightens ==
  ASSUME ProtectionInv, NEW p \in Position, position' = [position EXCEPT ![p] = Closed(p)]
  PROVE  \A q \in Position : Tightened(q)
<1>1. ~Closed(p).trailing
  BY DEF Closed, NoPosition
<1> QED
  BY <1>1, ReplacementTightens

LEMMA TraderTightens ==
  ASSUME ProtectionInv, NEW p \in Position,
         \/ \E side \in Side, stop \in Level, take \in Target \cup {Null} : OpenPosition(p, side, stop, take)
         \/ \E stop \in Level : SetStop(p, stop)
         \/ \E take \in Target \cup {Null} : SetTake(p, take)
         \/ ClosePosition(p) \/ BreakEven(p) \/ EnableTrailing(p) \/ DisableTrailing(p)
  PROVE  \A q \in Position : Tightened(q)
<1>0. position[p] \in Document /\ position \in [Position -> Document] /\ position[p].stop \in Nat
      /\ position[p].entry \in Level
  BY DEF ProtectionInv, DocumentsWellFormed, Document, Bid, Level
<1>1. ASSUME NEW side \in Side, NEW stop \in Level, NEW take \in Target \cup {Null},
             OpenPosition(p, side, stop, take)
      PROVE  \A q \in Position : Tightened(q)
  <2>1. ~Opened(side, stop, take).trailing
    BY DEF Opened, NoPosition
  <2> QED
    BY <1>1, <2>1, ReplacementTightens DEF OpenPosition
<1>2. ASSUME NEW stop \in Level, SetStop(p, stop) \/ BreakEven(p)
      PROVE  \A q \in Position : Tightened(q)
  BY <1>0, <1>2, StopOfTrader, ReplacementTightens DEF SetStop, BreakEven
<1>3. ASSUME NEW take \in Target \cup {Null}, SetTake(p, take)
      PROVE  \A q \in Position : Tightened(q)
  <2> DEFINE o == [position[p] EXCEPT !.take = take]
  <2>1. position' = [position EXCEPT ![p] = o] /\ o.stop = position[p].stop
    BY <1>0, <1>3 DEF SetTake, Document
  <2> HIDE DEF o
  <2>2. o.stop >= position[p].stop
    BY <1>0, <2>1
  <2> QED
    BY <2>1, <2>2, ReplacementTightens
<1>4. CASE ClosePosition(p)
  BY <1>4, ClosedTightens DEF ClosePosition
<1>5. CASE EnableTrailing(p)
  <2> DEFINE best == PriceOf(p, bid)
             o == [position[p] EXCEPT !.stop = TighterStop(position[p], best), !.trailing = TRUE,
                                      !.best = best]
  <2>1. best \in Level /\ best # Null /\ best > Distance
    BY <1>5, ProtectionConstants DEF EnableTrailing, PriceOf, PriceFor, Level, Bid, Null,
       ProtectionInv, ProtectionTypeOK
  <2>2. TighterStop(position[p], best) >= position[p].stop
    <3> HIDE DEF best
    <3> QED
      BY <1>0, <2>1, Trailing, ProtectionConstants DEF Level
  <2>3. position' = [position EXCEPT ![p] = o]
    BY <1>5 DEF EnableTrailing
  <2>4. o.stop = TighterStop(position[p], best)
    BY <1>0 DEF Document
  <2> HIDE DEF o, best
  <2> QED
    BY <2>2, <2>3, <2>4, ReplacementTightens
<1>6. CASE DisableTrailing(p)
  <2> DEFINE o == [position[p] EXCEPT !.trailing = FALSE, !.best = Null]
  <2>1. position' = [position EXCEPT ![p] = o] /\ o.stop = position[p].stop
    BY <1>0, <1>6 DEF DisableTrailing, Document
  <2> HIDE DEF o
  <2>2. o.stop >= position[p].stop
    BY <1>0, <2>1
  <2> QED
    BY <2>1, <2>2, ReplacementTightens
<1> QED
  BY <1>1, <1>2, <1>3, <1>4, <1>5, <1>6, Levels

LEMMA EnginesTighten ==
  ASSUME ProtectionInv, NEW p \in Position,
         ProtectiveClose(p) \/ ProtectiveCloseFails(p) \/ Advance(p)
  PROVE  \A q \in Position : Tightened(q)
<1>1. CASE position' = position
  BY <1>1, SameTightens
<1>2. CASE position' = [position EXCEPT ![p] = Closed(p)]
  BY <1>2, ClosedTightens
<1>3. CASE /\ Advance(p) /\ IsOpen(p) /\ position[p].trailing
           /\ position' = [position EXCEPT ![p] = Advanced(position[p], PriceOf(p, advancing[p]))]
  <2>1. PriceOf(p, advancing[p]) \in Level
    BY <1>3, ProtectionConstants DEF Advance, PriceOf, PriceFor, Level, Null, ProtectionInv,
       ProtectionTypeOK
  <2> QED
    BY <1>3, <2>1, OpenDocument, AdvancedDocument, ReplacementTightens
<1> QED
  BY <1>1, <1>2, <1>3 DEF ProtectiveClose, ProtectiveCloseFails, Advance

(***************************************************************************)
(* A trailing stop goes one way only while trailing stays on               *)
(* (trailing-stop-planner.js).                                             *)
(***************************************************************************)
THEOREM TrailingOnlyTightensTheorem == ProtectionSpec => TrailingOnlyTightens
<1>1. ProtectionInv /\ [ProtectionNext]_protectionVars
        => [\A q \in Position : Tightened(q)]_protectionVars
  <2> SUFFICES ASSUME ProtectionInv, ProtectionNext PROVE \A q \in Position : Tightened(q)
    OBVIOUS
  <2>1. CASE position' = position
    BY <2>1, SameTightens
  <2>2. CASE position' # position
    BY <2>2, TraderTightens, EnginesTighten DEF ProtectionNext, ProtectionTick, AnnouncePositions,
       CrashEngines, StartEngines
  <2> QED
    BY <2>1, <2>2
<1>2. (\A q \in Position : Tightened(q))
        <=> \A p \in Position : (position[p].trailing /\ position'[p].trailing)
                                 => position'[p].stop >= position[p].stop
  BY DEF Tightened
<1> QED
  BY <1>1, <1>2, ProtectionInvariant, PTL DEF ProtectionSpec, TrailingOnlyTightens
=============================================================================
