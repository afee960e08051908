--------------------------- MODULE PlatformEventRelay ---------------------------
(***************************************************************************)
(* The outbox of platform events and the relay that posts it to the        *)
(* platform (platform-event-relay.js).  Facts, which are deals and account *)
(* controls, are stored in the transaction that they report.  Snapshots of *)
(* an account are coalesced in memory, posted at once, and stored only     *)
(* when the post has failed.                                               *)
(*                                                                         *)
(* One account is modelled: the maps of the relay are keyed by account.  A *)
(* snapshot is named by the sequence number of its valuation.  A database  *)
(* operation, or a post with its outcome, is one step.                     *)
(***************************************************************************)
EXTENDS Naturals, Sequences, FiniteSets

CONSTANTS
  Fact,
  MaxAttempts,     \* this.maxAttempts
  BatchSize,       \* this.batchSize
  MaxSnapshot,     \* bound: the last valuation sequence number
  MaxCaptures,     \* bound: the snapshots in flight at a time
  MaxRelayFaults,  \* bound: saves that fail, and crashes
  MaxStops         \* bound: calls of stop()

VARIABLES
  relay,         \* "up", "stopping", "draining", "exiting" or "down"
  outbox,        \* the records, by event
  enqueued,      \* the events in the order of createdAt
  batch,         \* flush(): the records that were due and are not yet taken up
  delivering,    \* the step of #deliver()
  current,       \* the event that is delivered
  doc,           \* its record in memory
  latest,        \* latestSnapshotSequence
  snapshot,      \* snapshotPending, with its timer
  captures,      \* the calls of #captureSnapshot() that run
  retryPending,  \* whether snapshotRetryPending has the account
  received,      \* history: what the platform has received
  tries,         \* history: the deliveries of a fact that were tried, up to MaxAttempts
  miscounts,     \* history: those of its posts that were counted twice
  valued,        \* the last valuation that was announced
  owed,          \* history: the snapshot that is to be posted
  relayFaults,
  stops

outboxVars == <<outbox, enqueued>>
flushVars == <<batch, delivering, current, doc>>
snapshotVars == <<latest, snapshot, captures, retryPending>>
relayHistory == <<received, tries, miscounts, valued, owed, stops>>
relayVars == <<relay, outboxVars, flushVars, snapshotVars, relayHistory, relayFaults>>

Snapshot == 1 .. MaxSnapshot
None == 0
RelayEvent == Fact \cup Snapshot

ASSUME RelayConstants ==
  /\ MaxAttempts \in Nat \ {0} /\ MaxSnapshot \in Nat
  /\ MaxRelayFaults \in Nat /\ MaxStops \in Nat
  /\ Fact \cap (Snapshot \cup {None}) = {}

Record == [status : {"absent", "PENDING", "DELIVERED", "DEAD"}, attempts : 0 .. MaxAttempts + 1,
           due : BOOLEAN]
Absent == [status |-> "absent", attempts |-> 0, due |-> FALSE]
Capture == [seq : Snapshot, step : {"read", "post", "retry", "find", "create"}]

RelayTypeOK ==
  /\ relay \in {"up", "stopping", "draining", "exiting", "down"}
  /\ outbox \in [RelayEvent -> Record]
  /\ enqueued \in Seq(RelayEvent)
  /\ batch \subseteq RelayEvent
  /\ delivering \in {"idle", "post", "delivered", "failed"}
  /\ current \in RelayEvent \cup {None} /\ (delivering = "idle" <=> current = None)
  /\ doc \in Record
  /\ latest \in Snapshot \cup {None} /\ snapshot \in Snapshot \cup {None}
  /\ captures \subseteq Capture
  /\ retryPending \in BOOLEAN
  /\ received \subseteq RelayEvent
  /\ tries \in [Fact -> 0 .. MaxAttempts] /\ miscounts \in [Fact -> Nat]
  /\ valued \in Snapshot \cup {None} /\ owed \in Snapshot \cup {None}
  /\ relayFaults \in 0 .. MaxRelayFaults /\ stops \in 0 .. MaxStops

RelayInit ==
  /\ relay = "up"
  /\ outbox = [e \in RelayEvent |-> Absent] /\ enqueued = <<>>
  /\ batch = {} /\ delivering = "idle" /\ current = None /\ doc = Absent
  /\ latest = None /\ snapshot = None /\ captures = {} /\ retryPending = FALSE
  /\ received = {} /\ valued = None /\ owed = None
  /\ tries = [f \in Fact |-> 0] /\ miscounts = [f \in Fact |-> 0]
  /\ relayFaults = 0 /\ stops = 0

RelayFault == relayFaults < MaxRelayFaults /\ relayFaults' = relayFaults + 1
NoRelayFault == UNCHANGED relayFaults

-----------------------------------------------------------------------------
(***************************************************************************)
(* The outbox.                                                             *)
(***************************************************************************)
Enqueue(e) ==
  /\ outbox' = [outbox EXCEPT ![e] = [status |-> "PENDING", attempts |-> 0, due |-> TRUE]]
  /\ enqueued' = Append(enqueued, e)

\* enqueueDeal() and enqueueControl(), in the transaction of a trading service.
EnqueueFact(f) ==
  /\ relay # "down" /\ outbox[f].status = "absent"
  /\ Enqueue(f)
  /\ UNCHANGED <<relay, flushVars, snapshotVars, relayHistory, relayFaults>>

\* The clock passes nextAttemptAt.
AttemptFallsDue(e) ==
  /\ outbox[e].status = "PENDING" /\ ~outbox[e].due
  /\ outbox' = [outbox EXCEPT ![e].due = TRUE]
  /\ UNCHANGED <<relay, enqueued, flushVars, snapshotVars, relayHistory, relayFaults>>

-----------------------------------------------------------------------------
(***************************************************************************)
(* flush() and #deliver().                                                 *)
(***************************************************************************)
Due == {e \in RelayEvent : outbox[e].status = "PENDING" /\ outbox[e].due}

\* By createdAt.
Older(f, e) == \E i, j \in DOMAIN enqueued : i < j /\ enqueued[i] = f /\ enqueued[j] = e

\* Turn to the oldest record of b, or end the flush.
TakeUp(b) ==
  \/ /\ b = {} /\ batch' = {} /\ delivering' = "idle" /\ current' = None /\ doc' = Absent
  \/ \E e \in b :
       /\ \A f \in b : ~Older(f, e)
       /\ batch' = b \ {e}
       /\ delivering' = "post" /\ current' = e /\ doc' = outbox[e]

StartFlush == TakeUp({e \in Due : Cardinality({f \in Due : Older(f, e)}) < BatchSize})

Flush ==
  /\ relay \in {"up", "stopping"}
  /\ delivering = "idle" /\ Due # {}
  /\ StartFlush
  /\ UNCHANGED <<relay, outboxVars, snapshotVars, relayHistory, relayFaults>>

\* The catch branch.  A status DELIVERED that could not be saved stays in the
\* document, and is saved with the failure.
CountFailure(d) ==
  [status |-> IF d.attempts + 1 >= MaxAttempts THEN "DEAD" ELSE d.status,
   attempts |-> d.attempts + 1, due |-> FALSE]

CountSuccess(d) == [status |-> "DELIVERED", attempts |-> d.attempts + 1, due |-> FALSE]

Post(e) ==
  /\ delivering = "post" /\ relay # "down" /\ e = current
  /\ tries' = [f \in Fact |-> IF f = e /\ tries[f] < MaxAttempts THEN tries[f] + 1 ELSE tries[f]]
  /\ \/ received' = received \cup {e} /\ doc' = CountSuccess(doc) /\ delivering' = "delivered"
     \/ received' \in {received, received \cup {e}}   \* refused, or the response is lost
        /\ doc' = CountFailure(doc) /\ delivering' = "failed"
  /\ UNCHANGED <<relay, outboxVars, batch, current, snapshotVars, miscounts, valued, owed, stops, relayFaults>>

RetryEnds(e) == retryPending' = IF e \in Snapshot THEN FALSE ELSE retryPending

\* TakeUp() reads the next record; it is not the one that is saved.
SaveDelivered(e) ==
  /\ delivering = "delivered" /\ relay # "down" /\ e = current
  /\ \/ /\ outbox' = [outbox EXCEPT ![e] = doc]
        /\ RetryEnds(e)
        /\ TakeUp(batch)
        /\ NoRelayFault /\ UNCHANGED miscounts
     \/ /\ RelayFault
        /\ doc' = CountFailure(doc) /\ delivering' = "failed"
        /\ miscounts' = [f \in Fact |-> IF f = e THEN miscounts[f] + 1 ELSE miscounts[f]]
        /\ UNCHANGED <<outbox, batch, current, retryPending>>
  /\ UNCHANGED <<relay, enqueued, latest, snapshot, captures, received, tries, valued, owed, stops>>

\* A save that fails here ends the flush.
SaveFailed(e) ==
  /\ delivering = "failed" /\ relay # "down" /\ e = current
  /\ IF doc.status = "DEAD" THEN RetryEnds(e) ELSE UNCHANGED retryPending
  /\ \/ outbox' = [outbox EXCEPT ![e] = doc] /\ TakeUp(batch) /\ NoRelayFault
     \/ RelayFault /\ TakeUp({}) /\ UNCHANGED outbox
  /\ UNCHANGED <<relay, enqueued, latest, snapshot, captures, relayHistory>>

-----------------------------------------------------------------------------
(***************************************************************************)
(* Snapshots.                                                              *)
(***************************************************************************)
\* #queueSnapshot(), for a valuation of the engine.
QueueSnapshot(n) ==
  /\ relay = "up" /\ n = valued + 1
  /\ valued' = n
  /\ IF n <= latest THEN UNCHANGED <<latest, snapshot, owed>>
                    ELSE latest' = n /\ snapshot' = n /\ owed' = n
  /\ UNCHANGED <<relay, outboxVars, flushVars, captures, retryPending, received, tries,
                 miscounts, stops, relayFaults>>

StartCapture == captures' = captures \cup {[seq |-> snapshot, step |-> "read"]}

\* The timer of the coalescing.
SnapshotTimer ==
  /\ relay = "up" /\ snapshot # None
  /\ Cardinality(captures) < MaxCaptures
  /\ StartCapture
  /\ snapshot' = None
  /\ UNCHANGED <<relay, outboxVars, flushVars, latest, retryPending, relayHistory, relayFaults>>

Goto(c, step) == captures' = (captures \ {c}) \cup {[c EXCEPT !.step = step]}
Ends(c) == captures' = captures \ {c}

\* #captureSnapshot(): after the account is read, the snapshot is dropped
\* when a later one has been queued.
IsStale(c) == c.seq < latest

CaptureRead(c) ==
  /\ c.step = "read" /\ relay # "down"
  /\ IF IsStale(c) THEN Ends(c) ELSE Goto(c, "post")
  /\ UNCHANGED <<relay, outboxVars, flushVars, latest, snapshot, retryPending, relayHistory,
                 relayFaults>>

CapturePost(c) ==
  /\ c.step = "post" /\ relay # "down"
  /\ owed' = IF owed = c.seq THEN None ELSE owed
  /\ \/ received' = received \cup {c.seq} /\ Ends(c)
     \/ received' \in {received, received \cup {c.seq}} /\ Goto(c, "retry")
  /\ UNCHANGED <<relay, outboxVars, flushVars, latest, snapshot, retryPending, tries,
                 miscounts, valued, stops, relayFaults>>

\* Mutant: the account is not marked before the outbox is searched.
RetryUnmarked(c) ==
  /\ c.step = "retry" /\ relay # "down"
  /\ IF retryPending THEN Ends(c) ELSE Goto(c, "find")
  /\ UNCHANGED <<relay, outboxVars, flushVars, latest, snapshot, retryPending, relayHistory,
                 relayFaults>>

\* #ensureSnapshotRetry().
Retry(c) ==
  /\ c.step = "retry" /\ relay # "down"
  /\ IF retryPending THEN Ends(c) /\ UNCHANGED retryPending
                     ELSE Goto(c, "find") /\ retryPending' = TRUE
  /\ UNCHANGED <<relay, outboxVars, flushVars, latest, snapshot, relayHistory, relayFaults>>

PendingRetries == {n \in Snapshot : outbox[n].status = "PENDING"}

FindRetry(c) ==
  /\ c.step = "find" /\ relay # "down"
  /\ IF PendingRetries # {} THEN Ends(c) ELSE Goto(c, "create")
  /\ UNCHANGED <<relay, outboxVars, flushVars, latest, snapshot, retryPending, relayHistory,
                 relayFaults>>

CreateRetry(c) ==
  /\ c.step = "create" /\ relay # "down"
  /\ Enqueue(c.seq)
  /\ Ends(c)
  /\ UNCHANGED <<relay, flushVars, latest, snapshot, retryPending, relayHistory, relayFaults>>

RetryFails(c) ==
  /\ c.step \in {"find", "create"} /\ relay # "down"
  /\ RelayFault
  /\ Ends(c) /\ retryPending' = FALSE
  /\ UNCHANGED <<relay, outboxVars, flushVars, latest, snapshot, relayHistory>>

-----------------------------------------------------------------------------
(***************************************************************************)
(* stop(), crashes and start().                                            *)
(***************************************************************************)
\* Mutant: stop() drops the snapshot that waits for its timer.
StopDropsSnapshot ==
  /\ relay = "up" /\ stops < MaxStops
  /\ stops' = stops + 1
  /\ relay' = "stopping"
  /\ snapshot' = None
  /\ UNCHANGED <<outboxVars, flushVars, latest, captures, retryPending, received, tries,
                 miscounts, valued, owed, relayFaults>>

Stop ==
  /\ relay = "up" /\ stops < MaxStops
  /\ stops' = stops + 1
  /\ relay' = "stopping"
  /\ IF snapshot = None THEN UNCHANGED captures ELSE StartCapture
  /\ snapshot' = None
  /\ UNCHANGED <<outboxVars, flushVars, latest, retryPending, received, tries, miscounts,
                 valued, owed, relayFaults>>

\* The last flush returns at once when another one runs.
StopFlush ==
  /\ relay = "stopping" /\ captures = {}
  /\ IF delivering = "idle" THEN relay' = "draining" /\ StartFlush
                            ELSE relay' = "exiting" /\ UNCHANGED flushVars
  /\ UNCHANGED <<outboxVars, snapshotVars, relayHistory, relayFaults>>

LoseMemory ==
  /\ relay' = "down"
  /\ batch' = {} /\ delivering' = "idle" /\ current' = None /\ doc' = Absent
  /\ latest' = None /\ snapshot' = None /\ captures' = {} /\ retryPending' = FALSE
  /\ UNCHANGED <<outboxVars, received, tries, miscounts, valued, stops>>

Exit ==
  /\ relay = "exiting" \/ (relay = "draining" /\ delivering = "idle")
  /\ LoseMemory
  /\ UNCHANGED <<owed, relayFaults>>

CrashRelay ==
  /\ relay # "down"
  /\ RelayFault
  /\ LoseMemory
  /\ owed' = None

Start ==
  /\ relay = "down"
  /\ relay' = "up"
  /\ UNCHANGED <<outboxVars, flushVars, snapshotVars, relayHistory, relayFaults>>

-----------------------------------------------------------------------------
Deliver == \E e \in RelayEvent : Post(e) \/ SaveDelivered(e) \/ SaveFailed(e)
Proceed(c) == CaptureRead(c) \/ CapturePost(c) \/ Retry(c) \/ FindRetry(c) \/ CreateRetry(c)

RelayNext ==
  \/ \E f \in Fact : EnqueueFact(f)
  \/ \E e \in RelayEvent : AttemptFallsDue(e) \/ Post(e) \/ SaveDelivered(e) \/ SaveFailed(e)
  \/ Flush
  \/ \E n \in Snapshot : QueueSnapshot(n)
  \/ SnapshotTimer
  \/ \E c \in captures : Proceed(c) \/ RetryFails(c)
  \/ Stop \/ StopFlush \/ Exit \/ CrashRelay \/ Start

\* Timers fire, promises are taken up, and a process that ended is started.
RelayFairness ==
  /\ WF_relayVars(Flush) /\ WF_relayVars(Deliver) /\ WF_relayVars(SnapshotTimer)
  /\ WF_relayVars(\E c \in captures : Proceed(c))
  /\ WF_relayVars(Start \/ Exit \/ StopFlush)
  /\ \A e \in RelayEvent : WF_relayVars(AttemptFallsDue(e))

RelaySpec == RelayInit /\ [][RelayNext]_relayVars /\ RelayFairness

-----------------------------------------------------------------------------
(***************************************************************************)
(* What the outbox calls delivered has reached the platform, whatever saves*)
(* fail and whenever the process dies.                                     *)
(***************************************************************************)
DeliveredWasReceived == \A e \in RelayEvent : outbox[e].status = "DELIVERED" => e \in received

(***************************************************************************)
(* The relay gives a fact up only after MaxAttempts posts; a success whose *)
(* save failed is the only thing that is counted twice.                    *)
(***************************************************************************)
DeadAfterAllTries ==
  \A f \in Fact : outbox[f].status = "DEAD" => tries[f] + miscounts[f] >= MaxAttempts

(***************************************************************************)
(* A failed snapshot leaves one stored retry of the account at most,       *)
(* however many posts fail at the same time.  After a restart there may be *)
(* two: a retry of the process before is delivered, and takes the mark of  *)
(* the account with it, while another one is searched for.                 *)
(***************************************************************************)
OneRetryPerAccount == (relayFaults = 0 /\ stops = 0) => Cardinality(PendingRetries) <= 1

(***************************************************************************)
(* A committed fact is not forgotten: in the end it is delivered or dead,  *)
(* through retries, failed saves, stops and crashes.                       *)
(***************************************************************************)
FactsAreSettled ==
  \A f \in Fact : (outbox[f].status = "PENDING") ~> (outbox[f].status \in {"DELIVERED", "DEAD"})

(***************************************************************************)
(* The last valuation that was announced is posted, though it waits for a  *)
(* timer and others overtake it, and though the process is stopped before  *)
(* the timer fires; only a crash loses it.                                 *)
(***************************************************************************)
LastSnapshotIsPosted == (owed # None) ~> (owed = None)

(***************************************************************************)
(* The outbox tells the truth of its events (platform-event-relay.js).     *)
(***************************************************************************)
OutboxIsTrue == RelayTypeOK /\ DeliveredWasReceived /\ DeadAfterAllTries /\ OneRetryPerAccount

\* What was committed or announced is not forgotten.
RelayCatchesUp == FactsAreSettled /\ LastSnapshotIsPosted
=============================================================================
