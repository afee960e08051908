--------------------------- MODULE RuntimeShutdown ---------------------------
(***************************************************************************)
(* How the process stops (server.js, trading.runtime.js, market.runtime.js *)
(* and the stop() of each engine): the server is closed, market data ends, *)
(* the engines stop one after the other, each waiting for its own work, the *)
(* command queues are drained, and the relay and the database go last.     *)
(*                                                                         *)
(* A work is a command of a client, or what an engine started for an event.*)
(* The queues serve what is in them (AccountCommandQueue).                 *)
(***************************************************************************)
EXTENDS Naturals, FiniteSets

CONSTANTS
  Work,
  Client,          \* as the source of a work
  MaxConnected     \* bound: connections with a request at a time

Engine == {"trailing", "pending", "protection", "risk"}

ASSUME ShutdownConstants == Client \notin Engine

VARIABLES
  phase,       \* what shutdown() is at
  step,        \* of each work
  source,      \* Client, or the engine that started it
  connected,   \* the commands whose connection is open
  awaits,     \* the works whose promises shutdown() waits for
  abandoned,   \* history: clients hung up before these commands were queued
  unwatched    \* history: ingested by the risk engine when it stopped

shutdownVars == <<phase, step, source, connected, awaits, abandoned, unwatched>>

\* The order of shutdown() and of the stop() of the trading runtime.
After == [serving |-> "market", market |-> "http", http |-> "trailing", trailing |-> "pending",
          pending |-> "protection", protection |-> "risk", risk |-> "draining",
          draining |-> "relay", relay |-> "exited"]

Phase == DOMAIN After \cup {"exited", "forced"}

ShutdownTypeOK ==
  /\ phase \in Phase
  /\ step \in [Work -> {"none", "ingesting", "handling", "queued", "done"}]
  /\ source \in [Work -> Engine \cup {Client}]
  /\ connected \subseteq Work /\ \A w \in connected : source[w] = Client
  /\ awaits \subseteq Work /\ (phase \in Engine => \A w \in awaits : source[w] = phase)
  /\ abandoned \subseteq Work /\ unwatched \subseteq Work

ShutdownInit ==
  /\ phase = "serving"
  /\ step = [w \in Work |-> "none"] /\ source = [w \in Work |-> Client]
  /\ connected = {} /\ awaits = {} /\ abandoned = {} /\ unwatched = {}

-----------------------------------------------------------------------------
(***************************************************************************)
(* The work.                                                               *)
(***************************************************************************)
Alive == phase \notin {"exited", "forced"}

\* An engine is attached to its events until its stop() begins.
Attached(e) ==
  \/ phase \in {"serving", "market", "http"}
  \/ phase = "trailing" /\ e \in {"pending", "protection", "risk"}
  \/ phase = "pending" /\ e \in {"protection", "risk"}
  \/ phase = "protection" /\ e = "risk"

Begin(w, from, at) ==
  /\ step[w] = "none"
  /\ step' = [step EXCEPT ![w] = at] /\ source' = [source EXCEPT ![w] = from]

\* A request arrives on a connection.
AcceptCommand(w) ==
  /\ phase = "serving" /\ Cardinality(connected) < MaxConnected
  /\ Begin(w, Client, "handling") /\ connected' = connected \cup {w}
  /\ UNCHANGED <<phase, awaits, abandoned, unwatched>>

\* The client goes away; the handler of its request does not notice.
HangUp(w) ==
  /\ w \in connected /\ connected' = connected \ {w}
  /\ abandoned' = IF step[w] = "handling" THEN abandoned \cup {w} ELSE abandoned
  /\ UNCHANGED <<phase, step, source, awaits, unwatched>>

\* A tick has the engine launch work, or its timer.  Ticks come of the stream,
\* and after its end of the prices that commands have fetched.
Launch(w, e) ==
  /\ e # "risk" /\ Alive /\ Attached(e)
  /\ Begin(w, e, "handling")
  /\ UNCHANGED <<phase, connected, awaits, abandoned, unwatched>>

\* A valuation, of a tick or of a command, reaches #ingest().
IngestValuation(w) ==
  /\ Alive /\ Attached("risk")
  /\ Begin(w, "risk", "ingesting")
  /\ UNCHANGED <<phase, connected, awaits, abandoned, unwatched>>

GoTo(w, from, to) == Alive /\ step[w] = from /\ step' = [step EXCEPT ![w] = to]

\* #scheduleDrain(), which does not look whether the engine has stopped.
DrainBegins(w) ==
  /\ GoTo(w, "ingesting", "handling")
  /\ UNCHANGED <<phase, source, connected, awaits, abandoned, unwatched>>

EnqueueCommand(w) ==
  /\ GoTo(w, "handling", "queued")
  /\ UNCHANGED <<phase, source, connected, awaits, abandoned, unwatched>>

\* Mutant: the connection stays open after the response.
RespondAndKeepAlive(w) == connected' = connected
Respond(w) == connected' = connected \ {w}

\* The queue has served the command, or there was none to give to it.
WorkEnds(w) ==
  /\ GoTo(w, "queued", "done") \/ GoTo(w, "handling", "done") \/ GoTo(w, "ingesting", "done")
  /\ Respond(w)
  /\ UNCHANGED <<phase, source, awaits, abandoned, unwatched>>

-----------------------------------------------------------------------------
(***************************************************************************)
(* The shutdown.                                                           *)
(***************************************************************************)
\* Mutant: the tails are not collected.
AwaitsNoQueue(p) ==
  IF p \in Engine THEN {w \in Work : source[w] = p /\ step[w] \in {"handling", "queued"}} ELSE {}

\* What is awaited in a phase, as it is when the phase begins: inFlight of an
\* engine, in which an ingestion is not, or the tails of the queues.
Awaits(p) ==
  CASE p \in Engine -> {w \in Work : source[w] = p /\ step[w] \in {"handling", "queued"}}
    [] p = "draining" -> {w \in Work : step[w] = "queued"}
    [] OTHER -> {}

PhaseEnded ==
  /\ phase = "http" => connected = {}
  /\ \A w \in awaits : step[w] = "done"

Signal ==
  /\ phase = "serving" /\ phase' = After[phase]
  /\ UNCHANGED <<step, source, connected, awaits, abandoned, unwatched>>

AdvanceShutdown ==
  /\ Alive /\ phase # "serving" /\ PhaseEnded
  /\ phase' = After[phase]
  /\ awaits' = Awaits(phase')
  /\ unwatched' = IF phase' = "risk" THEN {w \in Work : step[w] = "ingesting"} ELSE unwatched
  /\ UNCHANGED <<step, source, connected, abandoned>>

\* forceTimer
ForceExit ==
  /\ Alive /\ phase # "serving" /\ phase' = "forced"
  /\ UNCHANGED <<step, source, connected, awaits, abandoned, unwatched>>

-----------------------------------------------------------------------------
WorkGoesOn(w) == DrainBegins(w) \/ EnqueueCommand(w) \/ WorkEnds(w)

ShutdownNext ==
  \/ \E w \in Work :
       \/ AcceptCommand(w) \/ HangUp(w) \/ IngestValuation(w)
       \/ \E e \in Engine : Launch(w, e)
       \/ DrainBegins(w) \/ EnqueueCommand(w) \/ WorkEnds(w)
  \/ Signal \/ AdvanceShutdown \/ ForceExit

\* Every await in a handler or in the work of an engine ends, and shutdown()
\* goes on when what it waits for has come.
ShutdownFairness ==
  /\ WF_shutdownVars(AdvanceShutdown)
  /\ \A w \in Work : WF_shutdownVars(WorkGoesOn(w))

ShutdownSpec == ShutdownInit /\ [][ShutdownNext]_shutdownVars /\ ShutdownFairness

-----------------------------------------------------------------------------
\* "Complete all accepted account commands while the platform relay remains
\* attached" (trading.runtime.js:107), and do not disconnect the database under
\* them: nothing is left when the relay stops but the command of a client that
\* hung up before it was queued, and what the risk engine was ingesting when it
\* stopped.
NothingIsLeftBehind ==
  phase \in {"relay", "exited"} =>
    \A w \in Work : step[w] \in {"none", "done"} \/ w \in abandoned \cup unwatched

\* The stops wait for each other's work without waiting for ever: a shutdown
\* ends without the force timer once the clients have their responses.
ShutdownEnds == phase = "market" ~> ~Alive

\* A shutdown waits for what was accepted (trading.runtime.js, server.js).
ShutdownIsOrderly == ShutdownTypeOK /\ NothingIsLeftBehind
=============================================================================
