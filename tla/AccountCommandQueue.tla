------------------------- MODULE AccountCommandQueue -------------------------
(***************************************************************************)
(* AccountCommandQueue (src/modules/trading/account-command-queue.js): a   *)
(* map from an account to the promise at the end of its chain of commands. *)
(* run() chains the new command behind that promise, makes the command the *)
(* new end, and removes the map entry when the command settles, unless a   *)
(* later command has replaced it.                                          *)
(*                                                                         *)
(* A task is one call of run().  "arrivals" and "backlog" are history: the *)
(* refinement mapping and the drain property read them, no guard does.     *)
(***************************************************************************)
EXTENDS Naturals, Sequences

CONSTANTS Task, Account, AccountOf, NoTask

ASSUME QueueAccountOf == AccountOf \in [Task -> Account]
ASSUME QueueNoTask == NoTask \notin Task

VARIABLES
  tails,      \* this.tails: the task whose promise ends each account's chain
  previous,   \* the task whose settling each task waits for
  stage,      \* how far each task has come
  cleaned,    \* the tasks whose finally() callback has run
  awaited,    \* the chain ends a call of drainAll() is waiting for
  draining,   \* whether drainAll() was called
  arrivals,   \* history: the tasks submitted on each account, in order
  backlog     \* history: the tasks submitted before drainAll()

vars == <<tails, previous, stage, cleaned, awaited, draining, arrivals, backlog>>

Settled == {"fulfilled", "rejected"}
Unsettled == {"waiting", "running"}

TypeOK ==
  /\ tails \in [Account -> Task \cup {NoTask}]
  /\ previous \in [Task -> Task \cup {NoTask}]
  /\ stage \in [Task -> {"new"} \cup Unsettled \cup Settled]
  /\ cleaned \subseteq Task
  /\ awaited \subseteq Task
  /\ draining \in BOOLEAN
  /\ arrivals \in [Account -> Seq(Task)]
  /\ backlog \subseteq Task

Init ==
  /\ tails = [a \in Account |-> NoTask]
  /\ previous = [t \in Task |-> NoTask]
  /\ stage = [t \in Task |-> "new"]
  /\ cleaned = {}
  /\ awaited = {}
  /\ draining = FALSE
  /\ arrivals = [a \in Account |-> <<>>]
  /\ backlog = {}

(***************************************************************************)
(* run(), synchronously.  A missing map entry stands for Promise.resolve().*)
(***************************************************************************)
\* Mutant: a later command does not become the end of the chain.
RunWithoutTail(t) ==
  /\ stage[t] = "new"
  /\ previous' = [previous EXCEPT ![t] = tails[AccountOf[t]]]
  /\ tails' = [tails EXCEPT ![AccountOf[t]] = IF @ = NoTask THEN t ELSE @]
  /\ stage' = [stage EXCEPT ![t] = "waiting"]
  /\ arrivals' = [arrivals EXCEPT ![AccountOf[t]] = Append(@, t)]
  /\ UNCHANGED <<cleaned, awaited, draining, backlog>>

Run(t) ==
  /\ stage[t] = "new"
  /\ previous' = [previous EXCEPT ![t] = tails[AccountOf[t]]]
  /\ tails' = [tails EXCEPT ![AccountOf[t]] = t]
  /\ stage' = [stage EXCEPT ![t] = "waiting"]
  /\ arrivals' = [arrivals EXCEPT ![AccountOf[t]] = Append(@, t)]
  /\ UNCHANGED <<cleaned, awaited, draining, backlog>>

(***************************************************************************)
(* previous.catch(() => undefined).then(() => task()): a task begins when  *)
(* its predecessor settles, however it settles.                            *)
(***************************************************************************)
PreviousSettled(t) == previous[t] # NoTask => stage[previous[t]] \in Settled

\* Mutant: a failed predecessor blocks its successor.
StartAfterSuccess(t) ==
  /\ stage[t] = "waiting"
  /\ previous[t] # NoTask => stage[previous[t]] = "fulfilled"
  /\ stage' = [stage EXCEPT ![t] = "running"]
  /\ UNCHANGED <<tails, previous, cleaned, awaited, draining, arrivals, backlog>>

Start(t) ==
  /\ stage[t] = "waiting"
  /\ PreviousSettled(t)
  /\ stage' = [stage EXCEPT ![t] = "running"]
  /\ UNCHANGED <<tails, previous, cleaned, awaited, draining, arrivals, backlog>>

Settle(t) ==
  /\ stage[t] = "running"
  /\ \E outcome \in Settled : stage' = [stage EXCEPT ![t] = outcome]
  /\ UNCHANGED <<tails, previous, cleaned, awaited, draining, arrivals, backlog>>

(***************************************************************************)
(* execution.finally(): drop the map entry if it still belongs to t.       *)
(***************************************************************************)
\* Mutant: the entry goes even if it belongs to a later command.
CleanupUnconditionally(t) ==
  /\ stage[t] \in Settled
  /\ t \notin cleaned
  /\ cleaned' = cleaned \cup {t}
  /\ tails' = [tails EXCEPT ![AccountOf[t]] = NoTask]
  /\ UNCHANGED <<previous, stage, awaited, draining, arrivals, backlog>>

Cleanup(t) ==
  /\ stage[t] \in Settled
  /\ t \notin cleaned
  /\ cleaned' = cleaned \cup {t}
  /\ tails' = [tails EXCEPT ![AccountOf[t]] = IF @ = t THEN NoTask ELSE @]
  /\ UNCHANGED <<previous, stage, awaited, draining, arrivals, backlog>>

(***************************************************************************)
(* drainAll(), called once at shutdown: wait for the chain ends as they    *)
(* are now.  drain(account) waits for one of them.                         *)
(***************************************************************************)

DrainAll ==
  /\ ~draining
  /\ draining' = TRUE
  /\ awaited' = {tails[a] : a \in Account} \ {NoTask}
  /\ backlog' = {t \in Task : stage[t] # "new"}
  /\ UNCHANGED <<tails, previous, stage, cleaned, arrivals>>

Next ==
  \/ \E t \in Task : Run(t) \/ Start(t) \/ Settle(t) \/ Cleanup(t)
  \/ DrainAll

(***************************************************************************)
(* Promise reactions run as soon as the event loop reaches them, and every *)
(* command body settles (each database call has a driver timeout).         *)
(***************************************************************************)
QueueFairness ==
  \A t \in Task : WF_vars(Start(t)) /\ WF_vars(Settle(t)) /\ WF_vars(Cleanup(t))

Spec == Init /\ [][Next]_vars /\ QueueFairness

-----------------------------------------------------------------------------
\* Two commands of one account never run at the same time: the map entry and
\* the chain of promises stand in for a lock (account-command-queue.js:13-20).
MutualExclusion ==
  \A t, u \in Task :
    (t # u /\ AccountOf[t] = AccountOf[u])
      => ~(stage[t] = "running" /\ stage[u] = "running")

\* Waiting for the chain ends alone is waiting for everything accepted before:
\* when drainAll() returns, no task submitted before it is still unfinished
\* (trading.runtime.js relies on it before it stops the relay).
DrainCoversBacklog ==
  (draining /\ \A t \in awaited : stage[t] \in Settled)
    => \A t \in backlog : stage[t] \in Settled

\* The map holds no entry for an account whose tasks have all settled and been
\* cleaned up, and does hold one while any task is unsettled (pendingAccounts).
TailTracksPending ==
  \A a \in Account :
    LET own == {t \in Task : AccountOf[t] = a /\ stage[t] # "new"}
    IN  /\ (\E t \in own : stage[t] \in Unsettled) => tails[a] # NoTask
        /\ own \subseteq cleaned => tails[a] = NoTask

\* Every submitted command runs to its end, also behind one that failed.
EverySubmittedTaskSettles ==
  \A t \in Task : (stage[t] = "waiting") ~> (stage[t] \in Settled)

(***************************************************************************)
(* The inductive invariant behind these: seen in order of arrival, the     *)
(* tasks of an account are a settled prefix, then the task whose turn it   *)
(* is, then waiting tasks each chained to the one before it.               *)
(***************************************************************************)
ArrivalsComplete ==
  \A a \in Account :
    /\ \A i \in 1..Len(arrivals[a]) :
         /\ AccountOf[arrivals[a][i]] = a
         /\ stage[arrivals[a][i]] # "new"
    /\ \A i, j \in 1..Len(arrivals[a]) : arrivals[a][i] = arrivals[a][j] => i = j

EveryTaskArrived ==
  \A t \in Task :
    stage[t] # "new" => \E i \in 1..Len(arrivals[AccountOf[t]]) : arrivals[AccountOf[t]][i] = t

ChainedInOrder ==
  \A a \in Account : \A i \in 1..Len(arrivals[a]) :
    IF previous[arrivals[a][i]] = NoTask
      THEN \A j \in 1..(i-1) : stage[arrivals[a][j]] \in Settled
      ELSE i > 1 /\ previous[arrivals[a][i]] = arrivals[a][i-1]

SettledPrefix ==
  \A a \in Account : \A i \in 1..Len(arrivals[a]) :
    stage[arrivals[a][i]] # "waiting"
      => \A j \in 1..(i-1) : stage[arrivals[a][j]] \in Settled

TailIsLast ==
  \A a \in Account :
    IF tails[a] = NoTask
      THEN \A i \in 1..Len(arrivals[a]) : stage[arrivals[a][i]] \in Settled
      ELSE arrivals[a] # <<>> /\ tails[a] = arrivals[a][Len(arrivals[a])]

BacklogBehindAwaited ==
  draining => \A t \in backlog :
    stage[t] \in Settled
      \/ \E a \in Account : \E j \in 1..Len(arrivals[a]) : \E i \in 1..j :
            arrivals[a][j] \in awaited /\ arrivals[a][i] = t

QueueInv ==
  /\ TypeOK
  /\ ArrivalsComplete
  /\ EveryTaskArrived
  /\ ChainedInOrder
  /\ SettledPrefix
  /\ TailIsLast
  /\ BacklogBehindAwaited

(***************************************************************************)
(* The queue implements SerialExecution: an account's line is the part of  *)
(* its arrivals that has not settled.                                      *)
(***************************************************************************)
SettledUpTo(a, k) ==
  \A i \in 1..Len(arrivals[a]) : stage[arrivals[a][i]] \in Settled <=> i <= k

Served(a) == CHOOSE k \in 0..Len(arrivals[a]) : SettledUpTo(a, k)

Lines == [a \in Account |-> SubSeq(arrivals[a], Served(a) + 1, Len(arrivals[a]))]
Running == {t \in Task : stage[t] = "running"}

Serial == INSTANCE SerialExecution WITH line <- Lines, active <- Running

ImplementsSerialExecution == Serial!SerialSpec

\* The map of tails serves as one lock per account (account-command-queue.js).
QueueIsSound == TypeOK /\ MutualExclusion /\ TailTracksPending
=============================================================================
