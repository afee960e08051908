---------------------------- MODULE AccountControl ----------------------------
(***************************************************************************)
(* AccountControlService (account-control.service.js): pausing, staging,   *)
(* activating, resuming, disabling, breaching, flattening and closing one  *)
(* trading account, while its trader trades and other control operations   *)
(* run.                                                                    *)
(*                                                                         *)
(* A task of the account's command queue holds one transaction, so it is   *)
(* one step here (AccountCommandQueue shows that tasks do not overlap).    *)
(* What an operation does outside the queue - reading the account,         *)
(* counting and listing positions, reserving the key of a liquidating      *)
(* close - is a step of its own, and other operations run in between.      *)
(***************************************************************************)
EXTENDS Naturals

CONSTANTS
  Op,           \* callers that run control operations
  Position,     \* position ids
  Order,        \* pending order ids
  Commands,     \* the control operations that are called
  NoPosition, NoCommand

Restricted == {"BREACHED", "DISABLED", "CLOSED"}
Status == {"ACTIVE", "PAUSED"} \cup Restricted

\* The public methods with their options; breach() by its breachAction.
ControlCommand ==
  [kind : {"pause", "stage"}, cancelPending : BOOLEAN, liquidate : {FALSE}]
    \cup [kind : {"activate", "resume"}, cancelPending : {FALSE}, liquidate : {FALSE}]
    \cup [kind : {"disable"}, cancelPending : BOOLEAN, liquidate : BOOLEAN]
    \cup [kind : {"breach"}, cancelPending : BOOLEAN, liquidate : {FALSE}]
    \cup [kind : {"breach", "flatten", "close"}, cancelPending : {TRUE}, liquidate : {TRUE}]
    \cup [kind : {"close"}, cancelPending : {TRUE}, liquidate : {FALSE}]

ASSUME ControlConstants ==
  /\ Commands \subseteq ControlCommand
  /\ NoPosition \notin Position
  /\ NoCommand \notin ControlCommand

VARIABLES
  account,     \* the trading account document
  lifecycle,   \* the newest AccountLifecycleEvent: its toStatus, tradingEnabledAfter
  position,    \* the positions of the account
  order,       \* its pending orders; "working" is PENDING or TRIGGERED, "ended"
               \* is CANCELLED, EXPIRED or REJECTED
  liquidation, \* the idempotency record of control-liquidation:<position>
  op,          \* what each control operation is doing
  flattened    \* history: a terminal operation has reported its liquidation done

vars == <<account, lifecycle, position, order, liquidation, op, flattened>>
exposure == <<position, order, liquidation>>

OpPc == {"idle", "counting", "restrict", "switch", "list", "liquidating", "finalize"}

TypeOK ==
  /\ account \in [status : Status, tradingEnabled : BOOLEAN, federationEnabled : BOOLEAN,
                  breachedAt : BOOLEAN]
  /\ lifecycle \in [toStatus : Status, tradingEnabledAfter : BOOLEAN]
  /\ position \in [Position -> {"none", "open", "closed"}]
  /\ order \in [Order -> {"none", "working", "filled", "ended"}]
  /\ liquidation \in [Position -> {"none", "inProgress", "completed", "retryable", "failed"}]
  /\ op \in [Op -> [pc : OpPc, cmd : Commands \cup {NoCommand}, todo : SUBSET Position,
                    current : Position \cup {NoPosition}, failed : BOOLEAN]]
  /\ flattened \in BOOLEAN

Idle == [pc |-> "idle", cmd |-> NoCommand, todo |-> {}, current |-> NoPosition, failed |-> FALSE]

\* provision(): active at once, or staged until activate().
Init ==
  /\ \E active \in BOOLEAN :
       /\ account = [status |-> IF active THEN "ACTIVE" ELSE "PAUSED", tradingEnabled |-> active,
                     federationEnabled |-> active, breachedAt |-> FALSE]
       /\ lifecycle = [toStatus |-> account.status, tradingEnabledAfter |-> active]
  /\ position = [p \in Position |-> "none"]
  /\ order = [q \in Order |-> "none"]
  /\ liquidation = [p \in Position |-> "none"]
  /\ op = [o \in Op |-> Idle]
  /\ flattened = FALSE

OpenPositions == {p \in Position : position[p] = "open"}

Goto(o, where) == op' = [op EXCEPT ![o].pc = where]
Return(o) == op' = [op EXCEPT ![o] = Idle]

At(o, where) == op[o].pc = where

-----------------------------------------------------------------------------
\* A call arrives.  close() of a closed account returns at once.
Begin(o, c) ==
  /\ At(o, "idle")
  /\ c.kind = "close" => account.status # "CLOSED"
  /\ op' = [op EXCEPT ![o] = [Idle EXCEPT
       !.cmd = c,
       !.pc = CASE c.kind \in {"activate", "resume"}      -> "switch"
                [] c.kind = "close" /\ ~c.liquidate       -> "counting"
                [] OTHER                                  -> "restrict"]]
  /\ UNCHANGED <<account, lifecycle, exposure, flattened>>

\* close({ liquidate: false }): countDocuments, outside the queue.
CountOpen(o) ==
  /\ At(o, "counting")
  /\ IF OpenPositions = {} THEN Goto(o, "restrict") ELSE Return(o)
  /\ UNCHANGED <<account, lifecycle, exposure, flattened>>

(***************************************************************************)
(* #restrict(): one queued transaction.  A terminal status other than the  *)
(* requested one is preserved, but pending orders are cancelled all the    *)
(* same.                                                                   *)
(***************************************************************************)

Target(c) ==
  CASE c.kind \in {"pause", "stage", "flatten"} -> "PAUSED"
    [] c.kind = "breach"                        -> "BREACHED"
    [] c.kind \in {"disable", "close"}          -> "DISABLED"

\* Mutant: only a closed account keeps its status.
TerminalOverridden(c) == account.status = "CLOSED" /\ account.status # Target(c)

TerminalPreserved(c) == account.status \in Restricted /\ account.status # Target(c)

\* Mutant: asked after the account has been changed.
AlreadyAppliedAfterwards(c) == TRUE

AlreadyApplied(c) ==
  /\ account.status = Target(c)
  /\ ~account.tradingEnabled
  /\ c.kind = "stage" => ~account.federationEnabled

CancelPending(c) ==
  order' = IF c.cancelPending
             THEN [q \in Order |-> IF order[q] = "working" THEN "ended" ELSE order[q]]
             ELSE order

AfterRestrict(o) ==
  IF op[o].cmd.liquidate THEN Goto(o, "list")
  ELSE IF op[o].cmd.kind = "close" THEN Goto(o, "finalize")
  ELSE Return(o)

\* Mutant: a preserved terminal status skips the cancellation.
PreserveTerminalOrders(o) ==
  /\ At(o, "restrict")
  /\ TerminalPreserved(op[o].cmd)
  /\ AfterRestrict(o)
  /\ UNCHANGED <<account, lifecycle, exposure, flattened>>

PreserveTerminal(o) ==
  /\ At(o, "restrict")
  /\ TerminalPreserved(op[o].cmd)
  /\ CancelPending(op[o].cmd)
  /\ AfterRestrict(o)
  /\ UNCHANGED <<account, lifecycle, position, liquidation, flattened>>

Restrict(o) ==
  LET c == op[o].cmd
  IN  /\ At(o, "restrict")
      /\ ~TerminalPreserved(c)
      /\ account' = [status |-> Target(c), tradingEnabled |-> FALSE,
                     federationEnabled |-> c.kind # "stage" /\ account.federationEnabled,
                     breachedAt |-> c.kind = "breach" \/ account.breachedAt]
      /\ lifecycle' = IF AlreadyApplied(c) THEN lifecycle
                      ELSE [toStatus |-> Target(c), tradingEnabledAfter |-> FALSE]
      /\ CancelPending(c)
      /\ AfterRestrict(o)
      /\ UNCHANGED <<position, liquidation, flattened>>

(***************************************************************************)
(* activate() and resume(): one queued transaction.  Neither revives a     *)
(* terminal account; resume() leaves a staged account to activate().       *)
(***************************************************************************)

MaySwitchOn(c) ==
  /\ account.status \notin Restricted
  /\ c.kind = "resume" => account.federationEnabled

SwitchOn(o) ==
  /\ At(o, "switch")
  /\ MaySwitchOn(op[o].cmd)
  /\ account' = [account EXCEPT !.status = "ACTIVE", !.tradingEnabled = TRUE,
                                !.federationEnabled = TRUE]
  /\ lifecycle' = [toStatus |-> "ACTIVE", tradingEnabledAfter |-> TRUE]
  /\ Return(o)
  /\ UNCHANGED <<exposure, flattened>>

RefuseSwitchOn(o) ==
  /\ At(o, "switch")
  /\ ~MaySwitchOn(op[o].cmd)
  /\ Return(o)
  /\ UNCHANGED <<account, lifecycle, exposure, flattened>>

-----------------------------------------------------------------------------
(***************************************************************************)
(* #liquidate(): list the open positions outside the queue, then close     *)
(* them one after the other, each as a market close of its own.            *)
(***************************************************************************)
ListPositions(o) ==
  /\ At(o, "list")
  /\ op' = [op EXCEPT ![o].pc = "liquidating", ![o].todo = OpenPositions]
  /\ UNCHANGED <<account, lifecycle, exposure, flattened>>

Finish(o, p, failed) ==
  op' = [op EXCEPT ![o].todo = @ \ {p}, ![o].current = NoPosition, ![o].failed = @ \/ failed]

\* reserve(): a new or retryable key is taken, and so is one in progress whose
\* lease has expired; otherwise the answer is what the record says: a success
\* if it is completed, else a failure (as when the reservation itself fails).
ReserveClose(o, p) ==
  /\ At(o, "liquidating")
  /\ op[o].current = NoPosition
  /\ p \in op[o].todo
  /\ \/ /\ liquidation[p] \in {"none", "retryable", "inProgress"}
        /\ liquidation' = [liquidation EXCEPT ![p] = "inProgress"]
        /\ op' = [op EXCEPT ![o].current = p]
     \/ /\ \E failed \in BOOLEAN :
             (failed \/ liquidation[p] = "completed") /\ Finish(o, p, failed)
        /\ UNCHANGED liquidation
  /\ UNCHANGED <<account, lifecycle, position, order, flattened>>

\* The queued close commits; the caller may yet be told that it failed.
CloseCommits(o, p) ==
  /\ At(o, "liquidating")
  /\ op[o].current = p
  /\ position[p] = "open"
  /\ liquidation[p] = "inProgress"
  /\ position' = [position EXCEPT ![p] = "closed"]
  /\ liquidation' = [liquidation EXCEPT ![p] = "completed"]
  /\ \E outcomeUnknown \in BOOLEAN : Finish(o, p, outcomeUnknown)
  /\ UNCHANGED <<account, lifecycle, order, flattened>>

\* No quote, no conversion rate, the position closed meanwhile, the key
\* completed or failed by another attempt: #recordFailure() notes the error,
\* if it can, on a key still in progress.
CloseFails(o, p) ==
  /\ At(o, "liquidating")
  /\ op[o].current = p
  /\ IF liquidation[p] = "inProgress"
       THEN \E s \in {"inProgress", "retryable", "failed"} :
              liquidation' = [liquidation EXCEPT ![p] = s]
       ELSE UNCHANGED liquidation
  /\ Finish(o, p, TRUE)
  /\ UNCHANGED <<account, lifecycle, position, order, flattened>>

Exhausted(o) == At(o, "liquidating") /\ op[o].todo = {}

TerminalKind == {"disable", "breach", "close"}

\* Mutant: failed closes are not looked at.
LiquidationDoneRegardless(o) ==
  /\ Exhausted(o)
  /\ IF op[o].cmd.kind = "close" THEN Goto(o, "finalize") ELSE Return(o)
  /\ flattened' = (flattened \/ op[o].cmd.kind \in TerminalKind)
  /\ UNCHANGED <<account, lifecycle, exposure>>

LiquidationDone(o) ==
  /\ Exhausted(o)
  /\ ~op[o].failed
  /\ IF op[o].cmd.kind = "close" THEN Goto(o, "finalize") ELSE Return(o)
  /\ flattened' = (flattened \/ op[o].cmd.kind \in TerminalKind)
  /\ UNCHANGED <<account, lifecycle, exposure>>

\* ACCOUNT_LIQUIDATION_FAILED is thrown, through the whole operation.
LiquidationFailed(o) ==
  /\ Exhausted(o)
  /\ op[o].failed
  /\ Return(o)
  /\ UNCHANGED <<account, lifecycle, exposure, flattened>>

\* The last transaction of close().
Finalize(o) ==
  /\ At(o, "finalize")
  /\ account' = [account EXCEPT !.status = "CLOSED", !.tradingEnabled = FALSE]
  /\ lifecycle' = [toStatus |-> "CLOSED", tradingEnabledAfter |-> FALSE]
  /\ Return(o)
  /\ UNCHANGED <<exposure, flattened>>

\* A read fails, or a transaction is abandoned: the operation stops there.
OperationFails(o) ==
  /\ op[o].pc \in {"counting", "restrict", "switch", "list", "finalize"}
  /\ Return(o)
  /\ UNCHANGED <<account, lifecycle, exposure, flattened>>

\* The process dies and restarts: the operations are gone.
Crash ==
  /\ \E o \in Op : ~At(o, "idle")
  /\ op' = [o \in Op |-> Idle]
  /\ UNCHANGED <<account, lifecycle, exposure, flattened>>

-----------------------------------------------------------------------------
(***************************************************************************)
(* The trader, and the engines that act for him: market orders, pending    *)
(* orders and their fills, closes by hand or by a stop.  New exposure      *)
(* needs an active account (validateAccountForOpen); a close does not.     *)
(***************************************************************************)
CanTrade == account.status = "ACTIVE" /\ account.tradingEnabled

OpenMarket(p) ==
  /\ CanTrade
  /\ position[p] = "none"
  /\ position' = [position EXCEPT ![p] = "open"]
  /\ UNCHANGED <<account, lifecycle, order, liquidation, op, flattened>>

CloseMarket(p) ==
  /\ position[p] = "open"
  /\ position' = [position EXCEPT ![p] = "closed"]
  /\ UNCHANGED <<account, lifecycle, order, liquidation, op, flattened>>

PlacePending(q) ==
  /\ CanTrade
  /\ order[q] = "none"
  /\ order' = [order EXCEPT ![q] = "working"]
  /\ UNCHANGED <<account, lifecycle, position, liquidation, op, flattened>>

FillPending(q, p) ==
  /\ order[q] = "working"
  /\ CanTrade
  /\ position[p] = "none"
  /\ order' = [order EXCEPT ![q] = "filled"]
  /\ position' = [position EXCEPT ![p] = "open"]
  /\ UNCHANGED <<account, lifecycle, liquidation, op, flattened>>

\* Cancelled by hand, expired, or rejected when triggered (also for the state
\* of the account).
EndPending(q) ==
  /\ order[q] = "working"
  /\ order' = [order EXCEPT ![q] = "ended"]
  /\ UNCHANGED <<account, lifecycle, position, liquidation, op, flattened>>

Control(o) ==
  \/ \E c \in Commands : Begin(o, c)
  \/ CountOpen(o) \/ PreserveTerminal(o) \/ Restrict(o)
  \/ SwitchOn(o) \/ RefuseSwitchOn(o)
  \/ ListPositions(o)
  \/ \E p \in Position : ReserveClose(o, p) \/ CloseCommits(o, p) \/ CloseFails(o, p)
  \/ LiquidationDone(o) \/ LiquidationFailed(o)
  \/ Finalize(o) \/ OperationFails(o)

Trade ==
  \/ \E p \in Position : OpenMarket(p) \/ CloseMarket(p)
  \/ \E q \in Order : PlacePending(q) \/ EndPending(q)
  \/ \E q \in Order, p \in Position : FillPending(q, p)

Next == (\E o \in Op : Control(o)) \/ Trade \/ Crash

Spec == Init /\ [][Next]_vars

-----------------------------------------------------------------------------
\* A closed account has no open position, whatever the trader and other control
\* operations did between the listing, the closes and the last transaction of
\* close().  It needs every close to liquidate: close({ liquidate: false })
\* counts outside the queue.
ClosedIsFlat == account.status = "CLOSED" => OpenPositions = {}

\* Nothing is left that could still be triggered on a closed account: every
\* path into CLOSED cancels, also the one that keeps another terminal status.
ClosedHasNoWorkingOrder ==
  account.status = "CLOSED" => \A q \in Order : order[q] # "working"

\* After disable(), breach() or close() has reported its liquidation done, no
\* position is open, then and ever after: none was opened behind the listing.
FlattenedStaysFlat == flattened => OpenPositions = {}

\* status, tradingEnabled and federationEnabled agree: the account is active
\* exactly when it may trade, and a staged account is not (activate, resume).
FlagsAgree ==
  /\ account.tradingEnabled <=> account.status = "ACTIVE"
  /\ account.tradingEnabled => account.federationEnabled

\* The audit trail ends with what the account is now (#recordLifecycle in the
\* same transaction, skipped for a restriction that was already applied).
AuditTrailIsCurrent ==
  /\ lifecycle.toStatus = account.status
  /\ lifecycle.tradingEnabledAfter = account.tradingEnabled

\* A terminal status is final, save that any account can still be closed; in
\* particular disabling, flattening or closing never hides a breach on the way
\* (RESTRICTED_STATUSES, terminalPreserved).
TerminalIsFinal ==
  [][account.status \in Restricted
       => account'.status \in {account.status, "CLOSED"} /\ account'.breachedAt = account.breachedAt]_vars

(***************************************************************************)
(* The inductive invariant behind ClosedIsFlat and FlattenedStaysFlat.     *)
(* From the restriction on the account cannot trade, so what was listed is *)
(* all there is; what has left the list without failure is closed.         *)
(***************************************************************************)
ClosesLiquidate == \A c \in Commands : c.kind = "close" => c.liquidate

Listing == {"list", "liquidating", "finalize"}

CommandFitsPc ==
  \A o \in Op :
    /\ ~At(o, "idle") => op[o].cmd \in Commands
    /\ At(o, "switch") <=> (~At(o, "idle") /\ op[o].cmd.kind \in {"activate", "resume"})
    /\ At(o, "finalize") => op[o].cmd.kind = "close"

TerminalWhileLiquidating ==
  \A o \in Op : (op[o].pc \in Listing /\ op[o].cmd.kind \in TerminalKind)
                  => account.status \in Restricted

UnlistedIsClosed ==
  \A o \in Op :
    (At(o, "liquidating") /\ op[o].cmd.kind \in TerminalKind /\ ~op[o].failed)
      => OpenPositions \subseteq op[o].todo

CompletedIsClosed == \A p \in Position : liquidation[p] = "completed" => position[p] = "closed"

ReadyToClose == \A o \in Op : At(o, "finalize") => OpenPositions = {}

FlatIsTerminal == flattened => account.status \in Restricted

BreachIsDated == account.status = "BREACHED" => account.breachedAt

NoWorkingOrder == \A q \in Order : order[q] # "working"

CancelledWhileClosing ==
  \A o \in Op : (op[o].pc \in Listing /\ op[o].cmd.kind = "close") => NoWorkingOrder

\* What holds whatever close() is asked to do, and the rest.
ControlInv ==
  /\ TypeOK
  /\ CommandFitsPc
  /\ FlagsAgree
  /\ AuditTrailIsCurrent
  /\ BreachIsDated
  /\ TerminalWhileLiquidating
  /\ UnlistedIsClosed
  /\ CompletedIsClosed
  /\ FlatIsTerminal
  /\ FlattenedStaysFlat
  /\ CancelledWhileClosing
  /\ ClosedHasNoWorkingOrder

ClosingInv == ReadyToClose /\ ClosedIsFlat

\* Whatever the order of the operations, the fields of the account and its
\* records agree (account-control.service.js).
RecordsAgree == TypeOK /\ FlagsAgree /\ AuditTrailIsCurrent
=============================================================================
