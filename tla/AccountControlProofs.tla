------------------------- MODULE AccountControlProofs -------------------------
(***************************************************************************)
(* Proofs about AccountControl, for any operations, positions and orders.  *)
(* The argument: a terminal operation restricts the account before it      *)
(* lists the positions, and an account that is restricted cannot trade, so *)
(* the list is complete until the operation is over.                       *)
(***************************************************************************)
EXTENDS AccountControl, TLAPS

(* The options of the operations that the arguments turn on.               *)
LEMMA CommandFacts ==
  \A c \in Commands :
    /\ c.kind \in {"pause", "stage", "activate", "resume", "disable", "breach", "flatten", "close"}
    /\ c.cancelPending \in BOOLEAN /\ c.liquidate \in BOOLEAN
    /\ c.kind = "close" => c.cancelPending
BY ControlConstants DEF ControlCommand

OpRecord ==
  [pc : OpPc, cmd : Commands \cup {NoCommand}, todo : SUBSET Position,
   current : Position \cup {NoPosition}, failed : BOOLEAN]

LEMMA IdleType == Idle \in OpRecord /\ Idle.pc = "idle"
BY DEF Idle, OpRecord, OpPc

(* Where a restriction leads.                                              *)
LEMMA TargetFacts ==
  ASSUME NEW c \in Commands, c.kind \notin {"activate", "resume"}
  PROVE  /\ Target(c) \in {"PAUSED", "BREACHED", "DISABLED"}
         /\ c.kind \in TerminalKind => Target(c) \in Restricted
BY CommandFacts DEF Target, TerminalKind, Restricted

LEMMA InitControlInv == Init => ControlInv /\ ClosingInv
<1> SUFFICES ASSUME Init PROVE ControlInv /\ ClosingInv
  OBVIOUS
<1>0. \A o \in Op : op[o] = Idle /\ op[o].pc = "idle"
  BY IdleType DEF Init
<1>1. PICK active \in BOOLEAN :
        /\ account = [status |-> IF active THEN "ACTIVE" ELSE "PAUSED", tradingEnabled |-> active,
                      federationEnabled |-> active, breachedAt |-> FALSE]
        /\ lifecycle = [toStatus |-> account.status, tradingEnabledAfter |-> active]
  BY DEF Init
<1>2. TypeOK
  BY <1>1, IdleType DEF Init, TypeOK, Status, OpRecord
<1>3. FlagsAgree /\ AuditTrailIsCurrent /\ BreachIsDated /\ ClosedHasNoWorkingOrder /\ ClosedIsFlat
  BY <1>1 DEF FlagsAgree, AuditTrailIsCurrent, BreachIsDated, ClosedHasNoWorkingOrder, ClosedIsFlat
<1>4. /\ CommandFitsPc /\ TerminalWhileLiquidating /\ UnlistedIsClosed /\ CancelledWhileClosing
      /\ ReadyToClose
  BY <1>0 DEF CommandFitsPc, TerminalWhileLiquidating, UnlistedIsClosed, CancelledWhileClosing,
              ReadyToClose, Listing, At
<1>5. CompletedIsClosed /\ FlatIsTerminal /\ FlattenedStaysFlat
  BY DEF Init, CompletedIsClosed, FlatIsTerminal, FlattenedStaysFlat
<1> QED
  BY <1>2, <1>3, <1>4, <1>5 DEF ControlInv, ClosingInv

-----------------------------------------------------------------------------
(* A step of one operation that touches nothing but the operation.         *)
LEMMA OnlyOneOpMoves ==
  ASSUME ControlInv, NEW o \in Op, NEW e \in OpRecord,
         op' = [op EXCEPT ![o] = e],
         UNCHANGED <<account, lifecycle, exposure, flattened>>,
         e.pc # "idle" => e.cmd \in Commands,
         e.pc = "switch" <=> (e.pc # "idle" /\ e.cmd.kind \in {"activate", "resume"}),
         e.pc = "finalize" => e.cmd.kind = "close",
         (e.pc \in Listing /\ e.cmd.kind \in TerminalKind) => account.status \in Restricted,
         (e.pc = "liquidating" /\ e.cmd.kind \in TerminalKind /\ ~e.failed)
            => OpenPositions \subseteq e.todo,
         (e.pc \in Listing /\ e.cmd.kind = "close") => NoWorkingOrder
  PROVE  ControlInv'
<1>1. op \in [Op -> OpRecord] /\ op' \in [Op -> OpRecord]
  BY DEF ControlInv, TypeOK, OpRecord
<1>2. \A x \in Op : op'[x] = IF x = o THEN e ELSE op[x]
  BY <1>1
<1>3. TypeOK'
  BY <1>1 DEF ControlInv, TypeOK, OpRecord, exposure
<1>4. CommandFitsPc'
  BY <1>2 DEF ControlInv, CommandFitsPc, At
<1>5. /\ FlagsAgree' /\ AuditTrailIsCurrent' /\ BreachIsDated' /\ CompletedIsClosed' /\ FlatIsTerminal'
      /\ FlattenedStaysFlat' /\ ClosedHasNoWorkingOrder'
  BY DEF ControlInv, FlagsAgree, AuditTrailIsCurrent, BreachIsDated, CompletedIsClosed, FlatIsTerminal,
         FlattenedStaysFlat, ClosedHasNoWorkingOrder, OpenPositions, exposure
<1>6. TerminalWhileLiquidating'
  BY <1>2 DEF ControlInv, TerminalWhileLiquidating
<1>7. UnlistedIsClosed'
  BY <1>2 DEF ControlInv, UnlistedIsClosed, OpenPositions, At, exposure
<1>8. CancelledWhileClosing'
  BY <1>2 DEF ControlInv, CancelledWhileClosing, NoWorkingOrder, exposure
<1> QED
  BY <1>3, <1>4, <1>5, <1>6, <1>7, <1>8 DEF ControlInv

LEMMA ReturnKeepsControlInv ==
  ASSUME ControlInv, NEW o \in Op, Return(o), UNCHANGED <<account, lifecycle, exposure, flattened>>
  PROVE  ControlInv'
<1>1. op' = [op EXCEPT ![o] = Idle]
  BY DEF Return
<1>2. Idle \in OpRecord /\ Idle.pc = "idle" /\ Idle.pc \notin Listing
  BY IdleType DEF Listing
<1> QED
  BY <1>1, <1>2, OnlyOneOpMoves

LEMMA BeginStep ==
  ASSUME ControlInv, NEW o \in Op, NEW c \in Commands, Begin(o, c)
  PROVE  ControlInv'
<1> DEFINE where == CASE c.kind \in {"activate", "resume"}      -> "switch"
                      [] c.kind = "close" /\ ~c.liquidate       -> "counting"
                      [] OTHER                                  -> "restrict"
<1> DEFINE e == [Idle EXCEPT !.cmd = c, !.pc = where]
<1>1. /\ where \in {"switch", "counting", "restrict"}
      /\ where = "switch" <=> c.kind \in {"activate", "resume"}
  OBVIOUS
<1>2. op' = [op EXCEPT ![o] = e] /\ UNCHANGED <<account, lifecycle, exposure, flattened>>
  BY DEF Begin
<1> HIDE DEF where
<1>3. e \in OpRecord /\ e.pc = where /\ e.cmd = c
  BY <1>1 DEF Idle, OpRecord, OpPc
<1>4. e.pc \notin Listing /\ e.pc # "idle"
  BY <1>1, <1>3 DEF Listing
<1> HIDE DEF e
<1> QED
  BY <1>1, <1>2, <1>3, <1>4, OnlyOneOpMoves DEF Listing

(* The step's operation goes on to another point of its code.              *)
LEMMA GotoFacts ==
  ASSUME ControlInv, NEW o \in Op, NEW where \in OpPc, Goto(o, where)
  PROVE  \E e \in OpRecord :
           /\ op' = [op EXCEPT ![o] = e]
           /\ e.pc = where /\ e.cmd = op[o].cmd /\ e.todo = op[o].todo
           /\ e.failed = op[o].failed /\ e.current = op[o].current
<1> DEFINE e == [op[o] EXCEPT !.pc = where]
<1>1. op[o] \in OpRecord
  BY DEF ControlInv, TypeOK, OpRecord
<1>2. e \in OpRecord /\ e.pc = where /\ e.cmd = op[o].cmd /\ e.todo = op[o].todo
      /\ e.failed = op[o].failed /\ e.current = op[o].current
  BY <1>1 DEF OpRecord
<1>3. op' = [op EXCEPT ![o] = e]
  BY DEF Goto
<1> QED
  BY <1>2, <1>3

LEMMA CountOpenStep ==
  ASSUME ControlInv, NEW o \in Op, CountOpen(o)
  PROVE  ControlInv'
<1>1. CASE Return(o)
  BY <1>1, ReturnKeepsControlInv DEF CountOpen
<1>2. CASE Goto(o, "restrict")
  <2>1. PICK e \in OpRecord : op' = [op EXCEPT ![o] = e] /\ e.pc = "restrict" /\ e.cmd = op[o].cmd
    BY <1>2, GotoFacts DEF OpPc
  <2>2. op[o].cmd \in Commands /\ op[o].cmd.kind \notin {"activate", "resume"}
    BY DEF ControlInv, CommandFitsPc, CountOpen, At
  <2> QED
    BY <2>1, <2>2, OnlyOneOpMoves DEF CountOpen, Listing
<1> QED
  BY <1>1, <1>2 DEF CountOpen

(* Where an operation is after its restriction.                            *)
LEMMA AfterRestrictFacts ==
  ASSUME ControlInv, NEW o \in Op, At(o, "restrict"), AfterRestrict(o)
  PROVE  /\ op[o].cmd \in Commands /\ op[o].cmd.kind \notin {"activate", "resume"}
         /\ \E e \in OpRecord :
              /\ op' = [op EXCEPT ![o] = e]
              /\ \/ e = Idle
                 \/ e.pc = "list" /\ e.cmd = op[o].cmd
                 \/ e.pc = "finalize" /\ e.cmd = op[o].cmd /\ e.cmd.kind = "close" /\ ~e.cmd.liquidate
<1>1. op[o].cmd \in Commands /\ op[o].cmd.kind \notin {"activate", "resume"}
  BY DEF ControlInv, CommandFitsPc, At
<1>2. CASE Goto(o, "list")
  <2>1. PICK e \in OpRecord : op' = [op EXCEPT ![o] = e] /\ e.pc = "list" /\ e.cmd = op[o].cmd
    BY <1>2, GotoFacts DEF OpPc
  <2> QED
    BY <1>1, <2>1
<1>3. CASE Goto(o, "finalize") /\ op[o].cmd.kind = "close" /\ ~op[o].cmd.liquidate
  <2>1. PICK e \in OpRecord : op' = [op EXCEPT ![o] = e] /\ e.pc = "finalize" /\ e.cmd = op[o].cmd
    BY <1>3, GotoFacts DEF OpPc
  <2> QED
    BY <1>1, <1>3, <2>1
<1>4. CASE Return(o)
  <2>1. op' = [op EXCEPT ![o] = Idle] /\ Idle \in OpRecord
    BY <1>4, IdleType DEF Return
  <2> QED
    BY <1>1, <2>1
<1> QED
  BY <1>1, <1>2, <1>3, <1>4 DEF AfterRestrict

(* Cancelling leaves no working order behind, and makes none.              *)
LEMMA CancelPendingFacts ==
  ASSUME ControlInv, NEW c \in Commands, CancelPending(c)
  PROVE  /\ order' \in [Order -> {"none", "working", "filled", "ended"}]
         /\ NoWorkingOrder => NoWorkingOrder'
         /\ c.kind = "close" => NoWorkingOrder'
<1>1. order \in [Order -> {"none", "working", "filled", "ended"}]
  BY DEF ControlInv, TypeOK
<1>2. CASE c.cancelPending
  BY <1>1, <1>2 DEF CancelPending, NoWorkingOrder
<1>3. CASE ~c.cancelPending
  BY <1>1, <1>3, CommandFacts DEF CancelPending, NoWorkingOrder
<1> QED
  BY <1>2, <1>3

(* A restriction: the account is in the target's status or keeps another   *)
(* terminal one, and whoever is liquidating sees it restricted still.      *)
LEMMA RestrictionStep ==
  ASSUME ControlInv, NEW o \in Op, Restrict(o) \/ PreserveTerminal(o)
  PROVE  ControlInv'
<1> DEFINE c == op[o].cmd
<1>0. At(o, "restrict") /\ AfterRestrict(o) /\ CancelPending(c)
      /\ UNCHANGED <<position, liquidation, flattened>>
  BY DEF Restrict, PreserveTerminal
<1>1. c \in Commands /\ c.kind \notin {"activate", "resume"}
  BY <1>0, AfterRestrictFacts
<1>2. PICK e \in OpRecord :
        /\ op' = [op EXCEPT ![o] = e]
        /\ \/ e = Idle
           \/ e.pc = "list" /\ e.cmd = c
           \/ e.pc = "finalize" /\ e.cmd = c /\ e.cmd.kind = "close" /\ ~e.cmd.liquidate
  BY <1>0, AfterRestrictFacts
<1>3. op' \in [Op -> OpRecord] /\ \A x \in Op : op'[x] = IF x = o THEN e ELSE op[x]
  BY <1>2 DEF ControlInv, TypeOK, OpRecord
<1>4. /\ order' \in [Order -> {"none", "working", "filled", "ended"}]
      /\ NoWorkingOrder => NoWorkingOrder'
      /\ c.kind = "close" => NoWorkingOrder'
  BY <1>0, <1>1, CancelPendingFacts
<1>5. Target(c) \in {"PAUSED", "BREACHED", "DISABLED"}
      /\ (c.kind \in TerminalKind => Target(c) \in Restricted)
  BY <1>1, TargetFacts
<1>6. /\ account' \in [status : Status, tradingEnabled : BOOLEAN, federationEnabled : BOOLEAN,
                       breachedAt : BOOLEAN]
      /\ lifecycle' \in [toStatus : Status, tradingEnabledAfter : BOOLEAN]
      /\ FlagsAgree' /\ AuditTrailIsCurrent' /\ BreachIsDated'
      /\ account.status \in Restricted => account'.status \in Restricted
      /\ c.kind \in TerminalKind => account'.status \in Restricted
      /\ account'.status = "CLOSED" => account.status = "CLOSED"
  <2>1. CASE Restrict(o)
    <3>1. /\ ~TerminalPreserved(c)
          /\ account' = [status |-> Target(c), tradingEnabled |-> FALSE,
                         federationEnabled |-> c.kind # "stage" /\ account.federationEnabled,
                         breachedAt |-> c.kind = "breach" \/ account.breachedAt]
          /\ lifecycle' = IF AlreadyApplied(c) THEN lifecycle
                          ELSE [toStatus |-> Target(c), tradingEnabledAfter |-> FALSE]
      BY <2>1 DEF Restrict
    <3>2. account.federationEnabled \in BOOLEAN /\ account.breachedAt \in BOOLEAN
          /\ lifecycle \in [toStatus : Status, tradingEnabledAfter : BOOLEAN]
      BY DEF ControlInv, TypeOK
    <3>3. Target(c) \in Status
      BY <1>5 DEF Status, Restricted
    <3> HIDE DEF c
    <3>4. /\ account'.status = Target(c) /\ account'.tradingEnabled = FALSE
          /\ account' \in [status : Status, tradingEnabled : BOOLEAN, federationEnabled : BOOLEAN,
                           breachedAt : BOOLEAN]
      BY <3>1, <3>2, <3>3
    <3>5. /\ lifecycle' \in [toStatus : Status, tradingEnabledAfter : BOOLEAN]
          /\ lifecycle'.toStatus = Target(c) /\ lifecycle'.tradingEnabledAfter = FALSE
      BY <3>1, <3>2, <3>3 DEF AlreadyApplied, ControlInv, AuditTrailIsCurrent
    <3>6. FlagsAgree' /\ AuditTrailIsCurrent'
      BY <3>4, <3>5, <1>5 DEF FlagsAgree, AuditTrailIsCurrent
    <3>d. Target(c) = "BREACHED" => c.kind = "breach"
      BY <1>1, CommandFacts DEF Target
    <3>e. BreachIsDated'
      BY <3>1, <3>d DEF BreachIsDated
    <3>7. account.status \in Restricted => Target(c) = account.status
      BY <3>1 DEF TerminalPreserved
    <3> QED
      BY <1>5, <3>4, <3>5, <3>6, <3>7, <3>e
  <2>2. CASE PreserveTerminal(o)
    BY <2>2 DEF PreserveTerminal, TerminalPreserved, ControlInv, TypeOK, FlagsAgree, AuditTrailIsCurrent, BreachIsDated
  <2> QED
    BY <2>1, <2>2
<1> HIDE DEF c
<1>7. TypeOK'
  BY <1>0, <1>3, <1>4, <1>6 DEF ControlInv, TypeOK, OpRecord
<1>8. CommandFitsPc'
  BY <1>1, <1>2, <1>3, IdleType DEF ControlInv, CommandFitsPc, At
<1>9. TerminalWhileLiquidating'
  BY <1>2, <1>3, <1>6, IdleType DEF ControlInv, TerminalWhileLiquidating, Listing
<1>10. UnlistedIsClosed'
  BY <1>0, <1>2, <1>3, IdleType DEF ControlInv, UnlistedIsClosed, OpenPositions, At
<1>11. CompletedIsClosed' /\ FlatIsTerminal' /\ FlattenedStaysFlat'
  BY <1>0, <1>6 DEF ControlInv, CompletedIsClosed, FlatIsTerminal, FlattenedStaysFlat, OpenPositions
<1>12. CancelledWhileClosing'
  BY <1>2, <1>3, <1>4, IdleType DEF ControlInv, CancelledWhileClosing, Listing
<1>13. ClosedHasNoWorkingOrder'
  <2>1. ClosedHasNoWorkingOrder <=> (account.status = "CLOSED" => NoWorkingOrder)
    BY DEF ClosedHasNoWorkingOrder, NoWorkingOrder
  <2>2. ClosedHasNoWorkingOrder' <=> (account'.status = "CLOSED" => NoWorkingOrder')
    BY DEF ClosedHasNoWorkingOrder, NoWorkingOrder
  <2> QED
    BY <2>1, <2>2, <1>4, <1>6 DEF ControlInv
<1> QED
  BY <1>6, <1>7, <1>8, <1>9, <1>10, <1>11, <1>12, <1>13 DEF ControlInv

(* Nobody liquidates for good an account that can still be switched on.    *)
LEMMA SwitchOnStep ==
  ASSUME ControlInv, NEW o \in Op, SwitchOn(o)
  PROVE  ControlInv'
<1>0. op' \in [Op -> OpRecord] /\ \A x \in Op : op'[x] = IF x = o THEN Idle ELSE op[x]
  BY IdleType DEF ControlInv, TypeOK, OpRecord, SwitchOn, Return
<1>1. account.status \notin Restricted
  BY DEF SwitchOn, MaySwitchOn
<1>2. /\ account'.status = "ACTIVE" /\ account'.tradingEnabled = TRUE
      /\ account'.federationEnabled = TRUE
      /\ account' \in [status : Status, tradingEnabled : BOOLEAN, federationEnabled : BOOLEAN,
                       breachedAt : BOOLEAN]
  BY DEF SwitchOn, ControlInv, TypeOK, Status
<1>3. lifecycle' = [toStatus |-> "ACTIVE", tradingEnabledAfter |-> TRUE]
      /\ UNCHANGED <<position, order, liquidation, flattened>>
  BY DEF SwitchOn, exposure
<1>4. TypeOK'
  BY <1>0, <1>2, <1>3 DEF ControlInv, TypeOK, OpRecord, Status
<1>5. CommandFitsPc'
  BY <1>0, IdleType DEF ControlInv, CommandFitsPc, At
<1>6. FlagsAgree' /\ AuditTrailIsCurrent' /\ BreachIsDated' /\ ClosedHasNoWorkingOrder'
  BY <1>2, <1>3 DEF FlagsAgree, AuditTrailIsCurrent, BreachIsDated, ClosedHasNoWorkingOrder
<1>7. TerminalWhileLiquidating'
  BY <1>0, <1>1, IdleType DEF ControlInv, TerminalWhileLiquidating, Listing
<1>8. UnlistedIsClosed'
  BY <1>0, <1>3, IdleType DEF ControlInv, UnlistedIsClosed, OpenPositions, At
<1>9. CompletedIsClosed' /\ FlatIsTerminal' /\ FlattenedStaysFlat'
  BY <1>1, <1>3 DEF ControlInv, CompletedIsClosed, FlatIsTerminal, FlattenedStaysFlat, OpenPositions
<1>10. CancelledWhileClosing'
  BY <1>0, <1>3, IdleType DEF ControlInv, CancelledWhileClosing, Listing, NoWorkingOrder
<1> QED
  BY <1>4, <1>5, <1>6, <1>7, <1>8, <1>9, <1>10 DEF ControlInv

LEMMA ListPositionsStep ==
  ASSUME ControlInv, NEW o \in Op, ListPositions(o)
  PROVE  ControlInv'
<1> DEFINE e == [op[o] EXCEPT !.pc = "liquidating", !.todo = OpenPositions]
<1>1. op[o] \in OpRecord /\ op[o].pc = "list"
  BY DEF ControlInv, TypeOK, OpRecord, ListPositions, At
<1>2. e \in OpRecord /\ e.pc = "liquidating" /\ e.cmd = op[o].cmd /\ e.todo = OpenPositions
  BY <1>1 DEF OpRecord, OpPc, OpenPositions
<1>3. op' = [op EXCEPT ![o] = e]
  BY DEF ListPositions
<1>4. e.cmd \in Commands /\ e.cmd.kind \notin {"activate", "resume"}
  BY <1>1, <1>2 DEF ControlInv, CommandFitsPc, At
<1>5. e.cmd.kind \in TerminalKind => account.status \in Restricted
  BY <1>1, <1>2 DEF ControlInv, TerminalWhileLiquidating, Listing
<1>6. e.cmd.kind = "close" => NoWorkingOrder
  BY <1>1, <1>2 DEF ControlInv, CancelledWhileClosing, Listing
<1> HIDE DEF e
<1> QED
  BY <1>2, <1>3, <1>4, <1>5, <1>6, OnlyOneOpMoves DEF ListPositions

-----------------------------------------------------------------------------
(* A step inside the loop of a liquidation: positions only close, and what *)
(* leaves the list without failure is closed.                              *)
LEMMA LiquidatingStep ==
  ASSUME ControlInv, NEW o \in Op, NEW e \in OpRecord,
         op' = [op EXCEPT ![o] = e], op[o].pc = "liquidating",
         e.pc = "liquidating", e.cmd = op[o].cmd,
         UNCHANGED <<account, lifecycle, order, flattened>>,
         position' \in [Position -> {"none", "open", "closed"}],
         liquidation' \in [Position -> {"none", "inProgress", "completed", "retryable", "failed"}],
         OpenPositions' \subseteq OpenPositions,
         CompletedIsClosed',
         (e.cmd.kind \in TerminalKind /\ ~e.failed) => OpenPositions' \subseteq e.todo
  PROVE  ControlInv'
<1>1. op' \in [Op -> OpRecord] /\ \A x \in Op : op'[x] = IF x = o THEN e ELSE op[x]
  BY DEF ControlInv, TypeOK, OpRecord
<1>2. TypeOK'
  BY <1>1 DEF ControlInv, TypeOK, OpRecord
<1>3. CommandFitsPc'
  BY <1>1 DEF ControlInv, CommandFitsPc, At
<1>4. FlagsAgree' /\ AuditTrailIsCurrent' /\ BreachIsDated' /\ FlatIsTerminal' /\ FlattenedStaysFlat'
      /\ ClosedHasNoWorkingOrder'
  BY DEF ControlInv, FlagsAgree, AuditTrailIsCurrent, BreachIsDated, FlatIsTerminal, FlattenedStaysFlat,
         ClosedHasNoWorkingOrder
<1>5. TerminalWhileLiquidating'
  BY <1>1 DEF ControlInv, TerminalWhileLiquidating, Listing
<1>6. UnlistedIsClosed'
  BY <1>1 DEF ControlInv, UnlistedIsClosed, At
<1>7. CancelledWhileClosing'
  BY <1>1 DEF ControlInv, CancelledWhileClosing, Listing, NoWorkingOrder
<1> QED
  BY <1>2, <1>3, <1>4, <1>5, <1>6, <1>7 DEF ControlInv

LEMMA FinishFacts ==
  ASSUME ControlInv, NEW o \in Op, NEW p \in Position, NEW f \in BOOLEAN,
         op[o].pc = "liquidating", Finish(o, p, f)
  PROVE  \E e \in OpRecord :
           /\ op' = [op EXCEPT ![o] = e]
           /\ e.pc = "liquidating" /\ e.cmd = op[o].cmd
           /\ e.todo = op[o].todo \ {p} /\ e.failed = (op[o].failed \/ f)
<1> DEFINE e == [op[o] EXCEPT !.todo = op[o].todo \ {p}, !.current = NoPosition,
                              !.failed = op[o].failed \/ f]
<1>1. op[o] \in OpRecord
  BY DEF ControlInv, TypeOK, OpRecord
<1>2. e \in OpRecord /\ e.pc = "liquidating" /\ e.cmd = op[o].cmd
      /\ e.todo = op[o].todo \ {p} /\ e.failed = (op[o].failed \/ f)
  BY <1>1 DEF OpRecord
<1>3. op' = [op EXCEPT ![o] = e]
  BY DEF Finish
<1> QED
  BY <1>2, <1>3

LEMMA ReserveCloseStep ==
  ASSUME ControlInv, NEW o \in Op, NEW p \in Position, ReserveClose(o, p)
  PROVE  ControlInv'
<1>0. /\ op[o].pc = "liquidating" /\ op[o] \in OpRecord
      /\ UNCHANGED <<account, lifecycle, position, order, flattened>>
      /\ position \in [Position -> {"none", "open", "closed"}]
      /\ liquidation \in [Position -> {"none", "inProgress", "completed", "retryable", "failed"}]
  BY DEF ControlInv, TypeOK, OpRecord, ReserveClose, At
<1>a. OpenPositions' = OpenPositions
  BY <1>0 DEF OpenPositions
<1>1. CASE /\ liquidation' = [liquidation EXCEPT ![p] = "inProgress"]
           /\ op' = [op EXCEPT ![o].current = p]
  <2> DEFINE e == [op[o] EXCEPT !.current = p]
  <2>1. e \in OpRecord /\ e.pc = "liquidating" /\ e.cmd = op[o].cmd /\ e.todo = op[o].todo
        /\ e.failed = op[o].failed
    BY <1>0 DEF OpRecord
  <2>2. op' = [op EXCEPT ![o] = e]
    BY <1>1
  <2>3. /\ liquidation' \in [Position -> {"none", "inProgress", "completed", "retryable", "failed"}]
        /\ CompletedIsClosed'
    BY <1>0, <1>1 DEF ControlInv, CompletedIsClosed
  <2>4. (e.cmd.kind \in TerminalKind /\ ~e.failed) => OpenPositions' \subseteq e.todo
    BY <1>0, <1>a, <2>1 DEF ControlInv, UnlistedIsClosed, At
  <2> HIDE DEF e
  <2> QED
    BY <1>0, <1>a, <2>1, <2>2, <2>3, <2>4, LiquidatingStep
<1>2. ASSUME NEW f \in BOOLEAN, f \/ liquidation[p] = "completed", Finish(o, p, f),
             UNCHANGED liquidation
      PROVE  ControlInv'
  <2>1. PICK e \in OpRecord :
          /\ op' = [op EXCEPT ![o] = e]
          /\ e.pc = "liquidating" /\ e.cmd = op[o].cmd
          /\ e.todo = op[o].todo \ {p} /\ e.failed = (op[o].failed \/ f)
    BY <1>0, <1>2, FinishFacts
  <2>2. CompletedIsClosed'
    BY <1>0, <1>2 DEF ControlInv, CompletedIsClosed
  <2>3. (e.cmd.kind \in TerminalKind /\ ~e.failed) => OpenPositions' \subseteq e.todo
    <3> SUFFICES ASSUME e.cmd.kind \in TerminalKind, ~e.failed
                 PROVE  OpenPositions' \subseteq e.todo
      OBVIOUS
    <3>1. ~op[o].failed /\ ~f
      BY <2>1
    <3>2. OpenPositions \subseteq op[o].todo
      BY <1>0, <2>1, <3>1 DEF ControlInv, UnlistedIsClosed, At
    <3>3. p \notin OpenPositions
      BY <1>2, <3>1 DEF ControlInv, CompletedIsClosed, OpenPositions
    <3> QED
      BY <1>a, <2>1, <3>2, <3>3
  <2> QED
    BY <1>0, <1>a, <1>2, <2>1, <2>2, <2>3, LiquidatingStep
<1> QED
  BY <1>1, <1>2 DEF ReserveClose

LEMMA CloseCommitsStep ==
  ASSUME ControlInv, NEW o \in Op, NEW p \in Position, CloseCommits(o, p)
  PROVE  ControlInv'
<1>0. /\ op[o].pc = "liquidating"
      /\ UNCHANGED <<account, lifecycle, order, flattened>>
      /\ position' = [position EXCEPT ![p] = "closed"]
      /\ liquidation' = [liquidation EXCEPT ![p] = "completed"]
      /\ position \in [Position -> {"none", "open", "closed"}]
      /\ liquidation \in [Position -> {"none", "inProgress", "completed", "retryable", "failed"}]
  BY DEF ControlInv, TypeOK, CloseCommits, At
<1>1. PICK f \in BOOLEAN : Finish(o, p, f)
  BY DEF CloseCommits
<1>2. PICK e \in OpRecord :
        /\ op' = [op EXCEPT ![o] = e]
        /\ e.pc = "liquidating" /\ e.cmd = op[o].cmd
        /\ e.todo = op[o].todo \ {p} /\ e.failed = (op[o].failed \/ f)
  BY <1>0, <1>1, FinishFacts
<1>3. OpenPositions' = OpenPositions \ {p}
  BY <1>0 DEF OpenPositions
<1>4. CompletedIsClosed'
  BY <1>0 DEF ControlInv, CompletedIsClosed
<1>5. (e.cmd.kind \in TerminalKind /\ ~e.failed) => OpenPositions' \subseteq e.todo
  BY <1>0, <1>2, <1>3 DEF ControlInv, UnlistedIsClosed, At
<1>6. position' \in [Position -> {"none", "open", "closed"}]
      /\ liquidation' \in [Position -> {"none", "inProgress", "completed", "retryable", "failed"}]
  BY <1>0
<1> QED
  BY <1>0, <1>2, <1>3, <1>4, <1>5, <1>6, LiquidatingStep

LEMMA CloseFailsStep ==
  ASSUME ControlInv, NEW o \in Op, NEW p \in Position, CloseFails(o, p)
  PROVE  ControlInv'
<1>0. /\ op[o].pc = "liquidating" /\ Finish(o, p, TRUE)
      /\ UNCHANGED <<account, lifecycle, position, order, flattened>>
      /\ position \in [Position -> {"none", "open", "closed"}]
      /\ liquidation \in [Position -> {"none", "inProgress", "completed", "retryable", "failed"}]
  BY DEF ControlInv, TypeOK, CloseFails, At
<1>1. PICK e \in OpRecord :
        /\ op' = [op EXCEPT ![o] = e]
        /\ e.pc = "liquidating" /\ e.cmd = op[o].cmd /\ e.failed = TRUE
  <2>1. TRUE \in BOOLEAN
    OBVIOUS
  <2>2. PICK e \in OpRecord :
          /\ op' = [op EXCEPT ![o] = e]
          /\ e.pc = "liquidating" /\ e.cmd = op[o].cmd
          /\ e.todo = op[o].todo \ {p} /\ e.failed = (op[o].failed \/ TRUE)
    BY <1>0, <2>1, FinishFacts
  <2> QED
    BY <2>2
<1>2. OpenPositions' = OpenPositions
  BY <1>0 DEF OpenPositions
<1>3. /\ liquidation' \in [Position -> {"none", "inProgress", "completed", "retryable", "failed"}]
      /\ CompletedIsClosed'
  <2>1. CASE liquidation' = liquidation
    BY <1>0, <2>1 DEF ControlInv, CompletedIsClosed
  <2>2. ASSUME NEW s \in {"inProgress", "retryable", "failed"},
               liquidation' = [liquidation EXCEPT ![p] = s]
        PROVE  /\ liquidation' \in [Position -> {"none", "inProgress", "completed", "retryable", "failed"}]
               /\ CompletedIsClosed'
    BY <1>0, <2>2 DEF ControlInv, CompletedIsClosed
  <2> QED
    BY <2>1, <2>2 DEF CloseFails
<1> QED
  BY <1>0, <1>1, <1>2, <1>3, LiquidatingStep

(* The loop is over and nothing failed: the list was everything.           *)
LEMMA LiquidationDoneFacts ==
  ASSUME ControlInv, NEW o \in Op, LiquidationDone(o), op[o].cmd.kind \in TerminalKind
  PROVE  OpenPositions = {} /\ account.status \in Restricted
BY DEF ControlInv, UnlistedIsClosed, TerminalWhileLiquidating, LiquidationDone, Exhausted, At, Listing

LEMMA LiquidationDoneStep ==
  ASSUME ControlInv, NEW o \in Op, LiquidationDone(o)
  PROVE  ControlInv'
<1>0. /\ UNCHANGED <<account, lifecycle, exposure>>
      /\ op[o].pc = "liquidating"
      /\ flattened' = (flattened \/ op[o].cmd.kind \in TerminalKind)
      /\ flattened \in BOOLEAN
  BY DEF ControlInv, TypeOK, LiquidationDone, Exhausted, At
<1>1. PICK e \in OpRecord :
        /\ op' = [op EXCEPT ![o] = e]
        /\ \/ e.pc = "idle"
           \/ e.pc = "finalize" /\ e.cmd = op[o].cmd /\ e.cmd.kind = "close"
  <2>1. CASE op[o].cmd.kind = "close" /\ Goto(o, "finalize")
    <3>1. PICK e \in OpRecord : op' = [op EXCEPT ![o] = e] /\ e.pc = "finalize" /\ e.cmd = op[o].cmd
      BY <2>1, GotoFacts DEF OpPc
    <3> QED
      BY <2>1, <3>1
  <2>2. CASE Return(o)
    <3>1. op' = [op EXCEPT ![o] = Idle] /\ Idle \in OpRecord /\ Idle.pc = "idle"
      BY <2>2, IdleType DEF Return
    <3> QED
      BY <3>1
  <2> QED
    BY <2>1, <2>2 DEF LiquidationDone
<1>2. op' \in [Op -> OpRecord] /\ \A x \in Op : op'[x] = IF x = o THEN e ELSE op[x]
  BY <1>1 DEF ControlInv, TypeOK, OpRecord
<1>3. op[o].cmd \in Commands /\ op[o].cmd.kind \notin {"activate", "resume"}
  BY <1>0 DEF ControlInv, CommandFitsPc, At
<1>4. TypeOK'
  BY <1>0, <1>2 DEF ControlInv, TypeOK, OpRecord, exposure
<1>5. CommandFitsPc'
  BY <1>1, <1>2, <1>3 DEF ControlInv, CommandFitsPc, At
<1>6. FlagsAgree' /\ AuditTrailIsCurrent' /\ BreachIsDated' /\ CompletedIsClosed' /\ ClosedHasNoWorkingOrder'
  BY <1>0 DEF ControlInv, FlagsAgree, AuditTrailIsCurrent, BreachIsDated, CompletedIsClosed,
              ClosedHasNoWorkingOrder, exposure
<1>7. FlatIsTerminal' /\ FlattenedStaysFlat'
  BY <1>0, LiquidationDoneFacts DEF ControlInv, FlatIsTerminal, FlattenedStaysFlat,
              OpenPositions, exposure
<1>8. TerminalWhileLiquidating'
  BY <1>0, <1>1, <1>2 DEF ControlInv, TerminalWhileLiquidating, Listing
<1>9. UnlistedIsClosed'
  BY <1>0, <1>1, <1>2 DEF ControlInv, UnlistedIsClosed, OpenPositions, At, exposure
<1>10. CancelledWhileClosing'
  BY <1>0, <1>1, <1>2 DEF ControlInv, CancelledWhileClosing, Listing, NoWorkingOrder, exposure
<1> QED
  BY <1>4, <1>5, <1>6, <1>7, <1>8, <1>9, <1>10 DEF ControlInv

LEMMA FinalizeStep ==
  ASSUME ControlInv, NEW o \in Op, Finalize(o)
  PROVE  ControlInv'
<1>0. op' \in [Op -> OpRecord] /\ \A x \in Op : op'[x] = IF x = o THEN Idle ELSE op[x]
  BY IdleType DEF ControlInv, TypeOK, OpRecord, Finalize, Return
<1>1. /\ account'.status = "CLOSED" /\ account'.tradingEnabled = FALSE
      /\ account' \in [status : Status, tradingEnabled : BOOLEAN, federationEnabled : BOOLEAN,
                       breachedAt : BOOLEAN]
      /\ lifecycle' = [toStatus |-> "CLOSED", tradingEnabledAfter |-> FALSE]
      /\ UNCHANGED <<position, order, liquidation, flattened>>
  BY DEF ControlInv, TypeOK, Finalize, Status, Restricted, exposure
<1>2. NoWorkingOrder
  BY DEF ControlInv, CommandFitsPc, CancelledWhileClosing, Finalize, At, Listing
<1>3. "CLOSED" \in Restricted /\ "CLOSED" \in Status
  BY DEF Restricted, Status
<1>4. TypeOK'
  BY <1>0, <1>1, <1>3 DEF ControlInv, TypeOK, OpRecord
<1>5. CommandFitsPc'
  BY <1>0, IdleType DEF ControlInv, CommandFitsPc, At
<1>6. FlagsAgree' /\ AuditTrailIsCurrent' /\ BreachIsDated' /\ FlatIsTerminal'
  BY <1>1, <1>3 DEF FlagsAgree, AuditTrailIsCurrent, BreachIsDated, FlatIsTerminal
<1>7. ClosedHasNoWorkingOrder'
  BY <1>1, <1>2 DEF ClosedHasNoWorkingOrder, NoWorkingOrder
<1>8. TerminalWhileLiquidating'
  BY <1>1, <1>3 DEF TerminalWhileLiquidating
<1>9. UnlistedIsClosed' /\ CompletedIsClosed' /\ FlattenedStaysFlat'
  BY <1>0, <1>1, IdleType DEF ControlInv, UnlistedIsClosed, CompletedIsClosed, FlattenedStaysFlat,
              OpenPositions, At
<1>10. CancelledWhileClosing'
  BY <1>0, <1>1, <1>2 DEF CancelledWhileClosing, NoWorkingOrder
<1> QED
  BY <1>4, <1>5, <1>6, <1>7, <1>8, <1>9, <1>10 DEF ControlInv

LEMMA CrashStep ==
  ASSUME ControlInv, Crash
  PROVE  ControlInv'
<1>0. op' \in [Op -> OpRecord] /\ \A x \in Op : op'[x] = Idle /\ op'[x].pc = "idle"
  BY IdleType DEF Crash
<1>1. TypeOK'
  BY <1>0 DEF ControlInv, TypeOK, OpRecord, Crash, exposure
<1>2. CommandFitsPc' /\ TerminalWhileLiquidating' /\ UnlistedIsClosed' /\ CancelledWhileClosing'
  BY <1>0 DEF CommandFitsPc, TerminalWhileLiquidating, UnlistedIsClosed, CancelledWhileClosing,
              Listing, At
<1>3. /\ FlagsAgree' /\ AuditTrailIsCurrent' /\ BreachIsDated' /\ CompletedIsClosed' /\ FlatIsTerminal'
      /\ FlattenedStaysFlat' /\ ClosedHasNoWorkingOrder'
  BY DEF ControlInv, FlagsAgree, AuditTrailIsCurrent, BreachIsDated, CompletedIsClosed, FlatIsTerminal,
         FlattenedStaysFlat, ClosedHasNoWorkingOrder, OpenPositions, Crash, exposure
<1> QED
  BY <1>1, <1>2, <1>3 DEF ControlInv

-----------------------------------------------------------------------------
(* Trading changes positions and orders; on a restricted account it can    *)
(* only close and end them.                                                *)
LEMMA TradingStep ==
  ASSUME ControlInv, UNCHANGED <<account, lifecycle, liquidation, op, flattened>>,
         position' \in [Position -> {"none", "open", "closed"}],
         order' \in [Order -> {"none", "working", "filled", "ended"}],
         \A p \in Position : position[p] = "closed" => position'[p] = "closed",
         account.status \in Restricted
           => OpenPositions' \subseteq OpenPositions /\ (NoWorkingOrder => NoWorkingOrder')
  PROVE  ControlInv'
<1>1. TypeOK'
  BY DEF ControlInv, TypeOK
<1>2. CommandFitsPc' /\ FlagsAgree' /\ AuditTrailIsCurrent' /\ BreachIsDated' /\ TerminalWhileLiquidating'
      /\ FlatIsTerminal' /\ CompletedIsClosed'
  BY DEF ControlInv, CommandFitsPc, FlagsAgree, AuditTrailIsCurrent, BreachIsDated, TerminalWhileLiquidating,
         FlatIsTerminal, CompletedIsClosed, At
<1>3. UnlistedIsClosed'
  <2> SUFFICES ASSUME NEW o \in Op, op[o].pc = "liquidating", op[o].cmd.kind \in TerminalKind,
                      ~op[o].failed
               PROVE  OpenPositions' \subseteq op[o].todo
    BY DEF UnlistedIsClosed, At
  <2>1. account.status \in Restricted
    BY DEF ControlInv, TerminalWhileLiquidating, Listing
  <2>2. OpenPositions \subseteq op[o].todo
    BY DEF ControlInv, UnlistedIsClosed, At
  <2> QED
    BY <2>1, <2>2
<1>4. FlattenedStaysFlat'
  BY DEF ControlInv, FlatIsTerminal, FlattenedStaysFlat
<1>5. CancelledWhileClosing'
  BY DEF ControlInv, CancelledWhileClosing, TerminalWhileLiquidating, TerminalKind
<1>6. ClosedHasNoWorkingOrder'
  <2>1. ClosedHasNoWorkingOrder => (account.status = "CLOSED" => NoWorkingOrder)
    BY DEF ClosedHasNoWorkingOrder, NoWorkingOrder
  <2>2. account.status = "CLOSED" => NoWorkingOrder'
    BY <2>1 DEF ControlInv, Restricted
  <2> QED
    BY <2>2 DEF ClosedHasNoWorkingOrder, NoWorkingOrder
<1> QED
  BY <1>1, <1>2, <1>3, <1>4, <1>5, <1>6 DEF ControlInv

LEMMA CanTradeFacts == ControlInv /\ CanTrade => account.status \notin Restricted
BY DEF CanTrade, Restricted

LEMMA TradeKeepsControlInv ==
  ASSUME ControlInv, Trade
  PROVE  ControlInv'
<1>0. /\ position \in [Position -> {"none", "open", "closed"}]
      /\ order \in [Order -> {"none", "working", "filled", "ended"}]
  BY DEF ControlInv, TypeOK
<1>1. ASSUME NEW p \in Position, OpenMarket(p) PROVE ControlInv'
  BY <1>0, <1>1, CanTradeFacts, TradingStep DEF OpenMarket
<1>2. ASSUME NEW p \in Position, CloseMarket(p) PROVE ControlInv'
  <2>1. OpenPositions' \subseteq OpenPositions /\ (NoWorkingOrder => NoWorkingOrder')
    BY <1>0, <1>2 DEF CloseMarket, OpenPositions, NoWorkingOrder
  <2> QED
    BY <1>0, <1>2, <2>1, TradingStep DEF CloseMarket
<1>3. ASSUME NEW q \in Order, PlacePending(q) PROVE ControlInv'
  BY <1>0, <1>3, CanTradeFacts, TradingStep DEF PlacePending
<1>4. ASSUME NEW q \in Order, EndPending(q) PROVE ControlInv'
  <2>1. OpenPositions' \subseteq OpenPositions /\ (NoWorkingOrder => NoWorkingOrder')
    BY <1>0, <1>4 DEF EndPending, OpenPositions, NoWorkingOrder
  <2> QED
    BY <1>0, <1>4, <2>1, TradingStep DEF EndPending
<1>5. ASSUME NEW q \in Order, NEW p \in Position, FillPending(q, p) PROVE ControlInv'
  BY <1>0, <1>5, CanTradeFacts, TradingStep DEF FillPending
<1> QED
  BY <1>1, <1>2, <1>3, <1>4, <1>5 DEF Trade

LEMMA ControlInvIsInductive == ControlInv /\ [Next]_vars => ControlInv'
<1> SUFFICES ASSUME ControlInv, [Next]_vars PROVE ControlInv'
  OBVIOUS
<1>1. ASSUME NEW o \in Op, Control(o) PROVE ControlInv'
  <2>1. CASE RefuseSwitchOn(o) \/ LiquidationFailed(o) \/ OperationFails(o)
    BY <2>1, ReturnKeepsControlInv DEF RefuseSwitchOn, LiquidationFailed, OperationFails
  <2> QED
    BY <1>1, <2>1, BeginStep, CountOpenStep, RestrictionStep, SwitchOnStep, ListPositionsStep,
       ReserveCloseStep, CloseCommitsStep, CloseFailsStep, LiquidationDoneStep, FinalizeStep
       DEF Control
<1>2. CASE UNCHANGED vars
  BY <1>2 DEF vars, exposure, ControlInv, TypeOK, CommandFitsPc, FlagsAgree, AuditTrailIsCurrent, BreachIsDated,
         TerminalWhileLiquidating, UnlistedIsClosed, CompletedIsClosed, FlatIsTerminal,
         FlattenedStaysFlat, CancelledWhileClosing, ClosedHasNoWorkingOrder, OpenPositions,
         NoWorkingOrder, At
<1> QED
  BY <1>1, <1>2, CrashStep, TradeKeepsControlInv DEF Next

(* The invariant holds of every reachable state, however close() is used.  *)
THEOREM ControlInvariant == Spec => []ControlInv
<1>1. Init => ControlInv
  BY InitControlInv
<1>2. ControlInv /\ [Next]_vars => ControlInv'
  BY ControlInvIsInductive
<1> QED
  BY <1>1, <1>2, PTL DEF Spec

(* Flattening is final: once disable(), breach() or close() has reported   *)
(* its liquidation done, no position is ever open again.                   *)
THEOREM FlattenedStaysFlatTheorem == Spec => []FlattenedStaysFlat
<1>1. ControlInv => FlattenedStaysFlat
  BY DEF ControlInv
<1> QED
  BY <1>1, ControlInvariant, PTL

(* A closed account has no order left that a price could still trigger.    *)
THEOREM ClosedHasNoWorkingOrderTheorem == Spec => []ClosedHasNoWorkingOrder
<1>1. ControlInv => ClosedHasNoWorkingOrder
  BY DEF ControlInv
<1> QED
  BY <1>1, ControlInvariant, PTL

(* The status and the two flags agree, and the audit trail ends with what  *)
(* the account is now.                                                     *)
THEOREM RecordsAgreeTheorem == Spec => []RecordsAgree
<1>1. ControlInv => RecordsAgree
  BY DEF ControlInv, RecordsAgree
<1> QED
  BY <1>1, ControlInvariant, PTL

-----------------------------------------------------------------------------
(* The last transaction of close() finds no position open, provided that   *)
(* no close() came here by way of the count.                               *)
LEMMA ClosingInvIsInductive ==
  ASSUME ClosesLiquidate
  PROVE  ControlInv /\ ClosingInv /\ [Next]_vars => ClosingInv'
<1> SUFFICES ASSUME ControlInv, ClosingInv, [Next]_vars
             PROVE  ClosingInv'
  OBVIOUS
<1>0. op \in [Op -> OpRecord] /\ Idle \in OpRecord /\ Idle.pc = "idle"
  BY IdleType DEF ControlInv, TypeOK, OpRecord
<1>f. \A x \in Op : At(x, "finalize") => account.status \in Restricted
  BY DEF ControlInv, CommandFitsPc, TerminalWhileLiquidating, Listing, TerminalKind, At
<1>k. ASSUME UNCHANGED position,
             account'.status = "CLOSED" => OpenPositions = {},
             \A x \in Op : op'[x].pc = "finalize" => op[x].pc = "finalize" \/ OpenPositions = {}
      PROVE  ClosingInv'
  BY <1>k DEF ClosingInv, ReadyToClose, ClosedIsFlat, OpenPositions, At
<1>1. ASSUME NEW o \in Op, Control(o) PROVE ClosingInv'
  <2>r. ASSUME Return(o) PROVE \A x \in Op : op'[x].pc = "finalize" => op[x].pc = "finalize"
    BY <2>r, <1>0 DEF Return
  <2>g. ASSUME NEW e \in OpRecord, op' = [op EXCEPT ![o] = e], e.pc # "finalize"
        PROVE  \A x \in Op : op'[x].pc = "finalize" => op[x].pc = "finalize"
    BY <2>g, <1>0
  <2>c. account.status = "CLOSED" => OpenPositions = {}
    BY DEF ClosingInv, ClosedIsFlat
  <2>1. CASE RefuseSwitchOn(o) \/ LiquidationFailed(o) \/ OperationFails(o)
    BY <2>1, <2>r, <2>c, <1>k DEF RefuseSwitchOn, LiquidationFailed, OperationFails, exposure
  <2>2. ASSUME NEW c \in Commands, Begin(o, c) PROVE ClosingInv'
    <3> DEFINE where == CASE c.kind \in {"activate", "resume"}      -> "switch"
                          [] c.kind = "close" /\ ~c.liquidate       -> "counting"
                          [] OTHER                                  -> "restrict"
    <3> DEFINE e == [Idle EXCEPT !.cmd = c, !.pc = where]
    <3>1. where \in {"switch", "counting", "restrict"}
      OBVIOUS
    <3>2. op' = [op EXCEPT ![o] = e] /\ UNCHANGED <<account, position>>
      BY <2>2 DEF Begin, exposure
    <3> HIDE DEF where
    <3>3. e \in OpRecord /\ e.pc = where
      BY <3>1 DEF Idle, OpRecord, OpPc
    <3> HIDE DEF e
    <3> QED
      BY <3>1, <3>2, <3>3, <2>g, <2>c, <1>k
  <2>3. CASE CountOpen(o)
    <3>1. CASE Return(o)
      BY <2>3, <3>1, <2>r, <2>c, <1>k DEF CountOpen, exposure
    <3>2. CASE Goto(o, "restrict")
      <4>1. PICK e \in OpRecord : op' = [op EXCEPT ![o] = e] /\ e.pc = "restrict"
        BY <3>2, GotoFacts DEF OpPc
      <4> QED
        BY <2>3, <4>1, <2>g, <2>c, <1>k DEF CountOpen, exposure
    <3> QED
      BY <2>3, <3>1, <3>2 DEF CountOpen
  <2>4. CASE Restrict(o) \/ PreserveTerminal(o)
    <3>1. At(o, "restrict") /\ AfterRestrict(o) /\ UNCHANGED position
      BY <2>4 DEF Restrict, PreserveTerminal
    <3>2. PICK e \in OpRecord :
            /\ op' = [op EXCEPT ![o] = e]
            /\ \/ e = Idle
               \/ e.pc = "list" /\ e.cmd = op[o].cmd
               \/ e.pc = "finalize" /\ e.cmd = op[o].cmd /\ e.cmd.kind = "close" /\ ~e.cmd.liquidate
      BY <3>1, AfterRestrictFacts
    <3>3. op[o].cmd \in Commands /\ op[o].cmd.kind \notin {"activate", "resume"}
      BY <3>1, AfterRestrictFacts
    <3>4. e.pc # "finalize"
      BY <3>2, <3>3, <1>0 DEF ClosesLiquidate
    <3>5. account'.status = "CLOSED" => account.status = "CLOSED"
      <4>1. CASE PreserveTerminal(o)
        BY <4>1 DEF PreserveTerminal
      <4>2. CASE Restrict(o)
        <5>1. account'.status = Target(op[o].cmd)
          BY <4>2 DEF Restrict
        <5> QED
          BY <5>1, <3>3, TargetFacts
      <4> QED
        BY <2>4, <4>1, <4>2
    <3> QED
      BY <3>1, <3>2, <3>4, <3>5, <2>g, <2>c, <1>k
  <2>5. CASE SwitchOn(o)
    <3>1. account'.status = "ACTIVE"
      BY <2>5 DEF SwitchOn, ControlInv, TypeOK
    <3> QED
      BY <2>5, <3>1, <2>r, <1>k DEF SwitchOn, exposure
  <2>6. CASE ListPositions(o)
    <3> DEFINE e == [op[o] EXCEPT !.pc = "liquidating", !.todo = OpenPositions]
    <3>1. op' = [op EXCEPT ![o] = e] /\ UNCHANGED <<account, position>>
      BY <2>6 DEF ListPositions, exposure
    <3>2. e \in OpRecord /\ e.pc = "liquidating"
      BY <1>0 DEF OpRecord, OpPc, OpenPositions
    <3> HIDE DEF e
    <3> QED
      BY <3>1, <3>2, <2>g, <2>c, <1>k
  <2>7. ASSUME NEW p \in Position, ReserveClose(o, p) \/ CloseFails(o, p)
        PROVE  ClosingInv'
    <3>1. \A x \in Op : op'[x].pc = op[x].pc
      BY <2>7, <1>0 DEF ReserveClose, CloseFails, Finish, OpRecord
    <3>2. UNCHANGED <<account, position>>
      BY <2>7 DEF ReserveClose, CloseFails
    <3> QED
      BY <3>1, <3>2, <2>c, <1>k
  <2>8. ASSUME NEW p \in Position, CloseCommits(o, p) PROVE ClosingInv'
    <3>1. \A x \in Op : op'[x].pc = op[x].pc
      BY <2>8, <1>0 DEF CloseCommits, Finish, OpRecord
    <3>2. OpenPositions' \subseteq OpenPositions /\ UNCHANGED account
      BY <2>8 DEF CloseCommits, OpenPositions, ControlInv, TypeOK
    <3> QED
      BY <3>1, <3>2 DEF ClosingInv, ReadyToClose, ClosedIsFlat, At
  <2>9. CASE LiquidationDone(o)
    <3>1. UNCHANGED <<account, position>>
      BY <2>9 DEF LiquidationDone, exposure
    <3>2. CASE Return(o)
      BY <3>1, <3>2, <2>r, <2>c, <1>k
    <3>3. CASE op[o].cmd.kind = "close"
      <4>1. OpenPositions = {}
        BY <2>9, <3>3, LiquidationDoneFacts DEF TerminalKind
      <4> QED
        BY <3>1, <4>1, <1>k
    <3> QED
      BY <2>9, <3>2, <3>3 DEF LiquidationDone
  <2>10. CASE Finalize(o)
    <3>1. OpenPositions = {}
      BY <2>10 DEF Finalize, ClosingInv, ReadyToClose
    <3> QED
      BY <2>10, <3>1, <1>k DEF Finalize, exposure
  <2> QED
    BY <1>1, <2>1, <2>2, <2>3, <2>4, <2>5, <2>6, <2>7, <2>8, <2>9, <2>10 DEF Control
<1>2. CASE Crash
  <2>1. \A x \in Op : op'[x].pc = "idle"
    BY <1>2, <1>0 DEF Crash
  <2>2. account.status = "CLOSED" => OpenPositions = {}
    BY DEF ClosingInv, ClosedIsFlat
  <2> QED
    BY <1>2, <2>1, <2>2, <1>k DEF Crash, exposure
<1>3. CASE Trade
  <2>1. UNCHANGED <<account, op>>
    BY <1>3 DEF Trade, OpenMarket, CloseMarket, PlacePending, FillPending, EndPending
  <2>2. account.status \in Restricted => OpenPositions' \subseteq OpenPositions
    <3>1. ASSUME NEW p \in Position, CloseMarket(p) PROVE OpenPositions' \subseteq OpenPositions
      BY <3>1 DEF CloseMarket, OpenPositions, ControlInv, TypeOK
    <3>2. ASSUME NEW q \in Order, PlacePending(q) \/ EndPending(q)
          PROVE  OpenPositions' = OpenPositions
      BY <3>2 DEF PlacePending, EndPending, OpenPositions
    <3> QED
      BY <1>3, <3>1, <3>2, CanTradeFacts DEF Trade, OpenMarket, FillPending
  <2>3. "CLOSED" \in Restricted
    BY DEF Restricted
  <2> QED
    BY <2>1, <2>2, <2>3, <1>f DEF ClosingInv, ReadyToClose, ClosedIsFlat, At
<1>4. CASE UNCHANGED vars
  BY <1>4 DEF vars, exposure, ClosingInv, ReadyToClose, ClosedIsFlat, OpenPositions, At
<1> QED
  BY <1>1, <1>2, <1>3, <1>4 DEF Next

(* A closed account has no open position, when every close() liquidates.   *)
THEOREM ClosedIsFlatTheorem ==
  ASSUME ClosesLiquidate
  PROVE  Spec => []ClosedIsFlat
<1>1. Init => ControlInv /\ ClosingInv
  BY InitControlInv
<1>2. ControlInv /\ [Next]_vars => ControlInv'
  BY ControlInvIsInductive
<1>3. ControlInv /\ ClosingInv /\ [Next]_vars => ClosingInv'
  BY ClosingInvIsInductive
<1>4. ClosingInv => ClosedIsFlat
  BY DEF ClosingInv
<1> QED
  BY <1>1, <1>2, <1>3, <1>4, PTL DEF Spec

(* No step leaves a terminal status, save into CLOSED, or hides a breach.  *)
THEOREM TerminalIsFinalTheorem == Spec => TerminalIsFinal
<1> DEFINE Final ==
      account.status \in Restricted
        => account'.status \in {account.status, "CLOSED"} /\ account'.breachedAt = account.breachedAt
<1>1. ControlInv /\ [Next]_vars => [Final]_vars
  <2> SUFFICES ASSUME ControlInv, Next, account.status \in Restricted PROVE Final
    OBVIOUS
  <2>0. account \in [status : Status, tradingEnabled : BOOLEAN, federationEnabled : BOOLEAN,
                     breachedAt : BOOLEAN]
    BY DEF ControlInv, TypeOK
  <2>1. CASE account' = account
    BY <2>1
  <2>2. ASSUME NEW o \in Op, Restrict(o) PROVE Final
    <3> DEFINE c == op[o].cmd
    <3>1. c \in Commands /\ c.kind \notin {"activate", "resume"}
      BY <2>2 DEF Restrict, ControlInv, CommandFitsPc, At
    <3>2. Target(c) = account.status
      BY <2>2 DEF Restrict, TerminalPreserved
    <3>3. account'.status = Target(c) /\ account'.breachedAt = (c.kind = "breach" \/ account.breachedAt)
      BY <2>2 DEF Restrict
    <3>4. c.kind = "breach" => account.status = "BREACHED"
      BY <3>2 DEF Target
    <3> QED
      BY <3>1, <3>2, <3>3, <3>4, <2>0 DEF ControlInv, BreachIsDated
  <2>3. ASSUME NEW o \in Op, SwitchOn(o) PROVE Final
    BY <2>3 DEF SwitchOn, MaySwitchOn
  <2>4. ASSUME NEW o \in Op, Finalize(o) PROVE Final
    BY <2>4, <2>0 DEF Finalize
  <2>5. ASSUME NEW o \in Op, Control(o) PROVE Final
    BY <2>5, <2>1, <2>2, <2>3, <2>4 DEF Control, Begin, CountOpen, PreserveTerminal, RefuseSwitchOn,
       ListPositions, ReserveClose, CloseCommits, CloseFails, LiquidationDone, LiquidationFailed,
       OperationFails
  <2> QED
    BY <2>1, <2>5 DEF Next, Trade, OpenMarket, CloseMarket, PlacePending, FillPending, EndPending, Crash
<1>2. [][Final]_vars => TerminalIsFinal
  BY DEF TerminalIsFinal
<1> QED
  BY <1>1, <1>2, ControlInvariant, PTL DEF Spec
=============================================================================
