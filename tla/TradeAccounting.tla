----------------------------- MODULE TradeAccounting -----------------------------
(***************************************************************************)
(* The money of one trading account: what market orders, closes, reversals *)
(* and ledger mutations do to the stored account, its positions and its    *)
(* ledger (market-order.service.js, atomic-reverse.service.js,             *)
(* account-ledger.service.js), how the valuation engine follows them and   *)
(* is laid over the stored account before each of them                     *)
(* (valuation-engine.js), and what the reconciliation makes of it          *)
(* (reconciliation.service.js).                                            *)
(*                                                                         *)
(* Amounts are integers in the currency of the account.  Every position    *)
(* has a symbol of its own, whose bid and ask are one price; a lot is one  *)
(* unit and reserves MarginPerLot, which stands for the margin formula.    *)
(* The commands of the account run one at a time (AccountCommandQueue).    *)
(***************************************************************************)
EXTENDS Integers, Sequences, FiniteSets

CONSTANTS
  MaxTrades,        \* bound: the positions that may be opened
  TradePrice,       \* the prices of a quote
  OpenVolume,       \* the volume of an order
  CommissionPerLot,
  MarginPerLot,
  StartBalance,
  Deposit,          \* the amounts of deposits
  Withdrawal,       \* the amounts of withdrawals
  MaxOpenPositions,
  MaxMarginUsage,   \* maxMarginUsagePercent
  MaxSingleOrder,   \* maxSingleOrderMarginPercentOfFree
  MaxSymbolMargin,  \* maxSymbolMarginPercentOfPermitted
  MaxCommands,      \* bound: no command begins at this financial revision
  MaxQuotes,        \* bound: changes of quotes
  MaxRestarts       \* bound: restarts of the process

ASSUME AccountingConstants ==
  /\ MaxTrades \in Nat /\ MaxCommands \in Nat
  /\ TradePrice \subseteq Nat \ {0}
  /\ OpenVolume \in Nat \ {0} /\ CommissionPerLot \in Nat /\ MarginPerLot \in Nat
  /\ StartBalance \in Nat /\ Deposit \subseteq Nat /\ Withdrawal \subseteq Nat

VARIABLES
  stored,     \* the account document
  trades,     \* the position documents
  ledger,     \* the ledger entries
  job,        \* the command of the account that runs
  base,       \* accountBases: the revision and the balance the engine holds, if any
  held,       \* positions: the open positions the engine holds
  quotes,     \* the quote store
  loading,    \* getOrLoadAccountSnapshot(): the account document it has read
  check,      \* the reconciliation of the account
  adrift,     \* history: a close was booked without a complete valuation
  overtaken,  \* history: the engine was given an account older than the one it held
  quoteChanges,
  restarts

accountingVars == <<stored, trades, ledger, job, base, held, quotes, loading, check, adrift,
                    overtaken, quoteChanges, restarts>>
bookVars == <<stored, trades, ledger, adrift>>
engineVars == <<base, held, overtaken>>

NoDoc == [revision |-> -1, balance |-> 0]
NoTrade == [status |-> "none", side |-> "BUY", volume |-> 0, entry |-> 0, margin |-> 0]
NoJob == [step |-> "idle", kind |-> "none", trade |-> 0, amount |-> 0, fill |-> 0]
NoCheck == [step |-> "idle", balance |-> 0, used |-> 0, overlapped |-> FALSE, issues |-> {}]
NoQuote == [price |-> 0, stale |-> TRUE]

TradeId == 1 .. MaxTrades   \* the positions, in no order
Slots == TradeId \cup {0}
Amounts == 0 .. OpenVolume
Issue == {"LEDGER_CHAIN_BROKEN", "LEDGER_MATH_MISMATCH", "LEDGER_BALANCE_MISMATCH", "USED_MARGIN_MISMATCH"}


AccountRecord == [balance : Int, equity : Int, floating : Int, used : Nat, free : Int, revision : Nat]
TradeRecord == [status : {"none", "OPEN", "CLOSED"}, side : {"BUY", "SELL"}, volume : Amounts,
                entry : TradePrice \cup {0}, margin : Nat]
LedgerRecord == [before : Int, amount : Int, after : Int]
DocRecord == [revision : Nat \cup {-1}, balance : Int]
JobRecord == [step : {"idle", "planned", "committed"}, kind : {"none", "open", "close", "reverse", "transfer"},
              trade : Slots, amount : Int, fill : TradePrice \cup {0}]
CheckRecord == [step : {"idle", "read", "done"}, balance : Int, used : Nat, overlapped : BOOLEAN,
                issues : SUBSET Issue]
QuoteRecord == [price : TradePrice \cup {0}, stale : BOOLEAN]

AccountingTypeOK ==
  /\ stored \in AccountRecord
  /\ trades \in [TradeId -> TradeRecord]
  /\ ledger \in Seq(LedgerRecord)
  /\ job \in JobRecord
  /\ base \in DocRecord /\ loading \in DocRecord
  /\ held \in [TradeId -> TradeRecord]
  /\ quotes \in [TradeId -> QuoteRecord]
  /\ check \in CheckRecord
  /\ adrift \in BOOLEAN /\ overtaken \in BOOLEAN

AccountingInit ==
  /\ stored = [balance |-> StartBalance, equity |-> StartBalance, floating |-> 0, used |-> 0,
               free |-> StartBalance, revision |-> 0]
  /\ trades = [t \in TradeId |-> NoTrade]
  /\ ledger = <<[before |-> 0, amount |-> StartBalance, after |-> StartBalance]>>
  /\ job = NoJob
  /\ base = NoDoc /\ held = [t \in TradeId |-> NoTrade] /\ loading = NoDoc
  /\ quotes = [t \in TradeId |-> NoQuote]
  /\ check = NoCheck
  /\ adrift = FALSE /\ overtaken = FALSE /\ quoteChanges = 0 /\ restarts = 0

-----------------------------------------------------------------------------
(***************************************************************************)
(* Valuation: valuation-calculator.js and overlayAccountDocument().        *)
(***************************************************************************)
\* The amounts of all positions, added up.
Total(amounts) ==
  LET upTo[n \in 0 .. MaxTrades] == IF n = 0 THEN 0 ELSE upTo[n - 1] + amounts[n]
  IN  upTo[MaxTrades]

Profit(p, price) == p.volume * (IF p.side = "BUY" THEN price - p.entry ELSE p.entry - price)

HeldTrades == {t \in TradeId : held[t].status = "OPEN"}
OpenTrades == {t \in TradeId : trades[t].status = "OPEN"}

\* The margin of a position, which counts while it is open.
MarginOf(p) == IF p.status = "OPEN" THEN p.margin ELSE 0

Complete == \A t \in HeldTrades : quotes[t].price # 0
Live == \A t \in HeldTrades : quotes[t].price # 0 /\ ~quotes[t].stale

\* The engine holds another revision of the account than the one that was read.
StaleRevision == base # NoDoc /\ base.revision # stored.revision

Valued(account, floating, used) ==
  [account EXCEPT !.floating = floating, !.equity = account.balance + floating, !.used = used,
                  !.free = account.balance + floating - used]

\* The stored account with the live valuation laid over it, when that is complete.
Overlay ==
  LET floating == Total([t \in TradeId |-> IF held[t].status = "OPEN" THEN Profit(held[t], quotes[t].price) ELSE 0])
      used == Total([t \in TradeId |-> MarginOf(held[t])])
  IN  IF Complete THEN Valued(stored, floating, used) ELSE stored

-----------------------------------------------------------------------------
(***************************************************************************)
(* What an execution does to the account: applyOpenAccountMutation() and   *)
(* applyCloseAccountAndPositionMutation().                                 *)
(***************************************************************************)
AboveZero(n) == IF n > 0 THEN n ELSE 0

Margined(account, used) == [account EXCEPT !.used = used, !.free = account.equity - used]

Charged(account, commission) ==
  [account EXCEPT !.balance = @ - commission, !.equity = @ - commission, !.revision = @ + 1]

AfterOpen(account, commission, margin) ==
  Margined(Charged(account, commission), account.used + margin)

\* Mutant: the profit stays floating.
AfterCloseFloating(account, realized, commission, released, complete) ==
  Margined([Charged(account, commission) EXCEPT !.balance = @ + realized],
           AboveZero(account.used - released))

AfterClose(account, realized, commission, released, complete) ==
  Margined([Charged(account, commission) EXCEPT !.balance = @ + realized,
                                                !.floating = IF complete THEN @ - realized ELSE @],
           AboveZero(account.used - released))

Entry(before, amount) == [before |-> before, amount |-> amount, after |-> before + amount]

\* The entries of a close: the profit, if any, and then the commission.
CloseEntries(balance, realized, commission) ==
  (IF realized # 0 THEN <<Entry(balance, realized)>> ELSE <<>>)
  \o (IF commission > 0 THEN <<Entry(balance + realized, 0 - commission)>> ELSE <<>>)

OpenEntries(balance, commission) ==
  IF commission > 0 THEN <<Entry(balance, 0 - commission)>> ELSE <<>>

Reduced(p, volume, released) ==
  IF volume = p.volume THEN [p EXCEPT !.status = "CLOSED", !.volume = 0, !.margin = 0]
                       ELSE [p EXCEPT !.volume = @ - volume, !.margin = @ - released]

Released(p, volume) == IF volume = p.volume THEN p.margin ELSE (p.margin * volume) \div p.volume

Opened(side, price) ==
  [status |-> "OPEN", side |-> side, volume |-> OpenVolume, entry |-> price, margin |-> OpenVolume * MarginPerLot]

OpenCommission == OpenVolume * CommissionPerLot

\* Mutant: the margin is not looked at.
MayOpenByCount(account, openCount) ==
  /\ openCount + 1 <= MaxOpenPositions
  /\ account.equity - OpenCommission > 0

\* validateMarginExposure(): the margin in use, and the share that one order and
\* one symbol take, against what the equity after the commission permits.
WithinMarginLimits(account, margin) ==
  LET equity == account.equity - OpenCommission
      permitted == MaxMarginUsage * equity   \* in hundredths
  IN  /\ equity > 0
      /\ 100 * (account.used + margin) <= permitted
      /\ 10000 * margin <= MaxSingleOrder * (permitted - 100 * account.used)
      /\ 10000 * margin <= MaxSymbolMargin * permitted

\* planMarketOpen(): the limits of the firm's policy and the free margin.
MayOpen(account, openCount) ==
  /\ openCount + 1 <= MaxOpenPositions
  /\ WithinMarginLimits(account, OpenVolume * MarginPerLot)
  /\ account.free >= OpenVolume * MarginPerLot + OpenCommission

-----------------------------------------------------------------------------
(***************************************************************************)
(* The commands of the account.                                            *)
(***************************************************************************)
Executable(t) == quotes[t].price # 0 /\ ~quotes[t].stale

\* A command reaches the head of the queue and takes its quote.
Plan(kind, t, amount) ==
  /\ job.step = "idle" /\ stored.revision < MaxCommands
  /\ job' = [step |-> "planned", kind |-> kind, trade |-> t, amount |-> amount,
             fill |-> IF t # 0 /\ Executable(t) THEN quotes[t].price ELSE 0]
  /\ UNCHANGED <<bookVars, engineVars, quotes, loading, check, quoteChanges, restarts>>

PlanOpen(t) == trades[t].status = "none" /\ Plan("open", t, OpenVolume)
PlanClose(t) == \E volume \in 1 .. OpenVolume : trades[t].status = "OPEN" /\ Plan("close", t, volume)
PlanReverse(t) == trades[t].status = "OPEN" /\ Plan("reverse", t, OpenVolume)
PlanTransfer == \E amount \in Deposit \cup {0 - w : w \in Withdrawal} : Plan("transfer", 0, amount)

Book(account, documents, entries) ==
  /\ stored' = account /\ trades' = documents /\ ledger' = ledger \o entries
  /\ job' = [job EXCEPT !.step = "committed"]
  /\ check' = [check EXCEPT !.overlapped = (check.step = "read" \/ @)]
  /\ UNCHANGED <<engineVars, quotes, loading, quoteChanges, restarts>>

\* openMarketOrder(), and executePendingOrder() as far as it opens a position.
CommitOpen ==
  /\ job.step = "planned" /\ job.kind = "open" /\ job.fill # 0
  /\ ~StaleRevision /\ Live
  /\ MayOpen(Overlay, Cardinality(OpenTrades))
  /\ Book(AfterOpen(Overlay, OpenCommission, OpenVolume * MarginPerLot),
            [trades EXCEPT ![job.trade] = Opened("BUY", job.fill)],
            OpenEntries(stored.balance, OpenCommission))
  /\ adrift' = FALSE

MayClose(t, volume) ==
  trades[t].status = "OPEN" /\ volume <= trades[t].volume /\ job.fill # 0 /\ ~StaleRevision

\* A close whose valuation is incomplete books the profit in the balance alone.
Drifts(realized) == adrift' = IF Complete THEN FALSE ELSE adrift \/ realized # 0

\* closeMarketPosition(), of a whole position or of a part.
CommitClose ==
  LET t == job.trade
      p == trades[t]
      realized == Profit([p EXCEPT !.volume = job.amount], job.fill)
      commission == job.amount * CommissionPerLot
      released == Released(p, job.amount)
  IN
  /\ job.step = "planned" /\ job.kind = "close" /\ MayClose(t, job.amount)
  /\ Book(AfterClose(Overlay, realized, commission, released, Complete),
            [trades EXCEPT ![t] = Reduced(p, job.amount, released)],
            CloseEntries(stored.balance, realized, commission))
  /\ Drifts(realized)

\* reversePosition(): the close and the opposite position in one transaction.
\* The position that is opened takes the place of the one that is closed.
CommitReverse ==
  LET t == job.trade
      p == trades[t]
      realized == Profit(p, job.fill)
      commission == p.volume * CommissionPerLot
      closed == AfterClose(Overlay, realized, commission, p.margin, Complete)
  IN
  /\ job.step = "planned" /\ job.kind = "reverse" /\ MayClose(t, p.volume) /\ p.volume = OpenVolume
  /\ MayOpen(closed, Cardinality(OpenTrades) - 1)
  /\ Book(AfterOpen(closed, OpenCommission, OpenVolume * MarginPerLot),
            [trades EXCEPT ![t] = Opened(IF p.side = "BUY" THEN "SELL" ELSE "BUY", job.fill)],
            CloseEntries(stored.balance, realized, commission)
              \o OpenEntries(stored.balance + realized - commission, OpenCommission))
  /\ Drifts(realized)

\* AccountLedgerService.mutate(): a deposit, or a withdrawal.
CommitTransfer ==
  LET amount == job.amount
      equity == stored.equity + amount
  IN
  /\ job.step = "planned" /\ job.kind = "transfer"
  /\ stored.balance + amount >= 0
  /\ amount < 0 => equity - stored.used >= 0
  /\ Book([stored EXCEPT !.balance = @ + amount, !.equity = equity, !.free = equity - stored.used,
                           !.revision = @ + 1],
            trades, <<Entry(stored.balance, amount)>>)
  /\ UNCHANGED adrift

\* The plan is refused, or the transaction fails: nothing was stored.
Refuse ==
  /\ job.step = "planned" /\ job' = NoJob
  /\ UNCHANGED <<bookVars, engineVars, quotes, loading, check, quoteChanges, restarts>>

-----------------------------------------------------------------------------
(***************************************************************************)
(* The valuation engine.                                                   *)
(***************************************************************************)
Doc == [revision |-> stored.revision, balance |-> stored.balance]
HeldFromStore == [t \in TradeId |-> IF trades[t].status = "OPEN" THEN trades[t] ELSE NoTrade]

\* Mutant: the positions are not told.
AnnounceAccount ==
  /\ job.step = "committed" /\ job' = NoJob
  /\ base' = Doc /\ overtaken' = FALSE
  /\ UNCHANGED <<bookVars, held, quotes, loading, check, quoteChanges, restarts>>

\* The events of a command reach #upsertPosition(), #removePosition() and
\* #upsertAccount() in one turn.
Announce ==
  /\ job.step = "committed" /\ job' = NoJob
  /\ held' = IF job.trade = 0 THEN held ELSE [held EXCEPT ![job.trade] = HeldFromStore[job.trade]]
  /\ base' = Doc /\ overtaken' = FALSE
  /\ UNCHANGED <<bookVars, quotes, loading, check, quoteChanges, restarts>>

\* A tick, or the mark of a quote as stale, which the engine revalues from.
ChangeQuote(t) ==
  /\ quoteChanges < MaxQuotes /\ quoteChanges' = quoteChanges + 1
  /\ \E quote \in [price : TradePrice, stale : {FALSE}] \cup {[quotes[t] EXCEPT !.stale = TRUE]} :
       quote # quotes[t] /\ quotes' = [quotes EXCEPT ![t] = quote]
  /\ UNCHANGED <<bookVars, job, engineVars, loading, check, restarts>>

\* getOrLoadAccountSnapshot() for an account that the engine does not hold.
StartLoad ==
  /\ base = NoDoc /\ loading = NoDoc /\ loading' = Doc
  /\ UNCHANGED <<bookVars, job, engineVars, quotes, check, quoteChanges, restarts>>

FinishLoad ==
  /\ loading # NoDoc /\ loading' = NoDoc
  /\ base' = loading
  /\ overtaken' = (base.revision > loading.revision)
  /\ UNCHANGED <<bookVars, job, held, quotes, check, quoteChanges, restarts>>

\* The process stops and starts: start() reads the open positions, and the
\* accounts that have any.  Nothing is quoted yet.
RestartEngine ==
  /\ restarts < MaxRestarts /\ restarts' = restarts + 1
  /\ base' = IF OpenTrades = {} THEN NoDoc ELSE Doc
  /\ held' = HeldFromStore
  /\ quotes' = [t \in TradeId |-> NoQuote]
  /\ job' = NoJob /\ loading' = NoDoc /\ check' = [check EXCEPT !.step = IF @ = "read" THEN "idle" ELSE @]
  /\ overtaken' = FALSE
  /\ UNCHANGED <<bookVars, quoteChanges>>

-----------------------------------------------------------------------------
(***************************************************************************)
(* ReconciliationService: the accounts are read first, and each is then    *)
(* checked in its queue against its ledger and its positions.              *)
(***************************************************************************)
ReadAccounts ==
  /\ check.step = "idle"
  /\ check' = [NoCheck EXCEPT !.step = "read", !.balance = stored.balance, !.used = stored.used]
  /\ UNCHANGED <<bookVars, job, engineVars, quotes, loading, quoteChanges, restarts>>

OpenMargin == Total([t \in TradeId |-> MarginOf(trades[t])])

Issues ==
  LET n == Len(ledger) IN
  {c \in Issue :
     \/ c = "LEDGER_CHAIN_BROKEN" /\ \E i \in 2 .. n : ledger[i].before # ledger[i - 1].after
     \/ c = "LEDGER_MATH_MISMATCH" /\ \E i \in 1 .. n : ledger[i].before + ledger[i].amount # ledger[i].after
     \/ c = "LEDGER_BALANCE_MISMATCH" /\ ledger[n].after # check.balance
     \/ c = "USED_MARGIN_MISMATCH" /\ OpenMargin # check.used}

CheckAccount ==
  /\ check.step = "read" /\ job.step = "idle"
  /\ check' = [check EXCEPT !.step = "done", !.issues = Issues]
  /\ UNCHANGED <<bookVars, job, engineVars, quotes, loading, quoteChanges, restarts>>

-----------------------------------------------------------------------------
AccountingNext ==
  \/ \E t \in TradeId : PlanOpen(t) \/ PlanClose(t) \/ PlanReverse(t) \/ ChangeQuote(t)
  \/ PlanTransfer
  \/ CommitOpen \/ CommitClose \/ CommitReverse \/ CommitTransfer
  \/ Refuse \/ Announce
  \/ StartLoad \/ FinishLoad \/ RestartEngine
  \/ ReadAccounts \/ CheckAccount

AccountingSpec == AccountingInit /\ [][AccountingNext]_accountingVars

-----------------------------------------------------------------------------
(***************************************************************************)
(* What the steps keep between the account, the engine and the check.      *)
(***************************************************************************)
\* The ledger is never empty, and each of its entries adds up.
LedgerAddsUp ==
  ledger # <<>> /\ \A i \in 1 .. Len(ledger) : ledger[i].before + ledger[i].amount = ledger[i].after

\* A position is open with a volume; an open command has a new position.
TradesFollowJob ==
  /\ \A t \in TradeId : trades[t].status = "OPEN" => trades[t].volume > 0
  /\ job.kind \in {"open", "close", "reverse"} => job.trade \in TradeId
  /\ job.step = "planned" /\ job.kind = "open" => trades[job.trade].status = "none"
  /\ job.step = "planned" /\ job.kind = "close" => job.amount > 0

\* The engine may differ from the store only in the position of the job.
HeldFollowsStore ==
  \A t \in TradeId :
    job.step # "committed" \/ job.trade # t => held[t] = HeldFromStore[t]

\* A document on its way to the engine is the account as it is, or an older one
\* that an announced command has already overtaken.
LoadedInThePast ==
  loading # NoDoc =>
    /\ loading.revision \in Nat /\ loading.revision <= stored.revision
    /\ loading.revision = stored.revision => loading = Doc
    /\ job.step # "committed" /\ loading # Doc => base.revision > loading.revision

\* What the reconciliation has read is still so, if no command came between.
ReadIsCurrent ==
  check.step = "read" /\ ~check.overlapped =>
    check.balance = stored.balance /\ check.used = stored.used

\* The account always holds what its ledger adds up to, entry after entry, and
\* reserves the margin of its open positions, although the commands take the
\* reserved margin from the memory of the valuation engine.
BooksBalance ==
  /\ stored.balance = ledger[Len(ledger)].after
  /\ \A i \in 2 .. Len(ledger) : ledger[i].before = ledger[i - 1].after
  /\ stored.used = OpenMargin

\* The stored equity is the balance and the floating profit, and what is not
\* reserved of it is free.  A close whose valuation is incomplete breaks the
\* first until the next command with a complete one.
EquityAddsUp ==
  /\ ~adrift => stored.equity = stored.balance + stored.floating
  /\ stored.free = stored.equity - stored.used

\* Between two commands the engine holds the open positions as they are stored,
\* and the account of the last command, unless a snapshot that was read before
\* the command overwrote it.
EngineIsCurrent ==
  job.step # "committed" =>
    /\ held = HeldFromStore
    /\ base # NoDoc /\ ~overtaken => base = Doc

\* The reconciliation reports nothing of sound books, unless a command was
\* committed between the read of the account and its check.
ReconciliationIsQuiet == check.issues # {} => check.overlapped

\* A position is opened only if the account still has free margin and equity
\* afterwards, at the prices the engine knew, in an open as in a reversal.
OpensAreCovered ==
  [][\A t \in TradeId :
       trades'[t].status = "OPEN" /\ (trades[t].status # "OPEN" \/ trades[t].side # trades'[t].side)
       => stored'.free >= 0 /\ stored'.equity > 0]_accountingVars

\* Account, ledger and positions agree, and the reconciliation finds them so
\* (market-order.service.js, reconciliation.service.js).
BooksAreSound == AccountingTypeOK /\ BooksBalance /\ EquityAddsUp /\ ReconciliationIsQuiet

AccountingInv ==
  /\ BooksAreSound /\ EngineIsCurrent
  /\ LedgerAddsUp /\ TradesFollowJob /\ HeldFollowsStore /\ LoadedInThePast /\ ReadIsCurrent
=============================================================================
