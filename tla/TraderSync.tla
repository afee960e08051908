------------------------------ MODULE TraderSync ------------------------------
(***************************************************************************)
(* The trading state of one trader WebSocket (market-ws-server.js and      *)
(* trader-state.service.js): which accounts the socket follows, how a      *)
(* snapshot is read while events keep coming, how valuations are           *)
(* coalesced, and how the grants of the session are looked at again.       *)
(*                                                                         *)
(* The state of an account is the number of its last change.  A change of  *)
(* its documents is committed and announced in two steps; its valuation    *)
(* lives in memory and is announced as it changes.                         *)
(***************************************************************************)
EXTENDS Naturals, Sequences

CONSTANTS
  Account,
  MaxSyncBuffer,   \* MAX_SYNC_BUFFER_EVENTS
  MaxRev,          \* bound: changes of an account's documents, and of its valuation
  MaxSyncs,        \* bound: calls of syncAccounts() on the socket
  MaxChecks,       \* bound: revalidations of the session
  MaxGrantChanges, \* bound: changes of the accounts the session resolves to
  SyncFaults       \* whether a snapshot may fail

ASSUME SyncAssumption ==
  /\ MaxSyncBuffer \in Nat /\ MaxRev \in Nat \ {0} /\ MaxSyncs \in Nat \ {0}
  /\ MaxChecks \in Nat /\ MaxGrantChanges \in Nat

VARIABLES
  link,         \* "new", "open" or "closed"
  eligible,     \* the accounts that the session resolves to now
  principal,    \* socket.traderPrincipal.accountIds
  checks,       \* the calls of authenticateSessionToken() of the heartbeat
  followed,     \* state.accounts
  syncing,      \* state.syncingAccounts
  buffer,       \* state.pendingAccountEvents
  syncs,        \* the calls of syncAccounts()
  delayed,      \* state.valuationPending, with its timers
  committed,    \* what is stored, and what the valuation engine holds
  announced,    \* the change of the documents that was announced last
  shown,        \* what the trader was sent last
  disordered,   \* history: the accounts whose last snapshot failed, or was read at
                \* the time of another one or while a valuation was delayed
  grantChanges

syncVars == <<link, eligible, principal, checks, followed, syncing, buffer, syncs, delayed,
              committed, announced, shown, disordered, grantChanges>>

Kind == {"documents", "valuation"}
Rev == 0 .. MaxRev
SyncId == 1 .. MaxSyncs
CheckId == 1 .. MaxChecks

Sync == [step : {"new", "documents", "valuation", "answer", "done"}, reason : {"initial", "later"},
         accounts : SUBSET Account, snapshot : [Account -> [Kind -> Rev]]]
ItemOf == [account : Account, kind : Kind, rev : Rev]
Check == [step : {"new", "asked", "resolved", "done"}, accounts : SUBSET Account]
Unseen == [a \in Account |-> [k \in Kind |-> 0]]

SyncTypeOK ==
  /\ link \in {"new", "open", "closed"}
  /\ eligible \in SUBSET Account /\ principal \in SUBSET Account
  /\ checks \in [CheckId -> Check]
  /\ followed \in SUBSET Account /\ syncing \in SUBSET Account
  /\ buffer \in Seq(ItemOf) /\ Len(buffer) <= MaxSyncBuffer
  /\ syncs \in [SyncId -> Sync]
  /\ delayed \in [Account -> Rev]
  /\ committed \in [Account -> [Kind -> Rev]] /\ announced \in [Account -> Rev]
  /\ shown \in [Account -> [Kind -> Rev]]
  /\ disordered \in SUBSET Account
  /\ grantChanges \in 0 .. MaxGrantChanges

NewSync == [step |-> "new", reason |-> "later", accounts |-> {}, snapshot |-> Unseen]

SyncInit ==
  /\ link = "new"
  /\ eligible \in SUBSET Account \ {{}}
  /\ principal = {} /\ followed = {} /\ syncing = {}
  /\ checks = [c \in CheckId |-> [step |-> "new", accounts |-> {}]]
  /\ buffer = <<>>
  /\ syncs = [i \in SyncId |-> NewSync]
  /\ delayed = [a \in Account |-> 0]
  /\ committed = [a \in Account |-> [k \in Kind |-> 1]] /\ announced = [a \in Account |-> 1]
  /\ shown = Unseen
  /\ disordered = {} /\ grantChanges = 0

Open == link = "open"
Reading(i) == syncs[i].step \in {"documents", "valuation", "answer"}
FirstNew == {i \in SyncId : syncs[i].step = "new" /\ \A j \in SyncId : j < i => syncs[j].step # "new"}
ReadFor(a) == {i \in SyncId : Reading(i) /\ a \in syncs[i].accounts}

-----------------------------------------------------------------------------
(***************************************************************************)
(* The events of an account.                                               *)
(***************************************************************************)
Item(a, k, r) == [account |-> a, kind |-> k, rev |-> r]

\* send(): what the trader sees, if the socket is still open.
Show(view) == shown' = IF Open THEN view ELSE shown
With(a, k, r) == [shown EXCEPT ![a][k] = r]

\* What is seen of the kind k of a, when x was seen before the items are sent.
Latest(items, a, k, x) ==
  LET upTo[n \in 0 .. Len(items)] ==
        IF n = 0 THEN x
        ELSE IF items[n].account = a /\ items[n].kind = k THEN items[n].rev
        ELSE upTo[n - 1]
  IN  upTo[Len(items)]

\* The items of the other accounts, in their order.
Without(items, ids) ==
  LET upTo[n \in 0 .. Len(items)] ==
        IF n = 0 THEN <<>>
        ELSE IF items[n].account \in ids THEN upTo[n - 1]
        ELSE Append(upTo[n - 1], items[n])
  IN  upTo[Len(items)]

Delayed(a, r) == delayed' = [delayed EXCEPT ![a] = r]

\* routeAccountEvent(), with scheduleLatest() for a valuation.
Route(a, k, r) ==
  IF ~Open \/ a \notin followed THEN UNCHANGED <<link, buffer, delayed, shown>>
  ELSE IF a \in syncing
  THEN /\ IF Len(buffer) >= MaxSyncBuffer THEN link' = "closed" /\ UNCHANGED buffer
          ELSE buffer' = Append(buffer, Item(a, k, r)) /\ UNCHANGED link
       /\ UNCHANGED <<delayed, shown>>
  ELSE IF k = "valuation" THEN Delayed(a, r) /\ UNCHANGED <<link, buffer, shown>>
  ELSE Show(With(a, k, r)) /\ UNCHANGED <<link, buffer, delayed>>

\* A command commits; the next one of the account starts when it was announced.
CommitDocuments(a) ==
  /\ committed[a]["documents"] < MaxRev /\ announced[a] = committed[a]["documents"]
  /\ committed' = [committed EXCEPT ![a]["documents"] = @ + 1]
  /\ UNCHANGED <<link, eligible, principal, checks, followed, syncing, buffer, syncs, delayed,
                 announced, shown, disordered, grantChanges>>

AnnounceDocuments(a) ==
  /\ announced[a] # committed[a]["documents"]
  /\ announced' = [announced EXCEPT ![a] = committed[a]["documents"]]
  /\ Route(a, "documents", announced'[a])
  /\ UNCHANGED <<eligible, principal, checks, followed, syncing, syncs, committed, disordered, grantChanges>>

Revalue(a) ==
  /\ committed[a]["valuation"] < MaxRev
  /\ committed' = [committed EXCEPT ![a]["valuation"] = @ + 1]
  /\ Route(a, "valuation", committed'[a]["valuation"])
  /\ UNCHANGED <<eligible, principal, checks, followed, syncing, syncs, announced, disordered, grantChanges>>

\* The timer of scheduleLatest().
SendDelayed(a) ==
  /\ delayed[a] # 0
  /\ Show(With(a, "valuation", delayed[a])) /\ Delayed(a, 0)
  /\ UNCHANGED <<link, eligible, principal, checks, followed, syncing, buffer, syncs, committed,
                 announced, disordered, grantChanges>>

-----------------------------------------------------------------------------
(***************************************************************************)
(* syncAccounts() and snapshotAccount().                                   *)
(***************************************************************************)
\* The call i of syncAccounts() for ids, which are followed and granted.
StartSync(i, ids) ==
  /\ syncs' = [syncs EXCEPT ![i] = [NewSync EXCEPT !.step = IF ids = {} THEN "done" ELSE "documents",
                                                   !.accounts = ids]]
  /\ disordered' = (disordered \ ids) \cup {a \in ids : ReadFor(a) # {} \/ delayed[a] # 0}

\* A connection is accepted for the accounts of its session, and the initial
\* synchronisation starts.
Connect ==
  /\ link = "new" /\ link' = "open"
  /\ principal' = eligible /\ followed' = eligible /\ syncing' = eligible
  /\ syncs' = [syncs EXCEPT ![1] = [NewSync EXCEPT !.step = IF eligible = {} THEN "done" ELSE "documents",
                                                   !.reason = "initial", !.accounts = eligible]]
  /\ UNCHANGED <<eligible, checks, buffer, delayed, committed, announced, shown, disordered, grantChanges>>

ReadDocuments(i) ==
  /\ syncs[i].step = "documents"
  /\ syncs' = [syncs EXCEPT ![i].step = "valuation",
                            ![i].snapshot = [a \in Account |-> [@[a] EXCEPT !["documents"] = committed[a]["documents"]]]]
  /\ UNCHANGED <<link, eligible, principal, checks, followed, syncing, buffer, delayed, committed,
                 announced, shown, disordered, grantChanges>>

ReadValuation(i) ==
  /\ syncs[i].step = "valuation"
  /\ syncs' = [syncs EXCEPT ![i].step = "answer",
                            ![i].snapshot = [a \in Account |-> [@[a] EXCEPT !["valuation"] = committed[a]["valuation"]]]]
  /\ UNCHANGED <<link, eligible, principal, checks, followed, syncing, buffer, delayed, committed,
                 announced, shown, disordered, grantChanges>>

\* flushPendingAccountEvents(): the view after the events of ids that are followed,
\* and the events that stay.
Flushed(view, ids) ==
  [a \in Account |-> IF a \in ids /\ a \in followed
                     THEN [k \in Kind |-> Latest(buffer, a, k, view[a][k])]
                     ELSE view[a]]
\* Mutant: nothing is taken out of the buffer.
KeptAll(ids) == buffer
Kept(ids) == Without(buffer, ids \cap followed)

\* The view after the snapshots of the call i were sent.
Snapshotted(view, i) ==
  [a \in Account |-> IF a \in syncs[i].accounts THEN syncs[i].snapshot[a] ELSE view[a]]

\* The finally branch of syncAccounts().
EndSync(i) ==
  /\ syncing' = syncing \ syncs[i].accounts
  /\ buffer' = Kept(syncs[i].accounts)
  /\ syncs' = [syncs EXCEPT ![i] = [NewSync EXCEPT !.step = "done"]]

\* Mutant: the events that were held back are sent first.
SnapshotLast(i) ==
  /\ syncs[i].step = "answer"
  /\ EndSync(i)
  /\ Show(Snapshotted(Flushed(shown, syncs[i].accounts), i))
  /\ UNCHANGED <<link, eligible, principal, checks, followed, delayed, committed, announced,
                 disordered, grantChanges>>

SendSnapshot(i) ==
  /\ syncs[i].step = "answer"
  /\ EndSync(i)
  /\ Show(Flushed(Snapshotted(shown, i), syncs[i].accounts))
  /\ UNCHANGED <<link, eligible, principal, checks, followed, delayed, committed, announced,
                 disordered, grantChanges>>

\* A read fails: what was buffered is sent without a snapshot, and the caller of
\* the initial synchronisation closes the socket.
SyncFails(i) ==
  /\ SyncFaults /\ syncs[i].step \in {"documents", "valuation"}
  /\ EndSync(i)
  /\ Show(Flushed(shown, syncs[i].accounts))
  /\ link' = IF syncs[i].reason = "initial" THEN "closed" ELSE link
  /\ disordered' = disordered \cup syncs[i].accounts
  /\ UNCHANGED <<eligible, principal, checks, followed, delayed, committed, announced, grantChanges>>

-----------------------------------------------------------------------------
(***************************************************************************)
(* What the trader asks for: handleClientMessage().                        *)
(***************************************************************************)
Accepts(i, ids) == Open /\ syncs[i].step = "new" /\ ids # {} /\ ids \subseteq principal

\* The action "snapshot".
RequestSnapshot(i, ids) ==
  /\ Accepts(i, ids)
  /\ StartSync(i, ids \cap followed) /\ syncing' = syncing \cup (ids \cap followed)
  /\ UNCHANGED <<link, eligible, principal, checks, followed, buffer, delayed, committed, announced,
                 shown, grantChanges>>

Subscribe(i, ids) ==
  /\ Accepts(i, ids)
  /\ followed' = followed \cup ids
  /\ StartSync(i, ids) /\ syncing' = syncing \cup ids
  /\ UNCHANGED <<link, eligible, principal, checks, buffer, delayed, committed, announced, shown, grantChanges>>

\* What is left of the buffer and of the delayed valuations when ids are dropped.
DropBuffered(ids) == Without(buffer, ids)
DropDelayed(ids) == [a \in Account |-> IF a \in ids THEN 0 ELSE delayed[a]]
Hidden(ids) == [a \in Account |-> IF a \in ids THEN Unseen[a] ELSE shown[a]]

Unsubscribe(ids) ==
  /\ Open /\ ids # {} /\ ids \subseteq followed /\ ids \subseteq principal
  /\ followed' = followed \ ids /\ syncing' = syncing \ ids
  /\ buffer' = DropBuffered(ids) /\ delayed' = DropDelayed(ids)
  /\ shown' = Hidden(ids)
  /\ UNCHANGED <<link, eligible, principal, checks, syncs, committed, announced, disordered, grantChanges>>

Hangup ==
  /\ Open /\ link' = "closed" /\ delayed' = [a \in Account |-> 0]
  /\ UNCHANGED <<eligible, principal, checks, followed, syncing, buffer, syncs, committed, announced,
                 shown, disordered, grantChanges>>

-----------------------------------------------------------------------------
(***************************************************************************)
(* The heartbeat looks at the session again: authenticateSessionToken()    *)
(* and reconcileSocketAccountGrants().                                     *)
(***************************************************************************)
ChangeGrants(ids) ==
  /\ grantChanges < MaxGrantChanges /\ ids # eligible
  /\ eligible' = ids /\ grantChanges' = grantChanges + 1
  /\ UNCHANGED <<link, principal, checks, followed, syncing, buffer, syncs, delayed, committed,
                 announced, shown, disordered>>

SetCheck(c, step, ids) == checks' = [checks EXCEPT ![c] = [step |-> step, accounts |-> ids]]
KeepTrading == UNCHANGED <<syncing, buffer, syncs, delayed, committed, announced, shown, disordered>>

StartCheck(c) ==
  /\ Open /\ checks[c].step = "new" /\ SetCheck(c, "asked", {})
  /\ KeepTrading /\ UNCHANGED <<link, eligible, principal, followed, grantChanges>>

ResolveGrants(c) ==
  /\ checks[c].step = "asked" /\ SetCheck(c, "resolved", eligible)
  /\ KeepTrading /\ UNCHANGED <<link, eligible, principal, followed, grantChanges>>

\* The session was revoked or has expired.
CheckRefused(c) ==
  /\ checks[c].step = "asked" /\ SetCheck(c, "done", {}) /\ link' = "closed"
  /\ KeepTrading /\ UNCHANGED <<eligible, principal, followed, grantChanges>>

\* The principal is replaced and the accounts are reconciled in one turn, as far
\* as the snapshot of the accounts that were added.
Reconcile(c, i) ==
  LET granted == checks[c].accounts
      added == granted \ followed
      removed == followed \ granted
  IN
  /\ checks[c].step = "resolved" /\ SetCheck(c, "done", {})
  /\ principal' = granted
  /\ followed' = granted
  /\ buffer' = DropBuffered(removed) /\ delayed' = DropDelayed(removed)
  /\ shown' = Hidden(removed)
  /\ IF added = {} THEN syncing' = syncing \ removed /\ UNCHANGED <<syncs, disordered>>
     ELSE /\ i \in FirstNew /\ StartSync(i, added)
          /\ syncing' = (syncing \ removed) \cup added
  /\ UNCHANGED <<link, eligible, committed, announced, grantChanges>>

-----------------------------------------------------------------------------
SyncProgress(i) == ReadDocuments(i) \/ ReadValuation(i) \/ SendSnapshot(i)

SyncNext ==
  \/ \E a \in Account : CommitDocuments(a) \/ AnnounceDocuments(a) \/ Revalue(a) \/ SendDelayed(a)
  \/ \E i \in SyncId : ReadDocuments(i) \/ ReadValuation(i) \/ SendSnapshot(i) \/ SyncFails(i)
  \/ \E i \in FirstNew : \E ids \in SUBSET Account : RequestSnapshot(i, ids) \/ Subscribe(i, ids)
  \/ \E ids \in SUBSET Account : Unsubscribe(ids) \/ ChangeGrants(ids)
  \/ Connect \/ Hangup
  \/ \E c \in CheckId : StartCheck(c) \/ ResolveGrants(c) \/ CheckRefused(c)
  \/ \E c \in CheckId, i \in SyncId : Reconcile(c, i)

\* A read that was started comes back, a timer fires and a change is announced.
SyncFairness ==
  /\ \A i \in SyncId : WF_syncVars(SyncProgress(i))
  /\ \A a \in Account : WF_syncVars(SendDelayed(a)) /\ WF_syncVars(AnnounceDocuments(a))

SyncSpec == SyncInit /\ [][SyncNext]_syncVars /\ SyncFairness

-----------------------------------------------------------------------------
\* An event is buffered only while a snapshot of its account is being read:
\* none waits for a synchronisation that is over or was given up.
BufferedIsAwaited ==
  \A n \in 1 .. Len(buffer) : buffer[n].account \in followed /\ buffer[n].account \in syncing

\* An account that is marked as synchronising has a snapshot under way that will
\* clear the mark, so its events cannot be held back for good.
MarkedIsRead == Open => \A a \in syncing : ReadFor(a) # {}

\* What the socket follows is granted by the principal that was seen last, and
\* nothing else is buffered or delayed for it, whichever way a revocation, a
\* subscription and a snapshot are interleaved.
FollowedIsGranted ==
  /\ followed \subseteq principal
  /\ \A a \in Account : Open /\ delayed[a] # 0 => a \in followed

\* When everything under way has come to rest the trader sees the last state
\* and the last valuation of an account, unless the last snapshot of the account
\* failed or was read at the time of another one or while a valuation was
\* delayed: of the two the older one may then be sent last.
Settled(a) ==
  Open /\ a \in followed /\ ReadFor(a) = {} /\ delayed[a] = 0 /\ announced[a] = committed[a]["documents"]

TraderIsCurrent ==
  \A a \in Account :
    Settled(a) /\ a \notin disordered => shown[a] = committed[a]

\* A buffered event is sent, or the socket is closed.
BufferDrains == buffer # <<>> ~> (buffer = <<>> \/ ~Open)

\* The socket shows the last state of the granted accounts, and holds nothing
\* back that no snapshot will release (market-ws-server.js).
SyncIsSound ==
  SyncTypeOK /\ BufferedIsAwaited /\ MarkedIsRead /\ FollowedIsGranted /\ TraderIsCurrent

\* Nothing happens on a socket before it is connected.
NewIsUntouched ==
  link = "new" =>
    /\ followed = {} /\ syncing = {} /\ buffer = <<>> /\ disordered = {}
    /\ \A i \in SyncId : syncs[i].step = "new"
    /\ \A a \in Account : delayed[a] = 0
    /\ \A c \in CheckId : checks[c].step = "new"

\* The event of an account that is buffered last tells the last change.
LastBufferedIsLast ==
  \A a \in followed :
    Open => /\ Latest(buffer, a, "documents", announced[a]) = announced[a]
            /\ Latest(buffer, a, "valuation", committed[a]["valuation"]) = committed[a]["valuation"]

\* An account in order is read once at a time, and marked for that time; what the
\* snapshot and the buffered events are going to show is what is stored, or what
\* was announced if the announcement of the rest is still to come.
ReadIsCurrent(a) ==
  \A i \in ReadFor(a) :
    /\ \A j \in ReadFor(a) : i = j
    /\ a \in syncing /\ delayed[a] = 0
    /\ syncs[i].step # "documents" =>
         Latest(buffer, a, "documents", syncs[i].snapshot[a]["documents"])
           \in {announced[a], committed[a]["documents"]}
    /\ syncs[i].step = "answer" =>
         Latest(buffer, a, "valuation", syncs[i].snapshot[a]["valuation"]) = committed[a]["valuation"]

\* When no snapshot is read, the trader sees that, or a timer is going to show it.
ViewIsCurrent(a) ==
  ReadFor(a) = {} =>
    /\ shown[a]["documents"] \in {announced[a], committed[a]["documents"]}
    /\ committed[a]["valuation"] = IF delayed[a] = 0 THEN shown[a]["valuation"] ELSE delayed[a]

FollowedIsCurrent ==
  \A a \in followed : Open /\ a \notin disordered => ReadIsCurrent(a) /\ ViewIsCurrent(a)

SyncInv == SyncIsSound /\ NewIsUntouched /\ LastBufferedIsLast /\ FollowedIsCurrent
=============================================================================
