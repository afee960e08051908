----------------------------- MODULE TraderSession -----------------------------
(***************************************************************************)
(* The sessions of the traders: AuthService (auth.service.js).             *)
(*                                                                         *)
(* Access token n and refresh token n are issued together; n is also what  *)
(* their hashes are compared by.  A call reads the clock and the database  *)
(* in its first step and writes in later ones, with the calls of other     *)
(* requests in between.  The count of failed logins and the service keys   *)
(* are left out.                                                           *)
(***************************************************************************)
EXTENDS Naturals, FiniteSets, FiniteSetsExt

CONSTANTS
  Caller,           \* the requests that are served at a time
  Ticket,
  AccessTtl, Grace, IdleTtl, SessionTtl, TicketTtl, TouchInterval,
  SessionFaults,    \* what may fail: "create", "lookup", "undo"
  NoCall,
  MaxSessionTime,   \* bound
  MaxTokens,        \* bound: token pairs, hence sessions too
  MaxSessionFaults  \* bound

ASSUME SessionConstants ==
  /\ AccessTtl \in Nat /\ Grace \in Nat /\ IdleTtl \in Nat /\ SessionTtl \in Nat
  /\ TicketTtl \in Nat /\ TouchInterval \in Nat
  /\ MaxSessionTime \in Nat /\ MaxTokens \in Nat \ {0} /\ MaxSessionFaults \in Nat
  /\ Ticket \cap {"none", "legacy", "password"} = {}

VARIABLES
  clock,
  session,      \* the session documents, by the first token of each
  ticket,       \* when a federation ticket was consumed
  password,     \* the version of the native credential's password
  call,         \* what each request has left to do
  issued,       \* the last token
  given,        \* history: the sessions whose tokens the trader was given
  expiry,       \* history: when an access token was to expire
  refreshedAt,  \* history: when a token was refreshed
  successors,   \* history: the tokens that a refresh token was exchanged for
  sessionFaults

tokenHistory == <<given, expiry, refreshedAt, successors>>
sessionVars == <<clock, session, ticket, password, call, issued, tokenHistory, sessionFaults>>

Token == 1 .. MaxTokens
NoToken == 0
Time == 0 .. MaxSessionTime + SessionTtl
NotYet == MaxSessionTime + SessionTtl + 1
Open == NotYet            \* consumedAt: null

NoSession == [state |-> "absent", source |-> "none", token |-> NoToken, prev |-> NoToken,
              refresh |-> NoToken, prevExp |-> 0, accessExp |-> 0, idleExp |-> 0, exp |-> 0,
              seen |-> 0, password |-> 0, late |-> FALSE]

Source == {"none", "legacy", "password"} \cup Ticket

SessionRecord ==
  [state : {"absent", "active", "revoked"}, source : Source,
   token : 0 .. MaxTokens, prev : 0 .. MaxTokens, refresh : 0 .. MaxTokens,
   prevExp : Time, accessExp : Time, idleExp : Time, exp : Time, seen : Time,
   password : Nat, late : BOOLEAN]

\* A call keeps what it will need.
CallRecord ==
  [step : {"create", "respond", "undo", "revokeAll", "touch", "refresh", "upgrade"},
   session : 0 .. MaxTokens, token : 0 .. MaxTokens, source : Source,
   at : 0 .. MaxSessionTime, exp : Time, password : Nat]

ASSUME NoCallIsNone == NoCall \notin CallRecord

SessionTypeOK ==
  /\ clock \in 0 .. MaxSessionTime
  /\ session \in [Token -> SessionRecord]
  /\ ticket \in [Ticket -> 0 .. MaxSessionTime \cup {Open}]
  /\ call \in [Caller -> CallRecord \cup {NoCall}]
  /\ password \in Nat /\ issued \in 1 .. MaxTokens /\ given \subseteq Token
  /\ \A s \in Token : session[s].state # "absent" =>
       /\ session[s].accessExp <= session[s].exp
       /\ session[s].idleExp <= session[s].exp
       /\ session[s].token <= issued
  /\ sessionFaults \in 0 .. MaxSessionFaults

Earlier(x, y) == Min({x, y})

\* Session 1 was opened by an earlier release: it has no refresh token, and
\* ends no later than a session of today would.
SessionInit ==
  /\ clock = 0 /\ password = 1 /\ issued = 1 /\ given = {1} /\ sessionFaults = 0
  /\ session = [s \in Token |-> IF s = 1
       THEN [NoSession EXCEPT !.state = "active", !.source = "legacy", !.token = 1,
                              !.accessExp = Earlier(SessionTtl, AccessTtl),
                              !.idleExp = Earlier(SessionTtl, AccessTtl),
                              !.exp = Earlier(SessionTtl, AccessTtl)]
       ELSE NoSession]
  /\ ticket = [k \in Ticket |-> Open]
  /\ call = [r \in Caller |-> NoCall]
  /\ expiry = [t \in Token |-> IF t = 1 THEN Earlier(SessionTtl, AccessTtl) ELSE 0]
  /\ refreshedAt = [t \in Token |-> NotYet]
  /\ successors = [t \in Token |-> {}]

SessionFault(kind) ==
  /\ kind \in SessionFaults /\ sessionFaults < MaxSessionFaults
  /\ sessionFaults' = sessionFaults + 1

Free(r) == call[r] = NoCall
EndCall(r) == call' = [call EXCEPT ![r] = NoCall]
AtStep(r, step) == call[r] # NoCall /\ call[r].step = step
Call(r, step, s, t, k) ==
  call' = [call EXCEPT ![r] =
    [step |-> step, session |-> s, token |-> t, source |-> k,
     at |-> IF s = NoToken /\ k = "password" THEN 0 ELSE clock,
     exp |-> IF step = "touch" THEN session[s].exp ELSE 0,
     password |-> IF k = "password" THEN password ELSE 0]]
Continue(r, step) == call' = [call EXCEPT ![r].step = step]

-----------------------------------------------------------------------------
(***************************************************************************)
(* #createSession() and #authResponse().                                   *)
(***************************************************************************)

\* #nextCredentials(), at the time of the call, for a session that ends at exp.
NextCredentials(s, exp, at) ==
  [s EXCEPT !.token = issued + 1, !.refresh = issued + 1, !.exp = exp, !.seen = at,
            !.accessExp = Earlier(exp, at + AccessTtl), !.idleExp = Earlier(exp, at + IdleTtl)]

IssueTokens(exp, at) ==
  /\ issued < MaxTokens
  /\ issued' = issued + 1
  /\ expiry' = [expiry EXCEPT ![issued + 1] = Earlier(exp, at + AccessTtl)]

CreateSession(r) ==
  /\ AtStep(r, "create")
  /\ \/ /\ IssueTokens(clock + SessionTtl, clock)
        /\ session' = [session EXCEPT ![issued + 1] =
             [NextCredentials(NoSession, clock + SessionTtl, clock) EXCEPT
                !.state = "active", !.source = call[r].source,
                !.password = call[r].password, !.late = call[r].password < password]]
        /\ call' = [call EXCEPT ![r].step = "respond", ![r].session = issued + 1]
        /\ UNCHANGED sessionFaults
     \/ /\ SessionFault("create")
        /\ IF call[r].source \in Ticket THEN Continue(r, "undo") ELSE EndCall(r)
        /\ UNCHANGED <<session, issued, expiry>>
  /\ UNCHANGED <<clock, ticket, password, given, refreshedAt, successors>>

\* The accounts of the session are looked up once it exists; only then are its
\* tokens given to the trader.
RespondWithAccounts(r) ==
  /\ AtStep(r, "respond")
  /\ \/ /\ given' = given \cup {call[r].session}
        /\ EndCall(r) /\ UNCHANGED sessionFaults
     \/ /\ SessionFault("lookup")
        /\ IF call[r].source \in Ticket THEN Continue(r, "undo") ELSE EndCall(r)
        /\ UNCHANGED given
  /\ UNCHANGED <<clock, session, ticket, password, issued, expiry, refreshedAt, successors>>

-----------------------------------------------------------------------------
(***************************************************************************)
(* exchangeFederationTicket().                                             *)
(***************************************************************************)
Consumable(k) == ticket[k] = Open /\ clock < TicketTtl

ExchangeTicket(r, k) ==
  /\ Free(r)
  /\ Consumable(k)
  /\ ticket' = [ticket EXCEPT ![k] = clock]
  /\ Call(r, "create", NoToken, NoToken, k)
  /\ UNCHANGED <<clock, session, password, issued, tokenHistory, sessionFaults>>

\* The tenant is not active, or does not admit the method.
RefuseTenant(r) ==
  /\ AtStep(r, "create") /\ call[r].source \in Ticket
  /\ EndCall(r)
  /\ UNCHANGED <<clock, session, ticket, password, issued, tokenHistory, sessionFaults>>

UndoExchange(r) ==
  /\ AtStep(r, "undo")
  /\ LET k == call[r].source
     IN  \/ /\ ticket' = [ticket EXCEPT ![k] = IF @ = call[r].at THEN Open ELSE @]
            /\ UNCHANGED sessionFaults
         \/ SessionFault("undo") /\ UNCHANGED ticket
  /\ EndCall(r)
  /\ UNCHANGED <<clock, session, password, issued, tokenHistory>>

-----------------------------------------------------------------------------
(***************************************************************************)
(* loginNative() and createNativeCredential() with rotate.                 *)
(***************************************************************************)
LoginNative(r) ==
  /\ Free(r)
  /\ Call(r, "create", NoToken, NoToken, "password")
  /\ UNCHANGED <<clock, session, ticket, password, issued, tokenHistory, sessionFaults>>

RotatePassword(r) ==
  /\ Free(r) /\ password = 1
  /\ password' = password + 1
  /\ Call(r, "revokeAll", NoToken, NoToken, "password")
  /\ UNCHANGED <<clock, session, ticket, issued, tokenHistory, sessionFaults>>

OfCredential == {s \in Token : session[s].source = "password" /\ session[s].state = "active"}

Revoked(ss) == [s \in Token |-> IF s \in ss THEN [session[s] EXCEPT !.state = "revoked"] ELSE session[s]]

RevokeAllOfCredential(r) ==
  /\ AtStep(r, "revokeAll")
  /\ session' = Revoked(OfCredential)
  /\ EndCall(r)
  /\ UNCHANGED <<clock, ticket, password, issued, tokenHistory, sessionFaults>>

-----------------------------------------------------------------------------
(***************************************************************************)
(* authenticateSessionToken().                                             *)
(***************************************************************************)
HasToken(s, t) == session[s].state = "active" /\ t \in {session[s].token, session[s].prev}

Accepts(s, t) ==
  /\ s \in given /\ HasToken(s, t)
  /\ clock < IF session[s].token = t THEN session[s].accessExp ELSE session[s].prevExp
  /\ clock < session[s].exp /\ clock < session[s].idleExp

\* A session that was seen lately is not touched, and the call ends.
Authenticate(r, s, t) ==
  /\ Free(r)
  /\ Accepts(s, t)
  /\ clock >= session[s].seen + TouchInterval
  /\ Call(r, "touch", s, t, session[s].source)
  /\ UNCHANGED <<clock, session, ticket, password, issued, tokenHistory, sessionFaults>>

\* Mutant: the session is touched whatever has become of it.
TouchAny(s, t) == TRUE
Touchable(s, t) == HasToken(s, t)

\* It may have been refreshed since it was read.
Touch(r) ==
  /\ AtStep(r, "touch")
  /\ LET s == call[r].session
     IN  session' = IF Touchable(s, call[r].token)
           THEN [session EXCEPT ![s].seen = call[r].at,
                                ![s].idleExp = Earlier(call[r].exp, call[r].at + IdleTtl)]
           ELSE session
  /\ EndCall(r)
  /\ UNCHANGED <<clock, ticket, password, issued, tokenHistory, sessionFaults>>

-----------------------------------------------------------------------------
(***************************************************************************)
(* refreshSession().                                                       *)
(***************************************************************************)
ReadForRefresh(r, s, t) ==
  /\ Free(r)
  /\ s \in given /\ session[s].state = "active" /\ session[s].refresh = t
  /\ clock < session[s].exp /\ clock < session[s].idleExp
  /\ Call(r, "refresh", s, t, session[s].source)
  /\ UNCHANGED <<clock, session, ticket, password, issued, tokenHistory, sessionFaults>>

\* The access token of a session without a refresh token.
ReadForUpgrade(r, s, t) ==
  /\ Free(r)
  /\ s \in given /\ session[s].state = "active"
  /\ session[s].token = t /\ session[s].refresh = NoToken
  /\ clock < session[s].exp
  /\ Call(r, "upgrade", s, t, session[s].source)
  /\ UNCHANGED <<clock, session, ticket, password, issued, tokenHistory, sessionFaults>>

\* accessTokenGraceExpiry(); 0 stands for null.
GraceExpiry(s, at) == IF session[s].accessExp > at THEN Earlier(session[s].accessExp, at + Grace) ELSE 0

\* Mutant: the update goes by the id of the session.
SwapById(s, step, t) == session[s].state = "active"

\* The filter of findOneAndUpdate().
SwapMatches(s, step, t) ==
  /\ session[s].state = "active"
  /\ IF step = "refresh" THEN session[s].refresh = t
                         ELSE session[s].token = t /\ session[s].refresh = NoToken

\* What was read is still so when the filter matches: a token is replaced
\* together with its expiry.
SwapTokens(r) ==
  /\ AtStep(r, "refresh") \/ AtStep(r, "upgrade")
  /\ LET s == call[r].session
         t == call[r].token
         exp == IF call[r].step = "refresh" THEN session[s].exp ELSE call[r].at + SessionTtl
         grace == GraceExpiry(s, call[r].at)
     IN  IF SwapMatches(s, call[r].step, t)
           THEN /\ IssueTokens(exp, call[r].at)
                /\ session' = [session EXCEPT ![s] =
                     [NextCredentials(session[s], exp, call[r].at) EXCEPT
                        !.prev = IF grace > 0 THEN session[s].token ELSE NoToken,
                        !.prevExp = grace]]
                /\ refreshedAt' = [refreshedAt EXCEPT ![session[s].token] = call[r].at]
                /\ successors' = [successors EXCEPT ![t] = @ \cup {issued + 1}]
           ELSE UNCHANGED <<session, issued, tokenHistory>>
  /\ EndCall(r)
  /\ UNCHANGED <<clock, ticket, password, given, sessionFaults>>

\* revokeSession(), by the access or the refresh token.
RevokeSession(s, t) ==
  /\ s \in given
  /\ HasToken(s, t) \/ (session[s].state = "active" /\ session[s].refresh = t)
  /\ session' = Revoked({s})
  /\ UNCHANGED <<clock, ticket, password, call, issued, tokenHistory, sessionFaults>>

SessionTick ==
  /\ clock < MaxSessionTime
  /\ clock' = clock + 1
  /\ UNCHANGED <<session, ticket, password, call, issued, tokenHistory, sessionFaults>>

-----------------------------------------------------------------------------
SessionNext ==
  \/ \E r \in Caller :
       \/ \E k \in Ticket : ExchangeTicket(r, k)
       \/ RefuseTenant(r) \/ CreateSession(r) \/ RespondWithAccounts(r) \/ UndoExchange(r)
       \/ LoginNative(r) \/ RotatePassword(r) \/ RevokeAllOfCredential(r)
       \/ \E s, t \in Token :
            Authenticate(r, s, t) \/ ReadForRefresh(r, s, t) \/ ReadForUpgrade(r, s, t)
       \/ Touch(r) \/ SwapTokens(r)
  \/ \E s, t \in Token : RevokeSession(s, t)
  \/ SessionTick

SessionSpec == SessionInit /\ [][SessionNext]_sessionVars

-----------------------------------------------------------------------------
(***************************************************************************)
(* A ticket gives the tokens of one session, however many requests present *)
(* it at once and though the creation of a session, the lookup after it or *)
(* the undoing of the exchange fails.  A failed lookup leaves a second     *)
(* session behind, but its tokens were given to nobody.                    *)
(***************************************************************************)
TicketGivesOneSession ==
  \A k \in Ticket : Cardinality({s \in Token : session[s].source = k /\ s \in given}) <= 1

(***************************************************************************)
(* A refresh token is exchanged once: of two requests that present it at   *)
(* the same time, one is given tokens.                                     *)
(***************************************************************************)
RefreshTokenIsUsedOnce == \A t \in Token : Cardinality(successors[t]) <= 1

(***************************************************************************)
(* A refresh shortens the life of the token it replaces to the grace, and  *)
(* never lengthens it.                                                     *)
(***************************************************************************)
OldTokenIsNotExtended ==
  \A s \in Token : session[s].prev # NoToken
    => /\ session[s].prevExp <= expiry[session[s].prev]
       /\ session[s].prevExp <= refreshedAt[session[s].prev] + Grace

(***************************************************************************)
(* A revoked session stays as it is: a touch or a refresh that read it     *)
(* before does not change it, and gives no tokens.                         *)
(***************************************************************************)
RevokedIsFinal ==
  [][\A s \in Token : session[s].state = "revoked" => session'[s] = session[s]]_sessionVars

(***************************************************************************)
(* Once a password rotation has ended, no session of the old password is   *)
(* left, except those of logins that were under way when it began.         *)
(***************************************************************************)
RotationEndsSessions ==
  (\A r \in Caller : ~AtStep(r, "revokeAll"))
    => \A s \in OfCredential : session[s].password = password \/ session[s].late

(***************************************************************************)
(* Tickets, tokens and passwords give the sessions they should, and no     *)
(* more (auth.service.js).                                                 *)
(***************************************************************************)
SessionsAreSound ==
  /\ SessionTypeOK /\ TicketGivesOneSession /\ RefreshTokenIsUsedOnce
  /\ OldTokenIsNotExtended /\ RotationEndsSessions
=============================================================================
