--------------------------------- MODULE Auth ---------------------------------
(***************************************************************************)
(* Logging in, sessions, the second factor and the administrators' own     *)
(* accounts (internal/panel/auth/, httpapi/auth_handlers.go, totp.go,      *)
(* sessions.go, admins.go, admins_extended.go, middleware.go).  A handler  *)
(* is a sequence of reads and transactions; logins and requests of several *)
(* clients interleave between them.  One client address is modelled.       *)
(***************************************************************************)
EXTENDS Integers, Sequences, FiniteSets, FiniteSetsExt, SequenceFilter

CONSTANTS
    Admins,              \* accounts
    Clients,             \* logins and requests in flight
    AccountFailureLimit, \* auth.AccountFailureLimit
    IPFailureLimit,      \* auth.IPFailureLimit
    MaxSecrets,          \* bound: TOTP secrets generated
    MaxPasswords,        \* bound: passwords per account
    MaxSessions,         \* bound: sessions
    MaxAuthCalls             \* bound: logins and requests

ASSUME AuthAssumption ==
    /\ IsFiniteSet(Admins) /\ IsFiniteSet(Clients)
    /\ AccountFailureLimit \in Nat \ {0} /\ IPFailureLimit \in Nat \ {0}
    /\ MaxSecrets \in Nat \ {0} /\ MaxPasswords \in Nat \ {0}
    /\ MaxSessions \in Nat /\ MaxAuthCalls \in Nat

Secrets == 1 .. MaxSecrets
SessionIds == 1 .. MaxSessions

VARIABLES
    auAdmin,   \* admins, with admin_recovery_codes: a factor's codes are one, unspent
    auSession, \* sessions
    auFailed,  \* login_attempts within the window, oldest first
    auCall,    \* per client: the handler it is in and what it has read
    auMade,    \* secrets generated so far
    auSpent,   \* ghost: how often each recovery code was accepted
    auCalls    \* counted against the bound

auVars == <<auAdmin, auSession, auFailed, auCall, auMade, auSpent, auCalls>>

\* secret and pending: 0 is NULL; a confirmed secret's recovery code has a name
\* of its own, the number of confirmations.
Account == [live : BOOLEAN, active : BOOLEAN, super : BOOLEAN, password : 1 .. MaxPasswords,
            secret : 0 .. MaxSecrets, pending : 0 .. MaxSecrets, codes : SUBSET Secrets]
NewAccount == [live |-> TRUE, active |-> TRUE, super |-> TRUE, password |-> 1,
               secret |-> 0, pending |-> 0, codes |-> {}]

\* password: the one the session was opened with.
NoSession == [of |-> "-", valid |-> FALSE, password |-> 0]
\* super: the role as the request was let in; asked: the limiter was consulted
\* before the guess; code: the recovery code tried.
NoAuthCall == [at |-> "idle", as |-> "-", to |-> "-", session |-> 0, code |-> 0,
           password |-> 0, asked |-> FALSE, super |-> FALSE]

\* Every account is a super admin with a session; one may have its second factor.
AuInit ==
    /\ \E factor \in SUBSET Admins :
        /\ Cardinality(factor) <= 1
        /\ auAdmin = [a \in Admins |->
                        IF a \in factor THEN [NewAccount EXCEPT !.secret = 1, !.codes = {1}]
                        ELSE NewAccount]
    /\ \E who \in [1 .. Cardinality(Admins) -> Admins] :
        /\ {who[s] : s \in DOMAIN who} = Admins
        /\ auSession = [s \in SessionIds |->
                          IF s \in DOMAIN who THEN [of |-> who[s], valid |-> TRUE, password |-> 1]
                          ELSE NoSession]
    /\ auFailed = <<>>
    /\ auCall = [c \in Clients |-> NoAuthCall]
    /\ auMade = 1
    /\ auSpent = [k \in Secrets |-> 0]
    /\ auCalls = 0

At(c, where) == auCall[c].at = where
Me(c) == auCall[c].as

\* Where the client's handler goes next; over: the answer is written.
Step(c, where) == auCall' = [auCall EXCEPT ![c].at = where]
Over(c) == auCall' = [auCall EXCEPT ![c] = NoAuthCall]
Begin(c, call) ==
    /\ auCall[c] = NoAuthCall /\ auCalls < MaxAuthCalls
    /\ auCall' = [auCall EXCEPT ![c] = call] /\ auCalls' = auCalls + 1

-----------------------------------------------------------------------------
(***************************************************************************)
(* The login limiter.                                                      *)
(***************************************************************************)

Rows(test(_)) == Cardinality({i \in DOMAIN auFailed : test(auFailed[i])})
countSince(a) == Rows(LAMBDA f : f.of = a /\ f.kind = "account")
countAddress == Rows(LAMBDA f : f.kind = "address")

\* Mutant of backoff: the limit itself is still allowed.
BackoffPastLimit(failures, limit) == failures > limit

\* Some wait or none; its length is never compared with the time since the
\* last failure, so an account at its limit waits for its failures to age.
backoff(failures, limit) == failures >= limit
Check(a) == ~backoff(countSince(a), AccountFailureLimit) /\ ~backoff(countAddress, IPFailureLimit)

RecordFailure(a, asked) ==
    auFailed' = auFailed \o <<[of |-> a, kind |-> "account", asked |-> asked],
                              [of |-> a, kind |-> "address", asked |-> asked]>>

\* The account's failures; those of the address stay.
Reset(a) == auFailed' = Without(auFailed, [of : {a}, kind : {"account"}, asked : BOOLEAN])

\* The oldest row leaves the window.
FailureAges ==
    /\ auFailed # <<>> /\ auFailed' = Tail(auFailed)
    /\ UNCHANGED <<auAdmin, auSession, auCall, auMade, auSpent, auCalls>>

-----------------------------------------------------------------------------
(***************************************************************************)
(* Sessions.                                                               *)
(***************************************************************************)

CreateSession(a, password) ==
    \E s \in SessionIds :
        /\ auSession[s] = NoSession /\ \A t \in SessionIds : t < s => auSession[t] # NoSession
        /\ auSession' = [auSession EXCEPT ![s] = [of |-> a, valid |-> TRUE, password |-> password]]

Revoke(s) == auSession' = [auSession EXCEPT ![s].valid = FALSE]
WithoutSessions(a) ==
    [s \in SessionIds |-> IF auSession[s].of = a THEN [auSession[s] EXCEPT !.valid = FALSE]
                          ELSE auSession[s]]

\* Idle for four hours, or seven days old.
SessionExpires(s) ==
    /\ auSession[s].valid /\ Revoke(s)
    /\ UNCHANGED <<auAdmin, auFailed, auCall, auMade, auSpent, auCalls>>

\* loadActor: the account is read anew for every request.
loadActor(a) == auAdmin[a].live /\ auAdmin[a].active

\* A request is let in: a valid session of an active account.
authMiddleware(c, s, handler, to) ==
    /\ auSession[s].valid /\ loadActor(auSession[s].of)
    /\ Begin(c, [NoAuthCall EXCEPT !.at = handler, !.as = auSession[s].of, !.to = to, !.session = s,
                          !.super = auAdmin[auSession[s].of].super])
    /\ UNCHANGED <<auAdmin, auSession, auFailed, auMade, auSpent>>

-----------------------------------------------------------------------------
(***************************************************************************)
(* Login: limiter, one read of the account, the second factor, session.    *)
(***************************************************************************)

handleLogin(c, a) ==
    /\ Check(a)
    /\ Begin(c, [NoAuthCall EXCEPT !.at = "login", !.as = a, !.asked = TRUE])
    /\ UNCHANGED <<auAdmin, auSession, auFailed, auMade, auSpent>>

\* What the client knows: the password and a second factor, or neither.  code 0
\* stands for a valid TOTP code or for none being needed.
LoginVerify(c) ==
    /\ At(c, "login")
    /\ LET row == auAdmin[Me(c)]
           Goto(where, k) == auCall' = [auCall EXCEPT ![c].at = where, ![c].code = k,
                                                      ![c].password = row.password]
       IN \/ Goto("denied", 0)
          \/ loadActor(Me(c)) /\ Goto("granted", 0)
          \/ /\ loadActor(Me(c)) /\ row.secret # 0
             /\ \E k \in row.codes : Goto("login.spend", k)
    /\ UNCHANGED <<auAdmin, auSession, auFailed, auMade, auSpent, auCalls>>

\* The failure is recorded, or its write failed, which is ignored.
deny(c) ==
    /\ At(c, "denied")
    /\ RecordFailure(Me(c), auCall[c].asked) \/ UNCHANGED auFailed
    /\ Over(c)
    /\ UNCHANGED <<auAdmin, auSession, auMade, auSpent, auCalls>>

\* Mutant of consumeRecoveryCode: trusts the candidates it read.
SpendWhatWasRead(c, won, lost) ==
    /\ auAdmin' = [auAdmin EXCEPT ![Me(c)].codes = @ \ {auCall[c].code}]
    /\ auSpent' = [auSpent EXCEPT ![auCall[c].code] = @ + 1]
    /\ Step(c, won)

\* The candidates were read before: the UPDATE asks again whether the code is
\* unspent, and the rows it changed decide.
consumeRecoveryCode(c, won, lost) ==
    IF auCall[c].code \in auAdmin[Me(c)].codes
    THEN /\ auAdmin' = [auAdmin EXCEPT ![Me(c)].codes = @ \ {auCall[c].code}]
         /\ auSpent' = [auSpent EXCEPT ![auCall[c].code] = @ + 1]
         /\ Step(c, won)
    ELSE UNCHANGED <<auAdmin, auSpent>> /\ Step(c, lost)

LoginSpend(c) ==
    /\ At(c, "login.spend")
    /\ consumeRecoveryCode(c, "granted", "denied")
    /\ UNCHANGED <<auSession, auFailed, auMade, auCalls>>

\* Reset and Create are transactions of their own.
LoginReset(c) ==
    /\ At(c, "granted") /\ Reset(Me(c)) /\ Step(c, "session")
    /\ UNCHANGED <<auAdmin, auSession, auMade, auSpent, auCalls>>

LoginSession(c) ==
    /\ At(c, "session") /\ Over(c)
    /\ IF auAdmin[Me(c)].live THEN CreateSession(Me(c), auCall[c].password) ELSE UNCHANGED auSession
    /\ UNCHANGED <<auAdmin, auFailed, auMade, auSpent, auCalls>>

-----------------------------------------------------------------------------
(***************************************************************************)
(* The second factor.                                                      *)
(***************************************************************************)

totpThrottle(c) == Check(Me(c))
Asked(c, where) == auCall' = [auCall EXCEPT ![c].at = where, ![c].asked = TRUE]

EnrolRead(c) ==
    /\ At(c, "enrol") /\ auAdmin[Me(c)].secret = 0 /\ auMade < MaxSecrets
    /\ Step(c, "enrol.write") /\ auMade' = auMade + 1
    /\ UNCHANGED <<auAdmin, auSession, auFailed, auSpent, auCalls>>

handleTOTPEnrol(c) ==
    /\ At(c, "enrol.write") /\ Over(c) /\ auAdmin[Me(c)].live
    /\ auAdmin' = [auAdmin EXCEPT ![Me(c)].pending = auMade]
    /\ UNCHANGED <<auSession, auFailed, auMade, auSpent, auCalls>>

ConfirmRead(c) ==
    /\ At(c, "confirm") /\ auAdmin[Me(c)].pending # 0 /\ totpThrottle(c)
    /\ Asked(c, "confirm.write") \/ Asked(c, "denied")
    /\ UNCHANGED <<auAdmin, auSession, auFailed, auMade, auSpent, auCalls>>

\* Whatever is pending by now becomes the factor, with new recovery codes.
handleTOTPConfirm(c) ==
    /\ At(c, "confirm.write") /\ auMade < MaxSecrets /\ auAdmin[Me(c)].live
    /\ auMade' = auMade + 1
    /\ auAdmin' = [auAdmin EXCEPT ![Me(c)].secret = auAdmin[Me(c)].pending,
                                  ![Me(c)].pending = 0,
                                  ![Me(c)].codes = {auMade + 1}]
    /\ Step(c, "confirm.reset")
    /\ UNCHANGED <<auSession, auFailed, auSpent, auCalls>>

\* A transaction of its own; its failure is logged and the answer stands (GiveUp).
ConfirmReset(c) ==
    /\ At(c, "confirm.reset") /\ Reset(Me(c)) /\ Over(c)
    /\ UNCHANGED <<auAdmin, auSession, auMade, auSpent, auCalls>>

DisableRead(c) ==
    /\ At(c, "disable") /\ auAdmin[Me(c)].secret # 0 /\ totpThrottle(c)
    /\ \/ Asked(c, "disable.write") \/ Asked(c, "denied")
       \/ \E k \in auAdmin[Me(c)].codes :
             auCall' = [auCall EXCEPT ![c].at = "disable.spend", ![c].code = k,
                                      ![c].asked = TRUE]
    /\ UNCHANGED <<auAdmin, auSession, auFailed, auMade, auSpent, auCalls>>

DisableSpend(c) ==
    /\ At(c, "disable.spend")
    /\ consumeRecoveryCode(c, "disable.write", "denied")
    /\ UNCHANGED <<auSession, auFailed, auMade, auCalls>>

handleTOTPDisable(c) ==
    /\ At(c, "disable.write") /\ Over(c) /\ auAdmin[Me(c)].live
    /\ auAdmin' = [auAdmin EXCEPT ![Me(c)].secret = 0, ![Me(c)].pending = 0, ![Me(c)].codes = {}]
    /\ UNCHANGED <<auSession, auFailed, auMade, auSpent, auCalls>>

-----------------------------------------------------------------------------
(***************************************************************************)
(* Accounts and sessions, by a request that was let in.                    *)
(***************************************************************************)

\* Another account, and the permission to manage accounts: super admins.
Manages(c, handler) ==
    /\ At(c, handler) /\ auCall[c].super /\ Over(c)
    /\ UNCHANGED <<auFailed, auMade, auSpent, auCalls>>

handleUpdateAdmin(c) ==
    /\ Manages(c, "update") /\ auCall[c].to # Me(c) /\ auAdmin[auCall[c].to].live
    /\ LET a == auCall[c].to IN
       \/ auAdmin' = [auAdmin EXCEPT ![a].super = ~@] /\ UNCHANGED auSession
       \/ auAdmin' = [auAdmin EXCEPT ![a].active = FALSE] /\ auSession' = WithoutSessions(a)
       \/ auAdmin' = [auAdmin EXCEPT ![a].active = TRUE] /\ UNCHANGED auSession

handleResetAdminPassword(c) ==
    /\ Manages(c, "reset") /\ auAdmin[auCall[c].to].live
    /\ auAdmin[auCall[c].to].password < MaxPasswords
    /\ auAdmin' = [auAdmin EXCEPT ![auCall[c].to].password = @ + 1]
    /\ auSession' = WithoutSessions(auCall[c].to)

handleDeleteAdmin(c) ==
    /\ Manages(c, "delete") /\ auCall[c].to # Me(c) /\ auAdmin[auCall[c].to].live
    /\ auAdmin' = [auAdmin EXCEPT ![auCall[c].to] = [NewAccount EXCEPT !.live = FALSE]]
    /\ auSession' = WithoutSessions(auCall[c].to)

handleCreateAdmin(c) ==
    /\ Manages(c, "create") /\ ~auAdmin[auCall[c].to].live
    /\ \E super \in BOOLEAN :
          auAdmin' = [auAdmin EXCEPT ![auCall[c].to] = [NewAccount EXCEPT !.super = super]]
    /\ UNCHANGED auSession

\* The current password is checked against what is read; no limiter is asked.
ChangeRead(c) ==
    /\ At(c, "change") /\ (Step(c, "change.write") \/ Step(c, "denied"))
    /\ UNCHANGED <<auAdmin, auSession, auFailed, auMade, auSpent, auCalls>>

handleChangeMyPassword(c) ==
    /\ At(c, "change.write") /\ Over(c) /\ auAdmin[Me(c)].live
    /\ auAdmin[Me(c)].password < MaxPasswords
    /\ auAdmin' = [auAdmin EXCEPT ![Me(c)].password = @ + 1]
    /\ auSession' = WithoutSessions(Me(c))
    /\ UNCHANGED <<auFailed, auMade, auSpent, auCalls>>

\* One's own sessions, or any for a super admin.
handleRevokeSession(c) ==
    /\ At(c, "revoke") /\ Over(c)
    /\ \E s \in SessionIds :
        /\ auSession[s].of = Me(c) \/ (auCall[c].super /\ auSession[s] # NoSession)
        /\ Revoke(s)
    /\ UNCHANGED <<auAdmin, auFailed, auMade, auSpent, auCalls>>

\* The session the request came with.
handleLogout(c) ==
    /\ At(c, "logout") /\ Over(c) /\ Revoke(auCall[c].session)
    /\ UNCHANGED <<auAdmin, auFailed, auMade, auSpent, auCalls>>

\* Refused, failed or abandoned: nothing more is written.
GiveUp(c) ==
    /\ auCall[c] # NoAuthCall /\ Over(c)
    /\ UNCHANGED <<auAdmin, auSession, auFailed, auMade, auSpent, auCalls>>

-----------------------------------------------------------------------------

Own == {"enrol", "confirm", "disable", "change", "revoke", "logout"}
Managing == {"update", "reset", "delete", "create"}

AuNext ==
    \/ FailureAges
    \/ \E s \in SessionIds : SessionExpires(s)
    \/ \E c \in Clients, a \in Admins : handleLogin(c, a)
    \/ \E c \in Clients, s \in SessionIds, handler \in Own : authMiddleware(c, s, handler, "-")
    \/ \E c \in Clients, s \in SessionIds, handler \in Managing, to \in Admins :
          authMiddleware(c, s, handler, to)
    \/ \E c \in Clients :
        \/ LoginVerify(c) \/ deny(c) \/ LoginSpend(c) \/ LoginReset(c) \/ LoginSession(c)
        \/ EnrolRead(c) \/ handleTOTPEnrol(c) \/ ConfirmRead(c) \/ handleTOTPConfirm(c)
        \/ ConfirmReset(c)
        \/ DisableRead(c) \/ DisableSpend(c) \/ handleTOTPDisable(c)
        \/ handleUpdateAdmin(c) \/ handleResetAdminPassword(c) \/ handleDeleteAdmin(c)
        \/ handleCreateAdmin(c) \/ ChangeRead(c) \/ handleChangeMyPassword(c)
        \/ handleRevokeSession(c) \/ handleLogout(c) \/ GiveUp(c)

AuSpec == AuInit /\ [][AuNext]_auVars

-----------------------------------------------------------------------------

AuTypeOK ==
    /\ auAdmin \in [Admins -> Account]
    /\ auSession \in [SessionIds -> [of : Admins, valid : BOOLEAN, password : 1 .. MaxPasswords]
                                     \cup {NoSession}]
    /\ auMade \in Secrets /\ auCalls \in 0 .. MaxAuthCalls
    /\ auSpent \in [Secrets -> Nat]

\* However many logins and requests to disable the factor race on it, a recovery
\* code opens the door once (totp.go:359-361, 417-433).
RecoveryCodeUsedOnce == \A k \in Secrets : auSpent[k] <= 1

\* The check of the limiter and the record of a failure are apart, so clients in
\* flight together may overshoot: by what is in flight, and never by more
\* (ratelimit.go:50-96).  Guesses made without asking the limiter are left out.
GuessesAreLimited ==
    \A a \in Admins :
        Rows(LAMBDA f : f.of = a /\ f.kind = "account" /\ f.asked)
            < AccountFailureLimit + Cardinality(Clients)

\* "the panel's last super-admin has to always exist" (admins_extended.go:29-31).
\* Does not hold: two super admins who are let in together may each take the
\* other's account away.
SuperAdminRemains == \E a \in Admins : auAdmin[a].live /\ auAdmin[a].active /\ auAdmin[a].super

\* "the codes never outlive the enrolment that minted them" (totp.go:218-219).
\* Does not hold: a confirmation sent twice moves pending twice, and the second
\* time pending is NULL.
CodesBelongToAFactor == \A a \in Admins : auAdmin[a].codes # {} => auAdmin[a].secret # 0

\* "A suspended admin must not carry live sessions" (admins_extended.go:97) and "a
\* rotation that leaves live sessions is theatre" (admins_extended.go:133-134).
\* Does not hold: a login that has read the account opens its session later.
SessionsAreCurrent ==
    \A s \in SessionIds : auSession[s].valid =>
        LET a == auAdmin[auSession[s].of] IN a.active /\ auSession[s].password = a.password
================================================================================
