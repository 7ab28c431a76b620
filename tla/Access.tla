------------------------------- MODULE Access -------------------------------
(***************************************************************************)
(* Accounts, their factors and their sessions.  A sign-in checks a password,   *)
(* then a code, then inserts the session, each against the row as it stands     *)
(* then; an administrator may change the row in between.  A signed-in request    *)
(* works on the copy of the account the middleware read.                         *)
(*                                                                           *)
(* Password hashes, TOTP secrets, recovery codes and passkeys are numbers, and     *)
(* every new one is fresh.  A code of the authenticator is the secret with a time   *)
(* step; no clock orders the steps, so a code of any step may come at any moment.    *)
(***************************************************************************)
EXTENDS Naturals, FiniteSets

CONSTANTS
    Accounts,      \* users, Operator among them
    Operator,      \* the account named in the environment
    Visits,        \* requests under way at a time
    Tokens,        \* sessions that exist at a time
    TimeSteps,     \* time steps of the authenticator
    FreeFailures,  \* SecondFactorFreeFailures
    MaxChallenges, \* bound: unclaimed challenges
    MaxFailures,   \* bound: attempts counted before one succeeds
    PasskeyOnly,   \* password sign-in is switched off
    Require2FA,    \* every session must prove a factor
    OmitsStatus,   \* TRUE: some clients leave "disabled" out of an edit
    MaxChanges     \* bound: new passwords, secrets, code sets, and edits of accounts

ASSUME AccessAssumption ==
    /\ Operator \in Accounts
    /\ TimeSteps \subseteq Nat \ {0}
    /\ "nobody" \notin Visits
    /\ {FreeFailures, MaxFailures, MaxChallenges, MaxChanges} \subseteq Nat \ {0}
    /\ {PasskeyOnly, Require2FA, OmitsStatus} \subseteq BOOLEAN

VARIABLES
    account,     \* users, totp_backup_codes and webauthn_credentials by user
    session,     \* sessions by token
    visit,       \* what a request has read so far
    rowLock,     \* the transaction that holds the admin rows, and which
    challenges,  \* unclaimed passkey challenges, of sign-ins and registrations
    spent,       \* codes that were accepted, with their number
    changes

accessVars == <<account, session, visit, rowLock, challenges, spent, changes>>

NoSession == [user |-> Operator, alive |-> FALSE]
Away    == [at |-> "away"]
Unheld  == [by |-> "nobody", rows |-> {}]
Fresh   == changes + 1
FreshCodes == {Fresh}
Changed == changes < MaxChanges /\ changes' = Fresh

Signed(t)   == session[t].alive
SessionsOf(u) == { t \in Tokens : Signed(t) /\ session[t].user = u }
EnabledAdmins == { u \in Accounts : account[u].exists /\ account[u].admin /\ ~account[u].disabled }
\* A statement on a row another transaction has locked waits for its commit.
Writable(v, u) == rowLock.by \in {"nobody", v} \/ u \notin rowLock.rows
Enrolled(u) == account[u].secret # 0 \/ account[u].keys # {}

NewAccount(isAdmin, hash) ==
    [exists |-> TRUE, admin |-> isAdmin, disabled |-> FALSE, pw |-> hash, secret |-> 0, pending |-> 0,
     step |-> 0, failures |-> 0, locked |-> FALSE, backup |-> {}, keys |-> {}, resets |-> 0]

AccessTypeOK ==
    /\ \A u \in Accounts : /\ account[u].pw \in 0..changes /\ account[u].secret \in 0..changes
                           /\ account[u].secret # 0 => account[u].pending = 0
                           /\ account[u].keys \subseteq 1..changes
                           /\ account[u].exists \/ (account[u].keys = {} /\ SessionsOf(u) = {})
    /\ \A u, w \in Accounts : u # w => account[u].keys \cap account[w].keys = {}
    /\ rowLock.by # "nobody" => visit[rowLock.by].at = "edit"
    /\ changes \in 1..MaxChanges

\* An installation with the account of the environment, and others that may have
\* been enrolled, promoted or disabled before.
AccessInit ==
    /\ \E admins, off \in SUBSET Accounts, s \in [Accounts -> {0, 1}] :
        /\ Operator \in admins /\ (admins \ off) # {}
        /\ account = [u \in Accounts |->
              [NewAccount(u \in admins, 1) EXCEPT !.disabled = u \in off, !.secret = s[u],
                                                 !.backup = IF s[u] = 0 THEN {} ELSE {1}]]
    /\ session = [t \in Tokens |-> NoSession]
    /\ visit = [v \in Visits |-> Away]
    /\ rowLock = Unheld /\ challenges = 0 /\ spent = {} /\ changes = 1

Leave(v)        == visit' = [visit EXCEPT ![v] = Away]
Turns(v, r)     == visit' = [visit EXCEPT ![v] = r]
Set(u, row)     == account' = [account EXCEPT ![u] = row]
Accepted(code)  == spent' = spent \cup {<<code, IF <<code, 1>> \in spent THEN 2 ELSE 1>>}
Ended(gone)     == [t \in Tokens |-> IF t \in gone THEN NoSession ELSE session[t]]
SignedOut(u)    == Ended(SessionsOf(u))

\* What a session rests on: a password hash (0: none), whether a factor was
\* proven, how often the factors had been reset when it was, and whether it
\* comes from a sign-in or replaces one after a change of the password.
Opened(kept, how, u, hash, proven, resets) ==
    \E t \in Tokens :
       /\ ~kept[t].alive
       /\ session' = [kept EXCEPT ![t] = [user |-> u, alive |-> TRUE, pw |-> hash,
                                         verified |-> proven, since |-> resets, from |-> how]]
SameRows    == UNCHANGED <<account, spent>>
SameRest    == UNCHANGED <<rowLock, challenges, changes>>
-----------------------------------------------------------------------------
(* Signing in with a password.                                               *)

\* Any other password, an unknown or a disabled account ends the request.
Authenticate(v, u) ==
    /\ ~PasskeyOnly /\ visit[v] = Away
    /\ account[u].exists /\ ~account[u].disabled
    /\ Turns(v, [at |-> IF account[u].secret = 0 THEN "proven" ELSE "factor", user |-> u,
                 pw |-> account[u].pw, secret |-> account[u].secret, resets |-> account[u].resets])
    /\ SameRows /\ SameRest /\ UNCHANGED session

SameSecret(v) == LET u == visit[v].user IN account[u].exists /\ account[u].secret = visit[v].secret

\* Counted before the code is looked at; a locked factor counts nothing.
ReserveSecondFactorAttempt(v) ==
    LET u == visit[v].user  n == account[u].failures + 1
    IN /\ visit[v].at = "factor"
       /\ IF SameSecret(v) /\ ~account[u].locked
          THEN /\ Writable(v, u) /\ n <= MaxFailures
               /\ Set(u, [account[u] EXCEPT !.failures = n, !.locked = n >= FreeFailures])
               /\ Turns(v, [visit[v] EXCEPT !.at = "code"])
          ELSE Leave(v) /\ UNCHANGED account
       /\ SameRest /\ UNCHANGED <<session, spent>>

MutantUnusedStep(v, s) == SameSecret(v) /\ account[visit[v].user].step <= s
UnusedStep(v, s) == SameSecret(v) /\ account[visit[v].user].step < s

\* A code of the authenticator: its time step is spent with it.
SpendCode(v, s) ==
    LET u == visit[v].user
    IN /\ visit[v].at = "code" /\ UnusedStep(v, s) /\ Writable(v, u)
       /\ Set(u, [account[u] EXCEPT !.step = s])
       /\ Accepted(<<"totp", u, visit[v].secret, s>>)
       /\ Turns(v, [visit[v] EXCEPT !.at = "passed"])
       /\ SameRest /\ UNCHANGED session

ConsumeBackupCode(v, c) ==
    LET u == visit[v].user
    IN /\ visit[v].at = "code" /\ c \in account[u].backup
       /\ Set(u, [account[u] EXCEPT !.backup = @ \ {c}])
       /\ Accepted(<<"backup", u, c, 0>>)
       /\ Turns(v, [visit[v] EXCEPT !.at = "passed"])
       /\ SameRest /\ UNCHANGED session

\* A wrong code, or a repeated one, stays counted.
RefuseCode(v) == /\ visit[v].at = "code" /\ Leave(v)
                 /\ SameRows /\ SameRest /\ UNCHANGED session

\* The database failed while the code was checked: the attempt is given back.
ReleaseSecondFactorAttempt(v) ==
    LET u == visit[v].user
    IN /\ visit[v].at = "code" /\ SameSecret(v) /\ Writable(v, u)
       /\ Set(u, [account[u] EXCEPT !.failures = IF @ > 0 THEN @ - 1 ELSE 0])
       /\ Leave(v) /\ SameRest /\ UNCHANGED <<session, spent>>

ResetSecondFactorFailures(v) ==
    LET u == visit[v].user
    IN /\ visit[v].at = "passed"
       /\ IF SameSecret(v)
          THEN /\ Writable(v, u)
               /\ Set(u, [account[u] EXCEPT !.failures = 0, !.locked = FALSE])
               /\ Turns(v, [visit[v] EXCEPT !.at = "proven"])
          ELSE Leave(v) /\ UNCHANGED account
       /\ SameRest /\ UNCHANGED <<session, spent>>

MutantSamePassword(v) == account[visit[v].user].exists
SamePassword(v) == LET u == visit[v].user IN account[u].exists /\ account[u].pw = visit[v].pw

\* The session is inserted only while what was proven still stands.
CreatePasswordSession(v) ==
    LET u == visit[v].user
    IN /\ visit[v].at = "proven"
       /\ IF SamePassword(v) /\ ~account[u].disabled /\ (visit[v].secret # 0 => SameSecret(v))
          THEN Writable(v, u) /\ Opened(session, "login", u, visit[v].pw, visit[v].secret # 0, visit[v].resets)
          ELSE UNCHANGED session
       /\ Leave(v) /\ SameRows /\ SameRest

\* The second half of a sign-in: its steps after the password, in this order.
Login(v) == \/ ReserveSecondFactorAttempt(v)
            \/ \E s \in TimeSteps : SpendCode(v, s)
            \/ \E c \in 1..changes : ConsumeBackupCode(v, c)
            \/ RefuseCode(v) \/ ReleaseSecondFactorAttempt(v)
            \/ ResetSecondFactorFailures(v) \/ CreatePasswordSession(v)

LockExpires(u) == /\ account[u].locked /\ Set(u, [account[u] EXCEPT !.locked = FALSE])
                  /\ UNCHANGED <<session, visit, spent>> /\ SameRest
-----------------------------------------------------------------------------
(* Signing in with a passkey.                                                *)

StoreChallenge == challenges < MaxChallenges /\ challenges' = challenges + 1
\* A challenge is claimed once, whether or not what comes with it verifies.
ClaimChallenge == challenges > 0 /\ challenges' = challenges - 1

PasskeyLoginBegin == StoreChallenge /\ SameRows /\ UNCHANGED <<session, visit, rowLock, changes>>

\* A verified assertion names the account and its passkey.
FinishLogin(v, u, k) ==
    /\ visit[v] = Away /\ k \in account[u].keys /\ ClaimChallenge
    /\ Turns(v, [at |-> "asserted", user |-> u, key |-> k, resets |-> account[u].resets])
    /\ SameRows /\ UNCHANGED <<session, rowLock, changes>>

\* Its signature counter did not advance, and the policy removes such a passkey.
SuspendPasskey(v, u, k) ==
    /\ visit[v] = Away /\ k \in account[u].keys /\ ClaimChallenge
    /\ Set(u, [account[u] EXCEPT !.keys = @ \ {k}])
    /\ UNCHANGED <<session, visit, rowLock, spent, changes>>

\* Nothing verified: the challenge is gone all the same.
PasskeyRefused == ClaimChallenge /\ SameRows /\ UNCHANGED <<session, visit, rowLock, changes>>

CreatePasskeySession(v) ==
    LET u == visit[v].user
    IN /\ visit[v].at = "asserted"
       /\ IF visit[v].key \in account[u].keys /\ ~account[u].disabled
          THEN Writable(v, u) /\ Opened(session, "login", u, 0, TRUE, visit[v].resets)
          ELSE UNCHANGED session
       /\ Leave(v) /\ SameRows /\ SameRest
-----------------------------------------------------------------------------
(* Signed-in requests.                                                       *)

\* An expired session is deleted by the request that shows it, or by the sweep.
CleanupExpired(t) == /\ Signed(t) /\ session' = Ended({t})
                     /\ UNCHANGED visit /\ SameRows /\ SameRest

\* RequireAuth: the account is read with the session and handed to the handler.
RequireAuth(v, t, enrolling) ==
    LET u == session[t].user
    IN /\ visit[v] = Away /\ Signed(t) /\ ~account[u].disabled
       /\ Require2FA => \/ Enrolled(u) /\ session[t].verified
                        \/ ~Enrolled(u) /\ enrolling
       /\ Turns(v, [at |-> "in", user |-> u, token |-> t, verified |-> session[t].verified,
                    admin |-> account[u].admin /\ ~(Require2FA /\ enrolling),
                    secret |-> account[u].secret, resets |-> account[u].resets])
       /\ SameRows /\ SameRest /\ UNCHANGED session

RevokeSession(v, t) ==
    /\ visit[v].at = "in" /\ t \in SessionsOf(visit[v].user)
    /\ session' = Ended({t}) /\ Leave(v) /\ SameRows /\ SameRest

RevokeOtherSessions(v) ==
    /\ visit[v].at = "in"
    /\ session' = Ended(SessionsOf(visit[v].user) \ {visit[v].token})
    /\ Leave(v) /\ SameRows /\ SameRest

\* No account is looked up: the session of the cookie is deleted.
Logout(t) == /\ Signed(t) /\ session' = Ended({t})
             /\ UNCHANGED visit /\ SameRows /\ SameRest

\* AuthenticateUserID: the password in force is presented and remembered.
AuthenticateUserID(v, purpose) ==
    LET u == visit[v].user
    IN /\ visit[v].at = "in" /\ account[u].exists /\ ~account[u].disabled
       /\ purpose = "codes" => visit[v].secret # 0
       /\ Turns(v, [at |-> purpose, user |-> u, pw |-> account[u].pw,
                    verified |-> visit[v].verified, resets |-> visit[v].resets])
       /\ SameRows /\ SameRest /\ UNCHANGED session

\* All sessions end and a new one begins, as proven as the one that asked.
Rotated(v, hash) == LET u == visit[v].user
                    IN Opened(SignedOut(u), "change", u, hash, visit[v].verified, visit[v].resets)

\* The new hash replaces the verified one; all sessions end, a new one begins.
ChangePassword(v) ==
    LET u == visit[v].user
    IN /\ visit[v].at = "password"
       /\ IF SamePassword(v)
          THEN /\ Writable(v, u) /\ Changed
               /\ Set(u, [account[u] EXCEPT !.pw = Fresh])
               /\ Rotated(v, Fresh)
          ELSE UNCHANGED <<account, session, changes>>
       /\ Leave(v) /\ UNCHANGED <<spent, rowLock, challenges>>

FactorsOff(row) == [row EXCEPT !.secret = 0, !.pending = 0, !.step = 0, !.failures = 0,
                               !.locked = FALSE, !.backup = {}]

TOTPDisable(v) ==
    LET u == visit[v].user
    IN /\ visit[v].at = "disable" /\ account[u].exists /\ Writable(v, u)
       /\ Set(u, FactorsOff(account[u]))
       /\ Leave(v) /\ SameRest /\ UNCHANGED <<session, spent>>

\* Only the copy of the account said that TOTP is on.
TOTPRegenerateBackup(v) ==
    LET u == visit[v].user
    IN /\ visit[v].at = "codes" /\ account[u].exists /\ Changed
       /\ Set(u, [account[u] EXCEPT !.backup = FreshCodes])
       /\ Leave(v) /\ UNCHANGED <<session, spent, rowLock, challenges>>

TOTPSetup(v) ==
    LET u == visit[v].user
    IN /\ visit[v].at = "in" /\ visit[v].secret = 0
       /\ account[u].exists /\ account[u].secret = 0 /\ Writable(v, u) /\ Changed
       /\ Set(u, [account[u] EXCEPT !.pending = Fresh])
       /\ Leave(v) /\ UNCHANGED <<session, spent, rowLock, challenges>>

\* Codes and secret in one transaction; the code of the enrolment is spent.
TOTPEnable(v, s) ==
    LET u == visit[v].user
    IN /\ visit[v].at = "in" /\ account[u].exists
       /\ account[u].secret = 0 /\ account[u].pending # 0 /\ Writable(v, u) /\ Changed
       /\ Set(u, [account[u] EXCEPT !.secret = account[u].pending, !.pending = 0, !.step = s,
                                    !.failures = 0, !.locked = FALSE, !.backup = FreshCodes])
       /\ Accepted(<<"totp", u, account[u].pending, s>>)
       /\ Leave(v) /\ UNCHANGED <<session, rowLock, challenges>>

PasskeyRegisterBegin(v) == /\ visit[v].at = "in" /\ StoreChallenge
                           /\ Leave(v) /\ SameRows /\ UNCHANGED <<session, rowLock, changes>>

\* The attestation verified: the passkey is saved for the account, whatever
\* happened to the session meanwhile.
PasskeyRegisterFinish(v) ==
    LET u == visit[v].user
    IN /\ visit[v].at = "in" /\ account[u].exists /\ ClaimChallenge /\ Changed
       /\ Set(u, [account[u] EXCEPT !.keys = @ \cup {Fresh}])
       /\ Leave(v) /\ UNCHANGED <<session, spent, rowLock>>

\* The last passkey stays where passkeys are the only way in.
DeletePasskey(v, k) ==
    LET u == visit[v].user
    IN /\ visit[v].at = "in" /\ k \in account[u].keys /\ Writable(v, u)
       /\ PasskeyOnly => Cardinality(account[u].keys) > 1
       /\ Set(u, [account[u] EXCEPT !.keys = @ \ {k}])
       /\ Leave(v) /\ SameRest /\ UNCHANGED <<session, spent>>
-----------------------------------------------------------------------------
(* Administration.                                                           *)

IsAdmin(v) == visit[v].at = "in" /\ visit[v].admin

\* A transaction that may cost an administrator locks all of their rows first.
AdminRows    == { u \in Accounts : account[u].exists /\ account[u].admin }
MutantLastAdmin(u) == AdminRows = {u}
LastAdmin(u) == EnabledAdmins = {u}

\* A new account, or an edit that leaves the role and the status to be read.
CreateUser(v, u, isAdmin) ==
    /\ IsAdmin(v) /\ ~account[u].exists /\ Changed
    /\ Set(u, NewAccount(isAdmin, Fresh))
    /\ Leave(v) /\ UNCHANGED <<session, spent, rowLock, challenges>>

\* First half of an edit: the count under the locks, then the row as it was.
EditUser(v, u, edit) ==
    /\ IsAdmin(v) /\ account[u].exists
    /\ edit.off = "yes" => u # visit[v].user
    /\ edit.off = "keep" => OmitsStatus
    /\ IF ~edit.admin \/ edit.off = "yes"
       THEN /\ rowLock.by = "nobody" /\ ~LastAdmin(u)
            /\ rowLock' = [by |-> v, rows |-> AdminRows]
       ELSE UNCHANGED rowLock
    /\ Turns(v, [at |-> "edit", user |-> u, to |-> edit, wasOff |-> account[u].disabled])
    /\ SameRows /\ UNCHANGED <<session, challenges, changes>>

\* Second half: the row is written, with the status read before if none was sent.
UpdateUser(v) ==
    LET u == visit[v].user  edit == visit[v].to
        off == IF edit.off = "keep" THEN visit[v].wasOff ELSE edit.off = "yes"
    IN /\ visit[v].at = "edit" /\ Writable(v, u)
       /\ IF account[u].exists
          THEN /\ Changed
               /\ Set(u, [account[u] EXCEPT !.admin = edit.admin, !.disabled = off,
                                            !.pw = IF edit.reset THEN Fresh ELSE @])
               /\ session' = IF edit.reset \/ (off /\ ~visit[v].wasOff) THEN SignedOut(u) ELSE session
          ELSE UNCHANGED <<account, session, changes>>
       /\ rowLock' = IF rowLock.by = v THEN Unheld ELSE rowLock
       /\ Leave(v) /\ UNCHANGED <<spent, challenges>>

DeleteUser(v, u) ==
    /\ IsAdmin(v) /\ account[u].exists /\ u # visit[v].user
    /\ rowLock.by = "nobody" /\ ~LastAdmin(u)
    /\ Set(u, [NewAccount(FALSE, 0) EXCEPT !.exists = FALSE, !.resets = account[u].resets])
    /\ session' = SignedOut(u)
    /\ Leave(v) /\ UNCHANGED <<spent, rowLock, challenges, changes>>

ResetUserTOTP(v, u) ==
    /\ IsAdmin(v) /\ account[u].exists /\ Writable(v, u) /\ Changed
    /\ Set(u, [FactorsOff(account[u]) EXCEPT !.keys = {}, !.resets = @ + 1])
    /\ session' = SignedOut(u)
    /\ Leave(v) /\ UNCHANGED <<spent, rowLock, challenges>>

\* A restart ends every request and re-applies the account of the environment;
\* a forced one sets its password, enables it and ends its sessions.
BootstrapAdmin(force) ==
    LET u == Operator
    IN /\ Changed
       /\ IF account[u].exists
          THEN IF force
               THEN /\ Set(u, [account[u] EXCEPT !.admin = TRUE, !.disabled = FALSE, !.pw = Fresh])
                    /\ session' = SignedOut(u)
               ELSE Set(u, [account[u] EXCEPT !.admin = TRUE]) /\ UNCHANGED session
          ELSE Set(u, [NewAccount(TRUE, Fresh) EXCEPT !.resets = account[u].resets]) /\ UNCHANGED session
       /\ visit' = [v \in Visits |-> Away] /\ rowLock' = Unheld /\ UNCHANGED <<spent, challenges>>
-----------------------------------------------------------------------------
Edits == [admin : BOOLEAN, off : {"yes", "no", "keep"}, reset : BOOLEAN]

SignInNext == \E v \in Visits :
    \/ \E u \in Accounts : \/ Authenticate(v, u)
                          \/ \E k \in 1..changes : FinishLogin(v, u, k) \/ SuspendPasskey(v, u, k)
    \/ PasskeyLoginBegin \/ PasskeyRefused
    \/ Login(v) \/ CreatePasskeySession(v)

OwnNext == \E v \in Visits :
    \/ \E t \in Tokens, e \in BOOLEAN : RequireAuth(v, t, e)
    \/ \E t \in Tokens : RevokeSession(v, t)
    \/ RevokeOtherSessions(v)
    \/ \E p \in {"password", "disable", "codes"} : AuthenticateUserID(v, p)
    \/ ChangePassword(v) \/ TOTPDisable(v) \/ TOTPRegenerateBackup(v) \/ TOTPSetup(v)
    \/ \E s \in TimeSteps : TOTPEnable(v, s)
    \/ PasskeyRegisterBegin(v) \/ PasskeyRegisterFinish(v)
    \/ \E k \in 1..changes : DeletePasskey(v, k)

AdminNext == \E v \in Visits :
    \/ UpdateUser(v)
    \/ \E u \in Accounts :
          \/ \E a \in BOOLEAN : CreateUser(v, u, a)
          \/ \E e \in Edits : EditUser(v, u, e)
          \/ DeleteUser(v, u) \/ ResetUserTOTP(v, u)

AccessNext == SignInNext \/ OwnNext \/ AdminNext
              \/ (\E u \in Accounts : LockExpires(u))
              \/ (\E t \in Tokens : CleanupExpired(t) \/ Logout(t))
              \/ (\E f \in BOOLEAN : BootstrapAdmin(f))

AccessSpec == AccessInit /\ [][AccessNext]_accessVars
-----------------------------------------------------------------------------
\* However edits, deletions and restarts interleave, somebody can still
\* administer the installation (adminsRemaining).
AdminRemains == EnabledAdmins # {}

\* No sign-in leaves a session behind whose password has been replaced or whose
\* proven factor an administrator has reset (CreatePasswordSession,
\* CreatePasskeySession, RotateSessionTx).
SessionsAreProven == \A t \in Tokens : Signed(t) =>
    LET u == session[t].user
    IN /\ session[t].pw \in {0, account[u].pw}
       /\ session[t].verified /\ session[t].from = "login" => session[t].since = account[u].resets

\* A code of the authenticator, the one of the enrolment included, and a recovery
\* code are accepted once.
CodeSpentOnce == \A entry \in spent : entry[2] = 1

-----------------------------------------------------------------------------
(* Statements of comments that the code does not keep: no run of the project   *)
(* lists them, the README says which one violates them.                        *)

\* What an administrator's reset is for: no session of a factor it removed goes on
\* ("an administrative 2FA reset indicates account recovery or factor revocation,
\* so all active sessions must be terminated").
ResetEndsSessions == \A t \in Tokens :
    Signed(t) /\ session[t].verified => session[t].since = account[session[t].user].resets
=============================================================================
