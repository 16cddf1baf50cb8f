------------------------------ MODULE MfaTotp ------------------------------
(***************************************************************************)
(* The second factor: enrolling, confirming and disabling TOTP, and the    *)
(* password login that is suspended until a code has been given.           *)
(*                                                                         *)
(* users.mfa_enabled and users.mfa_secret are in Postgres.  A suspended    *)
(* login is a Redis key, mfa:pending:{user} or mfa:enroll:{user}: one slot *)
(* per user, which the next login overwrites.  The JWT that goes with it   *)
(* names the user only, so whoever holds one presents whatever login is in *)
(* the slot.                                                               *)
(*                                                                         *)
(* Handlers are split at each await.  Each request has a database session  *)
(* of its own (READ COMMITTED): it sees what is committed, its UPDATE      *)
(* waits for the row lock of another, and takes effect when it commits.    *)
(* A code stands for the secret it was computed from, whatever the time    *)
(* window.                                                                 *)
(***************************************************************************)
EXTENDS Naturals, FiniteSets

CONSTANTS
    Users,      \* accounts; their password is accepted
    Secrets,    \* the TOTP secrets that can be generated: bounds the enrollments
    Logins,     \* the suspended logins that can be made: bounds the logins
    Requests,   \* requests that can be in flight at once
    NoUser, NoSecret, NoLogin, NoKey, NoRequest

Kinds == {"pending", "enroll"}      \* MFA_PENDING_PREFIX, MFA_ENROLLMENT_PREFIX
Keys  == Kinds \X Users

ASSUME MfaTotpAssumption ==
    /\ NoUser \notin Users /\ NoSecret \notin Secrets
    /\ NoLogin \notin Logins /\ NoRequest \notin Requests /\ NoKey \notin Keys

VARIABLES
    enabled,    \* Postgres: users.mfa_enabled
    secret,     \* Postgres: users.mfa_secret
    generated,  \* secrets generated so far
    lock,       \* Postgres: who holds the lock on the user's row
    slot,       \* Redis: the login under each key, if the key exists
    made,       \* per login: the key it was put under; its token has the same
                \* type and user
    pc,         \* per request: the await it stands at
    user,       \* per request: the account
    key,        \* per request: the Redis key it works with; none for a bearer
    code,       \* per request: the code given
    login,      \* per request: the suspended login it has read
    \* History, read by no action
    confirmed,  \* per user: the secrets a right code was given for to confirm
    paid,       \* per suspended login: the sessions created for it
    shared,     \* suspended logins that two requests that pay had read and not
                \* yet done with
    overtaken,  \* users whose row was last updated while a request of theirs that
                \* had confirmed the secret was still to enable it
    fit         \* requests whose user had, at some instant since they arrived,
                \* no second factor, or where a code is given the code's secret

rowVars   == <<enabled, secret, generated, lock>>
slotVars  == <<slot, made>>
localVars == <<user, key, code>>
history   == <<confirmed, paid, shared, overtaken>>
vars == <<rowVars, slotVars, pc, localVars, login, history, fit>>

Awaits  == {"login_row", "login_setex", "login_session",
            "complete_get", "complete_del", "complete_row", "complete_session",
            "begin_get", "begin_row", "begin_update",
            "confirm_get", "confirm_row", "confirm_update", "confirm_del",
            "confirm_session", "confirm_commit",
            "disable_row", "disable_update"}
Replies == {"challenged", "granted", "done", "refused"}

\* A request that has read a suspended login and is to create its session.
Paying  == {"complete_del", "complete_row", "complete_session", "confirm_row",
            "confirm_update", "confirm_del", "confirm_session"}

TypeOK ==
    /\ enabled   \in [Users -> BOOLEAN]
    /\ secret    \in [Users -> Secrets \cup {NoSecret}]
    /\ generated \subseteq Secrets
    /\ lock      \in [Users -> Requests \cup {NoRequest}]
    /\ slot      \in [Keys -> Logins \cup {NoLogin}]
    /\ made      \in [Logins -> Keys \cup {NoKey}]
    /\ pc        \in [Requests -> {"idle"} \cup Awaits \cup Replies]
    /\ user      \in [Requests -> Users \cup {NoUser}]
    /\ key       \in [Requests -> Keys \cup {NoKey}]
    /\ code      \in [Requests -> Secrets \cup {NoSecret}]
    /\ login     \in [Requests -> Logins \cup {NoLogin}]
    /\ confirmed \in [Users -> SUBSET Secrets]
    /\ paid      \in [Logins -> Nat]
    /\ shared    \subseteq Logins
    /\ overtaken \subseteq Users
    /\ fit       \subseteq Requests

Init ==
    /\ enabled   = [u \in Users |-> FALSE]
    /\ secret    = [u \in Users |-> NoSecret]
    /\ generated = {}
    /\ lock      = [u \in Users |-> NoRequest]
    /\ slot      = [k \in Keys |-> NoLogin]
    /\ made      = [l \in Logins |-> NoKey]
    /\ pc        = [r \in Requests |-> "idle"]
    /\ user      = [r \in Requests |-> NoUser]
    /\ key       = [r \in Requests |-> NoKey]
    /\ code      = [r \in Requests |-> NoSecret]
    /\ login     = [r \in Requests |-> NoLogin]
    /\ confirmed = [u \in Users |-> {}]
    /\ paid      = [l \in Logins |-> 0]
    /\ shared = {} /\ overtaken = {} /\ fit = {}

Drawn == {l \in Logins : made[l] # NoKey}

\* A token of the type and user of key k has been issued.
Issued(k) == \E l \in Logins : made[l] = k

\* TOTPStrategy.verify_code.
Verifies(r) == code[r] # NoSecret /\ code[r] = secret[user[r]]

-----------------------------------------------------------------------------
(***************************************************************************)
(* Steps shared by the handlers                                            *)
(***************************************************************************)

Go(r, from, to) ==
    /\ pc[r] = from
    /\ pc' = [pc EXCEPT ![r] = to]

Arrive(r, u, k, c, at) ==
    /\ Go(r, "idle", at)
    /\ user' = [user EXCEPT ![r] = u]
    /\ key'  = [key EXCEPT ![r] = k]
    /\ code' = [code EXCEPT ![r] = c]
    /\ UNCHANGED <<rowVars, slotVars, login, history>>

\* Another request that pays has read login l and is not done with it.
Rival(r, l) == \E q \in Requests \ {r} : login[q] = l /\ pc[q] \in Paying

\* GET of the key the token names.
Get(r, from, to) ==
    LET l == slot[key[r]] IN
    /\ Go(r, from, IF l # NoLogin THEN to ELSE "refused")
    /\ login'  = [login EXCEPT ![r] = l]
    /\ shared' = IF l # NoLogin /\ to \in Paying /\ Rival(r, l)
                 THEN shared \cup {l} ELSE shared
    /\ UNCHANGED <<rowVars, slotVars, localVars, confirmed, paid, overtaken>>

\* Broken variant: the "await" of redis.delete is missing.
DelNotAwaited(r, from, to) ==
    /\ Go(r, from, to)
    /\ UNCHANGED <<rowVars, slotVars, localVars, login, history>>

\* DEL of that key, whatever login it has come to hold, and whatever DEL returns.
Del(r, from, to) ==
    /\ Go(r, from, to)
    /\ slot' = [slot EXCEPT ![key[r]] = NoLogin]
    /\ UNCHANGED <<rowVars, made, localVars, login, history>>

\* An UPDATE of the user's row need not wait.
Free(r) == lock[user[r]] = NoRequest

\* History of an UPDATE of mfa_secret.
Overtake(r) ==
    overtaken' = IF \E q \in Requests \ {r} : /\ user[q] = user[r]
                                              /\ pc[q] = "confirm_update"
                 THEN overtaken \cup {user[r]} ELSE overtaken \ {user[r]}

-----------------------------------------------------------------------------
(***************************************************************************)
(* POST /auth/login, once the password has been accepted                   *)
(***************************************************************************)

LoginArrive(r, u) == Arrive(r, u, NoKey, NoSecret, "login_row")

\* Broken variant: the tenant's demand is looked at, the user's choice is not.
LoginRowTenantOnly(r) ==
    /\ \E required \in BOOLEAN :
        LET k == IF ~ required THEN NoKey
                 ELSE IF enabled[user[r]] THEN <<"pending", user[r]>>
                 ELSE <<"enroll", user[r]>> IN
        /\ Go(r, "login_row",
              IF k = NoKey THEN "login_session" ELSE "login_setex")
        /\ key' = [key EXCEPT ![r] = k]
    /\ UNCHANGED <<rowVars, slotVars, user, code, login, history>>

\* The row is loaded; the login is suspended when the user has a second factor,
\* or when the tenant requires one and the user must enroll first.
LoginRow(r) ==
    /\ \E required \in BOOLEAN :
        LET k == IF enabled[user[r]] THEN <<"pending", user[r]>>
                 ELSE IF required THEN <<"enroll", user[r]>> ELSE NoKey IN
        /\ Go(r, "login_row",
              IF k = NoKey THEN "login_session" ELSE "login_setex")
        /\ key' = [key EXCEPT ![r] = k]
    /\ UNCHANGED <<rowVars, slotVars, user, code, login, history>>

\* _store_pending_state: SETEX of the user's slot; the token is the reply.
\* (Sent again it writes the same login before anybody has the token.)
LoginSetex(r) ==
    /\ Go(r, "login_setex", "challenged")
    /\ \E l \in Logins \ Drawn :
        /\ made' = [made EXCEPT ![l] = key[r]]
        /\ slot' = [slot EXCEPT ![key[r]] = l]
    /\ UNCHANGED <<rowVars, localVars, login, history>>

LoginSession(r) ==
    /\ Go(r, "login_session", "granted")
    /\ UNCHANGED <<rowVars, slotVars, localVars, login, history>>

-----------------------------------------------------------------------------
(***************************************************************************)
(* POST /auth/mfa/complete                                                 *)
(***************************************************************************)

CompleteArrive(r, u, c) ==
    /\ Issued(<<"pending", u>>)
    /\ Arrive(r, u, <<"pending", u>>, c, "complete_get")

CompleteGet(r) == Get(r, "complete_get", "complete_del")

\* The slot is emptied before the code is looked at: a wrong code costs the login.
CompleteDel(r) == Del(r, "complete_del", "complete_row")

CompleteRow(r) ==
    /\ Go(r, "complete_row", IF enabled[user[r]] /\ Verifies(r)
                             THEN "complete_session" ELSE "refused")
    /\ UNCHANGED <<rowVars, slotVars, localVars, login, history>>

CompleteSession(r) ==
    /\ Go(r, "complete_session", "granted")
    /\ paid' = [paid EXCEPT ![login[r]] = @ + 1]
    /\ UNCHANGED <<rowVars, slotVars, localVars, login, confirmed, shared,
                   overtaken>>

-----------------------------------------------------------------------------
(***************************************************************************)
(* Enrolling: with a bearer token under /me/mfa, or with the token of a    *)
(* suspended login under /auth/mfa/enroll                                  *)
(***************************************************************************)

BeginArrive(r, u) ==
    \/ Arrive(r, u, NoKey, NoSecret, "begin_row")
    \/ /\ Issued(<<"enroll", u>>)
       /\ Arrive(r, u, <<"enroll", u>>, NoSecret, "begin_get")

BeginGet(r) == Get(r, "begin_get", "begin_row")

BeginRow(r) ==
    /\ Go(r, "begin_row",
          IF enabled[user[r]] THEN "refused" ELSE "begin_update")
    /\ UNCHANGED <<rowVars, slotVars, localVars, login, history>>

\* UPDATE and COMMIT: a new secret, not enabled yet.  The reply has the secret.
BeginUpdate(r) ==
    /\ Go(r, "begin_update", "done")
    /\ Free(r)
    /\ \E s \in Secrets \ generated :
        /\ secret'    = [secret EXCEPT ![user[r]] = s]
        /\ generated' = generated \cup {s}
    /\ enabled' = [enabled EXCEPT ![user[r]] = FALSE]
    /\ Overtake(r)
    /\ UNCHANGED <<lock, slotVars, localVars, login, confirmed, paid, shared>>

ConfirmArrive(r, u, c) ==
    \/ Arrive(r, u, NoKey, c, "confirm_row")
    \/ /\ Issued(<<"enroll", u>>)
       /\ Arrive(r, u, <<"enroll", u>>, c, "confirm_get")

ConfirmGet(r) == Get(r, "confirm_get", "confirm_row")

\* The row is loaded and the code compared with its secret.
ConfirmRow(r) ==
    LET ok == ~ enabled[user[r]] /\ Verifies(r) IN
    /\ Go(r, "confirm_row", IF ok THEN "confirm_update" ELSE "refused")
    /\ confirmed' = [confirmed EXCEPT ![user[r]] =
                       IF ok THEN @ \cup {code[r]} ELSE @]
    /\ UNCHANGED <<rowVars, slotVars, localVars, login, paid, shared,
                   overtaken>>

\* UPDATE mfa_enabled.  Under /me/mfa the COMMIT follows; a suspended login is
\* resumed first, with the row locked.
ConfirmUpdate(r) ==
    /\ pc[r] = "confirm_update" /\ Free(r)
    /\ \/ /\ key[r] = NoKey
          /\ Go(r, "confirm_update", "done")
          /\ enabled' = [enabled EXCEPT ![user[r]] = TRUE]
          /\ UNCHANGED lock
       \/ /\ key[r] # NoKey
          /\ Go(r, "confirm_update", "confirm_del")
          /\ lock' = [lock EXCEPT ![user[r]] = r]
          /\ UNCHANGED enabled
    /\ UNCHANGED <<secret, generated, slotVars, localVars, login, history>>

ConfirmDel(r) == Del(r, "confirm_del", "confirm_session")

ConfirmSession(r) ==
    /\ Go(r, "confirm_session", "confirm_commit")
    /\ paid' = [paid EXCEPT ![login[r]] = @ + 1]
    /\ UNCHANGED <<rowVars, slotVars, localVars, login, confirmed, shared,
                   overtaken>>

ConfirmCommit(r) ==
    /\ Go(r, "confirm_commit", "granted")
    /\ enabled' = [enabled EXCEPT ![user[r]] = TRUE]
    /\ lock'    = [lock EXCEPT ![user[r]] = NoRequest]
    /\ UNCHANGED <<secret, generated, slotVars, localVars, login, history>>

-----------------------------------------------------------------------------
(***************************************************************************)
(* DELETE /me/mfa/disable                                                  *)
(***************************************************************************)

DisableArrive(r, u, c) == Arrive(r, u, NoKey, c, "disable_row")

DisableRow(r) ==
    /\ Go(r, "disable_row", IF enabled[user[r]] /\ Verifies(r)
                            THEN "disable_update" ELSE "refused")
    /\ UNCHANGED <<rowVars, slotVars, localVars, login, history>>

\* Broken variant: the secret is erased, the flag forgotten.
DisableUpdateSecretOnly(r) ==
    /\ Go(r, "disable_update", "done")
    /\ Free(r)
    /\ secret' = [secret EXCEPT ![user[r]] = NoSecret]
    /\ Overtake(r)
    /\ UNCHANGED <<enabled, generated, lock, slotVars, localVars, login,
                   confirmed, paid, shared>>

DisableUpdate(r) ==
    /\ Go(r, "disable_update", "done")
    /\ Free(r)
    /\ enabled' = [enabled EXCEPT ![user[r]] = FALSE]
    /\ secret'  = [secret EXCEPT ![user[r]] = NoSecret]
    /\ Overtake(r)
    /\ UNCHANGED <<generated, lock, slotVars, localVars, login, confirmed, paid,
                   shared>>

-----------------------------------------------------------------------------

\* The reply to DEL is lost, and DEL is sent again.
DelLost(r) ==
    /\ pc[r] \in {"complete_del", "confirm_del"}
    /\ slot[key[r]] # NoLogin
    /\ slot' = [slot EXCEPT ![key[r]] = NoLogin]
    /\ UNCHANGED <<rowVars, made, pc, localVars, login, history>>

Leave(r) ==
    /\ pc'    = [pc EXCEPT ![r] = "idle"]
    /\ user'  = [user EXCEPT ![r] = NoUser]
    /\ key'   = [key EXCEPT ![r] = NoKey]
    /\ code'  = [code EXCEPT ![r] = NoSecret]
    /\ login' = [login EXCEPT ![r] = NoLogin]
    /\ UNCHANGED <<enabled, secret, generated, slotVars, history>>

Reply(r) == pc[r] \in Replies /\ Leave(r) /\ UNCHANGED lock

\* The worker dies, or a later await fails: an open transaction is rolled back.
Crash(r) ==
    /\ pc[r] \in Awaits
    /\ Leave(r)
    /\ lock' = [u \in Users |-> IF lock[u] = r THEN NoRequest ELSE lock[u]]

\* MFA_PENDING_TTL_SECONDS.
SlotExpire(k) ==
    /\ slot[k] # NoLogin
    /\ slot' = [slot EXCEPT ![k] = NoLogin]
    /\ UNCHANGED <<rowVars, made, pc, localVars, login, history>>

Witness ==
    fit' = {r \in Requests : pc'[r] # "idle" /\
              (\/ r \in fit
               \/ code'[r] = NoSecret /\ ~ enabled'[user'[r]]
               \/ code'[r] # NoSecret /\ code'[r] = secret'[user'[r]])}

Arrivals(r) ==
    \E u \in Users :
        \/ LoginArrive(r, u) \/ BeginArrive(r, u)
        \/ \E c \in Secrets : \/ CompleteArrive(r, u, c)
                               \/ ConfirmArrive(r, u, c)
                               \/ DisableArrive(r, u, c)

Handler(r) ==
    \/ LoginRow(r) \/ LoginSetex(r) \/ LoginSession(r)
    \/ CompleteGet(r) \/ CompleteDel(r) \/ CompleteRow(r) \/ CompleteSession(r)
    \/ BeginGet(r) \/ BeginRow(r) \/ BeginUpdate(r)
    \/ ConfirmGet(r) \/ ConfirmRow(r) \/ ConfirmUpdate(r) \/ ConfirmDel(r)
    \/ ConfirmSession(r) \/ ConfirmCommit(r)
    \/ DisableRow(r) \/ DisableUpdate(r)
    \/ Reply(r)

Next ==
    /\ \/ \E r \in Requests : \/ Arrivals(r) \/ Handler(r)
                             \/ DelLost(r) \/ Crash(r)
       \/ \E k \in Keys : SlotExpire(k)
    /\ Witness

Spec == Init /\ [][Next]_vars

-----------------------------------------------------------------------------
(***************************************************************************)
(* Properties                                                              *)
(***************************************************************************)

\* The second factor is not skipped: a session without a code goes to a user who
\* had no second factor at some instant since the request arrived, and one with a
\* code to a user whose secret it fitted at such an instant, whatever is
\* enrolled, confirmed and disabled meanwhile.
SecondFactor ==
    \A r \in Requests : pc[r] = "granted" => r \in fit

\* docs/pages/security-overview.md, 5: "Enrollment requires confirming a valid
\* code before mfa_enabled is set".  So an enabled factor has a secret, and a
\* code of that secret has been given to confirm it.
EnabledIsConfirmed ==
    \A u \in Users : enabled[u] => secret[u] \in confirmed[u]

\* The same, unless a begin or a disable has replaced the secret between the check
\* of a code and the UPDATE that enables the factor.
ConfirmedUnlessOvertaken ==
    \A u \in Users \ overtaken : enabled[u] => secret[u] \in confirmed[u]

\* Who is to be paid for a suspended login whose key is gone.
Claimed(l) ==
    \E r \in Requests : login[r] = l /\ pc[r] \in Paying

Stage == [l \in Logins |->
    IF l \notin Drawn          THEN "unissued"
    ELSE IF l \in shared       THEN "shared"
    ELSE IF slot[made[l]] = l  THEN "valid"
    ELSE IF paid[l] > 0        THEN "redeemed"
    ELSE IF Claimed(l)         THEN "claimed"
    ELSE "void"]

PaidUnshared == [l \in Logins |-> IF l \in shared THEN 0 ELSE paid[l]]

Once == INSTANCE OneTimeGrant WITH
    Grants <- Logins, stage <- Stage, paid <- PaidUnshared

\* docs/pages/security-overview.md, 5: "Redis mfa:pending:{user_id} is one-time".
\* A suspended login is a one-time grant unless two requests have read it before
\* either is done with it, whatever codes are tried and whatever expires, crashes,
\* is overwritten or is sent again.
SingleUse == Once!Spec

\* The same without that condition: no login that waits for a code pays for two
\* sessions.
LoginsPayOnce == \A l \in Logins, u \in Users :
    made[l] = <<"pending", u>> => paid[l] <= 1
=============================================================================
