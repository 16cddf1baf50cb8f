------------------------------ MODULE Sessions ------------------------------
(***************************************************************************)
(* The session lifecycle of the API: who creates, checks and deletes the   *)
(* Redis keys session:{user_id}:{session_id}, and which tokens outlive     *)
(* them.                                                                   *)
(*                                                                         *)
(* A request is one run of an endpoint.  FastAPI interleaves requests at   *)
(* every await, so a handler is split at each Redis command and each       *)
(* Postgres query; what a handler does between two awaits only touches its *)
(* own locals and the reply, and is part of the step before it.            *)
(*                                                                         *)
(* Credentials (password, TOTP code, magic link, passkey) are checked      *)
(* before create_session and are the subject of the other modules: here a  *)
(* login is a user whose credentials have been accepted.                   *)
(*                                                                         *)
(* A "broken variant" is a definition with a plausible mistake that one of *)
(* the properties below rules out; nothing uses it.                        *)
(***************************************************************************)
EXTENDS Naturals, FiniteSets

CONSTANTS
    Users,      \* user ids
    Sids,       \* the uuid4 session ids that can be drawn: bounds the sessions
    Requests,   \* requests that can be in flight at once
    NoUser,     \* the user of an idle request
    NoSid       \* a token without a "sid" claim

ASSUME SessionsAssumption ==
    /\ NoUser \notin Users
    /\ NoSid \notin Sids

VARIABLES
    status,     \* Postgres: users.status, "absent" once the row is deleted
    session,    \* Redis: the keys session:{user}:{sid} that exist
    drawn,      \* session ids drawn so far; uuid4 never repeats one
    access,     \* access tokens issued so far.  They are never taken out: an
                \* expired token is one its holder no longer presents
    refresh,    \* refresh tokens issued so far
    pc,         \* per request: the await it stands at
    op,         \* per request: the endpoint
    tok,        \* per request: the claims (sub, sid) it works with
    keys,       \* per request: the session ids in hand, which KEYS returned to a
                \* logout, or for which create_session awaits SETEX again
    \* History, read by no action
    before,     \* per logout: the user's sessions for which tokens had been issued
                \* when the request arrived
    spent,      \* claims covered by a logout that has replied: those of its own
                \* token and of every session of "before"
    seen        \* per request other than a login or logout: what held at some
                \* instant since it arrived, until it is refused

dbVars    == <<status>>
tokenVars == <<access, refresh>>
localVars == <<pc, op, tok, keys>>
vars == <<status, session, drawn, access, refresh, pc, op, tok, keys,
          before, spent, seen>>

\* UserStatus; every reader only compares with ACTIVE, so INACTIVE and
\* SUSPENDED are one value
Status == {"ACTIVE", "SUSPENDED", "absent"}

\* The claims of a token that the handlers read.  The user of an idle request
\* is NoUser.
Token  == [user : Users, sid : Sids \cup {NoSid}]
Idle   == [user |-> NoUser, sid |-> NoSid]

Ops     == {"none", "login", "me", "select_tenant", "logout", "manage",
            "introspect", "refresh", "grant", "authorize"}
Guarded == {"me", "select_tenant", "logout"}    \* behind get_current_active_user
\* "manage" stands for the endpoints behind a permission, which are all of
\* /tenants and /platform: the three checkers of rbac.py depend on
\* get_current_user, which does not compare the status.
Managed == {"manage"}
Replies == {"loggedIn", "served", "refused", "loggedOut", "granted", "coded"}
Awaits  == {"login_session", "guard_session", "guard_user", "permission", "select",
            "logout_keys", "logout_del", "introspect_session",
            "introspect_user", "refresh_session", "refresh_user",
            "grant_user", "grant_session", "grant_create", "authorize_user"}
Flags   == {"live", "active", "spent"}

Key(t)       == <<t.user, t.sid>>
KeysOf(u)    == {s \in Sids : <<u, s>> \in session}
Issued(u)    == {s \in KeysOf(u) : \E t \in access : Key(t) = <<u, s>>}
Live(t)      == Key(t) \in session              \* EXISTS session:{sub}:{sid}

\* What the reply of a logout promises to have ended.
Covered(r)   == {tok[r].user} \X (before[r] \cup {tok[r].sid})

TypeOK ==
    /\ status  \in [Users -> Status]
    /\ session \subseteq Users \X Sids
    /\ drawn   \subseteq Sids
    /\ access  \subseteq Token
    /\ refresh \subseteq Token
    /\ pc     \in [Requests -> {"idle"} \cup Awaits \cup Replies]
    /\ op     \in [Requests -> Ops]
    /\ tok    \in [Requests -> Token \cup {Idle}]
    /\ keys   \in [Requests -> SUBSET Sids]
    /\ before \in [Requests -> SUBSET Sids]
    /\ spent  \subseteq Users \X (Sids \cup {NoSid})
    /\ seen   \in [Requests -> SUBSET Flags]

Init ==
    /\ status  \in [Users -> {"ACTIVE", "SUSPENDED"}]
    /\ session = {} /\ drawn = {} /\ access = {} /\ refresh = {}
    /\ pc     = [r \in Requests |-> "idle"]
    /\ op     = [r \in Requests |-> "none"]
    /\ tok    = [r \in Requests |-> Idle]
    /\ keys   = [r \in Requests |-> {}]
    /\ before = [r \in Requests |-> {}]
    /\ spent  = {}
    /\ seen   = [r \in Requests |-> {}]

-----------------------------------------------------------------------------
(***************************************************************************)
(* Steps of a request                                                      *)
(***************************************************************************)

\* A request arrives at an endpoint with the claims t.
Arrive(r, o, t, at) ==
    /\ pc[r] = "idle"
    /\ pc'  = [pc EXCEPT ![r] = at]
    /\ op'  = [op EXCEPT ![r] = o]
    /\ tok' = [tok EXCEPT ![r] = t]
    /\ before' = [before EXCEPT ![r] = IF o = "logout" THEN Issued(t.user) ELSE {}]
    /\ UNCHANGED <<status, session, drawn, access, refresh, keys, spent>>

\* The request goes on to its next await, or to its reply.
Go(r, at) == pc' = [pc EXCEPT ![r] = at]

\* Broken variant: the parts of the key swapped.
CreateSessionSwapped(r, u, s) ==
    /\ s \in IF keys[r] = {} THEN Sids \ drawn ELSE keys[r]
    /\ drawn'   = drawn \cup {s}
    /\ session' = session \cup {<<s, u>>}

\* SessionService.create_session: a fresh id, SETEX with a TTL.
CreateSession(r, u, s) ==
    /\ s \in IF keys[r] = {} THEN Sids \ drawn ELSE keys[r]
    /\ drawn'   = drawn \cup {s}
    /\ session' = session \cup {<<u, s>>}

\* Any login: the credentials of u are accepted (status is not looked at) ...
LoginArrive(r, u) ==
    /\ status[u] # "absent"
    /\ Arrive(r, "login", [user |-> u, sid |-> NoSid], "login_session")

\* ... then create_session and create_tokens with the new sid.
LoginSession(r) ==
    /\ pc[r] = "login_session"
    /\ \E s \in Sids :
        LET t == [user |-> tok[r].user, sid |-> s] IN
        /\ CreateSession(r, tok[r].user, s)
        /\ access'  = access \cup {t}
        /\ refresh' = refresh \cup {t}
        /\ tok' = [tok EXCEPT ![r] = t]
    /\ Go(r, "loggedIn")
    /\ UNCHANGED <<status, op, keys, before, spent>>

\* The reply to SETEX is lost, and SETEX is sent again, for the same id.  (The
\* other commands are reads, or a DEL: lost, it amounts to keys that expire.)
SetexLost(r) ==
    /\ pc[r] \in {"login_session", "grant_create"}
    /\ \E s \in Sids :
        /\ CreateSession(r, tok[r].user, s)
        /\ keys' = [keys EXCEPT ![r] = {s}]
    /\ UNCHANGED <<status, access, refresh, pc, op, tok, before, spent>>

\* Social login: OAuthService.issue_tokens puts no sid into its tokens.
SocialLogin(u) ==
    LET t == [user |-> u, sid |-> NoSid] IN
    /\ status[u] # "absent"
    /\ access'  = access \cup {t}
    /\ refresh' = refresh \cup {t}
    /\ UNCHANGED <<status, session, drawn, localVars, before, spent>>

\* A request with a bearer token: get_current_user decodes it; the Redis check
\* is skipped when the token names no session.
GuardArrive(r, t, o) ==
    /\ t \in access
    /\ o \in Guarded \cup Managed
    /\ Arrive(r, o, t, IF t.sid = NoSid THEN "guard_user" ELSE "guard_session")

GuardSession(r) ==
    /\ pc[r] = "guard_session"
    /\ Go(r, IF Live(tok[r]) THEN "guard_user" ELSE "refused")
    /\ UNCHANGED <<status, session, drawn, access, refresh, op, tok, keys,
                   before, spent>>

\* What the guard hands the request on to: the body of the endpoint, or the
\* query for the permission.
Behind(o) ==
    CASE o = "me" -> "served"
      [] o = "select_tenant" -> "select"
      [] o = "logout" -> "logout_keys"
      [] o = "manage" -> "permission"

\* Broken variant: the guarded endpoints depend on get_current_user, as the
\* checkers of permissions do.
GuardUserAnyStatus(r) ==
    /\ pc[r] = "guard_user"
    /\ Go(r, IF status[tok[r].user] = "absent" THEN "refused" ELSE Behind(op[r]))
    /\ UNCHANGED <<status, session, drawn, access, refresh, op, tok, keys,
                   before, spent>>

\* get_current_user loads the row, get_current_active_user compares its status.
GuardUser(r) ==
    LET st == status[tok[r].user] IN
    /\ pc[r] = "guard_user"
    /\ Go(r, IF st = "absent" \/ (op[r] \in Guarded /\ st # "ACTIVE")
             THEN "refused" ELSE Behind(op[r]))
    /\ UNCHANGED <<status, session, drawn, access, refresh, op, tok, keys,
                   before, spent>>

\* PermissionService.has_permission: one query for a role of the user with the
\* permission.  Which roles a user has is not modelled; one whose row is gone
\* has none.
CheckPermission(r) ==
    /\ pc[r] = "permission"
    /\ \/ Go(r, "served") /\ status[tok[r].user] # "absent"
       \/ Go(r, "refused")
    /\ UNCHANGED <<status, session, drawn, access, refresh, op, tok, keys,
                   before, spent>>

\* select_tenant: refused for a missing tenant, a non-member or a domain that is
\* not allowed; otherwise a pair of tenant tokens, without a sid.
SelectTenant(r) ==
    LET t == [user |-> tok[r].user, sid |-> NoSid] IN
    /\ pc[r] = "select"
    /\ \/ /\ Go(r, "served")
          /\ access'  = access \cup {t}
          /\ refresh' = refresh \cup {t}
       \/ /\ Go(r, "refused")
          /\ UNCHANGED tokenVars
    /\ UNCHANGED <<status, session, drawn, op, tok, keys, before, spent>>

\* delete_all_sessions: KEYS, then DEL of what KEYS returned, if anything.
LogoutKeys(r) ==
    LET found == KeysOf(tok[r].user) IN
    /\ pc[r] = "logout_keys"
    /\ keys' = [keys EXCEPT ![r] = found]
    /\ IF found = {}
       THEN /\ Go(r, "loggedOut")
            /\ spent' = spent \cup Covered(r)
       ELSE /\ Go(r, "logout_del")
            /\ UNCHANGED spent
    /\ UNCHANGED <<status, session, drawn, access, refresh, op, tok, before>>

\* Broken variant: only the session of the presented token is deleted.
LogoutDelOwn(r) ==
    /\ pc[r] = "logout_del"
    /\ session' = session \ {Key(tok[r])}
    /\ spent' = spent \cup Covered(r)
    /\ Go(r, "loggedOut")
    /\ UNCHANGED <<status, drawn, access, refresh, op, tok, keys, before>>

LogoutDel(r) ==
    /\ pc[r] = "logout_del"
    /\ session' = session \ ({tok[r].user} \X keys[r])
    /\ spent' = spent \cup Covered(r)
    /\ Go(r, "loggedOut")
    /\ UNCHANGED <<status, drawn, access, refresh, op, tok, keys, before>>

\* IntrospectService.introspect: the same two checks for a calling service; the
\* blacklist is never consulted because no issued token carries a jti.
IntrospectArrive(r, t) ==
    /\ t \in access
    /\ Arrive(r, "introspect", t,
              IF t.sid = NoSid THEN "introspect_user" ELSE "introspect_session")

\* Broken variant: introspection does not ask for the session.
IntrospectSessionSkipped(r) ==
    /\ pc[r] = "introspect_session"
    /\ Go(r, "introspect_user")
    /\ UNCHANGED <<status, session, drawn, access, refresh, op, tok, keys,
                   before, spent>>

IntrospectSession(r) ==
    /\ pc[r] = "introspect_session"
    /\ Go(r, IF Live(tok[r]) THEN "introspect_user" ELSE "refused")
    /\ UNCHANGED <<status, session, drawn, access, refresh, op, tok, keys,
                   before, spent>>

IntrospectUser(r) ==
    /\ pc[r] = "introspect_user"
    /\ Go(r, IF status[tok[r].user] = "ACTIVE" THEN "served" ELSE "refused")
    /\ UNCHANGED <<status, session, drawn, access, refresh, op, tok, keys,
                   before, spent>>

\* POST /auth/refresh: a token without a sid is refused at once.
RefreshArrive(r, t) ==
    /\ t \in refresh
    /\ Arrive(r, "refresh", t,
              IF t.sid = NoSid THEN "refused" ELSE "refresh_session")

RefreshSession(r) ==
    /\ pc[r] = "refresh_session"
    /\ Go(r, IF Live(tok[r]) THEN "refresh_user" ELSE "refused")
    /\ UNCHANGED <<status, session, drawn, access, refresh, op, tok, keys,
                   before, spent>>

\* Broken variant: refreshing needs the row, not the status.
RefreshUserAnyStatus(r) ==
    /\ pc[r] = "refresh_user"
    /\ IF status[tok[r].user] # "absent"
       THEN /\ Go(r, "served")
            /\ access'  = access \cup {tok[r]}
            /\ refresh' = refresh \cup {tok[r]}
       ELSE /\ Go(r, "refused")
            /\ UNCHANGED tokenVars
    /\ UNCHANGED <<status, session, drawn, op, tok, keys, before, spent>>

\* The row is loaded and the status compared; new tokens for the same sid.
RefreshUser(r) ==
    /\ pc[r] = "refresh_user"
    /\ IF status[tok[r].user] = "ACTIVE"
       THEN /\ Go(r, "served")
            /\ access'  = access \cup {tok[r]}
            /\ refresh' = refresh \cup {tok[r]}
       ELSE /\ Go(r, "refused")
            /\ UNCHANGED tokenVars
    /\ UNCHANGED <<status, session, drawn, op, tok, keys, before, spent>>

\* POST /oidc/token with grant_type=refresh_token: the row must exist ...
GrantArrive(r, t) ==
    /\ t \in refresh
    /\ Arrive(r, "grant", t, "grant_user")

GrantUser(r) ==
    /\ pc[r] = "grant_user"
    /\ Go(r, IF status[tok[r].user] = "absent" THEN "refused"
             ELSE IF tok[r].sid = NoSid THEN "grant_create"
             ELSE "grant_session")
    /\ UNCHANGED <<status, session, drawn, access, refresh, op, tok, keys,
                   before, spent>>

\* ... an access token for the session the refresh token names, if it lives ...
GrantSession(r) ==
    /\ pc[r] = "grant_session"
    /\ IF Live(tok[r])
       THEN Go(r, "granted") /\ access' = access \cup {tok[r]}
       ELSE Go(r, "grant_create") /\ UNCHANGED access
    /\ UNCHANGED <<status, session, drawn, refresh, op, tok, keys, before,
                   spent>>

\* Broken variant: the ended session is written again under its old id.
GrantCreateSameId(r) ==
    /\ pc[r] = "grant_create"
    /\ tok[r].sid # NoSid
    /\ session' = session \cup {Key(tok[r])}
    /\ access'  = access \cup {tok[r]}
    /\ Go(r, "granted")
    /\ UNCHANGED <<status, drawn, refresh, op, tok, keys, before, spent>>

\* ... and for a new session if it does not.
GrantCreate(r) ==
    /\ pc[r] = "grant_create"
    /\ \E s \in Sids :
        /\ CreateSession(r, tok[r].user, s)
        /\ access' = access \cup {[user |-> tok[r].user, sid |-> s]}
    /\ Go(r, "granted")
    /\ UNCHANGED <<status, refresh, op, tok, keys, before, spent>>

\* GET /oidc/authorize with a bearer token: get_current_user_optional loads the
\* row, and an authorization code is issued for it (a login, once redeemed).
AuthorizeArrive(r, t) ==
    /\ t \in access
    /\ Arrive(r, "authorize", t, "authorize_user")

AuthorizeUser(r) ==
    /\ pc[r] = "authorize_user"
    /\ Go(r, IF status[tok[r].user] = "absent" THEN "refused" ELSE "coded")
    /\ UNCHANGED <<status, session, drawn, access, refresh, op, tok, keys,
                   before, spent>>

Leave(r) ==
    /\ Go(r, "idle")
    /\ op'     = [op EXCEPT ![r] = "none"]
    /\ tok'    = [tok EXCEPT ![r] = Idle]
    /\ keys'   = [keys EXCEPT ![r] = {}]
    /\ before' = [before EXCEPT ![r] = {}]
    /\ UNCHANGED <<status, session, drawn, access, refresh, spent>>

\* The reply is sent and the request is over.
Reply(r) == pc[r] \in Replies /\ Leave(r)

\* The worker dies or is redeployed: what Redis and Postgres have is all that is
\* left of the request.
Crash(r) == pc[r] \in Awaits /\ Leave(r)

-----------------------------------------------------------------------------
(***************************************************************************)
(* The administrator and the clock                                         *)
(***************************************************************************)

\* UserService.update_user_status: one UPDATE; the sessions stay.
UpdateStatus(u, st) ==
    /\ status[u] # "absent"
    /\ status' = [status EXCEPT ![u] = st]
    /\ UNCHANGED <<session, drawn, access, refresh, localVars, before, spent>>

\* UserService.delete_user: one DELETE; the sessions stay.
DeleteUser(u) ==
    /\ status[u] # "absent"
    /\ status' = [status EXCEPT ![u] = "absent"]
    /\ UNCHANGED <<session, drawn, access, refresh, localVars, before, spent>>

\* The TTL of SETEX.
SessionExpire(k) ==
    /\ k \in session
    /\ session' = session \ {k}
    /\ UNCHANGED <<status, drawn, access, refresh, localVars, before, spent>>

-----------------------------------------------------------------------------
(***************************************************************************)
(* History: what has held at some instant since each request arrived       *)
(***************************************************************************)

Witness ==
    seen' = [r \in Requests |->
        LET t == tok'[r] IN
        IF pc'[r] \in {"idle", "refused"} \/ op'[r] \in {"login", "logout"} THEN {}
        ELSE (IF pc[r] # "idle" THEN seen[r]
              ELSE {f \in {"spent"} : Key(t) \in spent})
             \cup {f \in {"live"} : Key(t) \in session'}
             \cup {f \in {"active"} : status'[t.user] = "ACTIVE"}]

Arrivals(r) ==
    \/ \E u \in Users : LoginArrive(r, u)
    \/ \E t \in access : \E o \in Guarded \cup Managed : GuardArrive(r, t, o)
    \/ \E t \in access : IntrospectArrive(r, t) \/ AuthorizeArrive(r, t)
    \/ \E t \in refresh : RefreshArrive(r, t) \/ GrantArrive(r, t)

\* What the event loop runs once the request has arrived.
Handler(r) ==
    \/ LoginSession(r)
    \/ GuardSession(r)
    \/ GuardUser(r)
    \/ CheckPermission(r)
    \/ SelectTenant(r)
    \/ LogoutKeys(r)
    \/ LogoutDel(r)
    \/ IntrospectSession(r)
    \/ IntrospectUser(r)
    \/ RefreshSession(r)
    \/ RefreshUser(r)
    \/ GrantUser(r)
    \/ GrantSession(r)
    \/ GrantCreate(r)
    \/ AuthorizeUser(r)
    \/ Reply(r)

Environment ==
    \/ \E u \in Users : SocialLogin(u) \/ DeleteUser(u)
    \/ \E u \in Users : \E st \in {"ACTIVE", "SUSPENDED"} : UpdateStatus(u, st)
    \/ \E k \in Users \X Sids : SessionExpire(k)

Next ==
    /\ \/ \E r \in Requests : Arrivals(r) \/ Handler(r) \/ SetexLost(r) \/ Crash(r)
       \/ Environment
    /\ Witness

Spec == Init /\ [][Next]_vars

\* The event loop resumes every coroutine whose await has completed.
Fairness == \A r \in Requests : WF_vars(Handler(r) /\ Witness)

FairSpec == Spec /\ Fairness

-----------------------------------------------------------------------------
(***************************************************************************)
(* Properties                                                              *)
(***************************************************************************)

\* Once the session of an issued token has ended - deleted by a logout or
\* expired - no handler makes its key exist again: not refreshing, introspecting,
\* a second login or an OIDC refresh grant, and no SETEX that is sent again.
NoSessionRevival ==
    [][\A t \in access : Key(t) \notin session => Key(t) \notin session']_vars

\* Logout is effective: once a logout has replied, no request that arrives
\* later with a token of any session that had tokens when that logout arrived is
\* served, by an endpoint behind get_current_user (those behind a permission
\* included), by introspection or by /auth/refresh; whatever logins, refreshes and
\* other logouts ran in between, crashed or tried again.
LogoutIsEffective ==
    \A r \in Requests :
        pc[r] = "served" /\ tok[r].sid # NoSid => "spent" \notin seen[r]

\* A request with a session-bound token is served only if its session was alive
\* at some instant between its arrival and its reply.
ServedWhileLive ==
    \A r \in Requests :
        pc[r] = "served" /\ tok[r].sid # NoSid => "live" \in seen[r]

\* An endpoint that compares the status - behind get_current_active_user,
\* introspection, /auth/refresh - serves a request only if its user was ACTIVE at
\* some instant between its arrival and its reply, whatever the administrator
\* does meanwhile.  The endpoints behind a permission (Managed), the refresh grant
\* ("granted") and silent SSO ("coded") do not compare it, and are not covered.
ServedWhileActive ==
    \A r \in Requests :
        pc[r] = "served" /\ op[r] \notin Managed => "active" \in seen[r]

\* A suspension takes hold where the status is compared: a user who stays
\* suspended is, from some point on, never served again by an endpoint outside
\* /tenants and /platform, although the sessions and tokens are still there.
SuspensionTakesHold ==
    \A u \in Users :
        <>[](status[u] = "SUSPENDED")
        => <>[](\A r \in Requests :
                    pc[r] = "served" /\ op[r] \notin Managed => tok[r].user # u)

\* api/v1/platform/user.py says of PATCH /platform/users/{user_id}: "Suspend /
\* activate user."  So, of everything, the endpoints behind a permission included:
\* a request is served only if its user was ACTIVE at some instant of it.
ManagedWhileActive ==
    \A r \in Requests : pc[r] = "served" => "active" \in seen[r]

\* docs/pages/security-overview.md, 4: refresh tokens are "Tied to Redis
\* session" and "Refresh fails if session deleted (logout) or evicted".  Said of
\* the refresh grant of /oidc/token.
GrantOnlyWhileLive ==
    \A r \in Requests :
        pc[r] = "granted" /\ tok[r].sid # NoSid => "live" \in seen[r]

\* api/dependencies/auth_deps.py says of get_current_user_optional: "Like
\* get_current_user but returns None instead of 401.  Used by OIDC /authorize to
\* check for an existing authenticated session".  So a code is issued without a
\* login only while the session of the token lives.
SilentSsoWhileLive ==
    \A r \in Requests :
        pc[r] = "coded" /\ tok[r].sid # NoSid => "live" \in seen[r]

\* docs/pages/api-reference.md, 3: POST /auth/logout is to "Revoke session,
\* blacklist token".  So a token that a logout was called with, or whose session
\* it ended, serves no request that arrives after the logout's reply.
LogoutRevokesItsToken ==
    \A r \in Requests : pc[r] = "served" => "spent" \notin seen[r]
=============================================================================
