----------------------------- MODULE ApiClient -----------------------------
(***************************************************************************)
(* One browser tab of the dashboard: the persisted auth-store, the         *)
(* interceptors of apiClient (headers on the way out, refresh and retry on *)
(* 401), the AuthGuard, the tenant selector and the query cache they read. *)
(*                                                                         *)
(* A request is started, answered by the API, and after a 401 waits for    *)
(* /auth/refresh; between these steps the user may log out, log in as      *)
(* somebody else, change page or organization.  A document load            *)
(* (window.location, the address bar) ends every request and empties the   *)
(* query cache; the store survives it.  A navigation of the router does    *)
(* neither.                                                                *)
(*                                                                         *)
(* An access token is the server session it belongs to and whether it has  *)
(* expired; a refresh token is its session.  Other tabs are left out.      *)
(***************************************************************************)
EXTENDS Naturals, FiniteSets

CONSTANTS
    Users,        \* accounts
    PlatformUsers,\* accounts with a role of scope PLATFORM
    Sessions,     \* server sessions; bounds the logins
    Owner,        \* Sessions -> Users
    Tenants,
    TenantsOf,    \* Users -> the organizations GET /me/tenants returns
    FirstTenant,  \* Users -> the first of that list
    Requests,     \* requests that can be in flight at once
    NoUser, NoSession, NoTenant

ASSUME ApiClientAssumption ==
    /\ PlatformUsers \subseteq Users
    /\ Owner \in [Sessions -> Users]
    /\ TenantsOf \in [Users -> SUBSET Tenants]
    /\ FirstTenant \in [Users -> Tenants]
    /\ \A u \in Users : FirstTenant[u] \in TenantsOf[u]
    /\ NoUser \notin Users /\ NoSession \notin Sessions
    /\ NoTenant \notin Tenants

NoToken == [sess |-> NoSession, old |-> FALSE]
AccessTokens == [sess : Sessions, old : BOOLEAN]
Pages == {"login", "tenant", "platform"}

VARIABLES
    store,      \* auth-store: accessToken, refreshToken, user, activeTenantId
    page,       \* the route: the login page, or one under a dashboard layout
    verifyDue,  \* the query ["verifyUser", accessToken] is still to be fetched
    myTenants,  \* the cached ["myTenants"]: whose list it is, if there is one
    req,        \* per slot: the request in flight, if any
    ended,      \* server sessions that are over
    issued,     \* server sessions that exist or existed
    \* History, read by no action
    seen,       \* users whose data this document has held since it was loaded
    crossed,    \* a request one user started ran with another user's token
    signedOut,  \* the last session action of the user was Log out
    pending,    \* a refresh was in flight when Log out was clicked
    lost        \* an answer to GET /me/ was lost

history == <<seen, crossed, signedOut, pending, lost>>
vars == <<store, page, verifyDue, myTenants, req, ended, issued, history>>

Idle == [at |-> "idle", op |-> "page", by |-> NoUser, tok |-> NoToken,
         snap |-> NoSession, again |-> FALSE]
RequestSet ==
    [at : {"idle", "sent", "refreshing"},
     op : {"login", "me", "tenants", "page"},
     by : Users \cup {NoUser}, tok : AccessTokens \cup {NoToken},
     snap : Sessions \cup {NoSession}, again : BOOLEAN]
StoreSet ==
    [token : AccessTokens \cup {NoToken}, rtoken : Sessions \cup {NoSession},
     user : Users \cup {NoUser}, tenant : Tenants \cup {NoTenant}]

ClientTypeOK ==
    /\ store \in StoreSet /\ page \in Pages /\ verifyDue \in BOOLEAN
    /\ myTenants \in Users \cup {NoUser}
    /\ req \in [Requests -> RequestSet]
    /\ ended \subseteq issued /\ issued \subseteq Sessions
    /\ seen \subseteq Users /\ crossed \in BOOLEAN
    /\ signedOut \in BOOLEAN /\ pending \in BOOLEAN /\ lost \in BOOLEAN

EmptyStore == [token |-> NoToken, rtoken |-> NoSession, user |-> NoUser,
               tenant |-> NoTenant]

ClientInit ==
    /\ store = EmptyStore /\ page = "login" /\ verifyDue = FALSE
    /\ myTenants = NoUser /\ req = [r \in Requests |-> Idle]
    /\ ended = {} /\ issued = {} /\ seen = {}
    /\ crossed = FALSE /\ signedOut = FALSE /\ pending = FALSE /\ lost = FALSE
-----------------------------------------------------------------------------
SignedIn(st) == st.token # NoToken
TokenOwner(t) == IF t = NoToken THEN NoUser ELSE Owner[t.sess]
Valid(t) == t # NoToken /\ ~t.old /\ t.sess \notin ended

\* setTokens and logout of the store.
WithTokens(st, s) ==
    [st EXCEPT !.token = [sess |-> s, old |-> FALSE], !.rtoken = s]

\* AuthGuard renders its children: the layout, its menu and the page.
Rendered(st, p) == p # "login" /\ SignedIn(st) /\ st.user # NoUser

\* The effect of TenantSelector, which runs when it is mounted and whenever its
\* list or the active organization changes: an organization that is not in the
\* list is replaced by the first one.
Settled(st, p, list) ==
    IF Rendered(st, p) /\ list # NoUser /\ st.tenant \notin TenantsOf[list]
    THEN [st EXCEPT !.tenant = FirstTenant[list]]
    ELSE st

\* Broken variant: the query cache outlives the document.
LoadKeepsCache(p, st) ==
    /\ store' = st /\ page' = p
    /\ req' = [r \in Requests |-> Idle]
    /\ UNCHANGED myTenants
    /\ verifyDue' = SignedIn(st)
    /\ seen' = {TokenOwner(st.token), st.user} \ {NoUser}
    /\ crossed' = FALSE /\ lost' = FALSE

\* A document load.  What is left of earlier users is in the store.
Load(p, st) ==
    /\ store' = st /\ page' = p
    /\ req' = [r \in Requests |-> Idle]
    /\ myTenants' = NoUser
    /\ verifyDue' = SignedIn(st)
    /\ seen' = {TokenOwner(st.token), st.user} \ {NoUser}
    /\ crossed' = FALSE /\ lost' = FALSE

\* The request interceptor puts the access token of the store in the header.
Send(r, op) ==
    /\ req[r].at = "idle"
    /\ req' = [req EXCEPT ![r] =
                 [Idle EXCEPT !.at = "sent", !.op = op, !.tok = store.token,
                              !.by = TokenOwner(store.token)]]

Finish(r) == req' = [req EXCEPT ![r] = Idle]
-----------------------------------------------------------------------------
\* Any credentials are submitted on the login page.
SendLogin(r) ==
    /\ page = "login"
    /\ Send(r, "login")
    /\ UNCHANGED <<store, page, verifyDue, myTenants, ended, issued, history>>

\* handleLoginSuccess: tokens, user, and a navigation of the router.
LoginAnswered(r, s) ==
    /\ req[r].at = "sent" /\ req[r].op = "login" /\ s \notin issued
    /\ issued' = issued \cup {s}
    /\ page' = "tenant"
    /\ store' = Settled([WithTokens(store, s) EXCEPT !.user = Owner[s]],
                        "tenant", myTenants)
    /\ verifyDue' = TRUE
    /\ Finish(r)
    /\ seen' = seen \cup {Owner[s]}
    /\ signedOut' = FALSE
    /\ UNCHANGED <<myTenants, ended, crossed, pending, lost>>

\* AuthGuard's query, fetched when the guard is mounted under a new token.
SendVerify(r) ==
    /\ page # "login" /\ SignedIn(store) /\ verifyDue
    /\ Send(r, "me")
    /\ verifyDue' = FALSE
    /\ UNCHANGED <<store, page, myTenants, ended, issued, history>>

\* The list of the selector, unless it is cached: the default staleTime is five
\* minutes, and the key names no user.
SendTenants(r) ==
    /\ Rendered(store, page) /\ myTenants = NoUser
    /\ \A q \in Requests : req[q].at # "idle" => req[q].op # "tenants"
    /\ Send(r, "tenants")
    /\ UNCHANGED <<store, page, verifyDue, myTenants, ended, issued, history>>

\* Any other request of the page that is shown.
SendPage(r) ==
    /\ Rendered(store, page)
    /\ Send(r, "page")
    /\ UNCHANGED <<store, page, verifyDue, myTenants, ended, issued, history>>

\* The API serves the request for the user of the token it carries.
Served(r) ==
    LET as == TokenOwner(req[r].tok) IN
    /\ req[r].at = "sent" /\ req[r].op # "login" /\ Valid(req[r].tok)
    /\ Finish(r)
    /\ myTenants' = IF req[r].op = "tenants" THEN as ELSE myTenants
    /\ store' = Settled(IF req[r].op = "me" THEN [store EXCEPT !.user = as]
                                            ELSE store, page, myTenants')
    /\ crossed' = (crossed \/ as # req[r].by)
    /\ UNCHANGED <<page, verifyDue, ended, issued, seen, signedOut, pending,
                   lost>>

\* No answer: the query or mutation fails.  AuthGuard turns it into null data,
\* which it keeps for five minutes.
Dropped(r) ==
    /\ req[r].at = "sent"
    /\ Finish(r)
    /\ lost' = (lost \/ req[r].op = "me")
    /\ UNCHANGED <<store, page, verifyDue, myTenants, ended, issued, seen,
                   crossed, signedOut, pending>>

\* A request is answered 401: its token is no longer good, or the credentials
\* of a login are wrong.
Refused(r) == req[r].at = "sent" /\ (req[r].op = "login" \/ ~Valid(req[r].tok))

\* Broken variant: a request that was resent is refreshed again.
BeginRefreshAlways(r) ==
    /\ Refused(r) /\ store.rtoken # NoSession
    /\ req' = [req EXCEPT ![r].at = "refreshing", ![r].again = TRUE,
                          ![r].snap = store.rtoken]
    /\ UNCHANGED <<store, page, verifyDue, myTenants, ended, issued, history>>

\* The first 401: the refresh token is read now, and sent.
BeginRefresh(r) ==
    /\ Refused(r) /\ ~req[r].again /\ store.rtoken # NoSession
    /\ req' = [req EXCEPT ![r].at = "refreshing", ![r].again = TRUE,
                          ![r].snap = store.rtoken]
    /\ UNCHANGED <<store, page, verifyDue, myTenants, ended, issued, history>>

\* The first 401 and no refresh token: the store is emptied, /login is loaded.
NoRefresh(r) ==
    /\ Refused(r) /\ ~req[r].again /\ store.rtoken = NoSession
    /\ Load("login", EmptyStore)
    /\ UNCHANGED <<ended, issued, signedOut, pending>>

\* The second 401 is the caller's: AuthGuard logs out, the others show an error.
Rejected(r) ==
    /\ Refused(r) /\ req[r].again
    /\ Finish(r)
    /\ store' = IF req[r].op = "me" THEN EmptyStore ELSE store
    /\ UNCHANGED <<page, verifyDue, myTenants, ended, issued, history>>

\* Broken variant: only the access token is replaced.
RefreshedAccessOnly(r) ==
    /\ req[r].at = "refreshing" /\ req[r].snap \notin ended
    /\ store' = Settled([store EXCEPT
                           !.token = [sess |-> req[r].snap, old |-> FALSE]],
                        page, myTenants)
    /\ req' = [req EXCEPT ![r].at = "sent", ![r].tok = store'.token]
    /\ verifyDue' = TRUE
    /\ UNCHANGED <<page, myTenants, ended, issued, history>>

\* New tokens: whatever the store holds by now is overwritten, and the request
\* goes out again under them.  They are a new key of AuthGuard's query.
Refreshed(r) ==
    /\ req[r].at = "refreshing" /\ req[r].snap \notin ended
    /\ store' = Settled(WithTokens(store, req[r].snap), page, myTenants)
    /\ req' = [req EXCEPT ![r].at = "sent", ![r].tok = store'.token]
    /\ verifyDue' = TRUE
    /\ UNCHANGED <<page, myTenants, ended, issued, history>>

\* /auth/refresh fails, or cannot be reached.
RefreshFailed(r) ==
    /\ req[r].at = "refreshing"
    /\ Load("login", EmptyStore)
    /\ UNCHANGED <<ended, issued, signedOut, pending>>
-----------------------------------------------------------------------------
\* Broken variant: the store is emptied, the refresh token stays.
LogOutKeepsRefresh ==
    /\ Rendered(store, page)
    /\ store' = [EmptyStore EXCEPT !.rtoken = store.rtoken]
    /\ page' = "login"
    /\ signedOut' = TRUE
    /\ pending' = \E r \in Requests : req[r].at = "refreshing"
    /\ UNCHANGED <<verifyDue, myTenants, req, ended, issued, seen, crossed,
                   lost>>

\* Log out in the menu of the layout.  The API is not called, nor is the query
\* cache emptied or a request cancelled.
LogOut ==
    /\ Rendered(store, page)
    /\ store' = EmptyStore
    /\ page' = "login"
    /\ signedOut' = TRUE
    /\ pending' = \E r \in Requests : req[r].at = "refreshing"
    /\ UNCHANGED <<verifyDue, myTenants, req, ended, issued, seen, crossed,
                   lost>>

\* Broken variant: the guard looks at the user of the store, not the token.
GuardRedirectUser ==
    /\ page # "login" /\ ~SignedIn(store) /\ store.user # NoUser
    /\ page' = "login"
    /\ UNCHANGED <<store, verifyDue, myTenants, req, ended, issued, history>>

\* AuthGuard's effect without a token, and PlatformLayout's without a platform
\* role.
GuardRedirect ==
    /\ page # "login" /\ ~SignedIn(store)
    /\ page' = "login"
    /\ UNCHANGED <<store, verifyDue, myTenants, req, ended, issued, history>>

PlatformRedirect ==
    /\ page = "platform" /\ Rendered(store, page)
    /\ store.user \notin PlatformUsers
    /\ page' = "tenant"
    /\ UNCHANGED <<store, verifyDue, myTenants, req, ended, issued, history>>

\* The links of the top bar.
Navigate(p) ==
    /\ Rendered(store, page) /\ p # page /\ p # "login"
    /\ p = "platform" => store.user \in PlatformUsers
    /\ page' = p
    /\ UNCHANGED <<store, verifyDue, myTenants, req, ended, issued, history>>

\* The address bar.
Open(p) == Load(p, store) /\ UNCHANGED <<ended, issued, signedOut, pending>>

\* The selector's menu.
SelectTenant(t) ==
    /\ Rendered(store, page) /\ myTenants # NoUser
    /\ t \in TenantsOf[myTenants]
    /\ store' = [store EXCEPT !.tenant = t]
    /\ UNCHANGED <<page, verifyDue, myTenants, req, ended, issued, history>>

\* The cached list is older than five minutes, or was collected.
CacheExpires ==
    /\ myTenants # NoUser
    /\ myTenants' = NoUser
    /\ UNCHANGED <<store, page, verifyDue, req, ended, issued, history>>

\* At the API: the access tokens issued so far for a session expire, or the
\* session is ended elsewhere.
AccessExpires(s) ==
    LET Aged(t) == IF t.sess = s THEN [t EXCEPT !.old = TRUE] ELSE t IN
    /\ s \in issued
    /\ store' = [store EXCEPT !.token = Aged(store.token)]
    /\ req' = [r \in Requests |-> [req[r] EXCEPT !.tok = Aged(req[r].tok)]]
    /\ UNCHANGED <<page, verifyDue, myTenants, ended, issued, history>>

SessionEnds(s) ==
    /\ s \in issued \ ended
    /\ ended' = ended \cup {s}
    /\ UNCHANGED <<store, page, verifyDue, myTenants, req, issued, history>>
-----------------------------------------------------------------------------
Answer(r) ==
    \/ \E s \in Sessions : LoginAnswered(r, s)
    \/ Served(r) \/ Dropped(r)
    \/ BeginRefresh(r) \/ NoRefresh(r) \/ Rejected(r)
    \/ Refreshed(r) \/ RefreshFailed(r)

ClientNext ==
    \/ \E r \in Requests :
          \/ SendLogin(r) \/ SendVerify(r) \/ SendTenants(r) \/ SendPage(r)
          \/ Answer(r)
    \/ LogOut \/ GuardRedirect \/ PlatformRedirect \/ CacheExpires
    \/ \E p \in Pages : Navigate(p) \/ Open(p)
    \/ \E t \in Tenants : SelectTenant(t)
    \/ \E s \in Sessions : AccessExpires(s) \/ SessionEnds(s)

ClientSpec == ClientInit /\ [][ClientNext]_vars

\* Requests are answered, or time out, and React runs its effects; what the
\* user and the clock do is not fair.
ClientFair ==
    /\ \A r \in Requests : WF_vars(Answer(r))
    /\ WF_vars(GuardRedirect)
    /\ WF_vars(\E r \in Requests : SendVerify(r))

ClientLiveSpec == ClientSpec /\ ClientFair
-----------------------------------------------------------------------------
\* While a document has held the data of one user only, what it shows and sends
\* is that user's: the user in the store owns the access token, the cached
\* organizations and the selected one are the user's, and no request was ever
\* run for somebody other than who started it.  Only the reload after a failed
\* refresh separates two users; Log out does not.
IdentityPerLoad ==
    Cardinality(seen) <= 1 =>
      /\ SignedIn(store) /\ store.user # NoUser =>
           store.user = TokenOwner(store.token)
      /\ myTenants # NoUser => myTenants \in seen
      /\ Rendered(store, page) /\ myTenants # NoUser =>
           store.tenant \in TenantsOf[store.user]
      /\ ~crossed

\* After Log out the tab holds tokens again only if a refresh was under way when
\* it was clicked; no request that is answered later brings them back.
LogOutStands == signedOut /\ ~pending => ~SignedIn(store)

\* The two tokens of the store are always of one session: a refresh, whichever
\* request asked for it, replaces both.
TokensTogether == store.rtoken = store.token.sess

\* A request is refreshed and resent once: it settles, however often the tokens
\* expire meanwhile.
RequestsSettle ==
    \A r \in Requests : req[r].at # "idle" ~> req[r].at = "idle"

\* Unless the user reloads, or tokens expire, for ever, a page behind AuthGuard
\* is shown or left, except where the answer to GET /me/ was lost: then the
\* guard shows nothing for as long as the null answer is fresh.
GuardDecides ==
    <>[][ /\ \A p \in Pages : ~Open(p)
          /\ \A s \in Sessions : ~AccessExpires(s) ]_vars =>
      (page # "login" ~> (Rendered(store, page) \/ page = "login" \/ lost))
=============================================================================
