# AuthEngine in TLA+

AuthEngine is an identity provider: a FastAPI service (`apps/api`) over
PostgreSQL, Redis and MongoDB, and a Next.js dashboard (`apps/dashboard`). This
directory models the parts of the service, and the pages of the dashboard, whose
correctness depends on the order of events, checks them with TLC on small
instances, and proves the main results for every instance with TLAPS. Paths below
are relative to `apps/api/src/auth_engine/` in sections about the service and to
`apps/dashboard/src/` in sections about the dashboard, unless they start with
`docs/` or `apps/`.

## 1. Inventory

The service keeps its durable state in three places: rows in Postgres (users,
roles, tenants, credentials, clients), keys with a TTL in Redis (sessions,
one-time grants, challenges, OTPs), and what has been handed out and cannot be
called back (signed JWTs, mails). A request is a coroutine. The event loop
interleaves requests at each `await`, several workers run side by side, each
request has a database session of its own, and Redis commands are atomic one by
one and not in groups. The Redis client repeats a command whose reply is lost
(`core/redis.py:25-29`).

| Component | State | Operations | What makes it hard | Correct when |
|---|---|---|---|---|
| Sessions and tokens (`services/session_service.py`, `api/dependencies/auth_deps.py`, `api/v1/public/auth.py`, `introspect_service.py`, `select_tenant.py`, refresh grant in `oidc/token.py`) | Redis `session:{user}:{sid}`; `users.status`; the JWTs out there | create_session, guards, logout (KEYS + DEL), refresh, introspect, select_tenant, refresh grant, suspend, delete | checks and actions are awaits apart; tokens outlive sessions; some tokens name no session | what was ended stays ended; nobody is served without a live session, nor, where the status is compared, without an ACTIVE account |
| Magic links (`services/magic_link_service.py`, `auth_strategies/magic_link.py`) | Redis `magic:jti:{jti}` | request, mail, rollback, verify | mail and key race; a failed mail may arrive; two openings | one session per link, refused only for a cause |
| Authorization codes (`api/v1/oidc/authorize.py`, `token.py`) | Redis `oidc:code:{code}` | issue, exchange | GET and DEL apart; deleted before it is checked | one session per code; a presented code is burned |
| Second factor (`services/totp_service.py`) | `users.mfa_enabled`, `mfa_secret`; Redis `mfa:pending:{user}`, `mfa:enroll:{user}` | enroll, confirm, disable, suspend a login, complete it | the row changes under a login; one slot per user; a transaction across Redis commands | the factor is not skipped; only a confirmed secret is enabled |
| Password login (`services/auth_service.py`) | `users.password_hash`, `failed_login_attempts`; Redis `otp:phone`, `otp:cooldown` | register, authenticate, reset, change, verify e-mail and phone | read-modify-write of the counter; check-then-insert; check-then-set of the cooldown | no failure is lost; a lock holds; a newer OTP survives |
| Passkeys (`services/webauthn_service.py`) | `webauthn_credentials`; Redis `webauthn:reg`, `webauthn:auth` | two ceremonies, delete credential | challenge read and deleted apart; sign counter written from a stale read | challenge used once; counter never goes back |
| Social login (`services/oauth_service.py`) | `oauth_accounts`; Redis `oauth:state` | state, callback, find or create user | two callbacks of one new user | one account per provider identity |
| Roles and tenants (`services/role_service.py`, `tenant_service.py`, `permission_service.py`) | `roles`, `user_roles`, `tenants` | create, clone, update, delete, assign, remove, invite | decisions on roles loaded earlier | nobody hands out what is not below them |
| Tenant policy and configuration (`tenant_auth_config_service.py`, `api/v1/tenants/*_config.py`) | one policy row, several provider rows per tenant | get or create, create, update, activate, delete | check-then-insert; "deactivate the others" | one policy, one active provider |
| Service keys (`api/v1/platform/service_api_key.py`) | `service_api_keys` | create, revoke, guard | none beyond one row | a revoked key is refused |

Interactions. Every way to log in ends in `SessionService.create_session` and
`AuthService.create_tokens`, except social login, which issues tokens without a
session. Every guarded endpoint begins in `get_current_user`, which compares no status:
`get_current_active_user` does, the checkers of `api/dependencies/rbac.py`, which
guard all of /tenants/* and /platform/*, do not. A password login
asks the tenant's policy, then the second factor. Magic links, authorization
codes, suspended logins, passkey challenges and OAuth states are the same
protocol five times over: SETEX, later GET and DEL, then act.

The dashboard is one React application in a browser tab. Its state is the
persisted auth store, the query cache (both survive a page change of the router;
only the store survives a document load), and the state of the page that is
mounted. Requests are not cancelled: when a page, a tab of a page or a dialog is
left, its answers still come and still run the handlers of the mutation. Modal
dialogs block the rest of the page, the tenant selector included; an answer does
not ask.

| Component | State | Operations | What makes it hard | Correct when |
|---|---|---|---|---|
| API client, store, guard (`lib/api-client.ts`, `stores/auth-store.ts`, `components/auth/*`, the layouts) | accessToken, refreshToken, user, activeTenantId; requests in flight | attach headers, refresh and retry on 401, log out, guard, select an organization | refreshes that overlap one another and a log out; caches that outlive a user | one document shows one user; log out stands; every request settles |
| Query cache (`components/providers.tsx`) | per key: data, fetch, stale | mount, invalidate, answer, fail | an invalidation during a first fetch is not heard | what is shown is what the API has |
| Login (`app/(auth)/login/page.tsx`) | challenge, enrollment, sent panel, cooldown | password, link, passkey, code, enroll, Back | answers after Back; one state for two screens | a login that was given up stays out |
| Landing (`magic-link/verify`, `oauth/[provider]/callback`, `register`) | the awaits of the page | exchange, GET /me/, sign in | two requests, of which one may fail; a session that was there before | signed in whole or not at all, as the owner |
| Recovery (`forgot-password`, `magic-link`, `reset-password`, `verify-email`) | field, sent panel, outcome, a timer | send, validate, reset, verify | edits during a request; tokens that expire; lost answers | what is announced is done |
| Account (`me`, `me/security`, `verify-phone`, `components/security/*`) | dialogs; queries verifyUser, mfaStatus, passkeys | edit, verify the phone, enroll, confirm, disable, set a password, add and remove a passkey | requests left behind by a tab; two writers of one record | what is shown is what the API has |
| Organization (`tenant/{users,communications,social,settings}`) | lists per organization, dialogs, one form | invite, assign, remove; add, edit, activate, switch, delete, test; save settings | the organization is switched, the dialog replaced, before the answer | what is saved was typed for what it is saved for |
| Accounts of the platform (`platform/users`, `platform/users/[userId]`) | the queries allUsers and platformUser; a dialog, the role and organization picked | set the status, delete, assign and remove a role | two pages and two queries of the same accounts; requests outlive the page they were sent from | what is shown is what the API has; a role is sent for its organization |
| One-time secrets (`platform/{service-keys,oidc-clients}`) | dialog, secret, list | create, show, revoke | the only copy of a secret is in an answer | shown once, kept until put away |

## 2. Plan

Written, in this order:

1. `Sessions`: everything else feeds it or depends on it.
2. `OneTimeGrant`, the abstract protocol, and `MagicLink`, which implements it;
   `PasswordLogin`, the other login by e-mail: registration, the lockout, the three
   ways a password is set. `EmailLogins` composes the two.
3. `OidcCode`, which implements it except for codes that two exchanges read at
   once.
4. `MfaTotp`, likewise, with the row lock of Postgres.
5. `ApiClient`: the dashboard's tab, its store, its refresh on 401.
6. `QueryCache`, the one query that all pages are built on, with lemmas of its
   own.
7. The pages: `LoginPage`, `LandingPages`, `RecoveryPages`, `OneTimeSecrets`;
   `PhonePages`, `SecurityCards`, `TenantSettings`, `PlatformAccounts`;
   `PasskeyCard`, `TenantUsers`, `Communications`, `SocialProviders`. The modules
   of each group are composed by one module (`FormPages`, `RecordPages`,
   `ListPages`).

Next:

8. `Verifications`: the OTPs of e-mail addresses and phone numbers, with the
   cooldown, under two overlapping requests.
9. `WebAuthn`: the fourth implementation of `OneTimeGrant`; sign counter and the
   writers of `auth_strategies`.
10. `Rbac`: levels, templates and clones, membership, invitation, the platform
    tenant; with it the remaining pages (tenant/roles, platform/tenants,
    platform/roles).
11. `SocialLogin`: state, find or create, linking.
12. `TenantConfig`: the policy row and the social providers under overlapping
    requests, and the resolvers of mail and SMS.

What a test would hardly reach in the modules to come: check-then-insert of policy
rows and linked accounts (`oauth_service.py:146`,
`tenant_auth_config_service.py:103`); an OTP that overwrites or deletes a newer one
(`auth_service.py:384,443`); challenges and states read and deleted apart
(`webauthn_service.py:206`, `oauth_service.py:92`); `auth_strategies` and the sign
counter written from stale reads (`webauthn_service.py:131,234`); a resolver that finds two active
configurations (`email_config_repo.py:29`); levels compared with roles
loaded earlier (`role_service.py:504`); an invitation that commits an account and is
then refused (`tenant_service.py:398`).

The set of runs is kept at a dozen, so that all of it can be repeated after every
change. A module that comes shares a run with modules of its kind, or takes the
place of a run that records a known divergence (section 4).

## 3. Modules and how they map to the code

Common conventions. A request is in one state per `await` (`pc`); an action is
the code from one await to the next, with every early return. Locals that
survive an await are variables (`tok`, `link`, `code`, ...). `Crash(r)` is the
worker dying, or any failure after which the handler gives up; it keeps what
Redis and Postgres have. `Reply(r)` ends a request. Variables listed under
"History" are read by no action; they record what the properties talk about.
Comments that start "Broken variant" precede definitions nothing uses: each is
the definition next to it with a plausible mistake, and the project's mutants
put it in the place of the right one to see the property fail.

**`Sessions`.** `session` is the set of Redis keys, `status` the column with
"absent" for no row, `access` and `refresh` the tokens issued, of which only
(sub, sid) is kept. Tokens are never removed: an expired one is one its holder
does not present. Logout is KEYS (`LogoutKeys`) and DEL (`LogoutDel`); guard,
introspection and refresh are a session check and a row check; the refresh grant
of /oidc/token is `GrantUser`, `GrantSession`, `GrantCreate`. The blacklist is
left out because nothing writes it and no session token has a `jti`. `SetexLost`
is a SETEX sent again: the id it uses stays in `keys[r]`.

There are two guards. Behind `get_current_active_user` (`Guarded`) the status is
compared. Behind a permission (`Managed`, which is all of /tenants/* and
/platform/*) it is not: the three checkers of `api/dependencies/rbac.py` depend on
`get_current_user`, and `PermissionService.has_permission` (`CheckPermission`) only
looks for a role. A suspended user with a live token goes on being served by
`/tenants/*` and `/platform/*` (`ManagedWhileActive`, section 4). Silent SSO and the
refresh grant do not compare the status either; their answers are told apart
("coded", "granted") and no property about suspension covers them.

**`OneTimeGrant`.** A grant is unissued, valid, claimed, redeemed, void or shared;
it is redeemed from "claimed" only, and a new grant may take the place of a valid
one. A shared grant is one that two presenters had in hand at once; nothing is
promised of it. `MagicLink` never shares a grant, because it looks at what DEL
returned; the two modules below do, and say when: a request reads a grant that
another has read and is not done with (`Rival`).

**`MagicLink`.** `flag` is the set of keys `magic:jti:*`, `inbox` what has been
delivered, `expired` the links whose `exp` has passed (a clock apart from the
key's TTL). `RequestSend` fails before or after delivery. `VerifyDel` looks at
what DEL returned, so that a DEL sent again (`VerifyDelLost`) refuses its own
sender: the link is lost then, never doubled.

**`PasswordLogin`.** `hash` is the column `password_hash` (`Absent` for no account),
`failed` the counter. A request reads its row once, in `LoginReads`, `AskReads` or
`SetterReads`, and writes what follows from that row in a later step: `LoginWrong`
commits `seen + 1`, whatever the counter has become; `LoginRight` commits 0, unless
the counter it read was 0 already, when SQLAlchemy sees no change and writes
nothing. A full counter locks the account for good: no handler resets it but a login
that was let past it. `RegisterCommits` may keep the account and answer an error,
since the verifications are started after the COMMIT. The form of /oidc/authorize
compares a password without asking the counter or counting; the bound on guesses is
about POST /auth/login only. History: `guesses` counts the wrong passwords answered
since the last login that was let in, `entitled` holds the requests whose right held
at some instant (`Right`).

**`EmailLogins`** is the two of them; neither reads what the other writes, and a
behaviour is about one.

**`OidcCode`.** A token request is the way its redirect URI, client and verifier
compare with the payload. `TokenDel` deletes and then compares, in the order of
the code. `shared` is history: the codes that two exchanges had read at once.
Client authentication and the login page are what happens before
`TokenArrive` and `AuthorizeArrive`.

**`MfaTotp`.** `slot` maps the two keys of each user to the suspended login under
them, `made` remembers the key of each. A code stands for the secret it was
computed from. `ConfirmUpdate` within a login takes the row's lock and keeps it
over DEL and SETEX until `ConfirmCommit`, as the endpoint commits at its end;
updates of others wait (`Free`). Whether the tenant demands a second factor is a
free choice at each login. A suspended login may pay for a session by
`CompleteSession` or `ConfirmSession`. History: `confirmed` holds the secrets a
right code was given for, `shared` the logins two requests had read at once,
`overtaken` the users whose secret was last replaced while a confirmation of an
earlier one was between its check and its UPDATE, and `fit` the requests that had,
at some instant, the reason their session asks for.

**`ApiClient`.** A request is idle, sent or refreshing; `snap` is the refresh token
it read when its 401 came, `again` the `_retry` flag. `Load` is a document load:
requests and caches end, the store stays. Only the interceptor loads /login
(`NoRefresh`, `RefreshFailed`); `LogOut` and the guard navigate. `seen` (history)
is the set of users whose data the document has held, `crossed` says that a
request of one user was run with the token of another. The API is the sessions it
has issued and ended.

**`QueryCache`** has operators and no variables: what happens to one query when it
is observed, invalidated, answered or fails. A datum is a set of at most one
element. `deaf` is the case react-query does not hear: an invalidation during the
first fetch, or of a query nobody shows while it is fetched; the answer, read
before the change, counts as fresh. The pages apply these operators to their keys
exactly where the code mounts a query, changes its key or calls
`invalidateQueries`.

**`LoginPage`.** One variable per piece of state of the component; `mfaFor` and
`enrollFor` are the challenge and the enrollment that are shown, `loginJob`,
`linkJob`, ... the mutation in flight. Each 401 loads /login again
(the interceptor has no refresh token to try). `gaveUp` (history) is the set of
accounts whose challenge was left by Back. **`LandingPages`.** `step` is the await the
page stands at. **`RecoveryPages`.** Four pages without shared state; tokens are
signed statements that expire and may be used twice. The API accepts a request for a
mail without saying whether it sends one (`Accept`): it sends none for an unknown or
ineligible account, nor when the provider fails (`auth_service.py:187-189,226-227`,
`magic_link_service.py:70-79`). **`OneTimeSecrets`.** An
answer finds its page open, left, or opened again (`here`).

**`PhonePages`** includes the API's part: `phone` is the row, `otp` and `cooling`
the Redis keys. A PUT /me/ is sent, applied and read back (`puts`), and its answer is
then on the way like that of a GET: `answers` is the rows under way, in the order the
API read them, of which any may come next. `MaxUnderWay` bounds the requests under
way; a form that was closed leaves its PUT behind, and one that is opened again may
send another. A code is accepted and answered in one step, and the GETs /me/ that
have not reached the API are one. **An answer to PUT /me/ that comes after that of a
newer GET takes the newer row out of the store, for good** (`edit-profile-form.tsx:59`;
`StoredInOrder`, section 4).
**`SecurityCards`.** `cardJobs` are requests of the tab as it is, `orphans` those
of a tab that was left; `MaxLeft` bounds them. **`PasskeyCard`.** Registration is
two requests with the browser's prompt between them. **`TenantSettings`.** `sheet`
is the form, filled once when it is mounted. **`PlatformAccounts`.** Two pages that
the visitor goes to and fro between: `visited` is the account whose page is mounted,
leaving it loses `box` and `picks` and marks its requests (`here`), whose handlers
then invalidate, but close nothing. **`TenantUsers`**,
**`Communications`**, **`SocialProviders`.** The API is the rows per
organization; a request carries the organization, row and values it was sent
with, and its answer acts on the selected organization and the open dialog, as the
handlers do with the closures of the latest render. In the first and the last of the
three a request is read and applied at the API in the step that answers it, or it is
lost before or after. In `Communications` it is a transaction: `Begin` reads its row,
or that there is none; `Write` is the statements before the COMMIT, of which
deactivate_other_..._configs sees what is committed by then; the commit comes with
the answer (`Applied`). No lock and no unique index keeps two of them apart: the one
that updates a row another has written waits for it in Postgres, and waits for nothing
here, which only adds orders. **Two transactions that each activate a row leave
both active**, and delivery of mail then fails, since its resolver asks for one row
at most (`email_config_repo.py:29`; `ActiveIsUnique`, section 4). `crossed` (history)
is the organizations where that has happened.

`Max...Requests` bound how many requests one behaviour starts.

Each `MC<module>` gives TLC the symmetry of its instance; `MCSessions` also
declares the documented session limit, which no code uses. `FormPages`,
`RecordPages` and `ListPages` compose pages: `opened` is the page a behaviour
is about, chosen at the start, and the others stay closed, since in one document
only one page is mounted at a time and these pages share no state but the store,
which is `ApiClient`'s. The shared run costs the sum of the pages' states, not
their product. `<module>_proofs` holds the theorems.

## 4. Runs

| Run (cfg) | Instance | Shows |
|---|---|---|
| MCSessions | 1 user, 2 sessions, 2 requests | `LogoutIsEffective`, `ServedWhileLive`, `ServedWhileActive` (where the status is compared), `NoSessionRevival` |
| MCSessionsLive | 1 user, 1 session, 2 requests, fair | `SuspensionTakesHold` (where the status is compared) |
| MCEmailLogins | 1 user, 2 links, 3 requests; 1 address, 2 passwords, 2 requests, 20 guesses | `SingleUse` (refines `OneTimeGrant`), `FailedSendIsDead`, `RefusedForCause` (links); `GuessesAreBounded`, `LockHolds`, `CredentialsHeld` (passwords) |
| MCOidcCode | 1 user, 1 code, 2 requests | `SingleUse` (but for shared codes), `BurnedIsDead`, `RefusedForCause` |
| MCMfaTotp | 1 user, 2 secrets, 2 suspended logins, 2 requests | `SecondFactor`, `ConfirmedUnlessOvertaken`, `SingleUse` (but for shared logins) |
| MCApiClient | 2 users with a login and an organization each, 2 requests | `IdentityPerLoad`, `LogOutStands`, `TokensTogether` |
| MCApiClientLive | 1 user, 1 login, 2 organizations, 2 requests, fair | `RequestsSettle`, `GuardDecides` |
| MCFormPages | 2 accounts, 2 addresses, 2 credentials, one tick of cooldown | `PanelsNameAddress` (login and recovery), `SecretOfThisLogin`, `GivenUpStaysOut` (login), `SignedInWhole` (landing), `AnnouncedIsDone` (recovery), `ShownOnce`, `KeysAreListed`, `KeptUntilPutAway` (secrets) |
| MCRecordPages | 2 numbers, 2 requests of the profile under way, 2 secrets, 1 request left behind, 2 organizations, 2 values; 2 accounts with roles of 2 organizations, 2 requests | `RecordsAreCurrent` (profile, badges and accounts), `VerifiedByItsCode` (phone), `SecretShownIsOpen` (second factor), `SavedForItsOwn`, `UntouchedIsCurrent` (settings), `RoleOfHost` (accounts) |
| MCListPages | 2 passkeys; 2 organizations with 1 member, 2 rows or 2 providers each, 2 requests | `ListsAreTrue` (five lists), `SentForItsTarget` (three kinds of dialog), `OneActive` (configurations, unless two transactions each activate a row) |

A property that is a conjunction over pages has a part per page, each defined beside
its page (`PanelNamesField`, `FormOfItem`, `RolesAreListed`, ...), and a mutant for
each part. Type invariants are proved for every module with theorems, and repeated by
a run for `Sessions` only.

Bounds. The hazards are between two requests and one key, and every run of more
than one request has two at once (three for links: a failing sender and two who
open). Two sessions let a logout meet a session it knows and one it does not; a
login is an action like any other, so the ids limit how many there are, not
when. Two secrets let an enrollment replace another, two suspended logins let a login
overwrite one that is being completed. Two passwords tell a right one from a wrong
one and an old one from a new one; two requests at a time answer 6 + 5 + 4 + 3 + 2 =
20 wrong passwords, because each that commits late takes the counter back, but to a
higher value than the last time, and `MaxGuesses` = 20 is exact. More users would only add
independent copies, since no handler reads another user's state. Ids are drawn
from a finite set and never drawn twice, as uuid4 and `token_urlsafe` do. Deadlock
is not checked in these: once the ids are used up and the requests are over the
model stops, as the system does when nobody calls.

On the dashboard the hazards are an answer that comes after its place was left and
reused: one request in flight and one dialog, tab or organization opened since. Two
requests per behaviour (two kinds can be under way at once, never two of one kind),
two organizations, and two rows, secrets or numbers let each answer meet the other.
Two transactions over two rows are what it takes to activate both; two requests of
the profile under way let an older answer come after a newer.
One member is enough for the role dialog, because a request names the member it was
sent for and the dialogs of two members differ only in that name; the queries of
each are per member. One request left behind on /me/security lets a success meet a
tab that shows something else. Two accounts let an answer about one come to the page
of the other, and two requests let a deletion meet a change of status. One tick of cooldown tells zero from not zero.
Deadlock is not checked for the pages: a page on which the visitor has landed, or
whose requests are used up, stops. It is checked for `ApiClient`.

Runs that end in a violation record where the code and what it says part:

| Run | Statement | What happens |
|---|---|---|
| MCVerifyPhone | /verify-phone: "Please wait while we verify your code." (`app/(auth)/verify-phone/page.tsx:94`) | the page posts `{code}`, the endpoint requires the query parameters `user_id` and `otp`: every code is refused |
| MCCommUpdate | "Email configuration updated" (`tenant/communications/page.tsx:239`) | an answer to an Add empties the row of the Edit dialog opened since; Update then sends nothing and says it did |

Other statements do not hold of the code either. Each is a definition of the module
named; adding it to the cfg named, as an INVARIANT (`WrongCodeCanBeRetried` and
`StoredInOrder`, action properties: as a PROPERTY), gives the counterexample. They have no run of their own.

| Definition (module; cfg) | Statement | What happens |
|---|---|---|
| `GrantOnlyWhileLive` (Sessions; MCSessions) | "Refresh fails if session deleted (logout) or evicted" (docs/pages/security-overview.md:73) | the refresh grant of /oidc/token makes a new session instead |
| `SessionLimit` (MCSessions; MCSessions with six ids and one request) | "oldest session evicted when exceeded" (:77) | nothing counts or evicts |
| `LogoutRevokesItsToken` (Sessions; MCSessions) | "Revoke session, blacklist token" (docs/pages/api-reference.md:57) | a token without a `sid` lives on |
| `ManagedWhileActive` (Sessions; MCSessions) | "Suspend / activate user." (`api/v1/platform/user.py:86`) | /tenants/* and /platform/* do not compare the status: a suspended user is served |
| `SilentSsoWhileLive` (Sessions; MCSessions) | "Like get_current_user ..." (`auth_deps.py:104`) | silent SSO does not ask for the session |
| `CodesPayOnce` (OidcCode; MCOidcCode) | "authorization codes are single-use" (`token.py:256`) | two exchanges read before either deletes |
| `LoginsPayOnce` (MfaTotp; MCMfaTotp) | "`mfa:pending:{user_id}` is one-time" (security-overview.md:96) | the same with two completions |
| `EnabledIsConfirmed` (MfaTotp; MCMfaTotp) | "Enrollment requires confirming a valid code" (:97) | a second enrollment between check and UPDATE leaves an unconfirmed secret enabled |
| `WrongCodeCanBeRetried` (LoginPage; MCFormPages) | "Invalid MFA code. Please try again." (`app/(auth)/login/page.tsx:374`) | the 401 makes the interceptor load /login; the challenge is gone |
| `PanelsMeanMail` (RecoveryPages; MCFormPages) | "We've sent password reset instructions to", "We've sent a magic link to" (`forgot-password/page.tsx:82`, `magic-link/page.tsx:80`) | the API accepts and sends nothing, for an unknown account for one |
| `StoredInOrder` (PhonePages; MCRecordPages) | "Profile updated successfully" (`edit-profile-form.tsx:61`) is the last that is heard | the answer comes after that of a newer GET /me/ and overwrites it |
| `ActiveIsUnique` (Communications; MCListPages) | one row at most is active (`email_config_repo.py:23-29`) | two transactions activate a row each and do not see one another |
| `LandedUser` (LandingPages; MCFormPages) | GET /me/ is sent with the new token (`magic-link/verify/page.tsx:40-44`) | the interceptor puts the token of the session that was there before in its place |

What the properties of the pages leave out is as telling, and named by their history
variables: a form filled while a fetch is under way, or from data that are behind, is
never updated (`behind`, TenantSettings); an enrollment left behind makes the secret
shown since obsolete (`overtaken`, SecurityCards); a number that is changed with a
code out is verified by that code (`renumbered`, PhonePages); an answer that is lost or
comes out of order leaves the profile behind (`unheard`, PhonePages); a success after a
switch of organization, or for another dialog, invalidates the wrong list, which is
then behind for up to five minutes (`strayed`, `astray`, `staleUsers`,
`staleRoles`); closing the role dialog's footer keeps its member, closing it by
Escape drops it, and an answer that comes then invalidates nothing; a key whose
answer comes to a page that was left is active and its secret never shown
(OneTimeSecrets); an account deleted on its own page stays in the list, and one
changed or deleted on the list is shown as it was on its own page, until the query is
fetched again (`outdated`, PlatformAccounts).

Fairness. `SuspensionTakesHold` needs each handler to go on: `WF(Handler(r))` for
each request, because the event loop resumes every coroutine whose await has
completed, and Redis and Postgres answer or time out. Nothing is assumed of
arrivals, administrators, expiry or crashes. `RequestsSettle` and `GuardDecides`
need `ClientFair`: each request in flight is answered or fails (`Answer(r)`), and
React runs the effects of AuthGuard (`GuardRedirect`, `SendVerify`). Nothing is
assumed of the user, of the clock or of the sessions; `GuardDecides` therefore
supposes that the user stops reloading and tokens stop expiring.

## 5. Proofs

All theorems hold for every set of users, ids and requests, under the assumption
that the "none" values (`NoUser`, `NoSid`, ...) are not among them; the theorems that
count suppose in addition that the set of requests at a time is finite. Each
`_proofs` module of the service has an inductive invariant `IInv`, shown to hold
initially and to be kept by every action, one lemma per handler or one step per
action; the dashboard has one such invariant per page.

- `Sessions_proofs`: `TypeCorrect`, `LogoutEffective`, `ServedOnlyLive`,
  `ServedOnlyActive` (of the endpoints that compare the status), `SessionsEndOnce`. `LogoutIsEffective` is far from
  inductive: it speaks of a request that is being served, when all was decided
  earlier. `IInv` adds that covered claims name no live session (`SpentDead`);
  that a logout in progress owes, of the sessions it must end, no more than are in
  its list from KEYS (`LogoutOwes`); that a request past a check has the
  witness of that check (`Checked`); and, for `SpentDead` to be kept, that a
  session id in use has been drawn and is in one request's hand at most
  (`DrawnOnce`, `InHand`), which is what stops a login or a repeated SETEX
  from bringing a dead key back. `SuspensionTakesHold` is liveness, and two theorems
  carry what is safety in it: `SuspensionAdmitsNobody`, no step lets a request past
  a comparison of the status when the account is not ACTIVE (there is none at /tenants/*
  and /platform/*), and `HandlersEnd`, each step of a
  handler lowers `StepsLeft`, which starts at five and which no other step raises
  before the handler ends.
- `EmailLogins_proofs`, links: `TypeCorrect`, `LinksAreOneTime` (every step of
  MagicLink is a step of OneTimeGrant or leaves it alone), `LinksPayOnce`,
  `FailedSendDead`, `Refusals`. The invariant says that at most one request is past
  the DEL of a link, that its key is then gone, and that nothing has been paid for
  it. `LinksPayOnce` is then a fact about OneTimeGrant alone (`GrantsPayOnce`: what
  is paid for is redeemed, and stays so), carried over by the refinement.
- `EmailLogins_proofs`, passwords: `PasswordTypeCorrect`, `RightsAreHeld`,
  `LockIsFinal`, `GuessesBounded`. `RightsSeen` says that the right a request claims
  was recorded by the time its row had been read; `AttemptsOK` that a login that is
  let past the lock has read a counter below it, so that nothing can lower a full
  counter when no such login is left. `GuessesBounded` says that n requests at a time
  get (n + 5)!/(n! 5!) - 1 wrong passwords answered at most, for every n: 5, 20, 55,
  ... The argument is a budget. A request is beyond level s (`Beyond`) when the
  counter is above s and the request is not about to commit s + 1 or less. A wrong
  password committed from level s leaves the counter at s + 1: all requests leave the
  levels above, one more is beyond level s, and below it none is lost. A
  login that is let in starts the count of guesses again; nothing else takes a request
  out of `Beyond`. What m[s] requests beyond each of the
  five levels have spent at most, `Spent(m)`, is a sum of products of consecutive
  numbers (`Rise2` to `Rise5`), chosen so that one more at a level outweighs all that
  the levels above it lose, by one guess (`SpentWrong`). So no step spends more than
  it adds (`WithinBudget`, kept by `BudgetWrong` and `BudgetStep`), and there are n
  requests at most to be beyond each level. A recursion over n would need
  induction over data, which is out of the prover's reach; the products make one
  inductive invariant of it.
- `OidcCode_proofs`: `TypeCorrect`, `BurnedDead`, `RightClientRefusals`, and
  `CodesAreOneTime`, that every step is a step of OneTimeGrant or leaves it alone.
  For the last a second invariant (`Alone`) rests on the first: a code that is not
  shared has one exchange past its GET at most, which has not been paid, and whose
  DEL has removed the key. `UnsharedCodesPayOnce` reads this as a count, and
  `SharedCodesPayPerRequest` says what is left when codes are shared: what a code has
  paid for, and the exchanges that have it in hand, are together no more than the
  requests at a time (`HandsCount`), since a key that can still be read has paid
  nothing (`UnpaidWhileStored`).
- `MfaTotp_proofs`: `TypeCorrect`, `FactorNotSkipped` and `FactorConfirmed`,
  `LoginsAreOneTime`, `UnsharedLoginsPayOnce`, `SharedLoginsPayPerRequest`. The
  invariant keeps, for a request past its check of the row, that it is in `fit`.
  For `FactorConfirmed`, `ConfirmInv` adds that whoever is about to enable the
  factor has confirmed the secret the row holds, unless overtaken, and that
  between its UPDATE and its COMMIT it holds the row's lock, so that nobody can
  overtake it there. `LoginsAreOneTime` is the refinement of OneTimeGrant.
  Its invariant (`AloneInv`) has what `OidcCode` needs and more, because a login is
  kept in a slot that the next login of the user overwrites (a step `Replace`), and
  two handlers claim it: it is unpaid while it is in its slot (`UnpaidInSlot`), and
  who is past the DEL has emptied the slot of it for good (`LoginsOK`).
- `QueryCache_proofs`: what each operation of the cache does to `Sound(q, now)`: a
  query is deaf, or its data and the answer under way are what the API has, or it
  is stale and will be fetched again. Every list of the dashboard rests on these
  lemmas.
- `RecordPages_proofs`: all invariants of MCRecordPages and of MCApiClient, and the
  type invariants.
  `ClientInv` bounds by `seen` what store, list and requests hold (`StoreOK`,
  `RequestsOK`), says what holds of a document with one user (`OneUser`,
  `TenantFits`), and that after Log out no request is refreshing
  (`SignOutHolds`). Of `RequestsSettle` and `GuardDecides`, which are liveness, the
  safety is proved: `ThreeAnswersAtMost`, each answer lowers `AnswersLeft` of its
  request (first answer, refresh, second answer), and no other step raises it; it
  needs that a request that waits for a refresh is marked as sent again
  (`ResentOnce`). `GuardAwaitsItsAnswer`: where AuthGuard shows nothing, GET /me/ is
  under way or due, unless its answer was lost. `StoreFollows` says that, unless an answer was lost or came out of order, the
  last row under way, or the store when there is none, is the newest, or one that will
  be read is still due; `FormFollows` that an untouched form, and what it has sent, is
  what the API has; `CachesSound`, `ConfigsSound`, `ListSound` and `DetailsSound` that
  the queries are sound, the last two unless `outdated`; `RoleFitsHost` that the role
  picked is one of the organization picked.
- `ListPages_proofs`: all invariants of MCListPages, and the type invariants. `OneActive`
  rests on `AloneActivates`: of the transactions that activate a row in an
  organization not in `crossed` there is one at a time, and it turns off whatever
  is active when it commits. The lists rest on soundness
  of the queries outside the organizations (members) of which an answer went
  astray; the forms on `FormIdle`, `FormFilled`, `ChoiceSound`: a form names a row
  or role only while its dialog is open.
- `FormPages_proofs`: all invariants of MCFormPages, the type invariants and the
  action property `KeptUntilPutAway`. `GivenUpStaysOut` needs `OneLogin` (the page is at one login:
  its answer, challenge or enrollment) and `NotGivenUp` (nothing that may still
  sign somebody in is of an account that was given up); the secrets need `MintInv`
  and `HeldInv` (no credential of this page is being made while a secret is held).

The theorems about the pages are about each page's own specification, for every
set of accounts, organizations, rows and values and every bound on requests. A
behaviour of a composed specification is one of each of its pages
(`FormPagesCompose`, `RecordPagesCompose`, `ListPagesCompose`), which carries them
over to what the runs check.

Only model-checked: `SuspensionTakesHold`, `RequestsSettle` and `GuardDecides`
(liveness under fairness, and the ENABLED in it, are out of the prover's reach; what
is safety in them is proved, as said above), and the violations.

## 6. What is not modelled

Not yet: what the plan lists. Not at all: the audit trail (appended to in the
background, read by no other component), the OIDC documents and userinfo
(stateless), seeds and command line (run once on an idle system), the protocols
of mail, SMS and identity providers, deployment.

Of the dashboard: the pages tenant/{roles,audit} and
platform/{tenants,tenants/[id],roles,leads,audit} (lists with
dialogs of the same build, over the same cache, and their hazards are those of
the pages modelled), the contact form and the public pages, the list of linked
accounts (only read), changing a password (one request that changes nothing on the
page), the redirect of platform/oidc-clients without a permission, and a second
browser tab: the stored session is read when a tab is loaded and not followed
afterwards. The API under these pages is what its rows hold, one request after the
other, but for the profile and the configurations of mail and SMS; other overlapping
requests to it belong to the modules of the service. WebAuthn, roles and
permissions (but for what the guards compare), tenants and membership, the tenant policy, and the OTPs of addresses
and phone numbers are not modelled in the service.

Within the modules: the contents of tokens beyond the claims the handlers compare,
wording and logging, `SessionService.list_sessions`, `delete_session` and
`blacklist_token` (no caller), cryptography (a signature that verifies was made
by the service), and failures of Postgres other than the rollback of an open
transaction.
