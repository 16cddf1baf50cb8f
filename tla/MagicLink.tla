----------------------------- MODULE MagicLink ------------------------------
(***************************************************************************)
(* Passwordless login by mail: MagicLinkService and MagicLinkStrategy.     *)
(*                                                                         *)
(* A link is a JWT whose jti names the Redis key magic:jti:{jti}; the key  *)
(* is what makes it single-use.  The handlers are split at each await, as  *)
(* in Sessions; in addition a worker may die at an await, a mail that was  *)
(* reported as failed may have been delivered, and the reply of a Redis    *)
(* command may be lost, in which case the client runs the command again    *)
(* (core/redis.py: retry_on_timeout, retry_on_error).                      *)
(***************************************************************************)
EXTENDS Naturals, FiniteSets

CONSTANTS
    Users,      \* accounts, one e-mail address each
    Links,      \* the jtis that can be drawn: bounds the links
    Requests,   \* requests that can be in flight at once
    NoUser,     \* the owner of a link that has not been drawn
    NoLink      \* the link of a request that has none yet

ASSUME MagicLinkAssumption ==
    /\ NoUser \notin Users
    /\ NoLink \notin Links

VARIABLES
    status,     \* Postgres: users.status, "absent" once the row is deleted
    owner,      \* per link: the account it was made for
    flag,       \* Redis: the keys magic:jti:{jti} that exist
    inbox,      \* links that have reached their mailbox
    expired,    \* links whose "exp" has passed
    pc,         \* per request: the await it stands at
    user,       \* per request for a link: the account of the address
    link,       \* per request: the link it has made, or presents
    \* History, read by no action
    paid,       \* per link: the sessions created for it
    ended,      \* links whose key was deleted or has expired
    revoked,    \* links whose request was answered 502
    late        \* verifications that arrived after such an answer

dbVars   == <<status>>
linkVars == <<owner, flag, inbox, expired>>
vars == <<status, owner, flag, inbox, expired, pc, user, link,
          paid, ended, revoked, late>>

Status  == {"ACTIVE", "SUSPENDED", "absent"}
Awaits  == {"request_user", "request_flag", "request_send", "request_rollback",
            "verify_get", "verify_del", "verify_user", "verify_session"}
Replies == {"accepted", "failed", "refused", "granted"}

Drawn == {l \in Links : owner[l] # NoUser}

TypeOK ==
    /\ status  \in [Users -> Status]
    /\ owner   \in [Links -> Users \cup {NoUser}]
    /\ flag    \subseteq Links
    /\ inbox   \subseteq Links
    /\ expired \subseteq Links
    /\ pc      \in [Requests -> {"idle"} \cup Awaits \cup Replies]
    /\ user    \in [Requests -> Users \cup {NoUser}]
    /\ link    \in [Requests -> Links \cup {NoLink}]
    /\ paid    \in [Links -> Nat]
    /\ ended   \subseteq Links
    /\ revoked \subseteq Links
    /\ late    \subseteq Requests

Init ==
    /\ status  \in [Users -> {"ACTIVE", "SUSPENDED"}]
    /\ owner   = [l \in Links |-> NoUser]
    /\ flag = {} /\ inbox = {} /\ expired = {}
    /\ pc      = [r \in Requests |-> "idle"]
    /\ user    = [r \in Requests |-> NoUser]
    /\ link    = [r \in Requests |-> NoLink]
    /\ paid    = [l \in Links |-> 0]
    /\ ended = {} /\ revoked = {} /\ late = {}

Go(r, from, to) ==
    /\ pc[r] = from
    /\ pc' = [pc EXCEPT ![r] = to]

-----------------------------------------------------------------------------
(***************************************************************************)
(* POST /auth/magic-link/request                                           *)
(***************************************************************************)

\* An address is submitted, to a tenant that allows the method if to any.
RequestArrive(r, u) ==
    /\ Go(r, "idle", "request_user")
    /\ user' = [user EXCEPT ![r] = u]
    /\ UNCHANGED <<status, linkVars, link, paid, ended, revoked, late>>

\* get_by_email: nothing is sent to an unknown or inactive account, and the
\* caller is not told.
RequestUser(r) ==
    /\ Go(r, "request_user",
          IF status[user[r]] = "ACTIVE" THEN "request_flag" ELSE "accepted")
    /\ UNCHANGED <<status, linkVars, user, link, paid, ended, revoked, late>>

\* Broken variant: the coroutine that writes the key is not awaited.
RequestFlagNotAwaited(r) ==
    /\ Go(r, "request_flag", "request_send")
    /\ \E l \in Links \ Drawn :
        /\ owner' = [owner EXCEPT ![l] = user[r]]
        /\ link'  = [link EXCEPT ![r] = l]
    /\ UNCHANGED <<status, flag, inbox, expired, user, paid, ended, revoked,
                   late>>

\* generate_token draws a jti; set_one_time_flag writes its key.  (A SETEX that is
\* sent again writes it before anybody has the link.)
RequestFlag(r) ==
    /\ Go(r, "request_flag", "request_send")
    /\ \E l \in Links \ Drawn :
        /\ owner' = [owner EXCEPT ![l] = user[r]]
        /\ link'  = [link EXCEPT ![r] = l]
        /\ flag'  = flag \cup {l}
    /\ UNCHANGED <<status, inbox, expired, user, paid, ended, revoked, late>>

\* The mail is sent; a failure is reported before or after it was delivered.
RequestSend(r) ==
    /\ \/ /\ Go(r, "request_send", "accepted")
          /\ inbox' = inbox \cup {link[r]}
       \/ /\ Go(r, "request_send", "request_rollback")
          /\ inbox' \in {inbox, inbox \cup {link[r]}}
    /\ UNCHANGED <<status, owner, flag, expired, user, link, paid, ended,
                   revoked, late>>

\* Broken variant: the handler reports the failure and leaves the key.
RequestRollbackForgotten(r) ==
    /\ Go(r, "request_rollback", "failed")
    /\ revoked' = revoked \cup {link[r]}
    /\ UNCHANGED <<status, linkVars, user, link, paid, ended, late>>

\* except Exception: the key is deleted and the caller gets a 502.
RequestRollback(r) ==
    /\ Go(r, "request_rollback", "failed")
    /\ flag'    = flag \ {link[r]}
    /\ ended'   = ended \cup {link[r]}
    /\ revoked' = revoked \cup {link[r]}
    /\ UNCHANGED <<status, owner, inbox, expired, user, link, paid, late>>

-----------------------------------------------------------------------------
(***************************************************************************)
(* GET /auth/magic-link/verify                                             *)
(***************************************************************************)

\* A link is opened; its JWT is checked at once.
VerifyArrive(r, l) ==
    /\ Go(r, "idle", IF l \in expired THEN "refused" ELSE "verify_get")
    /\ link' = [link EXCEPT ![r] = l]
    /\ late' = IF l \in revoked THEN late \cup {r} ELSE late
    /\ UNCHANGED <<status, linkVars, user, paid, ended, revoked>>

VerifyGet(r) ==
    /\ Go(r, "verify_get", IF link[r] \in flag THEN "verify_del" ELSE "refused")
    /\ UNCHANGED <<status, linkVars, user, link, paid, ended, revoked, late>>

\* Broken variant: what DEL returns is not looked at.
VerifyDelUnchecked(r) ==
    /\ Go(r, "verify_del", "verify_user")
    /\ flag'  = flag \ {link[r]}
    /\ ended' = ended \cup {link[r]}
    /\ UNCHANGED <<status, owner, inbox, expired, user, link, paid, revoked,
                   late>>

\* Whoever deletes the key has the link ...
VerifyDel(r) ==
    /\ Go(r, "verify_del",
          IF link[r] \in flag THEN "verify_user" ELSE "refused")
    /\ flag'  = flag \ {link[r]}
    /\ ended' = ended \cup {link[r]}
    /\ UNCHANGED <<status, owner, inbox, expired, user, link, paid, revoked,
                   late>>

\* ... unless the reply is lost and the DEL that is sent again finds nothing.
VerifyDelLost(r) ==
    /\ pc[r] = "verify_del"
    /\ link[r] \in flag
    /\ flag'  = flag \ {link[r]}
    /\ ended' = ended \cup {link[r]}
    /\ UNCHANGED <<status, owner, inbox, expired, pc, user, link, paid,
                   revoked, late>>

\* get_by_email; the status is not looked at.
VerifyUser(r) ==
    /\ Go(r, "verify_user",
          IF status[owner[link[r]]] = "absent" THEN "refused"
          ELSE "verify_session")
    /\ UNCHANGED <<status, linkVars, user, link, paid, ended, revoked, late>>

\* create_session and create_tokens.
VerifySession(r) ==
    /\ Go(r, "verify_session", "granted")
    /\ paid' = [paid EXCEPT ![link[r]] = @ + 1]
    /\ UNCHANGED <<status, linkVars, user, link, ended, revoked, late>>

-----------------------------------------------------------------------------

Leave(r) ==
    /\ pc'   = [pc EXCEPT ![r] = "idle"]
    /\ user' = [user EXCEPT ![r] = NoUser]
    /\ link' = [link EXCEPT ![r] = NoLink]
    /\ late' = late \ {r}
    /\ UNCHANGED <<status, linkVars, paid, ended, revoked>>

Reply(r) == pc[r] \in Replies /\ Leave(r)

\* The worker dies or is redeployed: the request ends where it stands.
Crash(r) == pc[r] \in Awaits /\ Leave(r)

\* The administrator suspends, reactivates or deletes an account.
UpdateStatus(u, st) ==
    /\ status[u] # "absent"
    /\ status' = [status EXCEPT ![u] = st]
    /\ UNCHANGED <<linkVars, pc, user, link, paid, ended, revoked, late>>

\* "exp" and the TTL of the key run on different clocks.
LinkExpire(l) ==
    /\ l \in Drawn
    /\ expired' = expired \cup {l}
    /\ UNCHANGED <<status, owner, flag, inbox, pc, user, link, paid, ended,
                   revoked, late>>

FlagExpire(l) ==
    /\ l \in flag
    /\ flag'  = flag \ {l}
    /\ ended' = ended \cup {l}
    /\ UNCHANGED <<status, owner, inbox, expired, pc, user, link, paid,
                   revoked, late>>

Request(r) ==
    \/ \E u \in Users : RequestArrive(r, u)
    \/ RequestUser(r) \/ RequestFlag(r) \/ RequestSend(r) \/ RequestRollback(r)

Verify(r) ==
    \/ \E l \in inbox : VerifyArrive(r, l)
    \/ VerifyGet(r) \/ VerifyDel(r) \/ VerifyDelLost(r)
    \/ VerifyUser(r) \/ VerifySession(r)

Environment ==
    \/ \E u \in Users : \E st \in Status : UpdateStatus(u, st)
    \/ \E l \in Links : LinkExpire(l) \/ FlagExpire(l)

Next ==
    \/ \E r \in Requests : Request(r) \/ Verify(r) \/ Reply(r) \/ Crash(r)
    \/ Environment

Spec == Init /\ [][Next]_vars

-----------------------------------------------------------------------------
(***************************************************************************)
(* Properties                                                              *)
(***************************************************************************)

\* Past DEL, and so alone with the link.
Claimed(l) ==
    \E r \in Requests : pc[r] \in {"verify_user", "verify_session"} /\ link[r] = l

Stage == [l \in Links |->
    IF l \notin Drawn     THEN "unissued"
    ELSE IF l \in flag    THEN "valid"
    ELSE IF paid[l] > 0   THEN "redeemed"
    ELSE IF Claimed(l)    THEN "claimed"
    ELSE "void"]

Once == INSTANCE OneTimeGrant WITH Grants <- Links, stage <- Stage, paid <- paid

\* A magic link is a one-time grant: however often it is opened, at once or one
\* after the other, with workers dying and Redis replies lost in between, one
\* verification at most gets past the DEL and one session at most is created.
SingleUse == Once!Spec

\* A link whose request was answered 502 opens no session for anyone who comes
\* after that answer, although its mail may have been delivered.
FailedSendIsDead ==
    \A r \in Requests : pc[r] = "granted" => r \notin late

\* A link that has reached its mailbox is refused for a cause: its key was
\* deleted by another verification or by a rollback, or time ran out.  It is
\* never refused because the mail was faster than the key.
RefusedForCause ==
    \A r \in Requests :
        pc[r] = "refused" => link[r] \in ended \cup expired
=============================================================================
