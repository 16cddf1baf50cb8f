------------------------------ MODULE OidcCode ------------------------------
(***************************************************************************)
(* The authorization code of "Login with AuthEngine": issued by            *)
(* /oidc/authorize, kept in Redis under oidc:code:{code}, exchanged for a  *)
(* session at /oidc/token.                                                 *)
(*                                                                         *)
(* The exchange reads the code, deletes it, and only then compares the     *)
(* redirect URI, the client and the PKCE verifier with it.  What matters   *)
(* of a request is how it compares: each parameter is the right one, a     *)
(* wrong one, or left out.  Handlers are split at each await; a worker may *)
(* die, and a Redis command whose reply is lost is sent again.             *)
(***************************************************************************)
EXTENDS Naturals, FiniteSets

CONSTANTS
    Users,      \* accounts
    Codes,      \* the codes that can be drawn: bounds the authorizations
    Requests,   \* requests that can be in flight at once
    NoUser,     \* the owner of a code that has not been drawn
    NoCode      \* the code of a request that has none yet

ASSUME OidcCodeAssumption ==
    /\ NoUser \notin Users
    /\ NoCode \notin Codes

VARIABLES
    exists,     \* Postgres: the users with a row
    owner,      \* per code: "user_id" of its payload
    challenged, \* codes whose payload has a "code_challenge"
    stored,     \* Redis: the keys oidc:code:{code} that exist
    pc,         \* per request: the await it stands at
    user,       \* per authorization: the user who has logged in
    code,       \* per request: the code it has made, or presents
    params,     \* per exchange: how its other parameters compare
    \* History, read by no action
    paid,       \* per code: the sessions created for it
    ended,      \* codes that have expired, or with which an exchange has been at
                \* its DEL
    shared,     \* codes that two exchanges had read and not yet done with
    late        \* exchanges that arrived when the code had ended

codeVars == <<owner, challenged, stored>>
vars == <<exists, owner, challenged, stored, pc, user, code, params,
          paid, ended, shared, late>>

\* redirect_uri, client_id and code_verifier of a token request, against the
\* payload of its code.
Compare == {"right", "wrong", "none"}
Params  == [redirect : Compare, client : Compare, verifier : Compare]
Correct == [redirect |-> "right", client |-> "right", verifier |-> "right"]

Awaits  == {"authorize_set", "token_get", "token_del", "token_user",
            "token_session"}
Replies == {"redirected", "refused", "granted"}
PastGet == {"token_del", "token_user", "token_session"}

Drawn == {c \in Codes : owner[c] # NoUser}

TypeOK ==
    /\ exists     \subseteq Users
    /\ owner      \in [Codes -> Users \cup {NoUser}]
    /\ challenged \subseteq Codes
    /\ stored     \subseteq Codes
    /\ pc         \in [Requests -> {"idle"} \cup Awaits \cup Replies]
    /\ user       \in [Requests -> Users \cup {NoUser}]
    /\ code       \in [Requests -> Codes \cup {NoCode}]
    /\ params     \in [Requests -> Params]
    /\ paid       \in [Codes -> Nat]
    /\ ended      \subseteq Codes
    /\ shared     \subseteq Codes
    /\ late       \subseteq Requests

Init ==
    /\ exists = Users
    /\ owner  = [c \in Codes |-> NoUser]
    /\ challenged = {} /\ stored = {}
    /\ pc     = [r \in Requests |-> "idle"]
    /\ user   = [r \in Requests |-> NoUser]
    /\ code   = [r \in Requests |-> NoCode]
    /\ params = [r \in Requests |-> Correct]
    /\ paid   = [c \in Codes |-> 0]
    /\ ended = {} /\ shared = {} /\ late = {}

Go(r, from, to) ==
    /\ pc[r] = from
    /\ pc' = [pc EXCEPT ![r] = to]

-----------------------------------------------------------------------------
(***************************************************************************)
(* /oidc/authorize and /oidc/authorize/submit                              *)
(***************************************************************************)

\* A user has been recognised by a bearer token, or by e-mail and password;
\* everything else shows a page.
AuthorizeArrive(r, u) ==
    /\ u \in exists
    /\ Go(r, "idle", "authorize_set")
    /\ user' = [user EXCEPT ![r] = u]
    /\ UNCHANGED <<exists, codeVars, code, params, paid, ended, shared, late>>

\* Broken variant: the "await" of redis_conn.setex is missing, so the redirect
\* carries a code that is never stored.
AuthorizeSetNotAwaited(r) ==
    /\ Go(r, "authorize_set", "redirected")
    /\ \E c \in Codes \ Drawn :
        /\ owner' = [owner EXCEPT ![c] = user[r]]
        /\ code'  = [code EXCEPT ![r] = c]
        /\ challenged' \in {challenged, challenged \cup {c}}
    /\ UNCHANGED <<exists, stored, user, params, paid, ended, shared, late>>

\* _issue_authorization_code: a random code, SETEX of the payload, redirect.  (A
\* SETEX that is sent again writes the key before anybody has the code.)
AuthorizeSet(r) ==
    /\ Go(r, "authorize_set", "redirected")
    /\ \E c \in Codes \ Drawn :
        /\ owner'  = [owner EXCEPT ![c] = user[r]]
        /\ stored' = stored \cup {c}
        /\ code'   = [code EXCEPT ![r] = c]
        /\ challenged' \in {challenged, challenged \cup {c}}
    /\ UNCHANGED <<exists, user, params, paid, ended, shared, late>>

-----------------------------------------------------------------------------
(***************************************************************************)
(* /oidc/token, grant_type=authorization_code                              *)
(***************************************************************************)

\* A code that was handed out is presented, with any parameters, by a client
\* that is unknown or has authenticated itself.
TokenArrive(r, c, p) ==
    /\ c \in Drawn
    /\ Go(r, "idle", "token_get")
    /\ code'   = [code EXCEPT ![r] = c]
    /\ params' = [params EXCEPT ![r] = p]
    /\ late'   = IF c \in ended THEN late \cup {r} ELSE late
    /\ UNCHANGED <<exists, codeVars, user, paid, ended, shared>>

\* Another exchange has read the code and is not done with it.
Rival(r) ==
    \E q \in Requests \ {r} : code[q] = code[r] /\ pc[q] \in PastGet

TokenGet(r) ==
    /\ Go(r, "token_get", IF code[r] \in stored THEN "token_del" ELSE "refused")
    /\ shared' = IF code[r] \in stored /\ Rival(r)
                 THEN shared \cup {code[r]} ELSE shared
    /\ UNCHANGED <<exists, codeVars, user, code, params, paid, ended, late>>

\* What the handler compares with the payload once the code is deleted.
Accepts(r) ==
    /\ params[r].redirect # "wrong"
    /\ params[r].client # "wrong"
    /\ code[r] \in challenged => params[r].verifier = "right"

\* Broken variant: the parameters are compared first, and a refused request
\* leaves the code for the next one.
TokenDelIfAccepted(r) ==
    /\ Go(r, "token_del", IF Accepts(r) THEN "token_user" ELSE "refused")
    /\ stored' = IF Accepts(r) THEN stored \ {code[r]} ELSE stored
    /\ ended'  = ended \cup {code[r]}
    /\ UNCHANGED <<exists, owner, challenged, user, code, params, paid, shared,
                   late>>

\* Broken variant: the "await" of redis_conn.delete is missing, so the coroutine
\* is made and never run.
TokenDelNotAwaited(r) ==
    /\ Go(r, "token_del", IF Accepts(r) THEN "token_user" ELSE "refused")
    /\ UNCHANGED <<exists, codeVars, user, code, params, paid, ended, shared,
                   late>>

\* DEL, whose result is not looked at; then the comparisons.
TokenDel(r) ==
    /\ Go(r, "token_del", IF Accepts(r) THEN "token_user" ELSE "refused")
    /\ stored' = stored \ {code[r]}
    /\ ended'  = ended \cup {code[r]}
    /\ UNCHANGED <<exists, owner, challenged, user, code, params, paid, shared,
                   late>>

\* The reply to DEL is lost, and DEL is sent again.
TokenDelLost(r) ==
    /\ pc[r] = "token_del"
    /\ code[r] \in stored
    /\ stored' = stored \ {code[r]}
    /\ ended'  = ended \cup {code[r]}
    /\ UNCHANGED <<exists, owner, challenged, pc, user, code, params, paid,
                   shared, late>>

TokenUser(r) ==
    /\ Go(r, "token_user",
          IF owner[code[r]] \in exists THEN "token_session" ELSE "refused")
    /\ UNCHANGED <<exists, codeVars, user, code, params, paid, ended, shared,
                   late>>

\* create_session; the tokens carry the new sid.
TokenSession(r) ==
    /\ Go(r, "token_session", "granted")
    /\ paid' = [paid EXCEPT ![code[r]] = @ + 1]
    /\ UNCHANGED <<exists, codeVars, user, code, params, ended, shared, late>>

-----------------------------------------------------------------------------

Leave(r) ==
    /\ pc'     = [pc EXCEPT ![r] = "idle"]
    /\ user'   = [user EXCEPT ![r] = NoUser]
    /\ code'   = [code EXCEPT ![r] = NoCode]
    /\ params' = [params EXCEPT ![r] = Correct]
    /\ late'   = late \ {r}
    /\ UNCHANGED <<exists, codeVars, paid, ended, shared>>

Reply(r) == pc[r] \in Replies /\ Leave(r)

\* The worker dies or is redeployed.
Crash(r) == pc[r] \in Awaits /\ Leave(r)

DeleteUser(u) ==
    /\ u \in exists
    /\ exists' = exists \ {u}
    /\ UNCHANGED <<codeVars, pc, user, code, params, paid, ended, shared, late>>

\* AUTH_CODE_TTL.
CodeExpire(c) ==
    /\ c \in stored
    /\ stored' = stored \ {c}
    /\ ended'  = ended \cup {c}
    /\ UNCHANGED <<exists, owner, challenged, pc, user, code, params, paid,
                   shared, late>>

Authorize(r) == \/ \E u \in Users : AuthorizeArrive(r, u)
                \/ AuthorizeSet(r)

Exchange(r) ==
    \/ \E c \in Codes : \E p \in Params : TokenArrive(r, c, p)
    \/ TokenGet(r) \/ TokenDel(r) \/ TokenDelLost(r)
    \/ TokenUser(r) \/ TokenSession(r)

Environment ==
    \/ \E u \in Users : DeleteUser(u)
    \/ \E c \in Codes : CodeExpire(c)

Next ==
    \/ \E r \in Requests : Authorize(r) \/ Exchange(r) \/ Reply(r) \/ Crash(r)
    \/ Environment

Spec == Init /\ [][Next]_vars

-----------------------------------------------------------------------------
(***************************************************************************)
(* Properties                                                              *)
(***************************************************************************)

Claimed(c) ==
    \E r \in Requests :
        code[r] = c /\ \/ pc[r] \in {"token_user", "token_session"}
                       \/ pc[r] = "token_del" /\ c \notin stored

Stage == [c \in Codes |->
    IF c \notin Drawn      THEN "unissued"
    ELSE IF c \in shared   THEN "shared"
    ELSE IF c \in stored   THEN "valid"
    ELSE IF paid[c] > 0    THEN "redeemed"
    ELSE IF Claimed(c)     THEN "claimed"
    ELSE "void"]

PaidUnshared == [c \in Codes |-> IF c \in shared THEN 0 ELSE paid[c]]

Once == INSTANCE OneTimeGrant WITH
    Grants <- Codes, stage <- Stage, paid <- PaidUnshared

\* oidc/token.py says "Consume immediately - authorization codes are single-use".
\* The exchange is a one-time grant unless two exchanges have read the code before
\* either is done with it, whatever crashes, expires or is sent again.
SingleUse == Once!Spec

\* The same promise without that condition: no code pays for two sessions.
CodesPayOnce == \A c \in Codes : paid[c] <= 1

\* A code that has been presented is burned, also by a request that is refused
\* for its parameters: no exchange that arrives later is granted, with whatever
\* parameters.
BurnedIsDead ==
    \A r \in Requests : pc[r] = "granted" => r \notin late

\* A client that presents its code with everything right is refused only for a
\* cause: its account is gone, or, at the GET or the DEL of its exchange, the code
\* had expired or another exchange had been at its DEL already.  Every code that
\* was redirected with can be exchanged until then, and nothing that comes after
\* the DEL turns the client away.
RefusedForCause ==
    [][\A r \in Requests :
         /\ pc[r] \in PastGet \cup {"token_get"}
         /\ params[r] = Correct
         /\ pc'[r] = "refused"
         => \/ owner[code[r]] \notin exists
            \/ pc[r] \in {"token_get", "token_del"} /\ code[r] \in ended]_vars
=============================================================================
