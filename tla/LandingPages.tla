---------------------------- MODULE LandingPages ----------------------------
(***************************************************************************)
(* The pages of the dashboard that sign a visitor in with two requests in  *)
(* a row: /magic-link/verify and /oauth/[provider]/callback spend a        *)
(* single-use grant and then ask GET /me/ who it was for, /register makes  *)
(* an account and then logs in to it.                                      *)
(*                                                                         *)
(* The browser may hold the session of somebody who signed in before.  The *)
(* request interceptor prefers its token to the header the page set, and   *)
(* the response interceptor refreshes it, or empties the store and loads   *)
(* /login, whichever request met the 401.                                  *)
(***************************************************************************)
EXTENDS Naturals

CONSTANTS Visitors, Nobody

ASSUME LandingAssumption == Nobody \notin Visitors

VARIABLES
    route,      \* the page, and where it sends the visitor
    grant,      \* the link or code in the URL
    owner,      \* who it is for, or who registers
    step,       \* the await the page stands at, or how it ended
    resent,     \* _retry of that request
    answer,     \* whose data GET /me/ returned
    kept,       \* auth-store: the owner of its tokens, and its user
    health,     \* of its access token and of its session
    exists,     \* the account that is being registered is there
    former      \* history: who was signed in when the page was opened

landing     == <<route, grant, owner, step, resent, answer>>
landingVars == <<landing, kept, health, exists, former>>

Known    == Visitors \cup {Nobody}
Routes   == {"link", "oauth", "register", "login", "home"}
Steps    == {"idle", "exchange", "me", "ready", "register", "login", "failed",
             "done"}

LandingTypeOK ==
    /\ route \in Routes /\ step \in Steps
    /\ grant \in {"none", "fresh", "spent"}
    /\ owner \in Visitors /\ {answer, former} \subseteq Known
    /\ kept \in [token : Known, user : Known]
    /\ health \in {"good", "expired", "dead"}
    /\ resent \in BOOLEAN /\ exists \in BOOLEAN
    /\ step = "done" <=> route = "home"

LandingInit ==
    /\ route \in {"link", "oauth", "register"}
    /\ grant \in {"none", "fresh", "spent"} /\ owner \in Visitors
    /\ step = "idle" /\ resent = FALSE /\ answer = Nobody
    /\ former \in Known
    /\ kept = [token |-> former, user |-> former]
    /\ health \in {"good", "expired", "dead"}
    /\ exists = FALSE
-----------------------------------------------------------------------------
Visiting == route \in {"link", "oauth"}

\* What the two grant pages show.
Invalid == Visiting /\ grant = "none"
Refusal == Visiting /\ step = "failed"

\* A request goes out for the first time, or again after a refresh.
Proceed(to) == step' = to /\ resent' = FALSE

\* 401 to the request in flight: one refresh with the refresh token of the
\* store, and the request again; else the caller's error.  No refresh token, or
\* a refresh that fails: the store is emptied and /login loaded.
Unauthorized ==
    IF resent
    THEN /\ step' = "failed"
         /\ UNCHANGED <<route, kept, health, resent>>
    ELSE IF kept.token # Nobody /\ health # "dead"
    THEN /\ health' = "good" /\ resent' = TRUE
         /\ UNCHANGED <<route, step, kept>>
    ELSE /\ kept' = [token |-> Nobody, user |-> Nobody]
         /\ route' = "login" /\ step' = "idle"
         /\ UNCHANGED <<health, resent>>
-----------------------------------------------------------------------------
\* The query runs when the URL has the grant.
Exchange ==
    /\ Visiting /\ step = "idle" /\ grant # "none"
    /\ Proceed("exchange")
    /\ UNCHANGED <<route, grant, owner, answer, kept, health, exists, former>>

\* Broken variant: the tokens are stored before anybody knows whose they are.
ExchangedEarly ==
    /\ step = "exchange" /\ grant = "fresh"
    /\ grant' = "spent"
    /\ kept' = [kept EXCEPT !.token = owner]
    /\ Proceed("me")
    /\ UNCHANGED <<route, owner, answer, health, exists, former>>

\* The API takes the grant and answers with tokens, which the page keeps to
\* itself.
Exchanged ==
    /\ step = "exchange" /\ grant = "fresh"
    /\ grant' = "spent"
    /\ Proceed("me")
    /\ UNCHANGED <<route, owner, answer, kept, health, exists, former>>

ExchangeRefused ==
    /\ step = "exchange" /\ grant = "spent"
    /\ Unauthorized
    /\ UNCHANGED <<grant, owner, answer, exists, former>>

\* The answer is lost, the grant perhaps taken; or the API failed.
ExchangeLost ==
    /\ step = "exchange"
    /\ grant' \in {grant, "spent"}
    /\ step' = "failed"
    /\ UNCHANGED <<route, owner, resent, answer, kept, health, exists, former>>

\* GET /me/ under the token the request really carries.
Bearer == IF kept.token = Nobody THEN owner ELSE kept.token

MeAnswered ==
    /\ step = "me"
    /\ kept.token # Nobody => health = "good"
    /\ answer' = Bearer
    /\ step' = "ready"
    /\ UNCHANGED <<route, grant, owner, resent, kept, health, exists, former>>

MeRefused ==
    /\ step = "me"
    /\ kept.token # Nobody /\ health # "good"
    /\ Unauthorized
    /\ UNCHANGED <<grant, owner, answer, exists, former>>

MeLost ==
    /\ step = "me"
    /\ step' = "failed"
    /\ UNCHANGED <<route, grant, owner, resent, answer, kept, health, exists,
                   former>>

\* Broken variant: the user is set only when the store has none.
LandedKeepsUser ==
    /\ Visiting /\ step = "ready"
    /\ kept' = [token |-> owner,
                user  |-> IF former = Nobody THEN former ELSE answer]
    /\ health' = "good"
    /\ route' = "home" /\ step' = "done"
    /\ UNCHANGED <<grant, owner, resent, answer, exists, former>>

\* The effect on the query's data: tokens, user, and on to the dashboard.
Landed ==
    /\ Visiting /\ step = "ready"
    /\ kept' = [token |-> owner, user |-> answer]
    /\ health' = "good"
    /\ route' = "home" /\ step' = "done"
    /\ UNCHANGED <<grant, owner, resent, answer, exists, former>>

\* "Request a new link", "Return to login"; a new link is a new visit.
Retry ==
    /\ Invalid \/ Refusal
    /\ route' = "login" /\ step' = "idle"
    /\ UNCHANGED <<grant, owner, resent, answer, kept, health, exists, former>>

\* The session in the store comes to its end elsewhere, or its token expires.
SessionAges ==
    /\ kept.token # Nobody /\ kept.token = former /\ route # "home"
    /\ health' = CASE health = "good" -> "expired" [] OTHER -> "dead"
    /\ health # "dead"
    /\ UNCHANGED <<landing, kept, exists, former>>
-----------------------------------------------------------------------------
\* The form is there until the account is signed in.
RegisterForm == route = "register" /\ step \in {"idle", "failed"}

SubmitRegistration ==
    /\ RegisterForm
    /\ Proceed("register")
    /\ UNCHANGED <<route, grant, owner, answer, kept, health, exists, former>>

Registered ==
    /\ step = "register" /\ ~exists
    /\ exists' = TRUE
    /\ Proceed("login")
    /\ UNCHANGED <<route, grant, owner, answer, kept, health, former>>

\* Any failure of the two requests is "Failed to create account": the address
\* is taken, the answer is lost, the mail of the API's second step is not sent.
RegistrationFailed ==
    /\ \/ step = "register" /\ exists' \in {exists, TRUE}
       \/ step = "login" /\ UNCHANGED exists
    /\ step' = "failed"
    /\ UNCHANGED <<route, grant, owner, resent, answer, kept, health, former>>

RegisteredIn ==
    /\ route = "register" /\ step = "login"
    /\ kept' = [token |-> owner, user |-> owner]
    /\ health' = "good"
    /\ route' = "home" /\ step' = "done"
    /\ UNCHANGED <<grant, owner, resent, answer, exists, former>>
-----------------------------------------------------------------------------
LandingNext ==
    \/ Exchange \/ Exchanged \/ ExchangeRefused \/ ExchangeLost
    \/ MeAnswered \/ MeRefused \/ MeLost \/ Landed \/ Retry \/ SessionAges
    \/ SubmitRegistration \/ Registered \/ RegistrationFailed \/ RegisteredIn

LandingSpec == LandingInit /\ [][LandingNext]_landingVars
-----------------------------------------------------------------------------
\* A visitor lands or does not: whatever fails on the way, with the grant spent
\* or not, the store holds the earlier session as it was, or nothing at all;
\* never the tokens of one user beside the data of another.
NothingHalfway ==
    route # "home" =>
        /\ kept.token = kept.user
        /\ kept.token \in {former, Nobody}

\* In a browser in which nobody was signed in, the tokens and the user that the
\* visitor lands with are both those of the account the grant is for.
LandedAsOwner ==
    route = "home" /\ former = Nobody =>
        kept = [token |-> owner, user |-> owner]

\* Who lands is who the grant was for, in every browser: what the header set by
\* the page asks for.  It fails where another session was there before.
LandedUser == route = "home" => kept.user = owner
=============================================================================
