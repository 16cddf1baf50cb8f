--------------------------- MODULE SecurityCards ---------------------------
(***************************************************************************)
(* The password card and the two-factor card of /me/security, against what *)
(* the API has.                                                            *)
(*                                                                         *)
(* A tab that is left is unmounted: its state is gone.  The requests it    *)
(* had in flight still run, and still invalidate the cached queries when   *)
(* they succeed, but they change no state and disable no button of the tab *)
(* when it is opened again.                                                *)
(*                                                                         *)
(* A code is the secret of the authenticator that shows it.                *)
(***************************************************************************)
EXTENDS Naturals, FiniteSets, QueryCache

CONSTANTS Secrets, NoSecret,
          MaxLeft   \* bound: how many requests are left behind at a time

ASSUME SecurityAssumption == NoSecret \notin Secrets

VARIABLES
    acct,       \* at the API: mfa_secret, mfa_enabled, password_hash
    me,         \* the query verifyUser of AuthGuard, which sets the user
    mfaStatus,  \* the query of that name
    pane,       \* the tab that is shown
    offered,    \* isEnrolling and enrollData: the secret shown
    typedFor,   \* verificationCode
    cardJobs,   \* requests in flight of the tab that is shown
    orphans,    \* requests in flight of the tab that was left
    \* History, read by no action
    missed,     \* an answer was lost
    overtaken   \* a request left behind was answered after the secret was shown

cache    == <<me, mfaStatus>>
tabState == <<offered, typedFor>>
cardPast == <<missed, overtaken>>
cardVars == <<acct, cache, pane, tabState, cardJobs, orphans, cardPast>>

MaybeSecret == Secrets \cup {NoSecret}
Tabs     == {"security", "mfa"}
Jobs     == [op : {"enroll", "verify", "disable", "password"},
             arg : MaybeSecret]
Rows     == [on : BOOLEAN, password : BOOLEAN]

CardTypeOK ==
    /\ acct \in [secret : MaybeSecret, on : BOOLEAN, password : BOOLEAN]
    /\ me \in Query(Rows) /\ Loaded(me) /\ mfaStatus \in Query(BOOLEAN)
    /\ pane \in Tabs
    /\ offered \in MaybeSecret /\ typedFor \in MaybeSecret
    /\ cardJobs \subseteq Jobs /\ orphans \subseteq Jobs
    /\ missed \in BOOLEAN /\ overtaken \in BOOLEAN
    /\ acct.on => acct.secret # NoSecret

UserRow == [on |-> acct.on, password |-> acct.password]
Me == CHOOSE u \in me.data : TRUE

CardInit ==
    /\ acct \in [secret : {NoSecret}, on : {FALSE}, password : BOOLEAN]
    /\ me = Holding(UserRow) /\ mfaStatus = NewQuery
    /\ pane = "security"
    /\ offered = NoSecret /\ typedFor = NoSecret
    /\ cardJobs = {} /\ orphans = {}
    /\ missed = FALSE /\ overtaken = FALSE
-----------------------------------------------------------------------------
\* invalidateQueries after a success; AuthGuard is mounted on every page.
DirtyStatus == mfaStatus' = Invalidated(mfaStatus, pane = "mfa", acct'.on)
DirtyUser   == me' = Invalidated(me, TRUE, UserRow')

\* Another tab: what was in flight is left behind.
Show(t) ==
    /\ pane # t
    /\ orphans \cap cardJobs = {}
    /\ Cardinality(orphans \cup cardJobs) <= MaxLeft
    /\ pane' = t
    /\ orphans' = orphans \cup cardJobs /\ cardJobs' = {}
    /\ offered' = NoSecret /\ typedFor' = NoSecret
    /\ mfaStatus' = IF t = "mfa" THEN Observed(mfaStatus, acct.on)
                                 ELSE mfaStatus
    /\ UNCHANGED <<acct, me, cardPast>>

\* A fetch is answered, or fails and leaves what there was.
Arrives(q, qq) == Fetching(q) /\ qq \in {Answered(q), Failed(q)}

CardFetched ==
    /\ \/ Arrives(mfaStatus, mfaStatus') /\ UNCHANGED me
       \/ Arrives(me, me') /\ UNCHANGED mfaStatus
    /\ UNCHANGED <<acct, pane, tabState, cardJobs, orphans, cardPast>>
-----------------------------------------------------------------------------
\* What the cards offer: mfaEnabled is either of two cached answers, Set
\* Password is there until the store's user has a password.
CardShown    == pane = "mfa" /\ (Fetching(mfaStatus) => Loaded(mfaStatus))
MfaEnabled   == TRUE \in mfaStatus.data \/ Me.on
EnableOffer  == CardShown /\ ~MfaEnabled /\ offered = NoSecret
EnrollOffer  == CardShown /\ offered # NoSecret
DisableOffer == CardShown /\ MfaEnabled
SetPasswordOffer == pane = "security" /\ ~Me.password

Start(op, arg) ==
    /\ \A j \in cardJobs : j.op # op
    /\ cardJobs' = cardJobs \cup {[op |-> op, arg |-> arg]}
    /\ UNCHANGED <<acct, cache, pane, tabState, orphans, cardPast>>

EnableMfa   == EnableOffer /\ Start("enroll", NoSecret)
ConfirmMfa  == EnrollOffer /\ typedFor # NoSecret /\ Start("verify", typedFor)
DisableMfa  == DisableOffer /\ typedFor # NoSecret /\ Start("disable", typedFor)
SetPassword == SetPasswordOffer /\ Start("password", NoSecret)

TypeMfaCode(s) ==
    /\ EnrollOffer \/ DisableOffer
    /\ typedFor # s
    /\ typedFor' = s
    /\ UNCHANGED <<acct, cache, pane, offered, cardJobs, orphans, cardPast>>

CancelEnroll ==
    /\ EnrollOffer
    /\ offered' = NoSecret
    /\ UNCHANGED <<acct, cache, pane, typedFor, cardJobs, orphans, cardPast>>
-----------------------------------------------------------------------------
\* The requests of the tab that is shown, and those left behind.
Flying(mine) == IF mine THEN cardJobs ELSE orphans

Settle(j, mine) ==
    IF mine THEN cardJobs' = cardJobs \ {j} /\ UNCHANGED orphans
            ELSE orphans' = orphans \ {j} /\ UNCHANGED cardJobs

\* The secret that is shown may be another by now.
Overtakes(mine) == overtaken' = (overtaken \/ (~mine /\ offered # NoSecret))

\* begin_enrollment: a new secret, which nothing shows if the tab was left.
Enrolls(j) ==
    /\ j.op = "enroll" /\ ~acct.on
    /\ \E s \in Secrets \ {acct.secret} : acct' = [acct EXCEPT !.secret = s]

Enrolled(j, mine) ==
    /\ Enrolls(j)
    /\ IF mine THEN offered' = acct'.secret /\ overtaken' = FALSE
               ELSE UNCHANGED offered /\ Overtakes(mine)
    /\ Settle(j, mine)
    /\ UNCHANGED <<cache, pane, typedFor, missed>>

\* confirm_enrollment
Confirms(j) ==
    /\ j.op = "verify" /\ ~acct.on /\ acct.secret = j.arg
    /\ acct' = [acct EXCEPT !.on = TRUE]

\* Broken variant: the set-up stays on the page.
ConfirmedStays(j, mine) ==
    /\ Confirms(j)
    /\ typedFor' = IF mine THEN NoSecret ELSE typedFor
    /\ DirtyStatus /\ DirtyUser
    /\ Overtakes(mine)
    /\ Settle(j, mine)
    /\ UNCHANGED <<pane, offered, missed>>

Confirmed(j, mine) ==
    /\ Confirms(j)
    /\ offered' = IF mine THEN NoSecret ELSE offered
    /\ typedFor' = IF mine THEN NoSecret ELSE typedFor
    /\ DirtyStatus /\ DirtyUser
    /\ Overtakes(mine)
    /\ Settle(j, mine)
    /\ UNCHANGED <<pane, missed>>

\* disable_mfa
Disables(j) ==
    /\ j.op = "disable" /\ acct.on /\ acct.secret = j.arg
    /\ acct' = [acct EXCEPT !.on = FALSE, !.secret = NoSecret]

\* Broken variant: only the query of the card is invalidated.
DisabledStatusOnly(j, mine) ==
    /\ Disables(j)
    /\ DirtyStatus
    /\ Overtakes(mine)
    /\ Settle(j, mine)
    /\ UNCHANGED <<me, pane, tabState, missed>>

\* The code stays in the field.
Disabled(j, mine) ==
    /\ Disables(j)
    /\ DirtyStatus /\ DirtyUser
    /\ Overtakes(mine)
    /\ Settle(j, mine)
    /\ UNCHANGED <<pane, tabState, missed>>

\* set_password_for_oauth_user refuses an account that has a password.
SetsPassword(j) ==
    /\ j.op = "password" /\ ~acct.password
    /\ acct' = [acct EXCEPT !.password = TRUE]

PasswordSet(j, mine) ==
    /\ SetsPassword(j)
    /\ DirtyUser
    /\ Settle(j, mine)
    /\ UNCHANGED <<mfaStatus, pane, tabState, cardPast>>

\* A wrong code, a set-up that is not open, no answer: only a message.
JobRefused(j, mine) ==
    /\ Settle(j, mine)
    /\ UNCHANGED <<acct, cache, pane, tabState, cardPast>>

\* The API did it, and its answer is lost.
JobUnheard(j, mine) ==
    /\ Enrolls(j) \/ Confirms(j) \/ Disables(j) \/ SetsPassword(j)
    /\ missed' = TRUE
    /\ Settle(j, mine)
    /\ UNCHANGED <<cache, pane, tabState, overtaken>>
-----------------------------------------------------------------------------
CardNext ==
    \/ \E t \in Tabs : Show(t)
    \/ CardFetched
    \/ EnableMfa \/ ConfirmMfa \/ DisableMfa \/ CancelEnroll \/ SetPassword
    \/ \E s \in Secrets : TypeMfaCode(s)
    \/ \E mine \in BOOLEAN : \E j \in Flying(mine) :
          \/ Enrolled(j, mine) \/ Confirmed(j, mine) \/ Disabled(j, mine)
          \/ PasswordSet(j, mine) \/ JobRefused(j, mine) \/ JobUnheard(j, mine)

CardSpec == CardInit /\ [][CardNext]_cardVars
-----------------------------------------------------------------------------
\* The secret that is shown to be scanned is the one the API will check, and
\* the second factor is still off: unless an answer was lost, or a request of
\* the tab as it was before was answered after the secret was shown.
SecretShownIsOpen ==
    offered # NoSecret /\ ~missed /\ ~overtaken =>
        acct.secret = offered /\ ~acct.on

\* The badges and offers of the cards agree with the API, whichever tab was
\* shown when a request was answered: unless the answer was lost, or a fetch is
\* under way, or failed, or was begun before a success and not repeated.
BadgesAreTrue ==
    ~missed =>
        /\ Trusted(me) => me.data = {UserRow}
        /\ pane = "mfa" /\ Trusted(mfaStatus) => mfaStatus.data = {acct.on}
=============================================================================
