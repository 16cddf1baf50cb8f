----------------------------- MODULE LoginPage -----------------------------
(***************************************************************************)
(* The page /login of the dashboard: password, magic link, passkey, and    *)
(* the two second-factor screens that replace the form.                    *)
(*                                                                         *)
(* One component holds all the state.  Each mutation is in flight at most  *)
(* once (its button is disabled while it is pending), but the screens may  *)
(* change under it: its answer is applied to whatever is shown by then,    *)
(* and also after the page was left.  The visitor is signed out, so a 401  *)
(* makes apiClient load /login again, and all the state is lost.           *)
(*                                                                         *)
(* An e-mail address stands for its account; a code, for the account whose *)
(* authenticator shows it.  Messages and the validation of fields are left *)
(* out.                                                                    *)
(***************************************************************************)
EXTENDS Integers

CONSTANTS
    Accounts,
    MethodSets,     \* the answers GET /auth/auth-config may give
    Cooldown,       \* MAGIC_LINK_COOLDOWN_SEC, in ticks
    NoAccount

Methods == {"email_password", "magic_link", "passkey", "social_provider"}

ASSUME LoginPageAssumption ==
    /\ NoAccount \notin Accounts
    /\ MethodSets \subseteq SUBSET Methods
    /\ Cooldown \in Nat \ {0}

VARIABLES
    configured,     \* authConfig has been fetched
    methods,        \* allowed_methods; none before
    tab,            \* credentialTab, which localStorage keeps
    email,          \* sharedEmail, or the e-mail field of the one form shown
    sentTo,         \* magicLinkSentEmail
    cooldown,       \* resendCooldown
    loginJob,       \* loginMutation: the account it was called for
    linkJob,        \* magicLinkMutation
    completeJob,    \* mfaCompleteMutation: its token and its code
    startJob,       \* mfaEnrollStartMutation
    verifyJob,      \* mfaEnrollVerifyMutation
    ceremony,       \* the await handleWebAuthnLogin stands at
    mfaFor,         \* mfaPendingToken: the account it was issued for
    mfaCode,
    enrollFor,      \* mfaEnrollmentToken
    enrollment,     \* enrollData: whose secret; enrollmentCode
    account,        \* the account signed in; the page is left then
    \* History, read by no action
    edited,         \* the address was last edited while a link was requested
    lateSecret,     \* Back was clicked while the set-up was being started
    gaveUp          \* accounts whose challenge was left by Back, with no
                    \* answer under way, and not asked for since

fieldVars  == <<tab, email, sentTo, cooldown>>
mfaVars    == <<mfaFor, mfaCode>>
enrollVars == <<enrollFor, enrollment>>
loginJobs  == <<loginJob, linkJob, completeJob, startJob, verifyJob>>
loginPast  == <<edited, lateSecret, gaveUp>>
config     == <<configured, methods>>
loginVars  == <<config, fieldVars, mfaVars, enrollVars, loginJobs, ceremony,
                account, loginPast>>

Maybe   == Accounts \cup {NoAccount}
NoTry   == [for |-> NoAccount, code |-> NoAccount]
NoEnrollment == [secret |-> NoAccount, code |-> NoAccount]
Stages  == {"off", "begin", "prompt", "complete"}

LoginTypeOK ==
    /\ configured \in BOOLEAN /\ methods \subseteq Methods
    /\ tab \in {"password", "magic_link"}
    /\ {email, sentTo, loginJob, linkJob, startJob, mfaFor, mfaCode,
        enrollFor, account} \subseteq Maybe
    /\ cooldown \in 0..Cooldown
    /\ {completeJob, verifyJob} \subseteq [for : Maybe, code : Maybe]
    /\ enrollment \in [secret : Maybe, code : Maybe]
    /\ ceremony \in Stages
    /\ edited \in BOOLEAN /\ lateSecret \in BOOLEAN /\ gaveUp \subseteq Accounts

LoginInit ==
    /\ configured = FALSE /\ methods = {}
    /\ tab = "password" /\ email = NoAccount /\ sentTo = NoAccount
    /\ cooldown = 0
    /\ loginJob = NoAccount /\ linkJob = NoAccount /\ startJob = NoAccount
    /\ completeJob = NoTry /\ verifyJob = NoTry
    /\ ceremony = "off"
    /\ mfaFor = NoAccount /\ mfaCode = NoAccount
    /\ enrollFor = NoAccount /\ enrollment = NoEnrollment
    /\ account = NoAccount
    /\ edited = FALSE /\ lateSecret = FALSE /\ gaveUp = {}
-----------------------------------------------------------------------------
\* What is shown: one of the two screens of the second factor, or the form.
Mounted   == account = NoAccount
EnrollScreen == Mounted /\ enrollFor # NoAccount
MfaScreen == Mounted /\ ~EnrollScreen /\ mfaFor # NoAccount
FormScreen == Mounted /\ configured /\ ~EnrollScreen /\ ~MfaScreen

CredentialTabs == {"email_password", "magic_link"} \subseteq methods
PasswordForm == FormScreen /\ "email_password" \in methods
                /\ (CredentialTabs => tab = "password")
LinkForm     == FormScreen /\ "magic_link" \in methods
                /\ (CredentialTabs => tab = "magic_link")

\* handleLoginSuccess: whoever was signed in by an earlier answer is replaced.
SignIn(a) == account' = a

\* 401 without a refresh token: the document is loaded again.  Only the tab
\* chosen is remembered.
Reload ==
    /\ configured' = FALSE /\ methods' = {}
    /\ email' = NoAccount /\ sentTo' = NoAccount /\ cooldown' = 0
    /\ loginJob' = NoAccount /\ linkJob' = NoAccount /\ startJob' = NoAccount
    /\ completeJob' = NoTry /\ verifyJob' = NoTry
    /\ ceremony' = "off"
    /\ mfaFor' = NoAccount /\ mfaCode' = NoAccount
    /\ enrollFor' = NoAccount /\ enrollment' = NoEnrollment
    /\ account' = NoAccount
    /\ edited' = FALSE /\ lateSecret' = FALSE
    /\ UNCHANGED <<tab, gaveUp>>
-----------------------------------------------------------------------------
ConfigLoaded ==
    /\ ~configured
    /\ configured' = TRUE
    /\ methods' \in MethodSets
    /\ UNCHANGED <<fieldVars, mfaVars, enrollVars, loginJobs, ceremony, account,
                   loginPast>>

\* handleCredentialTabChange
ChangeTab(t) ==
    /\ FormScreen /\ CredentialTabs /\ t # tab
    /\ tab' = t
    /\ UNCHANGED <<config, email, sentTo, cooldown, mfaVars, enrollVars,
                   loginJobs, ceremony, account, loginPast>>

\* Broken variant: the panel stays when the shared address is edited.
EditEmailKeepsPanel(e) ==
    /\ FormScreen /\ e # email
    /\ CredentialTabs \/ PasswordForm \/ sentTo = NoAccount
    /\ email' = e
    /\ edited' = (linkJob # NoAccount)
    /\ UNCHANGED <<config, tab, sentTo, cooldown, mfaVars, enrollVars,
                   loginJobs, ceremony, account, lateSecret, gaveUp>>

\* The shared field, or the field of the only form.  With tabs, editing takes
\* the panel away; the cooldown goes on.
EditEmail(e) ==
    /\ FormScreen /\ e # email
    /\ CredentialTabs \/ PasswordForm \/ sentTo = NoAccount
    /\ email' = e
    /\ sentTo' = IF CredentialTabs THEN NoAccount ELSE sentTo
    /\ edited' = (linkJob # NoAccount)
    /\ UNCHANGED <<config, tab, cooldown, mfaVars, enrollVars, loginJobs,
                   ceremony, account, lateSecret, gaveUp>>

SubmitPassword ==
    /\ PasswordForm /\ email # NoAccount /\ loginJob = NoAccount
    /\ loginJob' = email
    /\ gaveUp' = gaveUp \ {email}
    /\ UNCHANGED <<config, fieldVars, mfaVars, enrollVars, linkJob, completeJob,
                   startJob, verifyJob, ceremony, account, edited, lateSecret>>

\* Broken variant: what was shown for the login before stays.
KeptEnrollment == enrollment

\* The reset of an enrollment: after a login that requires one, and by Back.
ClearedEnrollment == NoEnrollment

\* loginMutation.onSuccess: a session, or one of the two challenges.
LoginGranted ==
    /\ loginJob # NoAccount
    /\ SignIn(loginJob)
    /\ loginJob' = NoAccount
    /\ UNCHANGED <<config, fieldVars, mfaVars, enrollVars, linkJob, completeJob,
                   startJob, verifyJob, ceremony, loginPast>>

LoginNeedsCode ==
    /\ loginJob # NoAccount
    /\ mfaFor' = IF Mounted THEN loginJob ELSE mfaFor
    /\ loginJob' = NoAccount
    /\ UNCHANGED <<config, fieldVars, mfaCode, enrollVars, linkJob, completeJob,
                   startJob, verifyJob, ceremony, account, loginPast>>

LoginNeedsEnrollment ==
    /\ loginJob # NoAccount
    /\ enrollFor' = IF Mounted THEN loginJob ELSE enrollFor
    /\ enrollment' = IF Mounted THEN ClearedEnrollment ELSE enrollment
    /\ loginJob' = NoAccount
    /\ UNCHANGED <<config, fieldVars, mfaVars, linkJob, completeJob, startJob,
                   verifyJob, ceremony, account, loginPast>>

\* Wrong credentials are a 401; any other failure is shown under the form.
LoginRefused ==
    /\ loginJob # NoAccount
    /\ Reload

LoginFailed ==
    /\ loginJob # NoAccount
    /\ loginJob' = NoAccount
    /\ UNCHANGED <<config, fieldVars, mfaVars, enrollVars, linkJob, completeJob,
                   startJob, verifyJob, ceremony, account, loginPast>>
-----------------------------------------------------------------------------
RequestLink(to) ==
    /\ linkJob = NoAccount /\ to # NoAccount
    /\ linkJob' = to
    /\ UNCHANGED <<config, fieldVars, mfaVars, enrollVars, loginJob,
                   completeJob, startJob, verifyJob, ceremony, account,
                   loginPast>>

SendLink == LinkForm /\ sentTo = NoAccount /\ RequestLink(email)

\* Resend in the panel.  With tabs the address is that of the shared field,
\* whatever the panel says.
ResendLink ==
    /\ LinkForm /\ sentTo # NoAccount /\ cooldown = 0
    /\ RequestLink(IF CredentialTabs THEN email ELSE sentTo)

LinkSent ==
    /\ linkJob # NoAccount
    /\ sentTo' = IF Mounted THEN linkJob ELSE sentTo
    /\ cooldown' = IF Mounted THEN Cooldown ELSE cooldown
    /\ linkJob' = NoAccount
    /\ UNCHANGED <<config, tab, email, mfaVars, enrollVars, loginJob,
                   completeJob, startJob, verifyJob, ceremony, account,
                   loginPast>>

LinkFailed ==
    /\ linkJob # NoAccount
    /\ linkJob' = NoAccount
    /\ UNCHANGED <<config, fieldVars, mfaVars, enrollVars, loginJob,
                   completeJob, startJob, verifyJob, ceremony, account,
                   loginPast>>

\* "Use different email"
ChangeAddress ==
    /\ LinkForm /\ sentTo # NoAccount
    /\ sentTo' = NoAccount /\ cooldown' = 0
    /\ UNCHANGED <<config, tab, email, mfaVars, enrollVars, loginJobs, ceremony,
                   account, loginPast>>

Tick ==
    /\ Mounted /\ cooldown > 0
    /\ cooldown' = cooldown - 1
    /\ UNCHANGED <<config, tab, email, sentTo, mfaVars, enrollVars, loginJobs,
                   ceremony, account, loginPast>>
-----------------------------------------------------------------------------
\* handleWebAuthnLogin: begin, the browser's prompt, complete; the button comes
\* back in every case.
Stage(from, to) == ceremony = from /\ ceremony' = to

PasskeyBegin ==
    /\ FormScreen /\ "passkey" \in methods
    /\ Stage("off", "begin")
    /\ UNCHANGED <<config, fieldVars, mfaVars, enrollVars, loginJobs, account,
                   loginPast>>

PasskeyAsked ==
    /\ Stage("begin", "prompt") \/ Stage("prompt", "complete")
    /\ UNCHANGED <<config, fieldVars, mfaVars, enrollVars, loginJobs, account,
                   loginPast>>

\* A request fails, or the prompt is dismissed or times out.
PasskeyStopped ==
    /\ Stage("begin", "off") \/ Stage("prompt", "off") \/ Stage("complete", "off")
    /\ UNCHANGED <<config, fieldVars, mfaVars, enrollVars, loginJobs, account,
                   loginPast>>

PasskeyRefused == ceremony = "complete" /\ Reload

PasskeyGranted(a) ==
    /\ Stage("complete", "off")
    /\ SignIn(a)
    /\ gaveUp' = gaveUp \ {a}
    /\ UNCHANGED <<config, fieldVars, mfaVars, enrollVars, loginJobs, edited,
                   lateSecret>>
-----------------------------------------------------------------------------
TypeCode(a) ==
    /\ MfaScreen /\ mfaCode # a
    /\ mfaCode' = a
    /\ UNCHANGED <<config, fieldVars, mfaFor, enrollVars, loginJobs, ceremony,
                   account, loginPast>>

CompleteMfa ==
    /\ MfaScreen /\ mfaCode # NoAccount /\ completeJob = NoTry
    /\ completeJob' = [for |-> mfaFor, code |-> mfaCode]
    /\ UNCHANGED <<config, fieldVars, mfaVars, enrollVars, loginJob, linkJob,
                   startJob, verifyJob, ceremony, account, loginPast>>

MfaGranted ==
    /\ completeJob # NoTry /\ completeJob.code = completeJob.for
    /\ SignIn(completeJob.for)
    /\ completeJob' = NoTry
    /\ UNCHANGED <<config, fieldVars, mfaVars, enrollVars, loginJob, linkJob,
                   startJob, verifyJob, ceremony, loginPast>>

\* A wrong code is a 401 too: the challenge is gone with the document.
MfaRefused ==
    /\ completeJob # NoTry /\ completeJob.code # completeJob.for
    /\ Reload

MfaFailed ==
    /\ completeJob # NoTry
    /\ completeJob' = NoTry
    /\ UNCHANGED <<config, fieldVars, mfaVars, enrollVars, loginJob, linkJob,
                   startJob, verifyJob, ceremony, account, loginPast>>

\* The account that Back leaves, unless an answer may still sign it in.
GivenUp(a) ==
    IF a = loginJob \/ \E job \in {completeJob, verifyJob} : job.for = a
    THEN gaveUp ELSE gaveUp \cup {a}

\* Broken variant: Back takes the message away, not the challenge.
BackFromMfaKeepsToken ==
    /\ MfaScreen
    /\ gaveUp' = GivenUp(mfaFor)
    /\ UNCHANGED <<config, fieldVars, mfaVars, enrollVars, loginJobs, ceremony,
                   account, edited, lateSecret>>

\* "Back to sign in": the code typed stays in the field.
BackFromMfa ==
    /\ MfaScreen
    /\ mfaFor' = NoAccount
    /\ gaveUp' = GivenUp(mfaFor)
    /\ UNCHANGED <<config, fieldVars, mfaCode, enrollVars, loginJobs, ceremony,
                   account, edited, lateSecret>>
-----------------------------------------------------------------------------
StartEnroll ==
    /\ EnrollScreen /\ enrollment.secret = NoAccount /\ startJob = NoAccount
    /\ startJob' = enrollFor
    /\ UNCHANGED <<config, fieldVars, mfaVars, enrollVars, loginJob, linkJob,
                   completeJob, verifyJob, ceremony, account, loginPast>>

\* The secret is kept whatever enrollment the page is at.
EnrollStarted ==
    /\ startJob # NoAccount
    /\ enrollment' = IF Mounted THEN [enrollment EXCEPT !.secret = startJob]
                                ELSE enrollment
    /\ startJob' = NoAccount
    /\ UNCHANGED <<config, fieldVars, mfaVars, enrollFor, loginJob, linkJob,
                   completeJob, verifyJob, ceremony, account, loginPast>>

StartRefused == startJob # NoAccount /\ Reload

StartFailed ==
    /\ startJob # NoAccount
    /\ startJob' = NoAccount
    /\ UNCHANGED <<config, fieldVars, mfaVars, enrollVars, loginJob, linkJob,
                   completeJob, verifyJob, ceremony, account, loginPast>>

TypeEnrollCode ==
    /\ EnrollScreen /\ enrollment.secret # NoAccount
    /\ enrollment.code # enrollment.secret
    /\ enrollment' = [enrollment EXCEPT !.code = enrollment.secret]
    /\ UNCHANGED <<config, fieldVars, mfaVars, enrollFor, loginJobs, ceremony,
                   account, loginPast>>

VerifyEnroll ==
    /\ EnrollScreen /\ enrollment.secret # NoAccount
    /\ enrollment.code # NoAccount /\ verifyJob = NoTry
    /\ verifyJob' = [for |-> enrollFor, code |-> enrollment.code]
    /\ UNCHANGED <<config, fieldVars, mfaVars, enrollVars, loginJob, linkJob,
                   completeJob, startJob, ceremony, account, loginPast>>

EnrollGranted ==
    /\ verifyJob # NoTry /\ verifyJob.code = verifyJob.for
    /\ SignIn(verifyJob.for)
    /\ verifyJob' = NoTry
    /\ UNCHANGED <<config, fieldVars, mfaVars, enrollVars, loginJob, linkJob,
                   completeJob, startJob, ceremony, loginPast>>

EnrollRefused ==
    /\ verifyJob # NoTry /\ verifyJob.code # verifyJob.for
    /\ Reload

EnrollFailed ==
    /\ verifyJob # NoTry
    /\ verifyJob' = NoTry
    /\ UNCHANGED <<config, fieldVars, mfaVars, enrollVars, loginJob, linkJob,
                   completeJob, startJob, ceremony, account, loginPast>>

BackFromEnroll ==
    /\ EnrollScreen
    /\ enrollFor' = NoAccount /\ enrollment' = ClearedEnrollment
    /\ lateSecret' = (lateSecret \/ startJob # NoAccount)
    /\ gaveUp' = GivenUp(enrollFor)
    /\ UNCHANGED <<config, fieldVars, mfaVars, loginJobs, ceremony, account,
                   edited>>
-----------------------------------------------------------------------------
LoginAnswer == LoginGranted \/ LoginNeedsCode \/ LoginNeedsEnrollment
               \/ LoginRefused \/ LoginFailed
LinkAnswer  == LinkSent \/ LinkFailed
PasskeyAnswer == PasskeyAsked \/ PasskeyStopped \/ PasskeyRefused
                 \/ \E a \in Accounts : PasskeyGranted(a)
MfaAnswer   == MfaGranted \/ MfaRefused \/ MfaFailed
EnrollAnswer == EnrollStarted \/ StartRefused \/ StartFailed \/ EnrollGranted
                \/ EnrollRefused \/ EnrollFailed

LoginNext ==
    \/ ConfigLoaded
    \/ \E t \in {"password", "magic_link"} : ChangeTab(t)
    \/ \E a \in Accounts : EditEmail(a) \/ TypeCode(a)
    \/ SubmitPassword \/ SendLink \/ ResendLink \/ ChangeAddress \/ Tick
    \/ PasskeyBegin
    \/ CompleteMfa \/ BackFromMfa
    \/ StartEnroll \/ TypeEnrollCode \/ VerifyEnroll \/ BackFromEnroll
    \/ LoginAnswer \/ LinkAnswer \/ PasskeyAnswer \/ MfaAnswer \/ EnrollAnswer

LoginSpec == LoginInit /\ [][LoginNext]_loginVars
-----------------------------------------------------------------------------
\* The panel "We sent a sign-in link to ..." names the address in the field
\* above it, for which Resend will ask again, unless the field was edited while the
\* request was under way.
PanelNamesField ==
    CredentialTabs /\ sentTo # NoAccount /\ ~edited => sentTo = email

\* The secret shown for an enrollment is that of the login that requires it,
\* unless Back was clicked while the set-up of another was being started.
SecretOfThisLogin ==
    EnrollScreen /\ enrollment.secret # NoAccount /\ ~lateSecret =>
        enrollment.secret = enrollFor

\* Nobody is signed in as the account whose challenge the visitor went back
\* from, unless a code for it was on its way or the account was asked for again.
GivenUpStaysOut == account \notin gaveUp

\* A code that is refused can be corrected, as the message "Please try again."
\* says: the page still shows the challenge.  It fails: the 401 loads /login.
WrongCodeCanBeRetried ==
    [][MfaRefused => mfaFor' = mfaFor]_loginVars
=============================================================================
