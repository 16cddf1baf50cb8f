--------------------------- MODULE RecoveryPages ---------------------------
(***************************************************************************)
(* The pages for a visitor without a session that mail something or spend  *)
(* what was mailed: /forgot-password, /magic-link, /reset-password and     *)
(* /verify-email.  A token of the last two is a signed statement: it is    *)
(* good until it expires, however often it is used.                        *)
(***************************************************************************)
EXTENDS Naturals

CONSTANTS Addresses, NoAddress

ASSUME RecoveryAssumption == NoAddress \notin Addresses

MailPages == {"forgot", "magic"}

VARIABLES
    form,       \* per mail page: the field, the request in flight, isSent and
                \* sentEmail
    accepted,   \* per mail page: the address of the last request the API has
                \* accepted
    mailed,     \* mail pages whose last accepted request has sent a mail
    tokens,     \* per page that spends one: the token in its URL
    validated,  \* validateResetToken: pending, or its outcome
    resetting,  \* resetMutation is in flight
    completed,  \* isResetComplete
    pushAt,     \* the timer that will push /login is running
    place,      \* where the visitor of /reset-password is by now
    confirming, \* verifyMutation of /verify-email is in flight
    verdict,    \* status of /verify-email
    done        \* at the API: what the two tokens have changed

mailVars     == <<form, accepted, mailed>>
resetVars    == <<validated, resetting, completed, pushAt, place>>
confirmVars  == <<confirming, verdict>>
recoveryVars == <<mailVars, tokens, resetVars, confirmVars, done>>

MaybeAddress == Addresses \cup {NoAddress}
Forms == [field : MaybeAddress, job : MaybeAddress, sent : BOOLEAN,
          to : MaybeAddress]

RecoveryTypeOK ==
    /\ form \in [MailPages -> Forms]
    /\ accepted \in [MailPages -> MaybeAddress]
    /\ mailed \subseteq MailPages
    /\ tokens \in [{"reset", "email"} -> {"none", "good", "bad"}]
    /\ validated \in {"pending", "good", "bad"}
    /\ {resetting, completed, pushAt, confirming} \subseteq BOOLEAN
    /\ place \in {"reset", "login", "home", "forgot"}
    /\ verdict \in {"loading", "success", "error"}
    /\ done \subseteq {"reset", "email"}
    /\ \A p \in MailPages : form[p].sent => form[p].to # NoAddress

RecoveryInit ==
    /\ form = [p \in MailPages |-> [field |-> NoAddress, job |-> NoAddress,
                                    sent |-> FALSE, to |-> NoAddress]]
    /\ accepted = [p \in MailPages |-> NoAddress]
    /\ mailed = {}
    /\ tokens \in [{"reset", "email"} -> {"none", "good", "bad"}]
    /\ validated = "pending" /\ resetting = FALSE /\ completed = FALSE
    /\ pushAt = FALSE /\ place = "reset"
    /\ confirming = (tokens["email"] # "none")
    /\ verdict = IF tokens["email"] = "none" THEN "error" ELSE "loading"
    /\ done = {}
-----------------------------------------------------------------------------
\* The form, unless the panel took its place.
ForgotForm  == ~form["forgot"].sent
MagicForm   == ~form["magic"].sent
Offered(p)  == IF p = "forgot" THEN ForgotForm ELSE MagicForm

TypeAddress(p, a) ==
    /\ Offered(p) /\ form[p].field # a
    /\ form' = [form EXCEPT ![p].field = a]
    /\ UNCHANGED <<accepted, mailed, tokens, resetVars, confirmVars, done>>

Request(p, a) ==
    /\ form[p].job = NoAddress /\ a # NoAddress
    /\ form' = [form EXCEPT ![p].job = a]
    /\ UNCHANGED <<accepted, mailed, tokens, resetVars, confirmVars, done>>

RequestReset == ForgotForm /\ Request("forgot", form["forgot"].field)
RequestMagic == MagicForm /\ Request("magic", form["magic"].field)

\* Resend of the panel of /forgot-password.
ResendReset == ~ForgotForm /\ Request("forgot", form["forgot"].to)

\* "Try a different email" of the panel of /magic-link.
DifferentEmail ==
    /\ ~MagicForm
    /\ form' = [form EXCEPT !["magic"].sent = FALSE]
    /\ UNCHANGED <<accepted, mailed, tokens, resetVars, confirmVars, done>>

\* The API accepts a request, and sends a mail if the account is known and may
\* have one: it does not say, so as not to tell who has an account.
Accept(p, a) ==
    /\ accepted' = [accepted EXCEPT ![p] = a]
    /\ mailed' \in {mailed \ {p}, mailed \cup {p}}

\* Broken variant: the panel names what is in the field by now.
RequestAcceptedFromField(p) ==
    /\ form[p].job # NoAddress
    /\ Accept(p, form[p].job)
    /\ form' = [form EXCEPT ![p].to = form[p].field, ![p].sent = TRUE,
                            ![p].job = NoAddress]
    /\ UNCHANGED <<tokens, resetVars, confirmVars, done>>

\* onSuccess of the request: the panel names the variables of the mutation.
RequestAccepted(p) ==
    /\ form[p].job # NoAddress
    /\ Accept(p, form[p].job)
    /\ form' = [form EXCEPT ![p].to = form[p].job, ![p].sent = TRUE,
                            ![p].job = NoAddress]
    /\ UNCHANGED <<tokens, resetVars, confirmVars, done>>

\* onError: the request was refused, or accepted and its answer is lost.
RequestFailed(p) ==
    /\ form[p].job # NoAddress
    /\ form' = [form EXCEPT ![p].job = NoAddress]
    /\ Accept(p, form[p].job) \/ UNCHANGED <<accepted, mailed>>
    /\ UNCHANGED <<tokens, resetVars, confirmVars, done>>
-----------------------------------------------------------------------------
\* The five states of /reset-password.
OnReset    == place = "reset"
NoMailToken == OnReset /\ tokens["reset"] = "none"
Validating == OnReset /\ ~NoMailToken /\ validated = "pending"
BadToken   == OnReset /\ ~NoMailToken /\ validated = "bad"
Finished   == OnReset /\ validated = "good" /\ completed
PasswordsForm == OnReset /\ validated = "good" /\ ~completed

\* The query that asks whether the token is good, or cannot.
Validated ==
    /\ Validating
    /\ validated' \in {tokens["reset"], "bad"}
    /\ UNCHANGED <<mailVars, tokens, resetting, completed, pushAt, place,
                   confirmVars, done>>

SubmitReset ==
    /\ PasswordsForm /\ ~resetting
    /\ resetting' = TRUE
    /\ UNCHANGED <<mailVars, tokens, validated, completed, pushAt, place,
                   confirmVars, done>>

\* The password is changed; three seconds later the router will push /login.
ResetDone ==
    /\ resetting /\ tokens["reset"] = "good"
    /\ done' = done \cup {"reset"}
    /\ completed' = TRUE /\ pushAt' = TRUE
    /\ resetting' = FALSE
    /\ UNCHANGED <<mailVars, tokens, validated, place, confirmVars>>

\* Refused, or the answer is lost when the password may have been changed; the
\* form stays.
ResetFailed ==
    /\ resetting
    /\ done' \in {done, IF tokens["reset"] = "good" THEN done \cup {"reset"}
                                                    ELSE done}
    /\ resetting' = FALSE
    /\ UNCHANGED <<mailVars, tokens, validated, completed, pushAt, place,
                   confirmVars>>

\* "Request a new reset link" and "Go to login".
LeaveReset ==
    /\ \/ (NoMailToken \/ BadToken) /\ place' = "forgot"
       \/ Finished /\ place' = "login"
    /\ UNCHANGED <<mailVars, tokens, validated, resetting, completed,
                   pushAt, confirmVars, done>>

\* The visitor signs in at once, with the new password or a passkey.
SignedInMeanwhile ==
    /\ place = "login"
    /\ place' = "home"
    /\ UNCHANGED <<mailVars, tokens, validated, resetting, completed,
                   pushAt, confirmVars, done>>

\* The timer is not cleared: it pushes /login wherever the visitor is.
PushLogin ==
    /\ pushAt
    /\ pushAt' = FALSE /\ place' = "login"
    /\ UNCHANGED <<mailVars, tokens, validated, resetting, completed,
                   confirmVars, done>>
-----------------------------------------------------------------------------
\* Broken variant: any answer is a success.
EmailAnswered ==
    /\ confirming
    /\ verdict' = "success"
    /\ confirming' = FALSE
    /\ UNCHANGED <<mailVars, tokens, resetVars, done>>

\* The mutation /verify-email starts when it is mounted.
EmailVerified ==
    /\ confirming /\ tokens["email"] = "good"
    /\ done' = done \cup {"email"}
    /\ verdict' = "success"
    /\ confirming' = FALSE
    /\ UNCHANGED <<mailVars, tokens, resetVars>>

EmailFailed ==
    /\ confirming
    /\ done' \in {done, IF tokens["email"] = "good" THEN done \cup {"email"}
                                                    ELSE done}
    /\ verdict' = "error"
    /\ confirming' = FALSE
    /\ UNCHANGED <<mailVars, tokens, resetVars>>

TokenExpires(k) ==
    /\ tokens[k] = "good"
    /\ tokens' = [tokens EXCEPT ![k] = "bad"]
    /\ UNCHANGED <<mailVars, resetVars, confirmVars, done>>
-----------------------------------------------------------------------------
RecoveryNext ==
    \/ \E p \in MailPages : \/ \E a \in Addresses : TypeAddress(p, a)
                            \/ RequestAccepted(p) \/ RequestFailed(p)
    \/ RequestReset \/ RequestMagic \/ ResendReset \/ DifferentEmail
    \/ Validated \/ SubmitReset \/ ResetDone \/ ResetFailed
    \/ LeaveReset \/ SignedInMeanwhile \/ PushLogin
    \/ EmailVerified \/ EmailFailed
    \/ \E k \in {"reset", "email"} : TokenExpires(k)

RecoverySpec == RecoveryInit /\ [][RecoveryNext]_recoveryVars
-----------------------------------------------------------------------------
\* The panel "We've sent ... to" names the address of the last request the API
\* has accepted, whatever was typed while it was under way and whichever answers
\* were lost, and so will Resend.  That a mail went there is not promised.
PanelNamesRequest ==
    \A p \in MailPages : form[p].sent => form[p].to = accepted[p]

\* The panels say "We've sent password reset instructions to" and "We've sent a
\* magic link to", so a mail went there.  It fails: the API accepts a request for
\* an unknown or ineligible account and sends nothing.
PanelsMeanMail ==
    \A p \in MailPages : form[p].sent => p \in mailed

\* What the pages announce has happened: the password was changed, the e-mail
\* address was verified, though the token may have expired after it was looked
\* at.  The converse is not promised: an answer may be lost.
AnnouncedIsDone ==
    /\ completed => "reset" \in done
    /\ verdict = "success" => "email" \in done
=============================================================================
