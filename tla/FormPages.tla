----------------------------- MODULE FormPages ------------------------------
(***************************************************************************)
(* The pages whose forms keep what they ask for and show: /login, those    *)
(* that sign a visitor in, those that mail something or spend what was     *)
(* mailed, and the platform's pages that give out a secret.  In a document *)
(* one page is mounted at a time, and these share no state: a behaviour is *)
(* about one of them, and the others stay closed.                          *)
(***************************************************************************)
EXTENDS LoginPage, LandingPages, RecoveryPages, OneTimeSecrets

VARIABLE opened     \* the page the behaviour is about

ClosedLogin    == LoginInit
ClosedLanding  ==
    /\ LandingInit
    /\ route = "register" /\ grant = "none" /\ former = Nobody
    /\ health = "good" /\ owner = CHOOSE v \in Visitors : TRUE
ClosedRecovery ==
    RecoveryInit /\ tokens = [k \in {"reset", "email"} |-> "none"]

Opens(it, p, Init, Closed) ==
    IF it = p THEN opened = p /\ Init ELSE Closed

\* The page that is opened moves, every other stays as it is.
Moves(it, Next, its) ==
    \/ opened = it /\ Next
    \/ opened # it /\ UNCHANGED its

FormInit ==
    \E p \in {"login", "landing", "recovery", "secrets"} :
        /\ Opens(p, "login", LoginInit, ClosedLogin)
        /\ Opens(p, "landing", LandingInit, ClosedLanding)
        /\ Opens(p, "recovery", RecoveryInit, ClosedRecovery)
        /\ Opens(p, "secrets", SecretInit, SecretInit)

FormNext ==
    /\ UNCHANGED opened
    /\ Moves("login", LoginNext, loginVars)
    /\ Moves("landing", LandingNext, landingVars)
    /\ Moves("recovery", RecoveryNext, recoveryVars)
    /\ Moves("secrets", SecretNext, secretVars)

FormSpec ==
    /\ FormInit
    /\ [][FormNext]_<<opened, loginVars, landingVars, recoveryVars,
                     secretVars>>
-----------------------------------------------------------------------------
\* A panel that says where a mail went names the address of the last request the
\* API has accepted, and the one on /login that of the field above it.  Whether a
\* mail went out is known to nobody (PanelsMeanMail).
PanelsNameAddress == PanelNamesField /\ PanelNamesRequest

\* The pages that spend a grant or register sign in whole or not at all, and, in a
\* browser without a session, as the owner.
SignedInWhole == NothingHalfway /\ LandedAsOwner
=============================================================================
