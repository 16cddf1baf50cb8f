----------------------------- MODULE ListPages ------------------------------
(***************************************************************************)
(* The pages that show rows of the API through cached queries and change   *)
(* them from dialogs: passkeys, and the users, mail or SMS configurations  *)
(* and social providers of an organization.  In a document one page is     *)
(* mounted at a time, and they share no query: a behaviour is about one of *)
(* them, and the others stay closed.                                       *)
(***************************************************************************)
EXTENDS PasskeyCard, TenantUsers, Communications, SocialProviders

VARIABLE opened     \* the page the behaviour is about

ClosedPasskeys == PasskeyInit
ClosedUsers    == UsersInit /\ selected = CHOOSE o \in Orgs : TRUE
ClosedComm     ==
    /\ CommInit
    /\ org = CHOOSE t \in Tenants : TRUE
    /\ \A t \in Tenants : configs[t].ids = {}
ClosedSocial   ==
    /\ SocialInit
    /\ holder = CHOOSE w \in Owners : TRUE
    /\ \A w \in Owners : social[w].ids = {}

Opens(it, p, Init, Closed) ==
    IF it = p THEN opened = p /\ Init ELSE Closed

\* The page that is opened moves, every other stays as it is.
Moves(it, Next, its) ==
    \/ opened = it /\ Next
    \/ opened # it /\ UNCHANGED its

ListInit ==
    \E p \in {"passkeys", "users", "comm", "social"} :
        /\ Opens(p, "passkeys", PasskeyInit, ClosedPasskeys)
        /\ Opens(p, "users", UsersInit, ClosedUsers)
        /\ Opens(p, "comm", CommInit, ClosedComm)
        /\ Opens(p, "social", SocialInit, ClosedSocial)

ListNext ==
    /\ UNCHANGED opened
    /\ Moves("passkeys", PasskeyNext, passkeyVars)
    /\ Moves("users", UsersNext, userVars)
    /\ Moves("comm", CommNext, commVars)
    /\ Moves("social", SocialNext, socialVars)

ListSpec ==
    /\ ListInit
    /\ [][ListNext]_<<opened, passkeyVars, userVars, commVars, socialVars>>
-----------------------------------------------------------------------------
\* What a page lists is what the API has, whatever was answered, in whichever
\* order, under whichever selection and dialog.
ListsAreTrue ==
    /\ PasskeysAreListed /\ UsersAreListed /\ RolesAreListed
    /\ ConfigsAreListed /\ ProvidersAreListed

\* What a dialog sends was chosen or typed for the organization or the row the
\* request names, although the dialogs are reused and the selection changes.
SentForItsTarget == RoleOfOrganization /\ FormOfItem /\ FormOfProvider
=============================================================================
