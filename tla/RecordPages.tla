---------------------------- MODULE RecordPages -----------------------------
(***************************************************************************)
(* The pages that show and change one record of the API: the profile and   *)
(* its phone number, the password and second factor, the sign-in settings  *)
(* of an organization, and an account of the platform, with the list it is *)
(* opened from.  In a document one page is mounted at a time, and these    *)
(* share no state but the store: a behaviour is about one of the four      *)
(* modules, and the others stay closed.                                    *)
(***************************************************************************)
EXTENDS PhonePages, SecurityCards, TenantSettings, PlatformAccounts

VARIABLE opened     \* the page the behaviour is about

ClosedPhone    == PhoneInit /\ phone.number = CHOOSE n \in Numbers : TRUE
ClosedCards    == CardInit /\ acct.password
ClosedSettings ==
    /\ SettingsInit
    /\ firm = CHOOSE f \in Firms : TRUE
    /\ \A f \in Firms : settings[f] = CHOOSE v \in Values : TRUE

Opens(it, p, Init, Closed) ==
    IF it = p THEN opened = p /\ Init ELSE Closed

\* The page that is opened moves, every other stays as it is.
Moves(it, Next, its) ==
    \/ opened = it /\ Next
    \/ opened # it /\ UNCHANGED its

RecordInit ==
    \E p \in {"phone", "cards", "settings", "accounts"} :
        /\ Opens(p, "phone", PhoneInit, ClosedPhone)
        /\ Opens(p, "cards", CardInit, ClosedCards)
        /\ Opens(p, "settings", SettingsInit, ClosedSettings)
        /\ Opens(p, "accounts", PlatformInit, PlatformInit)

RecordNext ==
    /\ UNCHANGED opened
    /\ Moves("phone", PhoneNext, phoneVars)
    /\ Moves("cards", CardNext, cardVars)
    /\ Moves("settings", SettingsNext, settingsVars)
    /\ Moves("accounts", PlatformNext, platformVars)

RecordSpec ==
    /\ RecordInit
    /\ [][RecordNext]_<<opened, phoneVars, cardVars, settingsVars,
                       platformVars>>
-----------------------------------------------------------------------------
\* The profile, the badges of the security page and the accounts of the platform
\* show what the API has, whoever or whichever page was shown when an answer came.
RecordsAreCurrent ==
    ProfileIsCurrent /\ BadgesAreTrue /\ AccountsAreListed /\ AccountIsShown
=============================================================================
