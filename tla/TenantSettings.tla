--------------------------- MODULE TenantSettings ---------------------------
(***************************************************************************)
(* The page /tenant/settings: one form that holds all authentication       *)
(* settings of the selected organization and saves all of them.            *)
(*                                                                         *)
(* The form takes its values from the cached query once, when it is        *)
(* mounted, and a data set that arrives later does not change it.  It is   *)
(* mounted anew for each organization (key = activeTenantId); a save whose *)
(* form is gone still invalidates the query of its own organization.       *)
(***************************************************************************)
EXTENDS Naturals, QueryCache

CONSTANTS Firms, Values, NoForm

ASSUME SettingsAssumption == NoForm \notin Firms \cup Values

VARIABLES
    settings,   \* at the API: per organization
    config,     \* per organization the query tenantAuthConfig
    firm,       \* activeTenantId
    sheet,      \* the form: whose settings it was filled from, and its values
    saves,      \* requests in flight
    \* History, read by no action
    touched,    \* the form was changed since it was mounted
    behind,     \* it was filled while a save or a fetch was under way, or failed
    unheardOf   \* organizations of which an answer was lost

settingsVars == <<settings, config, firm, sheet, saves, touched, behind,
                  unheardOf>>

Blank == [of |-> NoForm, val |-> NoForm]
Saves == [tenant : Firms, of : Firms, val : Values, mounted : BOOLEAN]

SettingsTypeOK ==
    /\ settings \in [Firms -> Values] /\ config \in [Firms -> Query(Values)]
    /\ firm \in Firms
    /\ sheet \in [of : Firms, val : Values] \cup {Blank}
    /\ saves \subseteq Saves
    /\ touched \in BOOLEAN /\ behind \in BOOLEAN /\ unheardOf \subseteq Firms
    /\ sheet = Blank <=> ~Loaded(config[firm])
    /\ \A j, k \in saves : j.mounted /\ k.mounted => j = k

SettingsInit ==
    /\ settings \in [Firms -> Values]
    /\ firm \in Firms
    /\ config = [t \in Firms |-> IF t = firm
                                 THEN Observed(NewQuery, settings[t])
                                 ELSE NewQuery]
    /\ sheet = Blank /\ saves = {}
    /\ touched = FALSE /\ behind = FALSE /\ unheardOf = {}
-----------------------------------------------------------------------------
\* buildFormData, when the form is mounted for t with the data of q.
Filled(t, q) ==
    IF Loaded(q) THEN [of |-> t, val |-> CHOOSE v \in q.data : TRUE] ELSE Blank

Behind(t, q) == ~Trusted(q) \/ (\E j \in saves : j.tenant = t) \/ t \in unheardOf

\* Broken variant: the form is not keyed by the organization.
SelectFirmKeepsForm(t) ==
    /\ firm # t
    /\ firm' = t
    /\ config' = [config EXCEPT ![t] = Observed(@, settings[t])]
    /\ sheet' = IF Loaded(config[t]) /\ sheet # Blank THEN sheet
                                                   ELSE Filled(t, config'[t])
    /\ touched' = FALSE /\ behind' = Behind(t, config'[t])
    /\ saves' = {[j EXCEPT !.mounted = FALSE] : j \in saves}
    /\ UNCHANGED <<settings, unheardOf>>

SelectFirm(t) ==
    /\ firm # t
    /\ firm' = t
    /\ config' = [config EXCEPT ![t] = Observed(@, settings[t])]
    /\ sheet' = Filled(t, config'[t])
    /\ touched' = FALSE /\ behind' = Behind(t, config'[t])
    /\ saves' = {[j EXCEPT !.mounted = FALSE] : j \in saves}
    /\ UNCHANGED <<settings, unheardOf>>

\* The answer mounts the form that waits for it.
ConfigFetched(t) ==
    /\ Fetching(config[t])
    /\ \E q \in {Answered(config[t]), Failed(config[t])} :
          /\ config' = [config EXCEPT ![t] = q]
          /\ IF t = firm /\ sheet = Blank
             THEN /\ sheet' = Filled(t, q)
                  /\ behind' = Behind(t, q) /\ touched' = FALSE
             ELSE UNCHANGED <<sheet, behind, touched>>
    /\ UNCHANGED <<settings, firm, saves, unheardOf>>

\* The switches and the fields.
EditSettings(v) ==
    /\ sheet # Blank /\ sheet.val # v
    /\ sheet' = [sheet EXCEPT !.val = v] /\ touched' = TRUE
    /\ UNCHANGED <<settings, config, firm, saves, behind, unheardOf>>

SaveAll ==
    /\ sheet # Blank /\ \A j \in saves : ~j.mounted
    /\ saves' = saves \cup {[tenant |-> firm, of |-> sheet.of,
                             val |-> sheet.val, mounted |-> TRUE]}
    /\ UNCHANGED <<settings, config, firm, sheet, touched, behind, unheardOf>>
-----------------------------------------------------------------------------
\* Broken variant: the query is not invalidated.
SettingsSavedQuietly(j) ==
    /\ saves' = saves \ {j}
    /\ settings' = [settings EXCEPT ![j.tenant] = j.val]
    /\ UNCHANGED <<config, firm, sheet, touched, behind, unheardOf>>

SettingsSaved(j) ==
    /\ saves' = saves \ {j}
    /\ settings' = [settings EXCEPT ![j.tenant] = j.val]
    /\ config' = [config EXCEPT ![j.tenant] =
                     Invalidated(@, j.tenant = firm, settings'[j.tenant])]
    /\ UNCHANGED <<firm, sheet, touched, behind, unheardOf>>

\* Refused or never sent; or saved, and the answer lost.
SettingsNotSaved(j) ==
    /\ saves' = saves \ {j}
    /\ \/ UNCHANGED <<settings, unheardOf>>
       \/ /\ settings' = [settings EXCEPT ![j.tenant] = j.val]
          /\ unheardOf' = unheardOf \cup {j.tenant}
    /\ UNCHANGED <<config, firm, sheet, touched, behind>>
-----------------------------------------------------------------------------
SettingsNext ==
    \/ \E t \in Firms : SelectFirm(t) \/ ConfigFetched(t)
    \/ \E v \in Values : EditSettings(v)
    \/ SaveAll
    \/ \E j \in saves : SettingsSaved(j) \/ SettingsNotSaved(j)

SettingsSpec == SettingsInit /\ [][SettingsNext]_settingsVars
-----------------------------------------------------------------------------
\* The settings that are saved for an organization were filled from that
\* organization's, however often another one was selected meanwhile.
SavedForItsOwn == \A j \in saves : j.of = j.tenant

\* A form that nobody changed shows the settings the API has, so that saving it
\* takes nothing back; unless it was filled from cached data while a save or a
\* fetch was under way, or the answer to a save was lost.
UntouchedIsCurrent ==
    sheet # Blank /\ ~touched /\ ~behind /\ firm \notin unheardOf =>
        sheet.val = settings[firm]
=============================================================================
