-------------------------- MODULE SocialProviders --------------------------
(***************************************************************************)
(* The page /tenant/social: the providers an organization lets its members *)
(* sign in with, each with its own credentials and a switch.               *)
(*                                                                         *)
(* Unlike the sections of /tenant/communications, the page keeps a form    *)
(* for Add beside the one for Edit, and a request takes its provider and   *)
(* its form as arguments; Cancel keeps both until the dialog is opened     *)
(* again.                                                                  *)
(***************************************************************************)
EXTENDS Naturals, QueryCache

CONSTANTS Owners, Providers, NoProvider,
          MaxSocialRequests \* bound: how many requests a behaviour starts

ASSUME SocialAssumption ==
    /\ Providers # {} /\ NoProvider \notin Providers
    /\ MaxSocialRequests \in Nat

VARIABLES
    social,         \* at the API: per organization its providers, and those on
    providers,      \* per organization the query tenantSocialProviders
    holder,         \* activeTenantId
    window,         \* the dialog that is open
    newProvider,    \* the provider chosen in the form of Add
    editingProvider, \* the provider Edit was opened for
    editForm,       \* whose row the form of Edit was filled from
    doomed,         \* deleteProviderTarget
    socialJobs,     \* requests in flight
    tries,          \* how many there were
    \* History, read by no action
    astray          \* organizations changed and not invalidated, or not heard of

windows    == <<window, newProvider, editingProvider, editForm, doomed>>
socialVars == <<social, providers, holder, windows, socialJobs, tries, astray>>

MaybeProvider == Providers \cup {NoProvider}
SocialRows == [ids : SUBSET Providers, on : SUBSET Providers]
SocialOps  == {"create", "update", "toggle", "delete"}
SocialJobs == [op : SocialOps, tenant : Owners, provider : Providers,
               of : MaybeProvider, on : BOOLEAN]

SocialTypeOK ==
    /\ social \in [Owners -> SocialRows]
    /\ providers \in [Owners -> Query(SocialRows)]
    /\ holder \in Owners
    /\ window \in {"none", "add", "edit", "delete"}
    /\ newProvider \in Providers
    /\ {editingProvider, editForm, doomed} \subseteq MaybeProvider
    /\ socialJobs \subseteq SocialJobs
    /\ tries \in 0 .. MaxSocialRequests /\ astray \subseteq Owners
    /\ window = "delete" <=> doomed # NoProvider
    /\ window = "edit" => editingProvider # NoProvider

Chosen == CHOOSE p \in Providers : TRUE

SocialInit ==
    /\ social \in [Owners -> {[ids |-> s, on |-> s] : s \in {{}, Providers}}]
    /\ holder \in Owners
    /\ providers = [t \in Owners |-> IF t = holder THEN Holding(social[t])
                                                   ELSE NewQuery]
    /\ window = "none" /\ newProvider = Chosen
    /\ editingProvider = NoProvider /\ editForm = NoProvider
    /\ doomed = NoProvider
    /\ socialJobs = {} /\ tries = 0 /\ astray = {}
-----------------------------------------------------------------------------
SelectOwner(t) ==
    /\ window = "none" /\ holder # t
    /\ holder' = t
    /\ providers' = [providers EXCEPT ![t] = Observed(@, social[t])]
    /\ UNCHANGED <<social, windows, socialJobs, tries, astray>>

ProvidersFetched(t) ==
    /\ Fetching(providers[t])
    /\ \E q \in {Answered(providers[t]), Failed(providers[t])} :
          providers' = [providers EXCEPT ![t] = q]
    /\ UNCHANGED <<social, holder, windows, socialJobs, tries, astray>>

\* The cards of the providers, each with its switch and its menu.
Cards == IF Loaded(providers[holder])
         THEN CHOOSE r \in providers[holder].data : TRUE
         ELSE [ids |-> {}, on |-> {}]

OpenWindow(w) ==
    /\ window = "none" /\ window' = w
    /\ UNCHANGED <<social, providers, holder, socialJobs, tries, astray>>

OpenAdd == OpenWindow("add")
           /\ UNCHANGED <<newProvider, editingProvider, editForm, doomed>>

ChooseProvider(p) ==
    /\ window = "add" /\ newProvider # p
    /\ newProvider' = p
    /\ UNCHANGED <<social, providers, holder, window, editingProvider,
                   editForm, doomed, socialJobs, tries, astray>>

\* Broken variant: the form is filled the first time only.
OpenEditDialogOnce(p) ==
    /\ p \in Cards.ids /\ OpenWindow("edit")
    /\ editingProvider' = p
    /\ editForm' = IF editForm = NoProvider THEN p ELSE editForm
    /\ UNCHANGED <<newProvider, doomed>>

OpenEditDialog(p) ==
    /\ p \in Cards.ids /\ OpenWindow("edit")
    /\ editingProvider' = p /\ editForm' = p
    /\ UNCHANGED <<newProvider, doomed>>

AskDeleteProvider(p) ==
    /\ p \in Cards.ids /\ OpenWindow("delete")
    /\ doomed' = p
    /\ UNCHANGED <<newProvider, editingProvider, editForm>>

\* Cancel, or a click beside the dialog.
CloseWindow ==
    /\ window # "none" /\ window' = "none"
    /\ doomed' = NoProvider
    /\ UNCHANGED <<social, providers, holder, newProvider, editingProvider,
                   editForm, socialJobs, tries, astray>>
-----------------------------------------------------------------------------
\* Every button but the switch is disabled while its request is under way.
Call(op, p, of, on) ==
    /\ op # "toggle" => \A j \in socialJobs : j.op # op
    /\ tries < MaxSocialRequests /\ tries' = tries + 1
    /\ socialJobs' = socialJobs \cup {[op |-> op, tenant |-> holder,
                                       provider |-> p, of |-> of, on |-> on]}
    /\ UNCHANGED <<social, providers, holder, newProvider, editingProvider,
                   editForm, astray>>

AddProvider ==
    /\ window = "add"
    /\ Call("create", newProvider, NoProvider, TRUE)
    /\ UNCHANGED <<window, doomed>>

SaveProvider ==
    /\ window = "edit"
    /\ Call("update", editingProvider, editForm, TRUE)
    /\ UNCHANGED <<window, doomed>>

ToggleProvider(p) ==
    /\ window = "none" /\ p \in Cards.ids
    /\ Call("toggle", p, NoProvider, p \notin Cards.on)
    /\ UNCHANGED <<window, doomed>>

DeleteProvider ==
    /\ window = "delete"
    /\ Call("delete", doomed, NoProvider, TRUE)
    /\ window' = "none" /\ doomed' = NoProvider
-----------------------------------------------------------------------------
\* What the API makes of it.
Performed(j) ==
    LET Now == social[j.tenant] IN
    /\ j.op = "create" <=> j.provider \notin Now.ids
    /\ social' = [social EXCEPT ![j.tenant] =
          CASE j.op = "create" -> [ids |-> Now.ids \cup {j.provider},
                                   on  |-> Now.on \cup {j.provider}]
            [] j.op = "toggle" -> [Now EXCEPT !.on =
                                     IF j.on THEN Now.on \cup {j.provider}
                                             ELSE Now.on \ {j.provider}]
            [] j.op = "delete" -> [ids |-> Now.ids \ {j.provider},
                                   on  |-> Now.on \ {j.provider}]
            [] OTHER           -> Now]

Leave(j) == socialJobs' = socialJobs \ {j} /\ UNCHANGED <<holder, tries>>

RefreshProviders ==
    providers' = [providers EXCEPT ![holder] =
                     Invalidated(@, TRUE, social'[holder])]

\* Broken variant: the switch changes nothing that is cached.
ProviderDoneQuietly(j) ==
    /\ Performed(j)
    /\ IF j.op = "toggle" THEN UNCHANGED providers ELSE RefreshProviders
    /\ astray' = IF j.tenant = holder THEN astray ELSE astray \cup {j.tenant}
    /\ Leave(j)
    /\ UNCHANGED windows

\* The four success handlers: Add closes its dialog and empties its form, Edit
\* its dialog, whichever provider that is open for by now; all invalidate the
\* list of the organization that is selected by now.
ProviderDone(j) ==
    /\ Performed(j)
    /\ RefreshProviders
    /\ astray' = IF j.tenant = holder THEN astray ELSE astray \cup {j.tenant}
    /\ window' = IF \/ j.op = "create" /\ window = "add"
                    \/ j.op = "update" /\ window = "edit" THEN "none" ELSE window
    /\ newProvider' = IF j.op = "create" THEN Chosen ELSE newProvider
    /\ editingProvider' = IF j.op = "update" THEN NoProvider ELSE editingProvider
    /\ Leave(j)
    /\ UNCHANGED <<editForm, doomed>>

ProviderRefused(j) ==
    /\ Leave(j)
    /\ UNCHANGED <<social, providers, windows, astray>>

ProviderUnheard(j) ==
    /\ Performed(j)
    /\ astray' = astray \cup {j.tenant}
    /\ Leave(j)
    /\ UNCHANGED <<providers, windows>>
-----------------------------------------------------------------------------
SocialNext ==
    \/ \E t \in Owners : SelectOwner(t) \/ ProvidersFetched(t)
    \/ OpenAdd \/ CloseWindow \/ AddProvider \/ SaveProvider \/ DeleteProvider
    \/ \E p \in Providers : \/ ChooseProvider(p) \/ OpenEditDialog(p)
                            \/ AskDeleteProvider(p) \/ ToggleProvider(p)
    \/ \E j \in socialJobs : \/ ProviderDone(j) \/ ProviderRefused(j)
                             \/ ProviderUnheard(j)

SocialSpec == SocialInit /\ [][SocialNext]_socialVars
-----------------------------------------------------------------------------
\* The credentials that are saved for a provider were typed into a form filled
\* from that provider's row, although Cancel and a late answer keep the form.
FormOfProvider ==
    \A j \in socialJobs : j.op = "update" => j.of = j.provider

\* The cards and their switches show what the API has, unless the answer was
\* lost or came when another organization was selected, or a fetch is under way,
\* or failed, or was not repeated.
ProvidersAreListed ==
    holder \notin astray /\ Trusted(providers[holder]) =>
        providers[holder].data = {social[holder]}
=============================================================================
