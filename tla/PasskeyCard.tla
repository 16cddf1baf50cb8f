---------------------------- MODULE PasskeyCard ----------------------------
(***************************************************************************)
(* The passkey card of /me/security, against the credentials the API has.  *)
(*                                                                         *)
(* Registering is two requests with the browser's prompt between them; the *)
(* button that starts it is there while the list is still being fetched.   *)
(* As on every tab, what was in flight when the tab was left still runs    *)
(* and invalidates, but disables no button of the tab opened again.        *)
(***************************************************************************)
EXTENDS Naturals, QueryCache

CONSTANTS Keys      \* a passkey that an authenticator may make

VARIABLES
    creds,      \* at the API: the credentials of the user
    list,       \* the query passkeys
    onPasskeys, \* the tab is shown
    isAdding,   \* the form for a new passkey
    registering,   \* the registrations under way, and how far each got
    removals,   \* the credentials whose removal is in flight
    mine,       \* which of both were started on the tab as it is now
    \* History, read by no action
    lost        \* an answer was lost

work        == <<registering, removals, mine>>
passkeyVars == <<creds, list, onPasskeys, isAdding, work, lost>>

KeyStages == {"idle", "begin", "prompt", "complete"}

PasskeyTypeOK ==
    /\ creds \subseteq Keys /\ list \in Query(SUBSET Keys)
    /\ registering \in [Keys -> KeyStages]
    /\ removals \subseteq Keys /\ mine \subseteq Keys
    /\ {onPasskeys, isAdding, lost} \subseteq BOOLEAN
    /\ isAdding => onPasskeys
    /\ \A k \in mine : k \in removals \/ registering[k] # "idle"

PasskeyInit ==
    /\ creds = {} /\ list = NewQuery
    /\ onPasskeys = FALSE /\ isAdding = FALSE
    /\ registering = [k \in Keys |-> "idle"] /\ removals = {} /\ mine = {}
    /\ lost = FALSE
-----------------------------------------------------------------------------
ShowPasskeys ==
    /\ ~onPasskeys
    /\ onPasskeys' = TRUE
    /\ list' = Observed(list, creds)
    /\ UNCHANGED <<creds, isAdding, work, lost>>

LeavePasskeys ==
    /\ onPasskeys
    /\ onPasskeys' = FALSE /\ isAdding' = FALSE /\ mine' = {}
    /\ UNCHANGED <<creds, list, registering, removals, lost>>

ListFetched ==
    /\ Fetching(list) /\ list' \in {Answered(list), Failed(list)}
    /\ UNCHANGED <<creds, onPasskeys, isAdding, work, lost>>

OpenAddForm(open) ==
    /\ onPasskeys /\ isAdding # open
    /\ isAdding' = open
    /\ UNCHANGED <<creds, list, onPasskeys, work, lost>>

\* Continue
Adding == \E k \in mine : registering[k] # "idle"
AddKey(k) ==
    /\ isAdding /\ ~Adding
    /\ k \notin creds /\ registering[k] = "idle"
    /\ registering' = [registering EXCEPT ![k] = "begin"]
    /\ mine' = mine \cup {k}
    /\ UNCHANGED <<creds, list, onPasskeys, isAdding, removals, lost>>

\* The options, and then the prompt, have come.
Advance(k) ==
    /\ registering[k] \in {"begin", "prompt"}
    /\ registering' = [registering EXCEPT ![k] = IF @ = "begin" THEN "prompt"
                                                         ELSE "complete"]
    /\ UNCHANGED <<creds, list, onPasskeys, isAdding, removals, mine, lost>>

\* A passkey is removed by its row, if no removal of this tab is under way.
Removing == \E k \in mine : k \in removals
RemoveKey(k) ==
    /\ onPasskeys /\ (\E l \in list.data : k \in l)
    /\ ~Removing /\ k \notin removals
    /\ removals' = removals \cup {k}
    /\ mine' = mine \cup {k}
    /\ UNCHANGED <<creds, list, onPasskeys, isAdding, registering, lost>>

EndRegistering(k) ==
    /\ registering' = [registering EXCEPT ![k] = "idle"]
    /\ mine' = mine \ {k}
EndRemoval(k) ==
    /\ removals' = removals \ {k}
    /\ mine' = IF registering[k] = "idle" THEN mine \ {k} ELSE mine

\* invalidateQueries after a success.
DirtyList == list' = Invalidated(list, onPasskeys, creds')

\* onSuccess closes the form of the tab that started it; verifyUser, which it
\* invalidates too, carries nothing of the passkeys.
KeyAdded(k) ==
    /\ registering[k] = "complete"
    /\ creds' = creds \cup {k}
    /\ isAdding' = (isAdding /\ k \notin mine)
    /\ DirtyList
    /\ EndRegistering(k)
    /\ UNCHANGED <<onPasskeys, removals, lost>>

\* Refused, given up at the prompt, or never sent; or stored and not heard of.
KeyNotAdded(k) ==
    /\ registering[k] # "idle"
    /\ \/ UNCHANGED <<creds, lost>>
       \/ /\ registering[k] = "complete"
          /\ creds' = creds \cup {k} /\ lost' = TRUE
    /\ EndRegistering(k)
    /\ UNCHANGED <<list, onPasskeys, isAdding, removals>>

\* Broken variant: the list is left as it is.
KeyRemovedQuietly(k) ==
    /\ k \in removals /\ k \in creds
    /\ creds' = creds \ {k}
    /\ EndRemoval(k)
    /\ UNCHANGED <<list, onPasskeys, isAdding, registering, lost>>

KeyRemoved(k) ==
    /\ k \in removals /\ k \in creds
    /\ creds' = creds \ {k}
    /\ DirtyList
    /\ EndRemoval(k)
    /\ UNCHANGED <<onPasskeys, isAdding, registering, lost>>

KeyNotRemoved(k) ==
    /\ k \in removals
    /\ \/ UNCHANGED <<creds, lost>>
       \/ k \in creds /\ creds' = creds \ {k} /\ lost' = TRUE
    /\ EndRemoval(k)
    /\ UNCHANGED <<list, onPasskeys, isAdding, registering>>
-----------------------------------------------------------------------------
PasskeyNext ==
    \/ ShowPasskeys \/ LeavePasskeys \/ ListFetched
    \/ \E open \in BOOLEAN : OpenAddForm(open)
    \/ \E k \in Keys :
          \/ AddKey(k) \/ Advance(k) \/ KeyAdded(k) \/ KeyNotAdded(k)
          \/ RemoveKey(k) \/ KeyRemoved(k) \/ KeyNotRemoved(k)

PasskeySpec == PasskeyInit /\ [][PasskeyNext]_passkeyVars
-----------------------------------------------------------------------------
\* The list shows the passkeys the API has, whatever was registered or removed
\* on the tab or after it was left: unless an answer was lost, or a fetch is
\* under way, or failed, or was begun before a success and not repeated.
PasskeysAreListed ==
    ~lost /\ onPasskeys /\ Trusted(list) => list.data = {creds}
=============================================================================
