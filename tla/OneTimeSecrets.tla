--------------------------- MODULE OneTimeSecrets ---------------------------
(***************************************************************************)
(* The pages /platform/service-keys and /platform/oidc-clients: a dialog   *)
(* asks for a new credential and shows its secret, which the API tells     *)
(* once.  The first page also lists the keys and revokes them.             *)
(*                                                                         *)
(* An answer finds the page that asked as it is by then: the dialog        *)
(* closed, or opened again, or the page left.  Each credential is a value  *)
(* of its own, whatever it is called.                                      *)
(***************************************************************************)
EXTENDS QueryCache

CONSTANTS Credentials,  \* bound: those a behaviour can ask for
          NoCredential

ASSUME CredentialAssumption == NoCredential \notin Credentials

VARIABLES
    serviceKeys,    \* at the API: the keys, and those that are not revoked
    clients,        \* at the API: the registered clients
    keyList,        \* the query serviceKeys
    site,          \* the page that is open
    creating,       \* isCreating, isCreateOpen
    created,        \* newlyCreatedKey, createdClient
    revocation,     \* isRevoking, revokingKey
    minting,        \* credentials that are being asked for
    revoking,       \* keys that are being revoked
    \* History, read by no action
    putAway,        \* secrets that were shown and put away
    unknown         \* an answer that changed the keys was lost

secretVars == <<serviceKeys, clients, keyList, site, creating, created,
                revocation, minting, revoking, putAway, unknown>>

MaybeCredential == Credentials \cup {NoCredential}
KeyRows  == [ids : SUBSET Credentials, on : SUBSET Credentials]
Sites   == {"keys", "clients"}
\* here: the page that sent the request is still open.
Mintings == [id : Credentials, at : Sites, here : BOOLEAN]
Revokings == [id : Credentials, here : BOOLEAN]

SecretTypeOK ==
    /\ serviceKeys \in KeyRows /\ clients \subseteq Credentials
    /\ keyList \in Query(KeyRows)
    /\ site \in Sites \cup {"away"}
    /\ creating \in BOOLEAN /\ created \in MaybeCredential
    /\ revocation \in [open : BOOLEAN, id : MaybeCredential]
    /\ minting \subseteq Mintings /\ revoking \subseteq Revokings
    /\ putAway \subseteq Credentials /\ unknown \in BOOLEAN
    /\ revocation.open => revocation.id # NoCredential
    /\ site = "away" => ~creating /\ created = NoCredential
    /\ \A j, k \in minting : j.here /\ k.here => j = k
    /\ \A j \in minting : j.here => site = j.at

NoRevocation == [open |-> FALSE, id |-> NoCredential]

SecretInit ==
    /\ serviceKeys = [ids |-> {}, on |-> {}] /\ clients = {}
    /\ keyList = NewQuery
    /\ site = "away"
    /\ creating = FALSE /\ created = NoCredential
    /\ revocation = NoRevocation
    /\ minting = {} /\ revoking = {}
    /\ putAway = {} /\ unknown = FALSE
-----------------------------------------------------------------------------
VisitPage(p) ==
    /\ site = "away" /\ site' = p
    /\ keyList' = IF p = "keys" THEN Observed(keyList, serviceKeys) ELSE keyList
    /\ UNCHANGED <<serviceKeys, clients, creating, created, revocation, minting,
                   revoking, putAway, unknown>>

\* What the page holds is gone; what it asked for goes on.
LeavePage ==
    /\ site # "away" /\ site' = "away"
    /\ creating' = FALSE /\ created' = NoCredential
    /\ revocation' = NoRevocation
    /\ minting' = {[j EXCEPT !.here = FALSE] : j \in minting}
    /\ revoking' = {[j EXCEPT !.here = FALSE] : j \in revoking}
    /\ UNCHANGED <<serviceKeys, clients, keyList, putAway, unknown>>

KeysFetched ==
    /\ Fetching(keyList) /\ keyList' \in {Answered(keyList), Failed(keyList)}
    /\ UNCHANGED <<serviceKeys, clients, site, creating, created, revocation,
                   minting, revoking, putAway, unknown>>
-----------------------------------------------------------------------------
\* The dialog shows the secret that the page holds, if it holds one, and else
\* the form.
OpenDialog ==
    /\ site # "away" /\ ~creating /\ ~revocation.open
    /\ creating' = TRUE
    /\ UNCHANGED <<serviceKeys, clients, keyList, site, created, revocation,
                   minting, revoking, putAway, unknown>>

\* Broken variant: the dialog closes and is not reset.
DoneKeepsSecret ==
    /\ creating /\ creating' = FALSE
    /\ putAway' = putAway \cup ({created} \ {NoCredential})
    /\ UNCHANGED <<serviceKeys, clients, keyList, site, created, revocation,
                   minting, revoking, unknown>>

\* Done, Escape or a click outside: resetCreateDialog, resetForm.
Done ==
    /\ creating /\ creating' = FALSE
    /\ created' = NoCredential
    /\ putAway' = putAway \cup ({created} \ {NoCredential})
    /\ UNCHANGED <<serviceKeys, clients, keyList, site, revocation, minting,
                   revoking, unknown>>

FormShown == creating /\ created = NoCredential

\* A credential that no request has made yet.
Fresh == Credentials \ (serviceKeys.ids \cup clients \cup {j.id : j \in minting})

\* Broken variant: the button works while a request is under way.
HandleCreateTwice(c) ==
    /\ FormShown /\ c \in Fresh
    /\ minting' = minting \cup {[id |-> c, at |-> site, here |-> TRUE]}
    /\ UNCHANGED <<serviceKeys, clients, keyList, site, creating, created,
                   revocation, revoking, putAway, unknown>>

HandleCreate(c) ==
    /\ FormShown /\ c \in Fresh
    /\ \A j \in minting : ~j.here
    /\ minting' = minting \cup {[id |-> c, at |-> site, here |-> TRUE]}
    /\ UNCHANGED <<serviceKeys, clients, keyList, site, creating, created,
                   revocation, revoking, putAway, unknown>>

\* Revoke, in the row of an active key.
OpenRevokeDialog(c) ==
    /\ site = "keys" /\ ~creating /\ ~revocation.open
    /\ \E l \in keyList.data : c \in l.on
    /\ revocation' = [open |-> TRUE, id |-> c]
    /\ UNCHANGED <<serviceKeys, clients, keyList, site, creating, created,
                   minting, revoking, putAway, unknown>>

\* Cancel, Escape: the key is kept.
HideRevokeDialog ==
    /\ revocation.open
    /\ revocation' = [revocation EXCEPT !.open = FALSE]
    /\ UNCHANGED <<serviceKeys, clients, keyList, site, creating, created,
                   minting, revoking, putAway, unknown>>

RevokeKey ==
    /\ revocation.open
    /\ \A j \in revoking : ~j.here
    /\ revoking' = revoking \cup {[id |-> revocation.id, here |-> TRUE]}
    /\ UNCHANGED <<serviceKeys, clients, keyList, site, creating, created,
                   revocation, minting, putAway, unknown>>
-----------------------------------------------------------------------------
\* POST /auth/service-keys, POST /oidc/register
Create(j) ==
    IF j.at = "keys"
    THEN /\ serviceKeys' = [ids |-> serviceKeys.ids \cup {j.id},
                            on  |-> serviceKeys.on \cup {j.id}]
         /\ UNCHANGED clients
    ELSE clients' = clients \cup {j.id} /\ UNCHANGED serviceKeys

\* DELETE /auth/service-keys/{key_id}; a revoked key is not revoked again.
Deactivate(j) ==
    /\ j.id \in serviceKeys.on
    /\ serviceKeys' = [serviceKeys EXCEPT !.on = @ \ {j.id}]
    /\ UNCHANGED clients

DirtyKeys == keyList' = Invalidated(keyList, site = "keys", serviceKeys')

\* Broken variant: the new key is not fetched.
CredentialCreatedQuietly(j) ==
    /\ Create(j)
    /\ created' = IF j.here THEN j.id ELSE created
    /\ minting' = minting \ {j}
    /\ UNCHANGED <<keyList, site, creating, revocation, revoking, putAway,
                   unknown>>

\* onSuccess: the secret is held, whether or not the dialog is open; if the page
\* was left nobody will see it.
CredentialCreated(j) ==
    /\ Create(j)
    /\ created' = IF j.here THEN j.id ELSE created
    /\ IF j.at = "keys" THEN DirtyKeys ELSE UNCHANGED keyList
    /\ minting' = minting \ {j}
    /\ UNCHANGED <<site, creating, revocation, revoking, putAway, unknown>>

\* onSuccess closes the dialog, whichever key it is open for by now.
KeyRevoked(j) ==
    /\ Deactivate(j)
    /\ revocation' = IF j.here THEN NoRevocation ELSE revocation
    /\ DirtyKeys
    /\ revoking' = revoking \ {j}
    /\ UNCHANGED <<site, creating, created, minting, putAway, unknown>>

SecretRefused ==
    /\ \/ \E j \in minting  : minting' = minting \ {j} /\ UNCHANGED revoking
       \/ \E j \in revoking : revoking' = revoking \ {j} /\ UNCHANGED minting
    /\ UNCHANGED <<serviceKeys, clients, keyList, site, creating, created,
                   revocation, putAway, unknown>>

\* The API did it, and its answer is lost.
SecretUnheard ==
    /\ \/ \E j \in minting :
              Create(j) /\ minting' = minting \ {j} /\ UNCHANGED revoking
       \/ \E j \in revoking :
              Deactivate(j) /\ revoking' = revoking \ {j} /\ UNCHANGED minting
    /\ unknown' = TRUE
    /\ UNCHANGED <<keyList, site, creating, created, revocation, putAway>>
-----------------------------------------------------------------------------
SecretNext ==
    \/ \E p \in Sites : VisitPage(p)
    \/ LeavePage \/ KeysFetched \/ OpenDialog \/ Done
    \/ HideRevokeDialog \/ RevokeKey
    \/ \E c \in Credentials : HandleCreate(c) \/ OpenRevokeDialog(c)
    \/ \E j \in minting : CredentialCreated(j)
    \/ \E j \in revoking : KeyRevoked(j)
    \/ SecretRefused \/ SecretUnheard

SecretSpec == SecretInit /\ [][SecretNext]_secretVars
-----------------------------------------------------------------------------
\* "It will not be shown again": a secret that was put away is never held again,
\* whatever answers come after it.
ShownOnce == created \notin putAway

\* A secret that the page has is there until the dialog that shows it is closed,
\* or the page is left: no other answer replaces it, and if the dialog was closed
\* before it came it waits for the next time.
KeptUntilPutAway ==
    [][created # NoCredential /\ created' # created =>
          (creating /\ ~creating') \/ site' = "away"]_secretVars

\* The table shows every key and which are revoked, unless an answer was lost, or
\* a fetch is under way, or failed, or was not repeated.
KeysAreListed ==
    ~unknown /\ site = "keys" /\ Trusted(keyList) =>
        keyList.data = {serviceKeys}
=============================================================================
