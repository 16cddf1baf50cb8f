-------------------------- MODULE FormPages_proofs --------------------------
(***************************************************************************)
(* What holds of the pages of a visitor and of the pages that show a       *)
(* secret once, for every number of accounts, addresses and credentials.   *)
(* Each property needs to know which requests may still be answered: who   *)
(* they were sent for, and how many of a kind there are.                   *)
(***************************************************************************)
EXTENDS FormPages, QueryCache_proofs

-----------------------------------------------------------------------------
(* /magic-link/verify, /oauth/[provider]/callback and /register *)

\* Where nobody was signed in GET /me/ is asked as the owner of the grant.
AnswerOfOwner == step = "ready" /\ former = Nobody => answer = owner

LandingInv ==
    LandingTypeOK /\ NothingHalfway /\ LandedAsOwner /\ AnswerOfOwner

LEMMA LandingInvInit == LandingInit => LandingInv
<1>. SUFFICES ASSUME LandingInit PROVE LandingInv
  OBVIOUS
<1>1. resent \in BOOLEAN /\ exists \in BOOLEAN
  BY Zenon DEF LandingInit
<1>2. kept \in [token : Known, user : Known] /\ kept.token = former
      /\ kept.user = former /\ former \in Known
  BY DEF LandingInit
<1>3. LandingTypeOK
  BY <1>1, <1>2 DEF LandingInit, LandingTypeOK, Known, Routes, Steps
<1>. QED
  BY <1>2, <1>3
  DEF LandingInv, LandingInit, NothingHalfway, LandedAsOwner, AnswerOfOwner

\* The store when a session has ended, and when a visitor has landed.
LEMMA StoreType ==
    ASSUME NEW a \in Known, NEW b \in Known
    PROVE  /\ [token |-> a, user |-> b] \in [token : Known, user : Known]
           /\ [token |-> a, user |-> b].token = a
           /\ [token |-> a, user |-> b].user = b
OBVIOUS

LEMMA LandingInvStep == LandingInv /\ [LandingNext]_landingVars => LandingInv'
<1>. SUFFICES ASSUME LandingInv, [LandingNext]_landingVars PROVE LandingInv'
  OBVIOUS
<1>. USE LandingAssumption
     DEF LandingInv, LandingTypeOK, NothingHalfway, LandedAsOwner,
         AnswerOfOwner, Routes, Steps, landing
<1>0. Nobody \in Known /\ owner \in Known /\ answer \in Known
  BY DEF Known
<1>1. CASE Exchange
  BY <1>1 DEF Exchange, Visiting, Proceed
<1>2. CASE Exchanged
  BY <1>2 DEF Exchanged, Proceed
<1>3. ASSUME Unauthorized, step \in {"exchange", "me"},
             UNCHANGED <<grant, owner, answer, exists, former>>
      PROVE  LandingInv'
  <2>1. CASE resent
    BY <1>3, <2>1 DEF Unauthorized
  <2>2. CASE ~resent /\ kept.token # Nobody /\ health # "dead"
    BY <1>3, <2>2 DEF Unauthorized
  <2>3. CASE ~resent /\ ~(kept.token # Nobody /\ health # "dead")
    BY <1>0, <1>3, <2>3, StoreType DEF Unauthorized
  <2>. QED
    BY <2>1, <2>2, <2>3
<1>4. CASE ExchangeRefused \/ MeRefused
  BY <1>3, <1>4 DEF ExchangeRefused, MeRefused
<1>5. CASE ExchangeLost \/ MeLost
  BY <1>5 DEF ExchangeLost, MeLost
<1>6. CASE MeAnswered
  BY <1>0, <1>6 DEF MeAnswered, Bearer
<1>7. CASE Landed
  BY <1>0, <1>7, StoreType DEF Landed, Visiting
<1>8. CASE Retry
  BY <1>8 DEF Retry, Invalid, Refusal, Visiting
<1>9. CASE SessionAges
  BY <1>9 DEF SessionAges
<1>10. CASE SubmitRegistration \/ Registered \/ RegistrationFailed
  BY <1>10 DEF SubmitRegistration, RegisterForm, Registered, RegistrationFailed,
               Proceed
<1>11. CASE RegisteredIn
  BY <1>0, <1>11, StoreType DEF RegisteredIn
<1>12. CASE UNCHANGED landingVars
  BY <1>12 DEF landingVars
<1>. QED
  BY <1>1, <1>2, <1>4, <1>5, <1>6, <1>7, <1>8, <1>9, <1>10, <1>11, <1>12
  DEF LandingNext

LEMMA LandingInvariant == LandingSpec => []LandingInv
<1>. QED
  BY LandingInvInit, LandingInvStep, PTL DEF LandingSpec

\* Every variable keeps its type, and the visitor is at the dashboard exactly
\* when the page is done.
THEOREM LandingTypeCorrect == LandingSpec => []LandingTypeOK
<1>1. LandingInv => LandingTypeOK
  BY DEF LandingInv
<1>. QED
  BY <1>1, LandingInvariant, PTL

\* Until the visitor lands the store is what it was, or empty, wherever the
\* requests of the page fail.
THEOREM LandsOrNot == LandingSpec => []NothingHalfway
<1>1. LandingInv => NothingHalfway
  BY DEF LandingInv
<1>. QED
  BY <1>1, LandingInvariant, PTL

\* In a browser without a session the visitor lands as who the grant is for.
THEOREM LandsAsOwner == LandingSpec => []LandedAsOwner
<1>1. LandingInv => LandedAsOwner
  BY DEF LandingInv
<1>. QED
  BY <1>1, LandingInvariant, PTL
-----------------------------------------------------------------------------
(* /forgot-password, /magic-link, /reset-password and /verify-email *)

\* What is requested while a panel is shown is requested for the address it names.
ResendsToPanel ==
    \A p \in MailPages :
        form[p].sent => form[p].job \in {NoAddress, form[p].to}

RecoveryInv ==
    RecoveryTypeOK /\ PanelNamesRequest /\ ResendsToPanel /\ AnnouncedIsDone

LEMMA RecoveryInvInit == RecoveryInit => RecoveryInv
<1>. SUFFICES ASSUME RecoveryInit PROVE RecoveryInv
  OBVIOUS
<1>1. [field |-> NoAddress, job |-> NoAddress, sent |-> FALSE,
       to |-> NoAddress] \in Forms
  BY DEF Forms, MaybeAddress
<1>2. /\ form \in [MailPages -> Forms]
      /\ accepted \in [MailPages -> MaybeAddress]
      /\ mailed \subseteq MailPages
      /\ \A p \in MailPages : ~form[p].sent
  BY <1>1 DEF RecoveryInit, MaybeAddress
<1>3. {resetting, completed, pushAt, confirming} \subseteq BOOLEAN
  <2>1. (tokens["email"] # "none") \in BOOLEAN
    OBVIOUS
  <2>2. /\ resetting \in BOOLEAN /\ completed \in BOOLEAN /\ pushAt \in BOOLEAN
        /\ confirming \in BOOLEAN
    BY <2>1, Zenon DEF RecoveryInit
  <2>. QED
    BY <2>2
<1>4. ~completed /\ verdict # "success" /\ verdict \in {"loading", "error"}
  BY DEF RecoveryInit
<1>. QED
  BY <1>2, <1>3, <1>4
  DEF RecoveryInit, RecoveryInv, RecoveryTypeOK, PanelNamesRequest,
      ResendsToPanel,
      AnnouncedIsDone

LEMMA RecoveryInvStep == RecoveryInv /\ [RecoveryNext]_recoveryVars => RecoveryInv'
<1>. SUFFICES ASSUME RecoveryInv, [RecoveryNext]_recoveryVars PROVE RecoveryInv'
  OBVIOUS
<1>. USE RecoveryAssumption
     DEF RecoveryInv, RecoveryTypeOK, PanelNamesRequest, ResendsToPanel,
         AnnouncedIsDone, mailVars, resetVars, confirmVars
<1>1. ASSUME NEW p \in MailPages, NEW a \in Addresses, TypeAddress(p, a)
      PROVE  RecoveryInv'
  BY <1>1 DEF TypeAddress, Forms, MaybeAddress
<1>2. ASSUME NEW p \in MailPages, NEW a \in MaybeAddress, Request(p, a),
             form[p].sent => a = form[p].to
      PROVE  RecoveryInv'
  BY <1>2 DEF Request, Forms
<1>3. CASE RequestReset \/ RequestMagic \/ ResendReset
  BY <1>2, <1>3 DEF RequestReset, RequestMagic, ResendReset, ForgotForm,
     MagicForm, MailPages, Forms
<1>4. CASE DifferentEmail
  <2>1. ASSUME NEW q \in MailPages
        PROVE  /\ form'[q] \in Forms /\ form'[q].job = form[q].job
               /\ form'[q].sent => form[q].sent
               /\ form'[q].to = form[q].to
    BY <1>4 DEF DifferentEmail, Forms, MailPages
  <2>2. /\ form' \in [MailPages -> Forms]
        /\ UNCHANGED <<accepted, mailed, tokens, resetVars, confirmVars, done>>
    BY <1>4, <2>1 DEF DifferentEmail
  <2>. QED
    BY <2>1, <2>2
<1>5. ASSUME NEW p \in MailPages, RequestAccepted(p) PROVE RecoveryInv'
  BY <1>5 DEF RequestAccepted, Accept, Forms, MaybeAddress
<1>6. ASSUME NEW p \in MailPages, RequestFailed(p) PROVE RecoveryInv'
  <2>1. ASSUME NEW q \in MailPages
        PROVE  /\ form'[q] \in Forms /\ form'[q].job \in {NoAddress, form[q].job}
               /\ form'[q].sent = form[q].sent /\ form'[q].to = form[q].to
               /\ accepted'[q] \in {accepted[q], form[q].job}
               /\ q # p => accepted'[q] = accepted[q]
    BY <1>6 DEF RequestFailed, Accept, Forms, MaybeAddress
  <2>2. /\ form' \in [MailPages -> Forms]
        /\ accepted' \in [MailPages -> MaybeAddress]
        /\ mailed' \subseteq MailPages
    BY <1>6, <2>1 DEF RequestFailed, Accept, Forms, MaybeAddress
  <2>3. /\ form[p].job # NoAddress
        /\ UNCHANGED <<tokens, resetVars, confirmVars, done>>
    BY <1>6 DEF RequestFailed
  <2>4. PanelNamesRequest' /\ ResendsToPanel'
    BY <2>1, <2>3
  <2>. QED
    BY <2>1, <2>2, <2>3, <2>4
<1>7. CASE Validated
  BY <1>7 DEF Validated, Validating, NoMailToken
<1>8. CASE SubmitReset \/ LeaveReset \/ SignedInMeanwhile \/ PushLogin
  <2>1. CASE SubmitReset
    BY <2>1 DEF SubmitReset
  <2>2. CASE LeaveReset \/ SignedInMeanwhile
    <3>1. place' \in {"forgot", "login", "home"}
      BY <2>2, Zenon DEF LeaveReset, SignedInMeanwhile
    <3>2. UNCHANGED <<mailVars, tokens, validated, resetting, completed,
                      pushAt, confirmVars, done>>
      BY <2>2, Zenon DEF LeaveReset, SignedInMeanwhile
    <3>. QED
      BY <3>1, <3>2
  <2>3. CASE PushLogin
    BY <2>3 DEF PushLogin
  <2>. QED
    BY <1>8, <2>1, <2>2, <2>3
<1>9. CASE ResetDone
  BY <1>9 DEF ResetDone
<1>10. CASE ResetFailed
  BY <1>10 DEF ResetFailed
<1>11. CASE EmailVerified
  BY <1>11 DEF EmailVerified
<1>12. CASE EmailFailed
  BY <1>12 DEF EmailFailed
<1>13. ASSUME NEW k \in {"reset", "email"}, TokenExpires(k) PROVE RecoveryInv'
  BY <1>13 DEF TokenExpires
<1>14. CASE UNCHANGED recoveryVars
  BY <1>14 DEF recoveryVars
<1>. QED
  BY <1>1, <1>3, <1>4, <1>5, <1>6, <1>7, <1>8, <1>9, <1>10, <1>11, <1>12,
     <1>13, <1>14 DEF RecoveryNext

LEMMA RecoveryInvariant == RecoverySpec => []RecoveryInv
<1>. QED
  BY RecoveryInvInit, RecoveryInvStep, PTL DEF RecoverySpec

\* Every variable keeps its type, and a panel that says a mail was sent names an
\* address.
THEOREM RecoveryTypeCorrect == RecoverySpec => []RecoveryTypeOK
<1>1. RecoveryInv => RecoveryTypeOK
  BY DEF RecoveryInv
<1>. QED
  BY <1>1, RecoveryInvariant, PTL

\* The panel names the address of the last request the API has accepted, whatever
\* was typed meanwhile and whichever answers were lost.
THEOREM PanelIsTrue == RecoverySpec => []PanelNamesRequest
<1>1. RecoveryInv => PanelNamesRequest
  BY DEF RecoveryInv
<1>. QED
  BY <1>1, RecoveryInvariant, PTL

\* A success that is announced has happened at the API.
THEOREM AnnouncementsAreTrue == RecoverySpec => []AnnouncedIsDone
<1>1. RecoveryInv => AnnouncedIsDone
  BY DEF RecoveryInv
<1>. QED
  BY <1>1, RecoveryInvariant, PTL
-----------------------------------------------------------------------------
(* /platform/service-keys and /platform/oidc-clients *)

\* A credential that is being made is not there yet, and no other request makes
\* it; a secret that the page holds, or held, is one the API has.
MintInv ==
    /\ \A j \in minting : j.id \notin serviceKeys.ids \cup clients
    /\ \A j, k \in minting : j.id = k.id => j = k
    /\ putAway \subseteq serviceKeys.ids \cup clients
    /\ created \in serviceKeys.ids \cup clients \cup {NoCredential}

\* The form is not offered while the page holds a secret.
HeldInv == created # NoCredential => \A j \in minting : ~j.here

SecretInv == SecretTypeOK /\ MintInv /\ ShownOnce /\ HeldInv

KeyListSound == ~unknown => Sound(keyList, serviceKeys)

LEMMA NothingThere == [ids |-> {}, on |-> {}] \in KeyRows
BY DEF KeyRows

LEMMA SecretInvInit == SecretInit => SecretInv
<1>. SUFFICES ASSUME SecretInit PROVE SecretInv
  OBVIOUS
<1>1. creating \in BOOLEAN /\ unknown \in BOOLEAN /\ ~creating
  BY Zenon DEF SecretInit
<1>2. keyList \in Query(KeyRows) /\ serviceKeys \in KeyRows
  BY NothingThere, NewSound DEF SecretInit
<1>3. /\ revocation \in [open : BOOLEAN, id : MaybeCredential]
      /\ ~revocation.open
  BY DEF SecretInit, NoRevocation, MaybeCredential
<1>4. SecretTypeOK
  BY <1>1, <1>2, <1>3 DEF SecretInit, SecretTypeOK, MaybeCredential
<1>. QED
  BY <1>4 DEF SecretInit, SecretInv, MintInv, ShownOnce, HeldInv

\* What an answer of the API adds or revokes.
LEMMA CreateOnly ==
    ASSUME SecretTypeOK, NEW j \in minting, Create(j)
    PROVE  /\ serviceKeys' \in KeyRows /\ clients' \subseteq Credentials
           /\ serviceKeys'.ids \cup clients' =
                  serviceKeys.ids \cup clients \cup {j.id}
           /\ j.at # "keys" => serviceKeys' = serviceKeys
<1>1. j.id \in Credentials /\ serviceKeys \in KeyRows /\ clients \subseteq Credentials
  BY DEF SecretTypeOK, Mintings
<1>2. CASE j.at = "keys"
  BY <1>1, <1>2 DEF Create, KeyRows
<1>3. CASE j.at # "keys"
  BY <1>1, <1>3 DEF Create
<1>. QED
  BY <1>2, <1>3

LEMMA DeactivateOnly ==
    ASSUME SecretTypeOK, NEW j \in revoking, Deactivate(j)
    PROVE  /\ serviceKeys' \in KeyRows /\ clients' = clients
           /\ serviceKeys'.ids = serviceKeys.ids
BY DEF Deactivate, SecretTypeOK, KeyRows

LEMMA DirtyKeysSound ==
    ASSUME SecretTypeOK, serviceKeys' \in KeyRows, DirtyKeys
    PROVE  keyList' \in Query(KeyRows) /\ Sound(keyList', serviceKeys')
<1>. (site = "keys") \in BOOLEAN /\ keyList \in Query(KeyRows)
  BY DEF SecretTypeOK
<1>. /\ Invalidated(keyList, site = "keys", serviceKeys') \in Query(KeyRows)
     /\ Sound(Invalidated(keyList, site = "keys", serviceKeys'), serviceKeys')
  BY InvalidatedSound
<1>. QED
  BY DEF DirtyKeys

\* The requests of a page that was left are nobody's.
LEMMA LeftMinting ==
    ASSUME SecretTypeOK, MintInv,
           minting' = {[j EXCEPT !.here = FALSE] : j \in minting}
    PROVE  /\ minting' \subseteq Mintings
           /\ \A j \in minting' : ~j.here
                                  /\ \E k \in minting : k.id = j.id
           /\ \A j, k \in minting' : j.id = k.id => j = k
<1>. DEFINE Left(j) == [j EXCEPT !.here = FALSE]
<1>1. \A j \in minting : Left(j) \in Mintings /\ Left(j).id = j.id /\ ~Left(j).here
  BY DEF SecretTypeOK, Mintings
<1>2. minting' = {Left(j) : j \in minting}
  OBVIOUS
<1>. HIDE DEF Left
<1>. QED
  BY <1>1, <1>2 DEF MintInv

LEMMA SecretInvStep == SecretInv /\ [SecretNext]_secretVars => SecretInv'
<1>. SUFFICES ASSUME SecretInv, [SecretNext]_secretVars PROVE SecretInv'
  OBVIOUS
<1>. USE CredentialAssumption DEF SecretInv, ShownOnce, HeldInv
<1>0. /\ serviceKeys \in KeyRows /\ keyList \in Query(KeyRows)
      /\ NoCredential \in MaybeCredential /\ Credentials \subseteq MaybeCredential
  BY DEF SecretTypeOK, MaybeCredential
<1>1. ASSUME NEW p \in Sites, VisitPage(p) PROVE SecretInv'
  <2>1. keyList' \in Query(KeyRows)
    BY <1>0, <1>1, QueryType DEF VisitPage
  <2>2. \A j \in minting : ~j.here
    BY <1>1 DEF VisitPage, SecretTypeOK, Mintings, Sites
  <2>. QED
    BY <1>1, <2>1, <2>2 DEF VisitPage, SecretTypeOK, MintInv, Sites
<1>2. CASE LeavePage
  <2>1. revoking' \subseteq Revokings
    BY <1>2 DEF LeavePage, SecretTypeOK, Revokings
  <2>2. revocation' \in [open : BOOLEAN, id : MaybeCredential]
        /\ ~revocation'.open
    BY <1>0, <1>2 DEF LeavePage, NoRevocation
  <2>3. SecretTypeOK'
    BY <1>0, <1>2, <2>1, <2>2, LeftMinting DEF LeavePage, SecretTypeOK
  <2>. QED
    BY <1>2, <2>3, LeftMinting DEF LeavePage, MintInv, SecretTypeOK
<1>3. CASE KeysFetched
  BY <1>0, <1>3, QueryType DEF KeysFetched, SecretTypeOK, MintInv
<1>4. CASE OpenDialog
  BY <1>4 DEF OpenDialog, SecretTypeOK, MintInv
<1>5. CASE Done
  BY <1>0, <1>5 DEF Done, SecretTypeOK, MintInv, MaybeCredential
<1>6. ASSUME NEW c \in Credentials, HandleCreate(c) PROVE SecretInv'
  <2>. DEFINE j == [id |-> c, at |-> site, here |-> TRUE]
  <2>1. site \in Sites /\ created = NoCredential /\ c \in Fresh
        /\ minting' = minting \cup {j} /\ \A k \in minting : ~k.here
    BY <1>6 DEF HandleCreate, FormShown, SecretTypeOK
  <2>2. j \in Mintings /\ j.here /\ j.at = site /\ j.id = c
    BY <2>1 DEF Mintings
  <2>3. UNCHANGED <<serviceKeys, clients, keyList, site, creating, created,
                    revocation, revoking, putAway, unknown>>
    BY <1>6 DEF HandleCreate
  <2>. HIDE DEF j
  <2>4. SecretTypeOK'
    BY <2>1, <2>2, <2>3 DEF SecretTypeOK
  <2>5. MintInv'
    BY <2>1, <2>2, <2>3 DEF MintInv, Fresh
  <2>. QED
    BY <2>1, <2>3, <2>4, <2>5
<1>7. ASSUME NEW c \in Credentials, OpenRevokeDialog(c) PROVE SecretInv'
  BY <1>0, <1>7 DEF OpenRevokeDialog, SecretTypeOK, MintInv
<1>8. CASE HideRevokeDialog
  BY <1>8 DEF HideRevokeDialog, SecretTypeOK, MintInv
<1>9. CASE RevokeKey
  <2>1. revocation.id \in Credentials
    BY <1>9 DEF RevokeKey, SecretTypeOK, MaybeCredential
  <2>2. [id |-> revocation.id, here |-> TRUE] \in Revokings
    BY <2>1 DEF Revokings
  <2>3. revoking' \subseteq Revokings
    BY <1>9, <2>2 DEF RevokeKey, SecretTypeOK
  <2>. QED
    BY <1>9, <2>3 DEF RevokeKey, SecretTypeOK, MintInv
<1>10. ASSUME NEW j \in minting, CredentialCreated(j) PROVE SecretInv'
  <2>1. /\ Create(j) /\ minting' = minting \ {j}
        /\ created' = IF j.here THEN j.id ELSE created
        /\ UNCHANGED <<site, creating, revocation, revoking, putAway, unknown>>
    BY <1>10 DEF CredentialCreated
  <2>2. keyList' \in Query(KeyRows)
    BY <1>0, <1>10, CreateOnly, DirtyKeysSound DEF CredentialCreated
  <2>3. j.id \in Credentials /\ (j.here => site # "away")
    BY DEF SecretTypeOK, Mintings, Sites
  <2>4. SecretTypeOK'
    BY <1>0, <2>1, <2>2, <2>3, CreateOnly DEF SecretTypeOK
  <2>5. MintInv'
    BY <2>1, CreateOnly DEF MintInv
  <2>. QED
    BY <2>1, <2>4, <2>5 DEF MintInv, SecretTypeOK
<1>11. ASSUME NEW j \in revoking, KeyRevoked(j) PROVE SecretInv'
  <2>1. /\ Deactivate(j) /\ DirtyKeys /\ revoking' = revoking \ {j}
        /\ revocation' = IF j.here THEN NoRevocation ELSE revocation
        /\ UNCHANGED <<site, creating, created, minting, putAway, unknown>>
    BY <1>11 DEF KeyRevoked
  <2>2. /\ revocation' \in [open : BOOLEAN, id : MaybeCredential]
        /\ revocation'.open => revocation'.id # NoCredential
    BY <1>0, <2>1 DEF SecretTypeOK, NoRevocation
  <2>3. SecretTypeOK'
    BY <2>1, <2>2, DeactivateOnly, DirtyKeysSound DEF SecretTypeOK
  <2>. QED
    BY <2>1, <2>3, DeactivateOnly DEF MintInv
<1>12. ASSUME UNCHANGED <<keyList, site, creating, created, revocation, putAway>>,
              serviceKeys' \in KeyRows /\ clients' \subseteq Credentials,
              unknown' \in BOOLEAN, minting' \subseteq minting,
              revoking' \subseteq revoking,
              serviceKeys.ids \cup clients \subseteq serviceKeys'.ids \cup clients',
              \A k \in minting' : k.id \notin serviceKeys'.ids \cup clients'
       PROVE  SecretInv'
  BY <1>12 DEF SecretTypeOK, MintInv
<1>13. CASE SecretRefused
  BY <1>12, <1>13 DEF SecretRefused, SecretTypeOK, MintInv
<1>14. ASSUME NEW j \in minting, Create(j), minting' = minting \ {j},
              UNCHANGED revoking, SecretUnheard
       PROVE  SecretInv'
  BY <1>12, <1>14, CreateOnly DEF SecretUnheard, SecretTypeOK, MintInv
<1>15. ASSUME NEW j \in revoking, Deactivate(j), revoking' = revoking \ {j},
              UNCHANGED minting, SecretUnheard
       PROVE  SecretInv'
  BY <1>12, <1>15, DeactivateOnly DEF SecretUnheard, SecretTypeOK, MintInv
<1>16. CASE SecretUnheard
  BY <1>14, <1>15, <1>16 DEF SecretUnheard
<1>17. CASE UNCHANGED secretVars
  BY <1>17 DEF secretVars, SecretTypeOK, MintInv
<1>. QED
  BY <1>1, <1>2, <1>3, <1>4, <1>5, <1>6, <1>7, <1>8, <1>9, <1>10, <1>11,
     <1>13, <1>16, <1>17 DEF SecretNext

LEMMA SecretInvariant == SecretSpec => []SecretInv
<1>. QED
  BY SecretInvInit, SecretInvStep, PTL DEF SecretSpec

\* Every variable keeps its type; a page asks for one credential at a time, and
\* holds nothing once it is left.
THEOREM SecretTypeCorrect == SecretSpec => []SecretTypeOK
<1>1. SecretInv => SecretTypeOK
  BY DEF SecretInv
<1>. QED
  BY <1>1, SecretInvariant, PTL

\* No answer brings a secret back that was put away.
THEOREM SecretsShownOnce == SecretSpec => []ShownOnce
<1>1. SecretInv => ShownOnce
  BY DEF SecretInv
<1>. QED
  BY <1>1, SecretInvariant, PTL

\* No answer replaces a secret: the form that asks for the next one is not there
\* while the page holds one, and asks for one at a time.
THEOREM SecretsKept == SecretSpec => KeptUntilPutAway
<1>1. SecretInv /\ [SecretNext]_secretVars
        => [created # NoCredential /\ created' # created =>
               (creating /\ ~creating') \/ site' = "away"]_secretVars
  <2>. SUFFICES ASSUME SecretInv, SecretNext, created # NoCredential,
                       created' # created
                PROVE  (creating /\ ~creating') \/ site' = "away"
    OBVIOUS
  <2>1. CASE Done
    BY <2>1 DEF Done
  <2>2. CASE LeavePage
    BY <2>2 DEF LeavePage
  <2>3. ASSUME NEW j \in minting, CredentialCreated(j) PROVE FALSE
    BY <2>3 DEF CredentialCreated, SecretInv, HeldInv
  <2>4. CASE UNCHANGED created
    BY <2>4
  <2>. QED
    BY <2>1, <2>2, <2>3, <2>4
    DEF SecretNext, VisitPage, KeysFetched, OpenDialog, HideRevokeDialog,
        RevokeKey, HandleCreate, OpenRevokeDialog, KeyRevoked, SecretRefused,
        SecretUnheard
<1>. QED
  BY <1>1, SecretInvariant, PTL DEF SecretSpec, KeptUntilPutAway

LEMMA KeyListStep ==
    SecretTypeOK /\ KeyListSound /\ [SecretNext]_secretVars => KeyListSound'
<1>. SUFFICES ASSUME SecretTypeOK, KeyListSound, [SecretNext]_secretVars
              PROVE  KeyListSound'
  OBVIOUS
<1>. USE DEF KeyListSound
<1>0. serviceKeys \in KeyRows /\ keyList \in Query(KeyRows)
  BY DEF SecretTypeOK
<1>1. ASSUME NEW p \in Sites, VisitPage(p) PROVE KeyListSound'
  BY <1>0, <1>1, ObservedSound DEF VisitPage
<1>2. CASE KeysFetched
  BY <1>0, <1>2, FetchedSound DEF KeysFetched
<1>3. ASSUME NEW j \in minting, CredentialCreated(j) PROVE KeyListSound'
  BY <1>3, CreateOnly, DirtyKeysSound DEF CredentialCreated
<1>4. ASSUME NEW j \in revoking, KeyRevoked(j) PROVE KeyListSound'
  BY <1>4, DeactivateOnly, DirtyKeysSound DEF KeyRevoked
<1>5. CASE SecretUnheard
  BY <1>5 DEF SecretUnheard
<1>6. CASE UNCHANGED <<serviceKeys, keyList, unknown>>
  BY <1>6
<1>. QED
  BY <1>1, <1>2, <1>3, <1>4, <1>5, <1>6
  DEF SecretNext, LeavePage, OpenDialog, Done, HandleCreate, OpenRevokeDialog,
      HideRevokeDialog, RevokeKey, SecretRefused, secretVars

\* The table of the keys lists what the API has: a key that was made or revoked
\* invalidates it, also when the answer comes to another page.
THEOREM ServiceKeysListed == SecretSpec => []KeysAreListed
<1>1. SecretInit => KeyListSound
  BY NothingThere, NewSound DEF SecretInit, KeyListSound
<1>2. SecretTypeOK /\ KeyListSound => KeysAreListed
  BY DEF SecretTypeOK, KeyListSound, KeysAreListed, Sound
<1>. QED
  BY <1>1, <1>2, SecretTypeCorrect, KeyListStep, PTL DEF SecretSpec
-----------------------------------------------------------------------------
(* /login *)

LEMMA LoginTypeInit == LoginInit => LoginTypeOK
<1>. SUFFICES ASSUME LoginInit PROVE LoginTypeOK
  OBVIOUS
<1>1. NoTry \in [for : Maybe, code : Maybe]
      /\ NoEnrollment \in [secret : Maybe, code : Maybe]
  BY DEF NoTry, NoEnrollment, Maybe
<1>2. /\ configured \in BOOLEAN /\ edited \in BOOLEAN /\ lateSecret \in BOOLEAN
  BY Zenon DEF LoginInit
<1>3. cooldown \in 0 .. Cooldown
  BY LoginPageAssumption DEF LoginInit
<1>. QED
  BY <1>1, <1>2, <1>3 DEF LoginInit, LoginTypeOK, Maybe, Methods, Stages

LEMMA ReloadType == ASSUME LoginTypeOK, Reload PROVE LoginTypeOK'
<1>1. NoTry \in [for : Maybe, code : Maybe]
      /\ NoEnrollment \in [secret : Maybe, code : Maybe]
  BY DEF NoTry, NoEnrollment, Maybe
<1>2. /\ configured' \in BOOLEAN /\ edited' \in BOOLEAN /\ lateSecret' \in BOOLEAN
  BY Zenon DEF Reload
<1>3. cooldown' \in 0 .. Cooldown
  BY LoginPageAssumption DEF Reload
<1>. QED
  BY <1>1, <1>2, <1>3 DEF Reload, LoginTypeOK, Maybe, Methods, Stages

LEMMA LoginTypeStep == LoginTypeOK /\ [LoginNext]_loginVars => LoginTypeOK'
<1>. SUFFICES ASSUME LoginTypeOK, [LoginNext]_loginVars PROVE LoginTypeOK'
  OBVIOUS
<1>. USE LoginPageAssumption
     DEF LoginTypeOK, config, fieldVars, mfaVars, enrollVars, loginJobs,
         loginPast
<1>0. /\ NoTry \in [for : Maybe, code : Maybe]
      /\ NoEnrollment \in [secret : Maybe, code : Maybe]
      /\ NoAccount \in Maybe /\ Accounts \subseteq Maybe
      /\ ClearedEnrollment = NoEnrollment
  BY DEF NoTry, NoEnrollment, Maybe, ClearedEnrollment
<1>1. CASE ConfigLoaded
  BY <1>1 DEF ConfigLoaded
<1>2. ASSUME NEW t \in {"password", "magic_link"}, ChangeTab(t)
      PROVE  LoginTypeOK'
  BY <1>2 DEF ChangeTab
<1>3. ASSUME NEW a \in Accounts, EditEmail(a) PROVE LoginTypeOK'
  <2>1. edited' \in BOOLEAN /\ sentTo' \in Maybe
    BY <1>0, <1>3 DEF EditEmail
  <2>. QED
    BY <1>0, <1>3, <2>1 DEF EditEmail
<1>4. CASE SubmitPassword
  BY <1>4 DEF SubmitPassword
<1>5. CASE LoginGranted
  BY <1>0, <1>5 DEF LoginGranted, SignIn
<1>6. CASE LoginNeedsCode
  BY <1>0, <1>6 DEF LoginNeedsCode
<1>7. CASE LoginNeedsEnrollment
  BY <1>0, <1>7 DEF LoginNeedsEnrollment
<1>8. CASE Reload
  BY <1>8, ReloadType
<1>9. CASE LoginFailed \/ LinkFailed \/ StartFailed
  BY <1>0, <1>9 DEF LoginFailed, LinkFailed, StartFailed
<1>10. CASE SendLink \/ ResendLink
  BY <1>10 DEF SendLink, ResendLink, RequestLink
<1>11. CASE LinkSent
  BY <1>0, <1>11 DEF LinkSent
<1>12. CASE ChangeAddress
  BY <1>0, <1>12 DEF ChangeAddress
<1>13. CASE Tick
  BY <1>13 DEF Tick
<1>14. CASE PasskeyBegin \/ PasskeyAsked \/ PasskeyStopped
  <2>1. ceremony' \in Stages
    BY <1>14 DEF PasskeyBegin, PasskeyAsked, PasskeyStopped, Stage, Stages
  <2>. QED
    BY <1>14, <2>1 DEF PasskeyBegin, PasskeyAsked, PasskeyStopped
<1>15. ASSUME NEW a \in Accounts, PasskeyGranted(a) PROVE LoginTypeOK'
  BY <1>0, <1>15 DEF PasskeyGranted, Stage, Stages, SignIn
<1>16. ASSUME NEW a \in Accounts, TypeCode(a) PROVE LoginTypeOK'
  BY <1>0, <1>16 DEF TypeCode
<1>17. CASE CompleteMfa
  BY <1>17 DEF CompleteMfa
<1>18. CASE MfaGranted
  BY <1>0, <1>18 DEF MfaGranted, SignIn
<1>19. CASE MfaFailed \/ EnrollFailed
  BY <1>0, <1>19 DEF MfaFailed, EnrollFailed
<1>20. CASE BackFromMfa
  <2>1. gaveUp' \subseteq Accounts
    BY <1>20 DEF BackFromMfa, GivenUp, MfaScreen, Maybe
  <2>. QED
    BY <1>0, <1>20, <2>1 DEF BackFromMfa
<1>21. CASE StartEnroll
  BY <1>21 DEF StartEnroll
<1>22. CASE EnrollStarted
  BY <1>0, <1>22 DEF EnrollStarted
<1>23. CASE TypeEnrollCode
  BY <1>23 DEF TypeEnrollCode
<1>24. CASE VerifyEnroll
  BY <1>24 DEF VerifyEnroll
<1>25. CASE EnrollGranted
  BY <1>0, <1>25 DEF EnrollGranted, SignIn
<1>26. CASE BackFromEnroll
  <2>1. gaveUp' \subseteq Accounts
    BY <1>26 DEF BackFromEnroll, GivenUp, EnrollScreen, Maybe
  <2>2. lateSecret' \in BOOLEAN
    BY <1>26 DEF BackFromEnroll
  <2>. QED
    BY <1>0, <1>26, <2>1, <2>2 DEF BackFromEnroll
<1>27. CASE UNCHANGED loginVars
  BY <1>27 DEF loginVars
<1>. QED
  BY <1>1, <1>2, <1>3, <1>4, <1>5, <1>6, <1>7, <1>8, <1>9, <1>10, <1>11,
     <1>12, <1>13, <1>14, <1>15, <1>16, <1>17, <1>18, <1>19, <1>20, <1>21,
     <1>22, <1>23, <1>24, <1>25, <1>26, <1>27
  DEF LoginNext, LoginAnswer, LinkAnswer, PasskeyAnswer, MfaAnswer,
      EnrollAnswer, LoginRefused, PasskeyRefused, MfaRefused, StartRefused,
      EnrollRefused

\* Every variable of the page keeps its type, and the cooldown its range.
THEOREM LoginTypeCorrect == LoginSpec => []LoginTypeOK
<1>. QED
  BY LoginTypeInit, LoginTypeStep, PTL DEF LoginSpec

\* The page is at one login: its answer, its challenge or its enrollment.
OneLogin ==
    /\ loginJob # NoAccount => mfaFor = NoAccount /\ enrollFor = NoAccount
    /\ mfaFor # NoAccount => enrollFor = NoAccount

\* What was asked for an enrollment, and what came, belong to it, unless Back was
\* clicked in between.
EnrollmentOfLogin ==
    /\ startJob # NoAccount /\ ~lateSecret => startJob = enrollFor
    /\ enrollFor # NoAccount /\ enrollment.secret # NoAccount /\ ~lateSecret
          => enrollment.secret = enrollFor

\* A link is requested for the address in the shared field.
LinkOfField ==
    /\ ~configured => sentTo = NoAccount /\ linkJob = NoAccount
    /\ CredentialTabs /\ linkJob # NoAccount /\ ~edited => linkJob = email

\* Nothing that may still sign somebody in is for an account that was given up.
NotGivenUp ==
    \A a \in gaveUp : a \notin {account, loginJob, mfaFor, enrollFor,
                                completeJob.for, verifyJob.for}

LEMMA OneLoginStep ==
    OneLogin /\ EnrollmentOfLogin /\ [LoginNext]_loginVars
        => OneLogin' /\ EnrollmentOfLogin'
<1>. SUFFICES ASSUME OneLogin, EnrollmentOfLogin, [LoginNext]_loginVars
              PROVE  OneLogin' /\ EnrollmentOfLogin'
  OBVIOUS
<1>. USE DEF OneLogin, EnrollmentOfLogin, config, fieldVars, mfaVars,
             enrollVars, loginJobs, loginPast, NoEnrollment, ClearedEnrollment,
             Mounted, EnrollScreen, MfaScreen, FormScreen
<1>1. CASE SubmitPassword
  BY <1>1 DEF SubmitPassword, PasswordForm
<1>2. CASE LoginGranted \/ LoginFailed
  BY <1>2 DEF LoginGranted, LoginFailed
<1>3. CASE LoginNeedsCode
  BY <1>3 DEF LoginNeedsCode
<1>4. CASE LoginNeedsEnrollment
  BY <1>4 DEF LoginNeedsEnrollment
<1>5. CASE Reload
  BY <1>5 DEF Reload
<1>6. CASE BackFromMfa
  BY <1>6 DEF BackFromMfa
<1>7. CASE StartEnroll
  BY <1>7 DEF StartEnroll
<1>8. CASE EnrollStarted
  BY <1>8 DEF EnrollStarted
<1>9. CASE StartFailed
  BY <1>9 DEF StartFailed
<1>10. CASE TypeEnrollCode
  BY <1>10 DEF TypeEnrollCode
<1>11. CASE BackFromEnroll
  BY <1>11 DEF BackFromEnroll
<1>12. CASE UNCHANGED <<loginJob, mfaFor, startJob, enrollVars, lateSecret>>
  BY <1>12
<1>. QED
  BY <1>1, <1>2, <1>3, <1>4, <1>5, <1>6, <1>7, <1>8, <1>9, <1>10, <1>11, <1>12
  DEF LoginNext, LoginAnswer, LinkAnswer, PasskeyAnswer, MfaAnswer,
      EnrollAnswer, LoginRefused, PasskeyRefused, MfaRefused, StartRefused,
      EnrollRefused, ConfigLoaded, ChangeTab, EditEmail, SendLink, ResendLink,
      RequestLink, LinkSent, LinkFailed, ChangeAddress, Tick, PasskeyBegin,
      PasskeyAsked, PasskeyStopped, PasskeyGranted, TypeCode, CompleteMfa,
      MfaGranted, MfaFailed, VerifyEnroll, EnrollGranted, EnrollFailed, loginVars

LEMMA OneLoginInit == LoginInit => OneLogin /\ EnrollmentOfLogin
BY DEF LoginInit, OneLogin, EnrollmentOfLogin

LEMMA OneLoginAlways == LoginSpec => [](OneLogin /\ EnrollmentOfLogin)
<1>. QED
  BY OneLoginInit, OneLoginStep, PTL DEF LoginSpec

\* The secret of an enrollment is shown to the login that requires it: no other
\* login is under way while one is at its enrollment.
THEOREM SecretFitsLogin == LoginSpec => []SecretOfThisLogin
<1>1. EnrollmentOfLogin => SecretOfThisLogin
  BY DEF EnrollmentOfLogin, SecretOfThisLogin, EnrollScreen
<1>. QED
  BY <1>1, OneLoginAlways, PTL

LEMMA LinkStep ==
    LinkOfField /\ PanelNamesField /\ [LoginNext]_loginVars
        => LinkOfField' /\ PanelNamesField'
<1>. SUFFICES ASSUME LinkOfField, PanelNamesField, [LoginNext]_loginVars
              PROVE  LinkOfField' /\ PanelNamesField'
  OBVIOUS
<1>. USE DEF LinkOfField, PanelNamesField, config, fieldVars, mfaVars,
             enrollVars, loginJobs, loginPast, CredentialTabs, FormScreen
<1>1. CASE ConfigLoaded
  BY <1>1 DEF ConfigLoaded
<1>2. ASSUME NEW a \in Accounts, EditEmail(a)
      PROVE  LinkOfField' /\ PanelNamesField'
  <2>1. CASE CredentialTabs
    BY <1>2, <2>1 DEF EditEmail
  <2>2. CASE ~CredentialTabs
    BY <1>2, <2>2 DEF EditEmail
  <2>. QED
    BY <2>1, <2>2
<1>3. CASE Reload
  BY <1>3 DEF Reload
<1>4. CASE SendLink
  BY <1>4 DEF SendLink, RequestLink, LinkForm
<1>5. CASE ResendLink
  BY <1>5 DEF ResendLink, RequestLink, LinkForm
<1>6. CASE LinkSent
  BY <1>6 DEF LinkSent
<1>7. CASE LinkFailed
  BY <1>7 DEF LinkFailed
<1>8. CASE ChangeAddress
  BY <1>8 DEF ChangeAddress
<1>9. CASE UNCHANGED <<config, email, sentTo, linkJob, edited>>
  BY <1>9
<1>. QED
  BY <1>1, <1>2, <1>3, <1>4, <1>5, <1>6, <1>7, <1>8, <1>9
  DEF LoginNext, LoginAnswer, LinkAnswer, PasskeyAnswer, MfaAnswer,
      EnrollAnswer, LoginRefused, PasskeyRefused, MfaRefused, StartRefused,
      EnrollRefused, ChangeTab, SubmitPassword, LoginGranted, LoginFailed,
      LoginNeedsCode, LoginNeedsEnrollment, Tick, PasskeyBegin, PasskeyAsked,
      PasskeyStopped, PasskeyGranted, TypeCode, CompleteMfa, MfaGranted,
      MfaFailed, BackFromMfa, StartEnroll, EnrollStarted, StartFailed,
      TypeEnrollCode, VerifyEnroll, EnrollGranted, EnrollFailed, BackFromEnroll,
      loginVars

\* The panel names the address in the field above it: editing takes the panel
\* away, and only an edit during a request can bring back the address before.
THEOREM PanelIsOfField == LoginSpec => []PanelNamesField
<1>1. LoginInit => LinkOfField /\ PanelNamesField
  BY DEF LoginInit, LinkOfField, PanelNamesField
<1>. QED
  BY <1>1, LinkStep, PTL DEF LoginSpec

LEMMA GivenUpStep ==
    LoginTypeOK /\ OneLogin /\ NotGivenUp /\ [LoginNext]_loginVars => NotGivenUp'
<1>. SUFFICES ASSUME LoginTypeOK, OneLogin, NotGivenUp, [LoginNext]_loginVars
              PROVE  NotGivenUp'
  OBVIOUS
<1>0. gaveUp \subseteq Accounts /\ NoAccount \notin gaveUp
  BY LoginPageAssumption DEF LoginTypeOK
<1>. USE DEF NotGivenUp, OneLogin, config, fieldVars, mfaVars, enrollVars,
             loginJobs, loginPast, NoTry
<1>1. CASE SubmitPassword
  BY <1>0, <1>1 DEF SubmitPassword
<1>2. CASE LoginGranted \/ LoginFailed
  BY <1>0, <1>2 DEF LoginGranted, LoginFailed, SignIn
<1>3. CASE LoginNeedsCode
  BY <1>0, <1>3 DEF LoginNeedsCode
<1>4. CASE LoginNeedsEnrollment
  BY <1>0, <1>4 DEF LoginNeedsEnrollment
<1>5. CASE Reload
  BY <1>0, <1>5 DEF Reload
<1>6. ASSUME NEW a \in Accounts, PasskeyGranted(a) PROVE NotGivenUp'
  BY <1>6 DEF PasskeyGranted, SignIn
<1>7. CASE CompleteMfa
  BY <1>7 DEF CompleteMfa
<1>8. CASE MfaGranted \/ MfaFailed
  BY <1>0, <1>8 DEF MfaGranted, MfaFailed, SignIn
<1>9. CASE BackFromMfa
  BY <1>0, <1>9 DEF BackFromMfa, GivenUp, MfaScreen, EnrollScreen, Mounted
<1>10. CASE VerifyEnroll
  BY <1>10 DEF VerifyEnroll
<1>11. CASE EnrollGranted \/ EnrollFailed
  BY <1>0, <1>11 DEF EnrollGranted, EnrollFailed, SignIn
<1>12. CASE BackFromEnroll
  BY <1>0, <1>12 DEF BackFromEnroll, GivenUp, EnrollScreen, Mounted
<1>13. CASE UNCHANGED <<account, loginJob, mfaFor, enrollFor, completeJob,
                        verifyJob, gaveUp>>
  BY <1>13
<1>. QED
  BY <1>1, <1>2, <1>3, <1>4, <1>5, <1>6, <1>7, <1>8, <1>9, <1>10, <1>11,
     <1>12, <1>13
  DEF LoginNext, LoginAnswer, LinkAnswer, PasskeyAnswer, MfaAnswer,
      EnrollAnswer, LoginRefused, PasskeyRefused, MfaRefused, StartRefused,
      EnrollRefused, ConfigLoaded, ChangeTab, EditEmail, SendLink, ResendLink,
      RequestLink, LinkSent, LinkFailed, ChangeAddress, Tick, PasskeyBegin,
      PasskeyAsked, PasskeyStopped, TypeCode, StartEnroll, EnrollStarted,
      StartFailed, TypeEnrollCode, loginVars

\* Who went back from a challenge is not signed in by what is answered later.
THEOREM GivenUpIsOut == LoginSpec => []GivenUpStaysOut
<1>1. LoginInit => NotGivenUp
  BY DEF LoginInit, NotGivenUp
<1>2. NotGivenUp => GivenUpStaysOut
  BY DEF NotGivenUp, GivenUpStaysOut
<1>. QED
  BY <1>1, <1>2, LoginTypeCorrect, OneLoginAlways, GivenUpStep, PTL
  DEF LoginSpec

-----------------------------------------------------------------------------
(* The pages together *)

\* A behaviour of the composition is one of every page.
LEMMA FormPagesCompose ==
    FormSpec =>
        LoginSpec /\ LandingSpec /\ RecoverySpec /\ SecretSpec
<1>1. FormInit =>
        LoginInit /\ LandingInit /\ RecoveryInit /\ SecretInit
  BY DEF FormInit, Opens, ClosedLogin, ClosedLanding, ClosedRecovery
<1>2. [FormNext]_<<opened, loginVars, landingVars, recoveryVars, secretVars>> =>
        /\ [LoginNext]_loginVars
        /\ [LandingNext]_landingVars
        /\ [RecoveryNext]_recoveryVars
        /\ [SecretNext]_secretVars
  BY DEF FormNext, Moves
<1>. QED
  BY <1>1, <1>2, PTL
  DEF FormSpec, LoginSpec, LandingSpec, RecoverySpec, SecretSpec

\* A panel that says where a mail went names the address of the last request the
\* API has accepted, and on /login the one in the field above it.
THEOREM PanelsTrue == FormSpec => []PanelsNameAddress
<1>1. (/\ PanelNamesField
       /\ PanelNamesRequest)
      => PanelsNameAddress
  BY DEF PanelsNameAddress
<1>. QED
  BY <1>1, FormPagesCompose, PanelIsOfField, PanelIsTrue, PTL

\* The pages that spend a grant or register sign in whole or not at all, and, in a
\* browser without a session, as the owner.
THEOREM SignsInWhole == FormSpec => []SignedInWhole
<1>1. (/\ NothingHalfway
       /\ LandedAsOwner)
      => SignedInWhole
  BY DEF SignedInWhole
<1>. QED
  BY <1>1, FormPagesCompose, LandsOrNot, LandsAsOwner, PTL
=============================================================================
