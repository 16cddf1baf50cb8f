------------------------- MODULE RecordPages_proofs -------------------------
(***************************************************************************)
(* What holds of the API client of a tab and of the pages that show one    *)
(* record of the API, for every number of users, requests, numbers,        *)
(* secrets, organizations and accounts.                                    *)
(*                                                                         *)
(* Of what the tab does eventually, the safety halves are proved: a        *)
(* request is given three answers at most (AnswersLeft), and a page that   *)
(* AuthGuard hides has one to wait for (GuardWaits).                       *)
(***************************************************************************)
EXTENDS ApiClient, RecordPages, QueryCache_proofs, FiniteSetTheorems

-----------------------------------------------------------------------------
(* /me and /verify-phone *)

\* The API will read the row it has now, or a later one, for the page.
ReadIsDue == reading \/ \E n \in Numbers : puts[n] = "applied"

\* The user that is stored last, of the answers under way and the store, is the
\* API's, as long as answers come in the order in which they were read.
StoreFollows ==
    \/ unheard \/ ReadIsDue
    \/ IF answers = <<>> THEN shown = phone
                         ELSE answers[Len(answers)].row = phone

\* The code that is out was sent to the number of the user.
OtpOfNumber == otp # NoNumber /\ ~renumbered => otp = phone.number

PhoneInv == PhoneTypeOK /\ StoreFollows /\ OtpOfNumber /\ VerifiedByItsCode

LEMMA PhoneInvInit == PhoneInit => PhoneInv
<1>. SUFFICES ASSUME PhoneInit PROVE PhoneInv
  OBVIOUS
<1>1. phone \in Profiles /\ shown = phone /\ ~phone.verified
  BY DEF PhoneInit, Profiles
<1>2. /\ {reading, cooling, dialog, editing} \subseteq BOOLEAN
      /\ {renumbered, unheard} \subseteq BOOLEAN
  <2>. /\ cooling \in BOOLEAN /\ dialog \in BOOLEAN /\ editing \in BOOLEAN
       /\ renumbered \in BOOLEAN /\ unheard \in BOOLEAN /\ reading \in BOOLEAN
    BY Zenon DEF PhoneInit
  <2>. QED
    OBVIOUS
<1>3. /\ asking \in [Senders -> BOOLEAN] /\ answers \in Seq(Answers)
      /\ puts \in [Numbers -> {"idle", "sent", "applied"}]
  BY DEF PhoneInit
<1>4. PhoneTypeOK
  BY <1>1, <1>2, <1>3 DEF PhoneInit, PhoneTypeOK, MaybeNumber
<1>. QED
  BY <1>1, <1>4
  DEF PhoneInit, PhoneInv, StoreFollows, OtpOfNumber, VerifiedByItsCode

\* What is left of the answers under way when one of them comes.
LEMMA AnswersLeave ==
    ASSUME NEW S, NEW s \in Seq(S), NEW i \in 1..Len(s)
    PROVE  /\ RemoveAt(s, i) \in Seq(S)
           /\ Len(s) = 1 => RemoveAt(s, 1) = <<>>
           /\ Len(s) > 1 => /\ Len(RemoveAt(s, 1)) = Len(s) - 1
                            /\ RemoveAt(s, 1) # <<>>
                            /\ RemoveAt(s, 1)[Len(s) - 1] = s[Len(s)]
<1>1. SubSeq(s, 1, i - 1) \in Seq(S) /\ SubSeq(s, i + 1, Len(s)) \in Seq(S)
  OBVIOUS
<1>2. SubSeq(s, 1, 0) = <<>> /\ SubSeq(s, 2, Len(s)) \in Seq(S)
  OBVIOUS
<1>3. RemoveAt(s, 1) = SubSeq(s, 2, Len(s))
  BY <1>2 DEF RemoveAt
<1>4. RemoveAt(s, i) \in Seq(S)
  BY <1>1 DEF RemoveAt
<1>5. /\ Len(SubSeq(s, 2, Len(s))) = IF 2 <= Len(s) THEN Len(s) - 1 ELSE 0
      /\ \A k \in 1..(Len(s) - 1) : SubSeq(s, 2, Len(s))[k] = s[k + 1]
  OBVIOUS
<1>6. Len(s) = 1 => SubSeq(s, 2, Len(s)) = <<>>
  OBVIOUS
<1>7. Len(s) > 1 => /\ Len(SubSeq(s, 2, Len(s))) = Len(s) - 1
                    /\ SubSeq(s, 2, Len(s))[Len(s) - 1] = s[Len(s)]
  BY <1>5
<1>8. Len(s) > 1 => SubSeq(s, 2, Len(s)) # <<>>
  <2>1. Len(s) > 1 => Len(s) - 1 # 0
    <3>. Len(s) \in Nat
      OBVIOUS
    <3>. DEFINE n == Len(s)
    <3>. HIDE DEF n
    <3>1. n \in Nat => (n > 1 => n - 1 # 0)
      OBVIOUS
    <3>. QED
      BY <3>1 DEF n
  <2>2. Len(<<>>) = 0
    OBVIOUS
  <2>. QED
    BY <1>7, <2>1, <2>2, Zenon
<1>. QED
  BY <1>3, <1>4, <1>6, <1>7, <1>8

\* /verify-phone sends neither what asks for a code nor what proves one.
LEMMA Standalone422 == ~Proves("standalone") /\ ~Asks("standalone")
BY DEF Proves, Asks, ProveFields, AskFields

LEMMA PhoneInvStep == PhoneInv /\ [PhoneNext]_phoneVars => PhoneInv'
<1>. SUFFICES ASSUME PhoneInv, [PhoneNext]_phoneVars PROVE PhoneInv'
  OBVIOUS
<1>. USE PhoneAssumption
     DEF PhoneInv, PhoneTypeOK, StoreFollows, OtpOfNumber, VerifiedByItsCode,
         ReadIsDue, api, user, fields, edit, jobs, past
<1>0. /\ NoNumber \in MaybeNumber
      /\ Numbers \subseteq MaybeNumber
      /\ phone.number \in Numbers /\ phone.number \in MaybeNumber
      /\ "profile" \in Senders /\ "standalone" \in Senders
      /\ NoNumber \notin Numbers
  BY DEF Profiles, MaybeNumber, Senders
<1>1. ASSUME NEW p \in Senders, Ask(p) PROVE PhoneInv'
  BY <1>1 DEF Ask
<1>2. CASE AskProfile \/ AskStandalone
  BY <1>0, <1>1, <1>2 DEF AskProfile, AskStandalone
<1>3. ASSUME NEW p \in Senders, CodeSent(p) PROVE PhoneInv'
  <2>1. p = "profile"
    BY <1>3, Standalone422 DEF CodeSent, Senders
  <2>. QED
    BY <1>0, <1>3, <2>1 DEF CodeSent
<1>4. ASSUME NEW p \in Senders, AskFailed(p) PROVE PhoneInv'
  BY <1>0, <1>4 DEF AskFailed
<1>5. CASE CloseDialog
  BY <1>5 DEF CloseDialog
<1>6. ASSUME NEW p \in Senders, NEW n \in Numbers, TypePhoneCode(p, n)
      PROVE  PhoneInv'
  BY <1>0, <1>6 DEF TypePhoneCode, Standalone
<1>7. CASE ProveProfile
  BY <1>0, <1>7 DEF ProveProfile, Prove
<1>8. CASE ProveStandalone
  BY <1>0, <1>8 DEF ProveStandalone, Prove
<1>9. ASSUME NEW p \in Senders, PhoneVerified(p) PROVE PhoneInv'
  <2>1. p = "profile" /\ otp # NoNumber /\ proving[p] = otp
    BY <1>9, Standalone422 DEF PhoneVerified, Accepts, Right, Senders
  <2>2. phone' \in Profiles /\ phone'.number = phone.number
    BY <1>9 DEF PhoneVerified, Profiles
  <2>. QED
    <3>1. PhoneTypeOK'
      BY <1>0, <1>9, <2>1, <2>2 DEF PhoneVerified, MaybeNumber
    <3>2. StoreFollows'
      BY <1>0, <1>9, <2>1, <2>2 DEF PhoneVerified
    <3>3. OtpOfNumber' /\ VerifiedByItsCode'
      BY <1>0, <1>9, <2>1, <2>2 DEF PhoneVerified
    <3>. QED
      BY <3>1, <3>2, <3>3
<1>10. ASSUME NEW p \in Senders, PhoneRefused(p) PROVE PhoneInv'
  BY <1>0, <1>10 DEF PhoneRefused
<1>11. ASSUME NEW p \in Senders, PhoneUnheard(p) PROVE PhoneInv'
  <2>1. p = "profile" /\ otp # NoNumber /\ proving[p] = otp
    BY <1>11, Standalone422 DEF PhoneUnheard, Accepts, Right, Senders
  <2>2. phone' \in Profiles /\ phone'.number = phone.number
    BY <1>11 DEF PhoneUnheard, Profiles
  <2>. QED
    BY <1>0, <1>11, <2>1, <2>2 DEF PhoneUnheard, MaybeNumber
<1>12. ASSUME NEW open \in BOOLEAN, OpenEdit(open) PROVE PhoneInv'
  BY <1>12 DEF OpenEdit
<1>13. ASSUME NEW n \in Numbers, SaveProfile(n) \/ ProfileFailed(n)
       PROVE  PhoneInv'
  <2>1. \A m \in Numbers : puts[m] = "applied" => puts'[m] = "applied"
    BY <1>13 DEF SaveProfile, ProfileFailed
  <2>. QED
    BY <1>0, <1>13, <2>1 DEF SaveProfile, ProfileFailed
<1>14. ASSUME NEW n \in Numbers, ProfileApplied(n) PROVE PhoneInv'
  <2>1. /\ phone' \in Profiles /\ phone'.number = n
        /\ phone'.verified = phone.verified
    BY <1>14 DEF ProfileApplied, Profiles
  <2>2. renumbered' \in BOOLEAN /\ puts'[n] = "applied"
    BY <1>14 DEF ProfileApplied
  <2>3. PhoneTypeOK' /\ StoreFollows'
    BY <1>0, <1>14, <2>1, <2>2 DEF ProfileApplied
  <2>4. \/ n = phone.number /\ renumbered' = renumbered
        \/ /\ n # phone.number
           /\ renumbered' = (renumbered \/ otp # NoNumber \/ phone.verified)
    BY <1>14, Zenon DEF ProfileApplied
  <2>5. otp' = otp /\ proven' = proven
    BY <1>14 DEF ProfileApplied
  <2>6. OtpOfNumber' /\ VerifiedByItsCode'
    BY <2>1, <2>4, <2>5
  <2>. QED
    BY <2>3, <2>6
<1>15. ASSUME NEW by \in MaybeNumber, Reads(by),
              puts' \in [Numbers -> {"idle", "sent", "applied"}],
              reading' \in BOOLEAN
       PROVE  PhoneInv'
  <2>1. [by |-> by, row |-> phone] \in Answers
    BY DEF Answers
  <2>2. /\ answers' \in Seq(Answers) /\ answers' # <<>>
        /\ answers'[Len(answers')].row = phone
    BY <1>15, <2>1 DEF Reads
  <2>. QED
    BY <1>15, <2>2 DEF Reads
<1>16. CASE UserRead \/ \E n \in Numbers : ProfileRead(n)
  BY <1>0, <1>15, <1>16 DEF UserRead, ProfileRead
<1>17. ASSUME NEW i \in 1..Len(answers),
              ProfileSaved(i) \/ UserStored(i) \/ AnswerLost(i)
       PROVE  PhoneInv'
  <2>1. answers' = RemoveAt(answers, i) /\ answers' \in Seq(Answers)
    BY <1>17, AnswersLeave DEF ProfileSaved, UserStored, Stored, AnswerLost
  <2>2. answers[i] \in Answers
    OBVIOUS
  <2>7. answers[i].row \in Profiles
    BY <2>2 DEF Answers
  <2>3. /\ phone' = phone /\ otp' = otp /\ reading' = reading /\ puts' = puts
        /\ proven' = proven /\ renumbered' = renumbered
        /\ unheard' \in BOOLEAN /\ (unheard => unheard')
    BY <1>17 DEF ProfileSaved, UserStored, Stored, AnswerLost
  <2>4. PhoneTypeOK'
    BY <1>17, <2>1, <2>7, <2>3
    DEF ProfileSaved, UserStored, Stored, AnswerLost
  <2>5. CASE unheard' \/ ReadIsDue
    BY <2>3, <2>4, <2>5
  <2>6. CASE ~unheard' /\ ~ReadIsDue
    <3>1. i = 1 /\ shown' = answers[1].row /\ answers' = RemoveAt(answers, 1)
      BY <1>17, <2>6 DEF ProfileSaved, UserStored, Stored, AnswerLost
    <3>2. answers[Len(answers)].row = phone /\ Len(answers) \in Nat \ {0}
      BY <2>3, <2>6, <3>1
    <3>3. CASE Len(answers) = 1
      BY <2>3, <2>4, <3>1, <3>2, <3>3, AnswersLeave
    <3>4. CASE Len(answers) > 1
      BY <2>3, <2>4, <3>1, <3>2, <3>4, AnswersLeave
    <3>5. Len(answers) = 1 \/ Len(answers) > 1
      <4>. DEFINE k == Len(answers)
      <4>. HIDE DEF k
      <4>1. k \in Nat \ {0} => k = 1 \/ k > 1
        OBVIOUS
      <4>. QED
        BY <3>2, <4>1, Zenon DEF k
    <3>. QED
      BY <3>3, <3>4, <3>5, Zenon
  <2>. QED
    BY <2>5, <2>6
<1>18. CASE OtpExpires \/ CooldownEnds
  BY <1>0, <1>18 DEF OtpExpires, CooldownEnds
<1>19. CASE UNCHANGED phoneVars
  BY <1>19 DEF phoneVars
<1>. QED
  BY <1>2, <1>3, <1>4, <1>5, <1>6, <1>7, <1>8, <1>9, <1>10, <1>11, <1>12,
     <1>13, <1>14, <1>15, <1>16, <1>17, <1>18, <1>19 DEF PhoneNext

LEMMA PhoneInvariant == PhoneSpec => []PhoneInv
<1>. QED
  BY PhoneInvInit, PhoneInvStep, PTL DEF PhoneSpec

\* Every variable keeps its type, and /verify-phone says it is verifying only
\* while it is.
THEOREM PhoneTypeCorrect == PhoneSpec => []PhoneTypeOK
<1>1. PhoneInv => PhoneTypeOK
  BY DEF PhoneInv
<1>. QED
  BY <1>1, PhoneInvariant, PTL

\* The profile page shows what the API has: what is changed is read afterwards, and
\* the answer that is read last is stored last.
THEOREM ProfileFollows == PhoneSpec => []ProfileIsCurrent
<1>1. PhoneInv => ProfileIsCurrent
  BY DEF PhoneInv, StoreFollows, ReadIsDue, Quiet, ProfileIsCurrent
<1>. QED
  BY <1>1, PhoneInvariant, PTL

\* Only the code that was sent to a number verifies it, as long as the number is
\* not changed behind it.
THEOREM VerifiedByCode == PhoneSpec => []VerifiedByItsCode
<1>1. PhoneInv => VerifiedByItsCode
  BY DEF PhoneInv
<1>. QED
  BY <1>1, PhoneInvariant, PTL

-----------------------------------------------------------------------------
(* /me/security *)

\* What an invalidation, an answer and a failure leave of the data.
LEMMA KeepsLoaded ==
    ASSUME NEW D, NEW now \in D, NEW q \in Query(D), NEW shownNow \in BOOLEAN
    PROVE  /\ Loaded(Invalidated(q, shownNow, now)) <=> Loaded(q)
           /\ Loaded(Failed(q)) <=> Loaded(q)
           /\ Loaded(Observed(q, now)) <=> Loaded(q)
           /\ Fetching(q) => Loaded(Answered(q))
BY DEF Loaded, Observed, Invalidated, Failed, Answered, Fetching, Query, Unread

CachesSound == ~missed => Sound(me, UserRow) /\ Sound(mfaStatus, acct.on)

\* A set-up is confirmed with the code of some secret.
CodesTyped == \A j \in cardJobs \cup orphans : j.op = "verify" => j.arg # NoSecret

CardInv == CardTypeOK /\ CodesTyped /\ SecretShownIsOpen /\ CachesSound

AcctSet == [secret : MaybeSecret, on : BOOLEAN, password : BOOLEAN]

LEMMA CardInvInit == CardInit => CardInv
<1>. SUFFICES ASSUME CardInit PROVE CardInv
  OBVIOUS
<1>1. acct \in AcctSet /\ acct.on = FALSE /\ UserRow \in Rows /\ acct.on \in BOOLEAN
  BY DEF CardInit, AcctSet, MaybeSecret, UserRow, Rows
<1>2. /\ me \in Query(Rows) /\ Sound(me, UserRow) /\ Loaded(me)
      /\ mfaStatus \in Query(BOOLEAN) /\ Sound(mfaStatus, acct.on)
  <2>1. me \in Query(Rows) /\ Sound(me, UserRow)
    BY <1>1, NewSound DEF CardInit
  <2>2. Loaded(me)
    BY <2>1 DEF CardInit, Holding, NewQuery, Loaded, Unread
  <2>3. mfaStatus \in Query(BOOLEAN) /\ Sound(mfaStatus, acct.on)
    BY <1>1, NewSound DEF CardInit
  <2>. QED
    BY <2>1, <2>2, <2>3
<1>3. /\ pane \in Tabs /\ offered \in MaybeSecret /\ typedFor \in MaybeSecret
      /\ cardJobs \subseteq Jobs /\ orphans \subseteq Jobs
  BY DEF CardInit, Tabs, MaybeSecret
<1>4. missed \in BOOLEAN /\ overtaken \in BOOLEAN
  BY Zenon DEF CardInit
<1>5. offered = NoSecret
  BY DEF CardInit
<1>. QED
  BY <1>1, <1>2, <1>3, <1>4, <1>5
  DEF CardInit, CardInv, CardTypeOK, AcctSet, CodesTyped, SecretShownIsOpen,
      CachesSound

\* What the API does to the account.
LEMMA AccountChanges ==
    ASSUME CardTypeOK, NEW j \in Jobs, j.op = "verify" => j.arg # NoSecret,
           Enrolls(j) \/ Confirms(j) \/ Disables(j) \/ SetsPassword(j)
    PROVE  acct' \in AcctSet /\ (acct'.on => acct'.secret # NoSecret)
<1>. USE SecurityAssumption DEF CardTypeOK, AcctSet, MaybeSecret
<1>1. CASE Enrolls(j)
  BY <1>1 DEF Enrolls
<1>2. CASE Confirms(j)
  BY <1>2 DEF Confirms
<1>3. CASE Disables(j)
  BY <1>3 DEF Disables
<1>4. CASE SetsPassword(j)
  BY <1>4 DEF SetsPassword
<1>. QED
  BY <1>1, <1>2, <1>3, <1>4

\* Both queries after a change.
LEMMA CachesInvalidated ==
    ASSUME CardTypeOK, acct' \in AcctSet
    PROVE  /\ DirtyStatus => /\ mfaStatus' \in Query(BOOLEAN)
                             /\ Sound(mfaStatus', acct'.on)
           /\ DirtyUser => /\ me' \in Query(Rows) /\ Loaded(me')
                           /\ Sound(me', UserRow')
<1>1. acct'.on \in BOOLEAN /\ UserRow' \in Rows /\ (pane = "mfa") \in BOOLEAN
  BY DEF AcctSet, UserRow, Rows
<1>2. ASSUME DirtyStatus
      PROVE  mfaStatus' \in Query(BOOLEAN) /\ Sound(mfaStatus', acct'.on)
  BY <1>1, <1>2, InvalidatedSound DEF DirtyStatus, CardTypeOK
<1>3. ASSUME DirtyUser
      PROVE  me' \in Query(Rows) /\ Loaded(me') /\ Sound(me', UserRow')
  <2>. DEFINE now == UserRow'
  <2>. HIDE DEF now
  <2>1. me' = Invalidated(me, TRUE, now) /\ now \in Rows /\ TRUE \in BOOLEAN
    BY <1>1, <1>3 DEF DirtyUser, now
  <2>2. me \in Query(Rows) /\ Loaded(me)
    BY DEF CardTypeOK
  <2>3. me' \in Query(Rows) /\ Sound(me', now)
    BY <2>1, <2>2, InvalidatedSound
  <2>4. Loaded(me')
    BY <2>1, <2>2, KeepsLoaded
  <2>. QED
    BY <2>3, <2>4 DEF now
<1>. QED
  BY <1>2, <1>3

\* A request in flight is one of the two kinds, and leaves its set.
LEMMA Settles ==
    ASSUME CardTypeOK, CodesTyped, NEW mine \in BOOLEAN, NEW j \in Flying(mine),
           Settle(j, mine)
    PROVE  /\ j \in Jobs /\ (j.op = "verify" => j.arg # NoSecret)
           /\ cardJobs' \subseteq Jobs /\ orphans' \subseteq Jobs /\ CodesTyped'
BY DEF CardTypeOK, CodesTyped, Flying, Settle

LEMMA CardInvStep == CardInv /\ [CardNext]_cardVars => CardInv'
<1>. SUFFICES ASSUME CardInv, [CardNext]_cardVars PROVE CardInv'
  OBVIOUS
<1>. USE SecurityAssumption DEF CardInv
<1>0. /\ acct \in AcctSet /\ acct.on \in BOOLEAN /\ UserRow \in Rows
      /\ NoSecret \in MaybeSecret
      /\ (pane = "mfa") \in BOOLEAN /\ ({"security", "mfa"} = Tabs)
  BY DEF CardTypeOK, AcctSet, UserRow, Rows, MaybeSecret, Tabs
<1>1. ASSUME NEW t \in Tabs, Show(t) PROVE CardInv'
  <2>1. UserRow' = UserRow /\ acct' = acct /\ me' = me /\ missed' = missed
    BY <1>1 DEF Show, UserRow, cardPast
  <2>2. /\ mfaStatus' \in Query(BOOLEAN)
        /\ ~missed => Sound(mfaStatus', acct.on)
    BY <1>0, <1>1, QueryType, ObservedSound DEF Show, CardTypeOK, CachesSound
  <2>3. cardJobs' \subseteq Jobs /\ orphans' \subseteq Jobs /\ CodesTyped'
    BY <1>1 DEF Show, CardTypeOK, CodesTyped
  <2>4. overtaken' \in BOOLEAN /\ missed' \in BOOLEAN
    BY <1>1 DEF Show, cardPast, CardTypeOK
  <2>5. pane' \in Tabs /\ offered' = NoSecret /\ typedFor' = NoSecret
    BY <1>1 DEF Show
  <2>6. CardTypeOK'
    BY <1>0, <2>1, <2>2, <2>3, <2>4, <2>5 DEF CardTypeOK, AcctSet
  <2>. QED
    BY <2>1, <2>2, <2>3, <2>5, <2>6 DEF SecretShownIsOpen, CachesSound
<1>2. CASE CardFetched
  <2>1. /\ UserRow' = UserRow /\ acct' = acct /\ missed' = missed
        /\ overtaken' = overtaken /\ pane' = pane /\ offered' = offered
        /\ typedFor' = typedFor /\ cardJobs' = cardJobs /\ orphans' = orphans
    BY <1>2 DEF CardFetched, UserRow, cardPast, tabState
  <2>2. /\ mfaStatus' \in Query(BOOLEAN)
        /\ ~missed => Sound(mfaStatus', acct.on)
    BY <1>0, <1>2, QueryType, FetchedSound
    DEF CardFetched, Arrives, CardTypeOK, CachesSound
  <2>3. me' \in Query(Rows) /\ (~missed => Sound(me', UserRow))
    BY <1>0, <1>2, QueryType, FetchedSound
    DEF CardFetched, Arrives, CardTypeOK, CachesSound
  <2>4. Loaded(me')
    BY <1>0, <1>2, KeepsLoaded DEF CardFetched, Arrives, CardTypeOK
  <2>5. CardTypeOK'
    BY <2>1, <2>2, <2>3, <2>4 DEF CardTypeOK
  <2>. QED
    BY <2>1, <2>2, <2>3, <2>5 DEF SecretShownIsOpen, CachesSound, CodesTyped
<1>3. ASSUME NEW op \in {"enroll", "verify", "disable", "password"},
             NEW arg \in MaybeSecret, Start(op, arg),
             op = "verify" => arg # NoSecret
      PROVE  CardInv'
  <2>1. /\ UserRow' = UserRow /\ acct' = acct /\ missed' = missed
        /\ overtaken' = overtaken /\ pane' = pane /\ offered' = offered
        /\ typedFor' = typedFor /\ orphans' = orphans /\ me' = me
        /\ mfaStatus' = mfaStatus
    BY <1>3 DEF Start, UserRow, cardPast, tabState, cache
  <2>2. cardJobs' \subseteq Jobs /\ CodesTyped'
    BY <1>3, <2>1 DEF Start, Jobs, CardTypeOK, CodesTyped
  <2>. QED
    BY <2>1, <2>2 DEF CardTypeOK, SecretShownIsOpen, CachesSound
<1>4. CASE EnableMfa \/ ConfirmMfa \/ DisableMfa \/ SetPassword
  BY <1>0, <1>3, <1>4
  DEF EnableMfa, ConfirmMfa, DisableMfa, SetPassword, CardTypeOK
<1>5. CASE CancelEnroll \/ \E s \in Secrets : TypeMfaCode(s)
  <2>1. /\ UserRow' = UserRow /\ acct' = acct /\ missed' = missed
        /\ overtaken' = overtaken /\ pane' = pane /\ offered' \in {offered, NoSecret}
        /\ typedFor' \in MaybeSecret /\ cardJobs' = cardJobs
        /\ orphans' = orphans /\ me' = me /\ mfaStatus' = mfaStatus
    BY <1>0, <1>5
    DEF CancelEnroll, TypeMfaCode, UserRow, cardPast, cache, CardTypeOK, MaybeSecret
  <2>. QED
    BY <1>0, <2>1 DEF CardTypeOK, SecretShownIsOpen, CachesSound, CodesTyped
<1>6. ASSUME NEW mine \in BOOLEAN, NEW j \in Flying(mine), Settle(j, mine),
             acct' \in AcctSet, acct'.on => acct'.secret # NoSecret,
             mfaStatus' \in Query(BOOLEAN), me' \in Query(Rows), Loaded(me'),
             pane' = pane, offered' \in MaybeSecret, typedFor' \in MaybeSecret,
             missed' \in BOOLEAN, overtaken' \in BOOLEAN
      PROVE  CardTypeOK' /\ CodesTyped'
  BY <1>6, Settles DEF CardTypeOK, AcctSet
<1>7. ASSUME NEW mine \in BOOLEAN, NEW j \in Flying(mine), Enrolled(j, mine)
      PROVE  CardInv'
  <2>1. Settle(j, mine) /\ Enrolls(j) /\ j \in Jobs
        /\ (j.op = "verify" => j.arg # NoSecret)
    BY <1>7, Settles DEF Enrolled
  <2>2. acct' \in AcctSet /\ (acct'.on => acct'.secret # NoSecret)
    BY <2>1, AccountChanges
  <2>3. /\ ~acct.on /\ acct'.on = acct.on /\ UserRow' = UserRow
        /\ acct'.secret \in MaybeSecret
    BY <2>1, <2>2 DEF Enrolls, UserRow, CardTypeOK, AcctSet
  <2>4. /\ me' = me /\ mfaStatus' = mfaStatus /\ pane' = pane
        /\ typedFor' = typedFor /\ missed' = missed
    BY <1>7 DEF Enrolled, cache
  <2>5. /\ offered' \in MaybeSecret /\ overtaken' \in BOOLEAN
        /\ offered' # NoSecret /\ ~overtaken' => offered' = acct'.secret
    BY <1>7, <2>3, Zenon DEF Enrolled, Overtakes, CardTypeOK
  <2>6. CardTypeOK' /\ CodesTyped'
    BY <1>6, <2>1, <2>2, <2>4, <2>5 DEF CardTypeOK
  <2>. QED
    BY <2>3, <2>4, <2>5, <2>6 DEF SecretShownIsOpen, CachesSound
<1>8. ASSUME NEW mine \in BOOLEAN, NEW j \in Flying(mine), Settle(j, mine),
             Confirms(j) \/ Disables(j), DirtyStatus, DirtyUser,
             Overtakes(mine), pane' = pane, missed' = missed,
             typedFor' \in {typedFor, NoSecret}, offered' \in {offered, NoSecret},
             offered' = NoSecret \/ ~mine \/ acct.on
      PROVE  CardInv'
  <2>1. acct' \in AcctSet /\ (acct'.on => acct'.secret # NoSecret)
    BY <1>8, Settles, AccountChanges
  <2>2. /\ mfaStatus' \in Query(BOOLEAN) /\ Sound(mfaStatus', acct'.on)
        /\ me' \in Query(Rows) /\ Loaded(me') /\ Sound(me', UserRow')
    BY <1>8, <2>1, CachesInvalidated
  <2>3. overtaken' \in BOOLEAN /\ missed' \in BOOLEAN
    BY <1>8 DEF Overtakes, CardTypeOK
  <2>4. typedFor' \in MaybeSecret /\ offered' \in MaybeSecret
    BY <1>0, <1>8 DEF CardTypeOK
  <2>5. CardTypeOK' /\ CodesTyped'
    BY <1>6, <1>8, <2>1, <2>2, <2>3, <2>4
  <2>6. offered' # NoSecret /\ ~missed' => overtaken'
    <3>1. (overtaken \/ (~mine /\ offered # NoSecret)) => overtaken'
      BY <1>8, Zenon DEF Overtakes
    <3>2. CASE offered' # NoSecret /\ ~missed'
      <4>1. offered # NoSecret /\ ~missed /\ (~mine \/ acct.on)
        BY <1>8, <3>2
      <4>. QED
        BY <3>1, <4>1, Zenon DEF SecretShownIsOpen
    <3>. QED
      BY <3>2
  <2>. QED
    BY <2>2, <2>5, <2>6 DEF SecretShownIsOpen, CachesSound
<1>9. ASSUME NEW mine \in BOOLEAN, NEW j \in Flying(mine), Confirmed(j, mine)
      PROVE  CardInv'
  <2>1. offered' = NoSecret \/ ~mine \/ acct.on
    BY <1>9 DEF Confirmed
  <2>2. offered' \in {offered, NoSecret} /\ typedFor' \in {typedFor, NoSecret}
    BY <1>9 DEF Confirmed
  <2>. QED
    BY <1>8, <1>9, <2>1, <2>2 DEF Confirmed
<1>10. ASSUME NEW mine \in BOOLEAN, NEW j \in Flying(mine), Disabled(j, mine)
       PROVE  CardInv'
  BY <1>8, <1>10 DEF Disabled, Disables, tabState
<1>11. ASSUME NEW mine \in BOOLEAN, NEW j \in Flying(mine), PasswordSet(j, mine)
       PROVE  CardInv'
  <2>1. /\ Settle(j, mine) /\ SetsPassword(j) /\ DirtyUser /\ pane' = pane
        /\ mfaStatus' = mfaStatus /\ offered' = offered /\ typedFor' = typedFor
        /\ missed' = missed /\ overtaken' = overtaken
    BY <1>11 DEF PasswordSet, tabState, cardPast
  <2>2. acct' \in AcctSet /\ (acct'.on => acct'.secret # NoSecret)
    BY <1>11, <2>1, Settles, AccountChanges
  <2>3. me' \in Query(Rows) /\ Loaded(me') /\ Sound(me', UserRow')
    BY <2>1, <2>2, CachesInvalidated
  <2>4. acct'.on = acct.on /\ acct'.secret = acct.secret
    BY <2>1, <1>0 DEF SetsPassword, AcctSet
  <2>5. CardTypeOK' /\ CodesTyped'
    BY <1>6, <1>11, <2>1, <2>2, <2>3 DEF CardTypeOK
  <2>. QED
    BY <2>1, <2>3, <2>4, <2>5 DEF SecretShownIsOpen, CachesSound
<1>12. ASSUME NEW mine \in BOOLEAN, NEW j \in Flying(mine), JobRefused(j, mine)
       PROVE  CardInv'
  <2>1. /\ Settle(j, mine) /\ acct' = acct /\ me' = me /\ mfaStatus' = mfaStatus
        /\ pane' = pane /\ offered' = offered /\ typedFor' = typedFor
        /\ missed' = missed /\ overtaken' = overtaken /\ UserRow' = UserRow
    BY <1>12 DEF JobRefused, tabState, cardPast, cache, UserRow
  <2>2. CardTypeOK' /\ CodesTyped'
    BY <1>0, <1>6, <1>12, <2>1 DEF CardTypeOK
  <2>. QED
    BY <2>1, <2>2 DEF SecretShownIsOpen, CachesSound
<1>13. ASSUME NEW mine \in BOOLEAN, NEW j \in Flying(mine), JobUnheard(j, mine)
       PROVE  CardInv'
  <2>1. /\ Settle(j, mine) /\ me' = me /\ mfaStatus' = mfaStatus
        /\ pane' = pane /\ offered' = offered /\ typedFor' = typedFor
        /\ missed' = TRUE /\ overtaken' = overtaken
    BY <1>13 DEF JobUnheard, tabState, cache
  <2>2. acct' \in AcctSet /\ (acct'.on => acct'.secret # NoSecret)
    <3>1. Enrolls(j) \/ Confirms(j) \/ Disables(j) \/ SetsPassword(j)
      BY <1>13 DEF JobUnheard
    <3>. QED
      BY <1>13, <2>1, <3>1, Settles, AccountChanges
  <2>3. CardTypeOK' /\ CodesTyped'
    BY <1>6, <1>13, <2>1, <2>2 DEF CardTypeOK
  <2>. QED
    BY <2>1, <2>3 DEF SecretShownIsOpen, CachesSound
<1>14. CASE UNCHANGED cardVars
  <2>1. /\ UserRow' = UserRow /\ acct' = acct /\ missed' = missed
        /\ overtaken' = overtaken /\ pane' = pane /\ offered' = offered
        /\ typedFor' = typedFor /\ cardJobs' = cardJobs /\ orphans' = orphans
        /\ me' = me /\ mfaStatus' = mfaStatus
    BY <1>14 DEF cardVars, cache, tabState, cardPast, UserRow
  <2>. QED
    BY <2>1 DEF CardTypeOK, SecretShownIsOpen, CachesSound, CodesTyped
<1>. QED
  BY <1>1, <1>2, <1>4, <1>5, <1>7, <1>9, <1>10, <1>11, <1>12, <1>13, <1>14
  DEF CardNext

LEMMA CardInvariant == CardSpec => []CardInv
<1>. QED
  BY CardInvInit, CardInvStep, PTL DEF CardSpec

\* Every variable keeps its type, and the second factor is on only with a secret.
THEOREM CardTypeCorrect == CardSpec => []CardTypeOK
<1>1. CardInv => CardTypeOK
  BY DEF CardInv
<1>. QED
  BY <1>1, CardInvariant, PTL

\* The secret on the page is the one the API checks codes with.
THEOREM SecretIsOpen == CardSpec => []SecretShownIsOpen
<1>1. CardInv => SecretShownIsOpen
  BY DEF CardInv
<1>. QED
  BY <1>1, CardInvariant, PTL

\* The badges agree with the API: every success invalidates the queries they
\* are read from, also when its tab is no longer shown.
THEOREM BadgesTrue == CardSpec => []BadgesAreTrue
<1>1. CardInv => BadgesAreTrue
  BY DEF CardInv, CachesSound, Sound, BadgesAreTrue
<1>. QED
  BY <1>1, CardInvariant, PTL

-----------------------------------------------------------------------------
(* /tenant/settings *)

SheetOfFirm == sheet # Blank => sheet.of = firm

ConfigsSound == \A t \in Firms \ unheardOf : Sound(config[t], settings[t])

\* A form nobody touched, and what it has sent, is what the API has.
FormFollows ==
    sheet # Blank /\ ~touched /\ ~behind /\ firm \notin unheardOf =>
        /\ sheet.val = settings[firm]
        /\ \A j \in saves : j.tenant = firm => j.val = sheet.val

SettingsInv ==
    /\ SettingsTypeOK /\ SheetOfFirm /\ SavedForItsOwn
    /\ ConfigsSound /\ FormFollows

Sheets == [of : Firms, val : Values]

LEMMA BlankIsNoSheet == Blank \notin Sheets
BY SettingsAssumption DEF Blank, Sheets

\* The form is filled with what the query holds, for the firm it is mounted for.
LEMMA FilledForm ==
    ASSUME NEW t \in Firms, NEW q \in Query(Values)
    PROVE  /\ Filled(t, q) \in Sheets \cup {Blank}
           /\ Filled(t, q) = Blank <=> ~Loaded(q)
           /\ Filled(t, q) # Blank => Filled(t, q).of = t
           /\ \A now \in Values :
                 Sound(q, now) /\ Trusted(q) => Filled(t, q).val = now
<1>1. CASE Loaded(q)
  <2>1. PICK v \in q.data : TRUE
    BY <1>1 DEF Loaded, Query, Unread
  <2>2. (CHOOSE w \in q.data : TRUE) \in q.data /\ q.data \subseteq Values
    BY <2>1 DEF Query
  <2>3. Filled(t, q) = [of |-> t, val |-> CHOOSE w \in q.data : TRUE]
    BY <1>1 DEF Filled
  <2>4. Filled(t, q) \in Sheets /\ Filled(t, q).of = t
    BY <2>2, <2>3 DEF Sheets
  <2>5. ASSUME NEW now \in Values, Sound(q, now), Trusted(q)
        PROVE  Filled(t, q).val = now
    BY <2>2, <2>3, <2>5 DEF Sound
  <2>. QED
    BY <1>1, <2>4, <2>5, BlankIsNoSheet
<1>2. CASE ~Loaded(q)
  BY <1>2 DEF Filled, Trusted
<1>. QED
  BY <1>1, <1>2

LEMMA SettingsInvInit == SettingsInit => SettingsInv
<1>. SUFFICES ASSUME SettingsInit PROVE SettingsInv
  OBVIOUS
<1>1. /\ settings \in [Firms -> Values] /\ firm \in Firms /\ sheet = Blank
      /\ saves = {} /\ unheardOf = {}
  BY DEF SettingsInit
<1>2. touched \in BOOLEAN /\ behind \in BOOLEAN
  BY Zenon DEF SettingsInit
<1>3. ASSUME NEW t \in Firms
      PROVE  /\ config[t] \in Query(Values) /\ Sound(config[t], settings[t])
             /\ ~Loaded(config[t])
  <2>1. settings[t] \in Values
    BY <1>1
  <2>2. /\ NewQuery \in Query(Values) /\ Sound(NewQuery, settings[t])
        /\ ~Loaded(NewQuery)
    BY <2>1, NewSound DEF NewQuery, Loaded
  <2>3. /\ Observed(NewQuery, settings[t]) \in Query(Values)
        /\ Sound(Observed(NewQuery, settings[t]), settings[t])
        /\ ~Loaded(Observed(NewQuery, settings[t]))
    BY <2>1, <2>2, ObservedSound, KeepsLoaded
  <2>4. config[t] \in {NewQuery, Observed(NewQuery, settings[t])}
    BY DEF SettingsInit
  <2>. QED
    BY <2>2, <2>3, <2>4
<1>4. config \in [Firms -> Query(Values)]
  <2>1. config = [t \in Firms |-> config[t]]
    BY DEF SettingsInit
  <2>. QED
    BY <1>3, <2>1
<1>. QED
  BY <1>1, <1>2, <1>3, <1>4
  DEF SettingsInv, SettingsTypeOK, SheetOfFirm, SavedForItsOwn, ConfigsSound,
      FormFollows

LEMMA SettingsInvStep ==
    SettingsInv /\ [SettingsNext]_settingsVars => SettingsInv'
<1>. SUFFICES ASSUME SettingsInv, [SettingsNext]_settingsVars PROVE SettingsInv'
  OBVIOUS
<1>. USE DEF SettingsInv
<1>0. /\ settings \in [Firms -> Values] /\ config \in [Firms -> Query(Values)]
      /\ firm \in Firms /\ sheet \in Sheets \cup {Blank} /\ saves \subseteq Saves
      /\ touched \in BOOLEAN /\ behind \in BOOLEAN /\ unheardOf \subseteq Firms
      /\ sheet = Blank <=> ~Loaded(config[firm])
      /\ \A j, k \in saves : j.mounted /\ k.mounted => j = k
  BY DEF SettingsTypeOK, Sheets
<1>1. ASSUME NEW t \in Firms, SelectFirm(t) PROVE SettingsInv'
  <2>. DEFINE q == Observed(config[t], settings[t])
  <2>1. config[t] \in Query(Values) /\ settings[t] \in Values
    BY <1>0
  <2>2. /\ q \in Query(Values) /\ (t \notin unheardOf => Sound(q, settings[t]))
    BY <2>1, QueryType, ObservedSound DEF ConfigsSound
  <2>. HIDE DEF q
  <2>3. /\ config' = [config EXCEPT ![t] = q] /\ firm' = t /\ settings' = settings
        /\ unheardOf' = unheardOf /\ touched' = FALSE
        /\ saves' = {[j EXCEPT !.mounted = FALSE] : j \in saves}
    BY <1>1 DEF SelectFirm, q
  <2>4. config' \in [Firms -> Query(Values)] /\ config'[t] = q
    BY <1>0, <2>2, <2>3
  <2>5. sheet' = Filled(t, q) /\ behind' = Behind(t, q)
    BY <1>1, <2>4 DEF SelectFirm
  <2>6. /\ sheet' \in Sheets \cup {Blank}
        /\ sheet' = Blank <=> ~Loaded(q)
        /\ sheet' # Blank => sheet'.of = t
    BY <2>2, <2>5, FilledForm
  <2>7. behind' \in BOOLEAN
    BY <2>5 DEF Behind
  <2>8. \A k \in saves' :
           /\ k \in Saves /\ ~k.mounted
           /\ \E j \in saves : /\ k.tenant = j.tenant /\ k.of = j.of
                               /\ k.val = j.val
    BY <1>0, <2>3 DEF Saves
  <2>9. SettingsTypeOK'
    BY <1>0, <2>3, <2>4, <2>6, <2>7, <2>8 DEF SettingsTypeOK, Sheets
  <2>10. ConfigsSound'
    BY <1>0, <2>2, <2>3 DEF ConfigsSound
  <2>11. SheetOfFirm' /\ SavedForItsOwn'
    BY <2>3, <2>6, <2>8 DEF SheetOfFirm, SavedForItsOwn
  <2>12. FormFollows'
    <3>. SUFFICES ASSUME ~behind', t \notin unheardOf
                  PROVE  /\ sheet'.val = settings[t]
                         /\ \A k \in saves' : k.tenant # t
      BY <2>3 DEF FormFollows
    <3>1. Trusted(q) /\ \A j \in saves : j.tenant # t
      BY <2>5 DEF Behind
    <3>2. sheet'.val = settings[t]
      BY <2>1, <2>2, <2>5, <3>1, FilledForm
    <3>. QED
      BY <2>8, <3>1, <3>2
  <2>. QED
    BY <2>9, <2>10, <2>11, <2>12
<1>2. ASSUME NEW t \in Firms, ConfigFetched(t) PROVE SettingsInv'
  <2>1. config[t] \in Query(Values) /\ settings[t] \in Values /\ Fetching(config[t])
    BY <1>0, <1>2 DEF ConfigFetched
  <2>2. PICK q \in {Answered(config[t]), Failed(config[t])} :
          /\ config' = [config EXCEPT ![t] = q]
          /\ IF t = firm /\ sheet = Blank
             THEN /\ sheet' = Filled(t, q)
                  /\ behind' = Behind(t, q) /\ touched' = FALSE
             ELSE UNCHANGED <<sheet, behind, touched>>
    BY <1>2 DEF ConfigFetched
  <2>3. q \in Query(Values) /\ (t \notin unheardOf => Sound(q, settings[t]))
    BY <2>1, <2>2, QueryType, FetchedSound DEF ConfigsSound
  <2>4. /\ settings' = settings /\ firm' = firm /\ saves' = saves
        /\ unheardOf' = unheardOf
    BY <1>2 DEF ConfigFetched
  <2>5. config' \in [Firms -> Query(Values)] /\ config'[t] = q
    BY <1>0, <2>2, <2>3
  <2>6. ConfigsSound'
    BY <1>0, <2>2, <2>3, <2>4 DEF ConfigsSound
  <2>7. CASE t = firm /\ sheet = Blank
    <3>1. sheet' = Filled(t, q) /\ behind' = Behind(t, q) /\ touched' = FALSE
      BY <2>2, <2>7
    <3>2. /\ sheet' \in Sheets \cup {Blank} /\ (sheet' = Blank <=> ~Loaded(q))
          /\ sheet' # Blank => sheet'.of = t
      BY <2>3, <3>1, FilledForm
    <3>3. behind' \in BOOLEAN
      BY <3>1 DEF Behind
    <3>4. SettingsTypeOK'
      BY <1>0, <2>4, <2>5, <2>7, <3>1, <3>2, <3>3 DEF SettingsTypeOK, Sheets
    <3>5. FormFollows'
      <4>. SUFFICES ASSUME ~behind', t \notin unheardOf
                    PROVE  /\ sheet'.val = settings[t]
                           /\ \A k \in saves : k.tenant # t
        BY <2>4, <2>7 DEF FormFollows
      <4>1. Trusted(q) /\ \A j \in saves : j.tenant # t
        BY <3>1 DEF Behind
      <4>. QED
        BY <2>1, <2>3, <3>1, <4>1, FilledForm
    <3>. QED
      BY <2>4, <2>6, <2>7, <3>2, <3>4, <3>5 DEF SheetOfFirm, SavedForItsOwn
  <2>8. CASE ~(t = firm /\ sheet = Blank)
    <3>1. sheet' = sheet /\ behind' = behind /\ touched' = touched
      BY <2>2, <2>8
    <3>2. Loaded(config'[firm]) <=> Loaded(config[firm])
      <4>1. Loaded(config[t]) => Loaded(q)
        <5>1. TRUE \in BOOLEAN /\ q \in {Answered(config[t]), Failed(config[t])}
          BY <2>2
        <5>2. /\ Loaded(Answered(config[t]))
              /\ Loaded(Failed(config[t])) <=> Loaded(config[t])
          BY <2>1, <5>1, KeepsLoaded
        <5>. QED
          BY <5>1, <5>2
      <4>. QED
        BY <1>0, <2>2, <2>5, <2>8, <4>1
    <3>3. SettingsTypeOK'
      BY <1>0, <2>4, <2>5, <3>1, <3>2 DEF SettingsTypeOK, Sheets
    <3>. QED
      BY <2>4, <2>6, <3>1, <3>3 DEF SheetOfFirm, SavedForItsOwn, FormFollows
  <2>. QED
    BY <2>7, <2>8
<1>3. ASSUME NEW v \in Values, EditSettings(v) PROVE SettingsInv'
  <2>1. /\ sheet \in Sheets /\ sheet' = [sheet EXCEPT !.val = v] /\ touched' = TRUE
        /\ settings' = settings /\ config' = config /\ firm' = firm
        /\ saves' = saves /\ behind' = behind /\ unheardOf' = unheardOf
    BY <1>0, <1>3 DEF EditSettings
  <2>2. sheet' \in Sheets /\ sheet'.of = sheet.of /\ sheet' # Blank
    BY <2>1, BlankIsNoSheet DEF Sheets
  <2>3. SettingsTypeOK'
    BY <1>0, <2>1, <2>2, BlankIsNoSheet DEF SettingsTypeOK, Sheets
  <2>. QED
    BY <2>1, <2>2, <2>3, BlankIsNoSheet
    DEF SheetOfFirm, SavedForItsOwn, ConfigsSound, FormFollows
<1>4. CASE SaveAll
  <2>. DEFINE s == [tenant |-> firm, of |-> sheet.of, val |-> sheet.val,
                    mounted |-> TRUE]
  <2>1. sheet \in Sheets /\ sheet # Blank /\ sheet.of = firm
    BY <1>0, <1>4 DEF SaveAll, SheetOfFirm
  <2>2. /\ s \in Saves /\ s.tenant = firm /\ s.of = firm /\ s.val = sheet.val
    BY <1>0, <2>1 DEF Saves, Sheets
  <2>3. /\ saves' = saves \cup {s} /\ \A j \in saves : ~j.mounted
        /\ settings' = settings /\ config' = config /\ firm' = firm
        /\ sheet' = sheet /\ touched' = touched /\ behind' = behind
        /\ unheardOf' = unheardOf
    BY <1>4 DEF SaveAll
  <2>. HIDE DEF s
  <2>4. SettingsTypeOK'
    BY <1>0, <2>2, <2>3 DEF SettingsTypeOK, Sheets
  <2>. QED
    BY <2>2, <2>3, <2>4
    DEF SheetOfFirm, SavedForItsOwn, ConfigsSound, FormFollows
<1>5. ASSUME NEW j \in saves, SettingsSaved(j) PROVE SettingsInv'
  <2>. DEFINE q == Invalidated(config[j.tenant], j.tenant = firm, j.val)
  <2>1. /\ j.tenant \in Firms /\ j.val \in Values
        /\ config[j.tenant] \in Query(Values) /\ (j.tenant = firm) \in BOOLEAN
    BY <1>0 DEF Saves
  <2>2. q \in Query(Values) /\ Sound(q, j.val)
        /\ (Loaded(q) <=> Loaded(config[j.tenant]))
    BY <2>1, InvalidatedSound, KeepsLoaded
  <2>3. /\ saves' = saves \ {j} /\ settings' = [settings EXCEPT ![j.tenant] = j.val]
        /\ firm' = firm /\ sheet' = sheet /\ touched' = touched
        /\ behind' = behind /\ unheardOf' = unheardOf
    BY <1>5 DEF SettingsSaved
  <2>4. settings'[j.tenant] = j.val /\ settings' \in [Firms -> Values]
    BY <1>0, <2>1, <2>3
  <2>5. config' = [config EXCEPT ![j.tenant] = q]
    BY <1>5, <2>4 DEF SettingsSaved
  <2>. HIDE DEF q
  <2>6. /\ config' \in [Firms -> Query(Values)]
        /\ Loaded(config'[firm]) <=> Loaded(config[firm])
    BY <1>0, <2>1, <2>2, <2>5
  <2>7. SettingsTypeOK'
    BY <1>0, <2>3, <2>4, <2>6 DEF SettingsTypeOK, Sheets
  <2>8. ConfigsSound'
    BY <1>0, <2>1, <2>2, <2>3, <2>4, <2>5 DEF ConfigsSound
  <2>9. FormFollows'
    BY <1>0, <2>1, <2>3 DEF FormFollows
  <2>. QED
    BY <2>3, <2>7, <2>8, <2>9 DEF SheetOfFirm, SavedForItsOwn
<1>6. ASSUME NEW j \in saves, SettingsNotSaved(j) PROVE SettingsInv'
  <2>1. j.tenant \in Firms /\ j.val \in Values
    BY <1>0 DEF Saves
  <2>2. /\ saves' = saves \ {j} /\ config' = config /\ firm' = firm
        /\ sheet' = sheet /\ touched' = touched /\ behind' = behind
    BY <1>6 DEF SettingsNotSaved
  <2>3. \/ settings' = settings /\ unheardOf' = unheardOf
        \/ /\ settings' = [settings EXCEPT ![j.tenant] = j.val]
           /\ unheardOf' = unheardOf \cup {j.tenant}
    BY <1>6 DEF SettingsNotSaved
  <2>4. SettingsTypeOK'
    BY <1>0, <2>1, <2>2, <2>3 DEF SettingsTypeOK, Sheets
  <2>5. ConfigsSound'
    BY <1>0, <2>1, <2>2, <2>3 DEF ConfigsSound
  <2>6. FormFollows'
    BY <1>0, <2>1, <2>2, <2>3 DEF FormFollows
  <2>. QED
    BY <2>2, <2>4, <2>5, <2>6 DEF SheetOfFirm, SavedForItsOwn
<1>7. CASE UNCHANGED settingsVars
  BY <1>7 DEF settingsVars, SettingsTypeOK, SheetOfFirm, SavedForItsOwn,
              ConfigsSound, FormFollows
<1>. QED
  BY <1>1, <1>2, <1>3, <1>4, <1>5, <1>6, <1>7 DEF SettingsNext

LEMMA SettingsInvariant == SettingsSpec => []SettingsInv
<1>. QED
  BY SettingsInvInit, SettingsInvStep, PTL DEF SettingsSpec

\* Every variable keeps its type; the form is mounted once its query has data,
\* and sends one request at a time.
THEOREM SettingsTypeCorrect == SettingsSpec => []SettingsTypeOK
<1>1. SettingsInv => SettingsTypeOK
  BY DEF SettingsInv
<1>. QED
  BY <1>1, SettingsInvariant, PTL

\* The settings of one organization are never saved for another.
THEOREM SavedForItsFirm == SettingsSpec => []SavedForItsOwn
<1>1. SettingsInv => SavedForItsOwn
  BY DEF SettingsInv
<1>. QED
  BY <1>1, SettingsInvariant, PTL

\* A form that nobody changed takes nothing back when it is saved.
THEOREM UntouchedFollows == SettingsSpec => []UntouchedIsCurrent
<1>1. SettingsInv => UntouchedIsCurrent
  BY DEF SettingsInv, FormFollows, UntouchedIsCurrent
<1>. QED
  BY <1>1, SettingsInvariant, PTL

-----------------------------------------------------------------------------
(* The API client of a tab *)

Known(S) == S \cup {NoUser}

\* The store and the cached list hold what this document has seen.
StoreOK(st, list, S) ==
    /\ st \in StoreSet /\ list \in Known(Users)
    /\ TokenOwner(st.token) \in Known(S) /\ st.user \in Known(S)
    /\ list \in Known(S)
    /\ st.rtoken = st.token.sess

\* So does a request; one that is not a login was started by somebody.
RequestOK(q, S) ==
    /\ q \in RequestSet
    /\ q.by \in Known(S) /\ TokenOwner(q.tok) \in Known(S)
    /\ q.snap # NoSession => Owner[q.snap] \in S
    /\ q.at # "idle" /\ q.op # "login" => q.by # NoUser
    /\ q.at = "refreshing" => q.snap # NoSession

RequestsOK(f, S) == f \in [Requests -> RequestSet] /\ \A r \in Requests : RequestOK(f[r], S)

TenantFits(st, p, list) ==
    Rendered(st, p) /\ list # NoUser => st.tenant \in TenantsOf[list]

OneUser(S) == \A u, v \in S : u = v

SignOutHolds ==
    signedOut /\ ~pending =>
        store.token = NoToken /\ \A r \in Requests : req[r].at # "refreshing"

ClientFlags ==
    /\ page \in Pages /\ verifyDue \in BOOLEAN
    /\ ended \subseteq issued /\ issued \subseteq Sessions
    /\ crossed \in BOOLEAN /\ signedOut \in BOOLEAN /\ pending \in BOOLEAN
    /\ lost \in BOOLEAN

ClientInv ==
    /\ ClientFlags
    /\ seen \subseteq Users /\ IsFiniteSet(seen)
    /\ StoreOK(store, myTenants, seen)
    /\ RequestsOK(req, seen)
    /\ TenantFits(store, page, myTenants)
    /\ OneUser(seen) => ~crossed
    /\ SignOutHolds

LEMMA ConstantFacts ==
    /\ NoUser \notin Users /\ NoToken \notin AccessTokens
    /\ NoToken.sess = NoSession /\ NoSession \notin Sessions
    /\ \A t \in AccessTokens : t.sess \in Sessions /\ TokenOwner(t) = Owner[t.sess]
    /\ \A s \in Sessions : Owner[s] \in Users
    /\ TokenOwner(NoToken) = NoUser
BY ApiClientAssumption DEF NoToken, AccessTokens, TokenOwner

LEMMA IdleOK == ASSUME NEW S PROVE RequestOK(Idle, S)
<1>1. Idle \in RequestSet
  BY DEF Idle, RequestSet
<1>. QED
  BY <1>1, ConstantFacts DEF Idle, RequestOK, Known

LEMMA EmptyOK ==
    ASSUME NEW S
    PROVE  /\ StoreOK(EmptyStore, NoUser, S) /\ EmptyStore.token = NoToken
           /\ \A p, list : TenantFits(EmptyStore, p, list)
<1>1. EmptyStore \in StoreSet
  BY DEF EmptyStore, StoreSet
<1>. QED
  BY <1>1, ConstantFacts
  DEF EmptyStore, StoreOK, Known, TenantFits, Rendered, SignedIn

\* Settled touches the organization only, and makes it fit.
LEMMA SettledOK ==
    ASSUME NEW st \in StoreSet, NEW p, NEW list \in Known(Users)
    PROVE  /\ Settled(st, p, list) \in StoreSet
           /\ Settled(st, p, list).token = st.token
           /\ Settled(st, p, list).rtoken = st.rtoken
           /\ Settled(st, p, list).user = st.user
           /\ TenantFits(Settled(st, p, list), p, list)
<1>. DEFINE new == [st EXCEPT !.tenant = FirstTenant[list]]
<1>1. CASE Rendered(st, p) /\ list # NoUser /\ st.tenant \notin TenantsOf[list]
  <2>1. /\ list \in Users /\ FirstTenant[list] \in Tenants
        /\ FirstTenant[list] \in TenantsOf[list]
    BY <1>1, ApiClientAssumption DEF Known
  <2>2. /\ new \in StoreSet /\ new.token = st.token /\ new.rtoken = st.rtoken
        /\ new.user = st.user /\ new.tenant = FirstTenant[list]
    BY <2>1 DEF StoreSet
  <2>3. Settled(st, p, list) = new
    BY <1>1 DEF Settled
  <2>. HIDE DEF new
  <2>. QED
    BY <2>1, <2>2, <2>3 DEF TenantFits
<1>2. CASE ~(Rendered(st, p) /\ list # NoUser /\ st.tenant \notin TenantsOf[list])
  BY <1>2 DEF Settled, TenantFits
<1>. QED
  BY <1>1, <1>2

LEMMA WithTokensOK ==
    ASSUME NEW st \in StoreSet, NEW s \in Sessions
    PROVE  /\ WithTokens(st, s) \in StoreSet
           /\ WithTokens(st, s).token \in AccessTokens
           /\ WithTokens(st, s).token.sess = s /\ WithTokens(st, s).rtoken = s
           /\ WithTokens(st, s).user = st.user
<1>1. [sess |-> s, old |-> FALSE] \in AccessTokens
  BY DEF AccessTokens
<1>. QED
  BY <1>1 DEF WithTokens, StoreSet

\* What was known stays known.
LEMMA KnownGrows ==
    ASSUME NEW S, NEW T, S \subseteq T
    PROVE  /\ \A st, list : StoreOK(st, list, S) => StoreOK(st, list, T)
           /\ \A f : RequestsOK(f, S) => RequestsOK(f, T)
           /\ OneUser(T) => OneUser(S)
BY DEF StoreOK, RequestsOK, RequestOK, Known, OneUser

\* One request changes.
LEMMA RequestChanges ==
    ASSUME NEW S, NEW r \in Requests, RequestsOK(req, S), NEW q, RequestOK(q, S)
    PROVE  /\ RequestsOK([req EXCEPT ![r] = q], S)
           /\ [req EXCEPT ![r] = q][r] = q
BY DEF RequestsOK, RequestOK

LEMMA ClientInvInit == ClientInit => ClientInv
<1>. SUFFICES ASSUME ClientInit PROVE ClientInv
  OBVIOUS
<1>1. ClientFlags
  <2>1. page \in Pages /\ ended \subseteq issued /\ issued \subseteq Sessions
    BY DEF ClientInit, Pages
  <2>2. /\ verifyDue \in BOOLEAN /\ crossed \in BOOLEAN /\ signedOut \in BOOLEAN
        /\ pending \in BOOLEAN /\ lost \in BOOLEAN
    BY Zenon DEF ClientInit
  <2>. QED
    BY <2>1, <2>2 DEF ClientFlags
<1>2. seen \subseteq Users /\ IsFiniteSet(seen)
  BY FS_EmptySet DEF ClientInit
<1>3. StoreOK(store, myTenants, seen) /\ TenantFits(store, page, myTenants)
  BY EmptyOK DEF ClientInit
<1>4. RequestsOK(req, seen)
  BY IdleOK DEF ClientInit, RequestsOK, RequestOK
<1>5. ~crossed /\ ~signedOut
  BY Zenon DEF ClientInit
<1>. QED
  BY <1>1, <1>2, <1>3, <1>4, <1>5 DEF ClientInv, SignOutHolds

\* A document load keeps what the store had.
LEMMA LoadOK ==
    ASSUME ClientInv, NEW p \in Pages, NEW st, Load(p, st),
           st = store \/ st = EmptyStore,
           UNCHANGED <<ended, issued, signedOut, pending>>
    PROVE  ClientInv'
<1>. USE DEF ClientInv
<1>1. /\ store' = st /\ page' = p /\ req' = [r \in Requests |-> Idle]
      /\ myTenants' = NoUser /\ seen' = {TokenOwner(st.token), st.user} \ {NoUser}
      /\ ended' = ended /\ issued' = issued /\ signedOut' = signedOut
      /\ pending' = pending
  BY DEF Load
<1>2. /\ verifyDue' \in BOOLEAN /\ crossed' = FALSE /\ lost' = FALSE
  BY DEF Load, SignedIn
<1>3. ClientFlags'
  BY <1>1, <1>2 DEF ClientFlags
<1>4. st \in StoreSet /\ st.rtoken = st.token.sess
      /\ {TokenOwner(st.token), st.user} \subseteq Known(Users)
  BY EmptyOK DEF StoreOK, Known
<1>5. seen' \subseteq Users
  BY <1>1, <1>4 DEF Known
<1>6. IsFiniteSet(seen')
  <2>1. IsFiniteSet({TokenOwner(st.token), st.user})
    <3>. DEFINE a == TokenOwner(st.token)  b == st.user
    <3>1. IsFiniteSet({a})
      BY FS_Singleton
    <3>2. IsFiniteSet({a} \cup {b})
      BY <3>1, FS_AddElement
    <3>. QED
      BY <3>2
  <2>. QED
    BY <1>1, <2>1, FS_Subset
<1>7. StoreOK(store, myTenants, seen)'
  BY <1>1, <1>4 DEF StoreOK, Known
<1>8. RequestsOK(req, seen)'
  BY <1>1, IdleOK DEF RequestsOK, RequestOK
<1>9. TenantFits(store, page, myTenants)'
  BY <1>1 DEF TenantFits
<1>10. SignOutHolds'
  BY <1>1, EmptyOK DEF SignOutHolds, Idle
<1>. QED
  BY <1>2, <1>3, <1>5, <1>6, <1>7, <1>8, <1>9, <1>10

\* A request that is sent carries the token of the store.
LEMMA SendOK ==
    ASSUME ClientInv, NEW r \in Requests,
           NEW op \in {"login", "me", "tenants", "page"}, Send(r, op),
           op = "login" \/ SignedIn(store), verifyDue' \in BOOLEAN,
           UNCHANGED <<store, page, myTenants, ended, issued, history>>
    PROVE  ClientInv'
<1>. DEFINE q == [Idle EXCEPT !.at = "sent", !.op = op, !.tok = store.token,
                              !.by = TokenOwner(store.token)]
<1>0. StoreOK(store, myTenants, seen) /\ RequestsOK(req, seen) /\ seen \subseteq Users
  BY DEF ClientInv
<1>1. /\ store.token \in AccessTokens \cup {NoToken}
      /\ TokenOwner(store.token) \in Known(seen)
      /\ SignedIn(store) => TokenOwner(store.token) # NoUser
  BY <1>0, ConstantFacts DEF StoreOK, StoreSet, SignedIn
<1>2. /\ q.at = "sent" /\ q.op = op /\ q.tok = store.token
      /\ q.by = TokenOwner(store.token) /\ q.snap = NoSession /\ q \in RequestSet
  BY <1>0, <1>1 DEF Idle, RequestSet, Known
<1>3. req' = [req EXCEPT ![r] = q]
  BY DEF Send
<1>. HIDE DEF q
<1>4. RequestOK(q, seen)
  BY <1>1, <1>2 DEF RequestOK
<1>5. RequestsOK(req', seen)
  BY <1>0, <1>3, <1>4, RequestChanges
<1>6. /\ store' = store /\ page' = page /\ myTenants' = myTenants
      /\ ended' = ended /\ issued' = issued /\ seen' = seen /\ crossed' = crossed
      /\ signedOut' = signedOut /\ pending' = pending /\ lost' = lost
  BY DEF history
<1>7. SignOutHolds'
  BY <1>0, <1>2, <1>3, <1>6 DEF ClientInv, SignOutHolds, RequestsOK
<1>. QED
  BY <1>5, <1>6, <1>7 DEF ClientInv, ClientFlags

LEMMA LoginAnsweredOK ==
    ASSUME ClientInv, NEW r \in Requests, NEW s \in Sessions, LoginAnswered(r, s)
    PROVE  ClientInv'
<1>. DEFINE mid == [WithTokens(store, s) EXCEPT !.user = Owner[s]]
<1>0. /\ StoreOK(store, myTenants, seen) /\ RequestsOK(req, seen)
      /\ seen \subseteq Users /\ IsFiniteSet(seen) /\ ClientFlags
  BY DEF ClientInv
<1>1. /\ mid \in StoreSet /\ mid.user = Owner[s] /\ mid.token \in AccessTokens
      /\ mid.token.sess = s /\ mid.rtoken = s /\ Owner[s] \in Users
  BY <1>0, WithTokensOK, ConstantFacts DEF StoreOK, StoreSet
<1>2. store' = Settled(mid, "tenant", myTenants) /\ page' = "tenant"
      /\ myTenants' = myTenants
  BY DEF LoginAnswered
<1>. HIDE DEF mid
<1>3. /\ store' \in StoreSet /\ store'.token = mid.token /\ store'.rtoken = s
      /\ store'.user = Owner[s] /\ TenantFits(store, page, myTenants)'
  BY <1>0, <1>1, <1>2, SettledOK DEF StoreOK
<1>4. /\ seen' = seen \cup {Owner[s]} /\ ended' = ended /\ crossed' = crossed
      /\ pending' = pending /\ lost' = lost /\ issued' = issued \cup {s}
      /\ req' = [req EXCEPT ![r] = Idle]
  BY DEF LoginAnswered, Finish
<1>5. signedOut' = FALSE /\ verifyDue' = TRUE
  BY DEF LoginAnswered
<1>6. StoreOK(store, myTenants, seen)'
  BY <1>0, <1>1, <1>2, <1>3, <1>4, ConstantFacts DEF StoreOK, Known
<1>7. RequestsOK(req, seen)'
  <2>1. RequestsOK(req, seen')
    BY <1>0, <1>4, KnownGrows
  <2>. QED
    BY <1>4, <2>1, IdleOK, RequestChanges
<1>8. IsFiniteSet(seen') /\ seen' \subseteq Users
  BY <1>0, <1>1, <1>4, FS_AddElement
<1>9. OneUser(seen') => OneUser(seen)
  BY <1>4, KnownGrows
<1>10. ClientFlags'
  BY <1>0, <1>2, <1>4, <1>5 DEF ClientFlags, Pages
<1>. QED
  BY <1>3, <1>4, <1>5, <1>6, <1>7, <1>8, <1>9, <1>10 DEF ClientInv, SignOutHolds

LEMMA ServedOK ==
    ASSUME ClientInv, NEW r \in Requests, Served(r)
    PROVE  ClientInv'
<1>. DEFINE as == TokenOwner(req[r].tok)
            mid == IF req[r].op = "me" THEN [store EXCEPT !.user = as] ELSE store
<1>0. /\ StoreOK(store, myTenants, seen) /\ RequestsOK(req, seen)
      /\ seen \subseteq Users /\ ClientFlags /\ RequestOK(req[r], seen)
  BY DEF ClientInv, RequestsOK
<1>1. /\ req[r].at = "sent" /\ req[r].op # "login" /\ req[r].tok # NoToken
      /\ req[r].tok \in AccessTokens
  BY <1>0 DEF Served, Valid, RequestOK, RequestSet
<1>2. as \in seen /\ as \in Users /\ req[r].by \in seen
  BY <1>0, <1>1, ConstantFacts DEF RequestOK, Known
<1>3. /\ mid \in StoreSet /\ mid.token = store.token /\ mid.rtoken = store.rtoken
      /\ mid.user \in Known(seen)
  BY <1>0, <1>2 DEF StoreOK, StoreSet, Known
<1>4. /\ myTenants' \in Known(seen) /\ page' = page
      /\ store' = Settled(mid, page, myTenants')
      /\ req' = [req EXCEPT ![r] = Idle]
      /\ verifyDue' = verifyDue /\ ended' = ended /\ issued' = issued
      /\ seen' = seen /\ signedOut' = signedOut /\ pending' = pending
      /\ lost' = lost
  BY <1>0, <1>2 DEF Served, Finish, StoreOK, Known
<1>5. crossed' = (crossed \/ as # req[r].by)
  BY DEF Served
<1>. HIDE DEF as, mid
<1>6. myTenants' \in Known(Users)
  BY <1>0, <1>4 DEF Known
<1>7. /\ store' \in StoreSet /\ store'.token = store.token
      /\ store'.rtoken = store.rtoken /\ store'.user = mid.user
      /\ TenantFits(store', page, myTenants')
  BY <1>3, <1>4, <1>6, SettledOK
<1>8. StoreOK(store, myTenants, seen)'
  BY <1>0, <1>3, <1>4, <1>6, <1>7 DEF StoreOK
<1>9. RequestsOK(req, seen)'
  BY <1>0, <1>4, IdleOK, RequestChanges
<1>10. crossed' \in BOOLEAN /\ (OneUser(seen) /\ ~crossed => ~crossed')
  <2>1. OneUser(seen) => as = req[r].by
    BY <1>2 DEF OneUser
  <2>. QED
    BY <1>0, <1>5, <2>1 DEF ClientFlags
<1>11. SignOutHolds'
  BY <1>0, <1>4, <1>7 DEF ClientInv, SignOutHolds, RequestsOK, Idle
<1>. QED
  BY <1>0, <1>4, <1>7, <1>8, <1>9, <1>10, <1>11 DEF ClientInv, ClientFlags

LEMMA BeginRefreshOK ==
    ASSUME ClientInv, NEW r \in Requests, BeginRefresh(r)
    PROVE  ClientInv'
<1>. DEFINE q == [req[r] EXCEPT !.at = "refreshing", !.again = TRUE,
                                !.snap = store.rtoken]
<1>0. /\ StoreOK(store, myTenants, seen) /\ RequestsOK(req, seen)
      /\ RequestOK(req[r], seen)
  BY DEF ClientInv, RequestsOK
<1>1. /\ store.rtoken # NoSession /\ store.rtoken \in Sessions
      /\ store.token # NoToken /\ store.token \in AccessTokens
      /\ Owner[store.rtoken] \in seen /\ req[r].at = "sent"
  BY <1>0, ConstantFacts DEF BeginRefresh, Refused, StoreOK, StoreSet, Known
<1>2. /\ q \in RequestSet /\ q.by = req[r].by /\ q.tok = req[r].tok
      /\ q.op = req[r].op /\ q.snap = store.rtoken
  BY <1>0, <1>1 DEF RequestOK, RequestSet
<1>3. req' = [req EXCEPT ![r] = q]
  BY DEF BeginRefresh
<1>. HIDE DEF q
<1>4. RequestOK(q, seen)
  BY <1>0, <1>1, <1>2 DEF RequestOK
<1>5. RequestsOK(req', seen)
  BY <1>0, <1>3, <1>4, RequestChanges
<1>6. /\ store' = store /\ page' = page /\ myTenants' = myTenants
      /\ ended' = ended /\ issued' = issued /\ seen' = seen /\ crossed' = crossed
      /\ signedOut' = signedOut /\ pending' = pending /\ lost' = lost
      /\ verifyDue' = verifyDue
  BY DEF BeginRefresh, history
<1>. QED
  BY <1>1, <1>5, <1>6 DEF ClientInv, ClientFlags, SignOutHolds

LEMMA RefreshedOK ==
    ASSUME ClientInv, NEW r \in Requests, Refreshed(r)
    PROVE  ClientInv'
<1>. DEFINE s   == req[r].snap
            mid == WithTokens(store, s)
            q   == [req[r] EXCEPT !.at = "sent", !.tok = store'.token]
<1>0. /\ StoreOK(store, myTenants, seen) /\ RequestsOK(req, seen)
      /\ RequestOK(req[r], seen) /\ req[r].at = "refreshing"
      /\ seen \subseteq Users
  BY DEF ClientInv, RequestsOK, Refreshed
<1>1. s \in Sessions /\ Owner[s] \in seen
  BY <1>0 DEF RequestOK, RequestSet
<1>2. /\ mid \in StoreSet /\ mid.token \in AccessTokens /\ mid.token.sess = s
      /\ mid.rtoken = s /\ mid.user = store.user
  BY <1>0, <1>1, WithTokensOK DEF StoreOK
<1>3. /\ store' = Settled(mid, page, myTenants)
      /\ req' = [req EXCEPT ![r] = q]
      /\ page' = page /\ myTenants' = myTenants
      /\ ended' = ended /\ issued' = issued /\ seen' = seen /\ crossed' = crossed
      /\ signedOut' = signedOut /\ pending' = pending /\ lost' = lost
      /\ verifyDue' \in BOOLEAN
  BY DEF Refreshed, history
<1>. HIDE DEF mid
<1>4. /\ store' \in StoreSet /\ store'.token = mid.token /\ store'.rtoken = s
      /\ store'.user = store.user /\ TenantFits(store', page, myTenants)
  BY <1>0, <1>2, <1>3, SettledOK DEF StoreOK
<1>5. /\ q \in RequestSet /\ q.at = "sent" /\ q.by = req[r].by
      /\ q.tok = store'.token /\ q.op = req[r].op /\ q.snap = s
  BY <1>0, <1>2, <1>4 DEF RequestOK, RequestSet
<1>. HIDE DEF q
<1>6. TokenOwner(store'.token) \in Known(seen)
  BY <1>1, <1>2, <1>4, ConstantFacts DEF Known
<1>7. RequestOK(q, seen)
  BY <1>0, <1>1, <1>5, <1>6 DEF RequestOK
<1>8. RequestsOK(req', seen)
  BY <1>0, <1>3, <1>7, RequestChanges
<1>9. StoreOK(store', myTenants, seen)
  BY <1>0, <1>2, <1>4, <1>6 DEF StoreOK
<1>10. ~(signedOut /\ ~pending)
  BY <1>0 DEF ClientInv, SignOutHolds
<1>. QED
  BY <1>3, <1>4, <1>8, <1>9, <1>10 DEF ClientInv, ClientFlags, SignOutHolds

LEMMA RejectedOK ==
    ASSUME ClientInv, NEW r \in Requests, Rejected(r)
    PROVE  ClientInv'
<1>0. /\ StoreOK(store, myTenants, seen) /\ RequestsOK(req, seen)
      /\ TenantFits(store, page, myTenants)
  BY DEF ClientInv
<1>1. /\ req' = [req EXCEPT ![r] = Idle]
      /\ store' \in {store, EmptyStore} /\ page' = page /\ myTenants' = myTenants
      /\ ended' = ended /\ issued' = issued /\ seen' = seen /\ crossed' = crossed
      /\ signedOut' = signedOut /\ pending' = pending /\ lost' = lost
      /\ verifyDue' = verifyDue
  BY DEF Rejected, Finish, history
<1>2. RequestsOK(req', seen)
  BY <1>0, <1>1, IdleOK, RequestChanges
<1>3. StoreOK(EmptyStore, myTenants, seen)
  BY <1>0, EmptyOK DEF StoreOK
<1>4. StoreOK(store', myTenants, seen) /\ TenantFits(store', page, myTenants)
  BY <1>0, <1>1, <1>3, EmptyOK
<1>5. SignOutHolds'
  BY <1>0, <1>1, EmptyOK DEF ClientInv, SignOutHolds, RequestsOK, Idle
<1>. QED
  BY <1>1, <1>2, <1>4, <1>5 DEF ClientInv, ClientFlags

LEMMA AccessExpiresOK ==
    ASSUME ClientInv, NEW s \in Sessions, AccessExpires(s)
    PROVE  ClientInv'
<1>. DEFINE Aged(t) == IF t.sess = s THEN [t EXCEPT !.old = TRUE] ELSE t
<1>0. /\ StoreOK(store, myTenants, seen) /\ RequestsOK(req, seen)
      /\ TenantFits(store, page, myTenants)
  BY DEF ClientInv
<1>1. ASSUME NEW t \in AccessTokens \cup {NoToken}
      PROVE  /\ Aged(t) \in AccessTokens \cup {NoToken}
             /\ TokenOwner(Aged(t)) = TokenOwner(t) /\ Aged(t).sess = t.sess
             /\ Aged(t) = NoToken <=> t = NoToken
  <2>1. CASE t = NoToken
    BY <2>1, ConstantFacts
  <2>2. CASE t \in AccessTokens
    <3>1. Aged(t) \in AccessTokens /\ Aged(t).sess = t.sess
      BY <2>2 DEF AccessTokens
    <3>. QED
      BY <2>2, <3>1, ConstantFacts
  <2>. QED
    BY <2>1, <2>2
<1>2. /\ store' = [store EXCEPT !.token = Aged(store.token)]
      /\ req' = [r \in Requests |-> [req[r] EXCEPT !.tok = Aged(req[r].tok)]]
      /\ page' = page /\ myTenants' = myTenants
      /\ ended' = ended /\ issued' = issued /\ seen' = seen /\ crossed' = crossed
      /\ signedOut' = signedOut /\ pending' = pending /\ lost' = lost
      /\ verifyDue' = verifyDue
  BY DEF AccessExpires, history
<1>. HIDE DEF Aged
<1>3. /\ store' \in StoreSet /\ store'.token = Aged(store.token)
      /\ store'.rtoken = store.rtoken /\ store'.user = store.user
      /\ store'.tenant = store.tenant
      /\ store.token \in AccessTokens \cup {NoToken}
  BY <1>0, <1>1, <1>2 DEF StoreOK, StoreSet
<1>4. StoreOK(store', myTenants, seen) /\ TenantFits(store', page, myTenants)
  BY <1>0, <1>1, <1>3 DEF StoreOK, TenantFits, Rendered, SignedIn
<1>5. ASSUME NEW r \in Requests
      PROVE  RequestOK(req'[r], seen) /\ req'[r].at = req[r].at
  <2>1. RequestOK(req[r], seen) /\ req'[r] = [req[r] EXCEPT !.tok = Aged(req[r].tok)]
    BY <1>0, <1>2 DEF RequestsOK
  <2>2. req[r].tok \in AccessTokens \cup {NoToken} /\ req[r] \in RequestSet
    BY <2>1 DEF RequestOK, RequestSet
  <2>3. /\ req'[r] \in RequestSet /\ req'[r].tok = Aged(req[r].tok)
        /\ req'[r].by = req[r].by /\ req'[r].snap = req[r].snap
        /\ req'[r].at = req[r].at /\ req'[r].op = req[r].op
    BY <1>1, <2>1, <2>2 DEF RequestSet
  <2>. QED
    BY <1>1, <2>1, <2>2, <2>3 DEF RequestOK
<1>6. RequestsOK(req', seen)
  BY <1>2, <1>5 DEF RequestsOK, RequestOK
<1>7. SignOutHolds'
  BY <1>1, <1>2, <1>3, <1>5 DEF ClientInv, SignOutHolds
<1>. QED
  BY <1>2, <1>4, <1>6, <1>7 DEF ClientInv, ClientFlags

LEMMA ClientInvStep == ClientInv /\ [ClientNext]_vars => ClientInv'
<1>. SUFFICES ASSUME ClientInv, [ClientNext]_vars PROVE ClientInv'
  OBVIOUS
<1>0. /\ StoreOK(store, myTenants, seen) /\ RequestsOK(req, seen)
      /\ TenantFits(store, page, myTenants) /\ ClientFlags
  BY DEF ClientInv
<1>1. ASSUME NEW r \in Requests, SendLogin(r) PROVE ClientInv'
  BY <1>0, <1>1, SendOK DEF SendLogin, ClientFlags
<1>2. ASSUME NEW r \in Requests, SendVerify(r) PROVE ClientInv'
  BY <1>0, <1>2, SendOK DEF SendVerify
<1>3. ASSUME NEW r \in Requests, SendTenants(r) \/ SendPage(r) PROVE ClientInv'
  BY <1>0, <1>3, SendOK DEF SendTenants, SendPage, Rendered, ClientFlags
<1>4. ASSUME NEW r \in Requests, NEW s \in Sessions, LoginAnswered(r, s)
      PROVE  ClientInv'
  BY <1>4, LoginAnsweredOK
<1>5. ASSUME NEW r \in Requests, Dropped(r) PROVE ClientInv'
  <2>1. /\ req' = [req EXCEPT ![r] = Idle] /\ store' = store /\ page' = page
        /\ myTenants' = myTenants /\ verifyDue' = verifyDue /\ ended' = ended
        /\ issued' = issued /\ seen' = seen /\ crossed' = crossed
        /\ signedOut' = signedOut /\ pending' = pending
    BY <1>5 DEF Dropped, Finish
  <2>2. lost' \in BOOLEAN
    BY <1>5 DEF Dropped
  <2>3. RequestsOK(req', seen)
    BY <1>0, <2>1, IdleOK, RequestChanges
  <2>4. SignOutHolds'
    BY <1>0, <2>1 DEF ClientInv, SignOutHolds, RequestsOK, Idle
  <2>. QED
    BY <2>1, <2>2, <2>3, <2>4 DEF ClientInv, ClientFlags
<1>6. ASSUME NEW p \in Pages, NEW st \in {store, EmptyStore}, Load(p, st),
             UNCHANGED <<ended, issued, signedOut, pending>>
      PROVE  ClientInv'
  BY <1>6, LoadOK
<1>7. ASSUME NEW r \in Requests, NoRefresh(r) \/ RefreshFailed(r) PROVE ClientInv'
  BY <1>6, <1>7 DEF NoRefresh, RefreshFailed, Pages
<1>8. ASSUME NEW p \in Pages, Open(p) PROVE ClientInv'
  BY <1>6, <1>8 DEF Open
<1>9. ASSUME NEW r \in Requests, Answer(r) PROVE ClientInv'
  BY <1>4, <1>5, <1>7, <1>9, ServedOK, BeginRefreshOK, RejectedOK, RefreshedOK
  DEF Answer
<1>10. CASE LogOut
  <2>1. /\ store' = EmptyStore /\ page' = "login" /\ verifyDue' = verifyDue
        /\ myTenants' = myTenants /\ req' = req /\ ended' = ended
        /\ issued' = issued /\ seen' = seen /\ crossed' = crossed /\ lost' = lost
    BY <1>10 DEF LogOut
  <2>2. /\ signedOut' = TRUE /\ pending' \in BOOLEAN
        /\ ~pending' => \A r \in Requests : req[r].at # "refreshing"
    BY <1>10 DEF LogOut
  <2>3. StoreOK(EmptyStore, myTenants, seen)
    BY <1>0, EmptyOK DEF StoreOK
  <2>4. SignOutHolds'
    BY <2>1, <2>2, EmptyOK DEF SignOutHolds
  <2>5. ClientFlags'
    BY <1>0, <2>1, <2>2 DEF ClientFlags, Pages
  <2>. QED
    BY <1>0, <2>1, <2>3, <2>4, <2>5, EmptyOK DEF ClientInv
<1>11. ASSUME NEW p \in Pages,
              GuardRedirect \/ PlatformRedirect \/ Navigate(p)
       PROVE  ClientInv'
  <2>1. /\ store' = store /\ verifyDue' = verifyDue /\ page' \in Pages
        /\ myTenants' = myTenants /\ req' = req /\ ended' = ended
        /\ issued' = issued /\ seen' = seen /\ crossed' = crossed /\ lost' = lost
        /\ signedOut' = signedOut /\ pending' = pending
    BY <1>11 DEF GuardRedirect, PlatformRedirect, Navigate, Pages, history
  <2>2. page' = "login" \/ Rendered(store, page)
    BY <1>11 DEF GuardRedirect, PlatformRedirect, Navigate
  <2>3. TenantFits(store, page, myTenants)'
    BY <1>0, <2>1, <2>2 DEF TenantFits, Rendered
  <2>. QED
    BY <1>0, <2>1, <2>3 DEF ClientInv, ClientFlags, SignOutHolds
<1>12. ASSUME NEW t \in Tenants, SelectTenant(t) PROVE ClientInv'
  <2>1. /\ store' = [store EXCEPT !.tenant = t] /\ verifyDue' = verifyDue
        /\ page' = page /\ myTenants' = myTenants /\ req' = req /\ ended' = ended
        /\ issued' = issued /\ seen' = seen /\ crossed' = crossed /\ lost' = lost
        /\ signedOut' = signedOut /\ pending' = pending
        /\ t \in TenantsOf[myTenants]
    BY <1>12 DEF SelectTenant, history
  <2>2. /\ store' \in StoreSet /\ store'.token = store.token
        /\ store'.rtoken = store.rtoken /\ store'.user = store.user
        /\ store'.tenant = t
    BY <1>0, <2>1 DEF StoreOK, StoreSet
  <2>3. StoreOK(store', myTenants, seen) /\ TenantFits(store', page, myTenants)
    BY <1>0, <2>1, <2>2 DEF StoreOK, TenantFits
  <2>. QED
    BY <1>0, <2>1, <2>2, <2>3 DEF ClientInv, ClientFlags, SignOutHolds
<1>13. CASE CacheExpires \/ \E s \in Sessions : SessionEnds(s)
  <2>1. /\ store' = store /\ verifyDue' = verifyDue /\ page' = page
        /\ myTenants' \in {myTenants, NoUser} /\ req' = req
        /\ ended' \subseteq issued' /\ issued' = issued /\ seen' = seen
        /\ crossed' = crossed /\ lost' = lost
        /\ signedOut' = signedOut /\ pending' = pending
    BY <1>0, <1>13 DEF CacheExpires, SessionEnds, ClientFlags, history
  <2>2. StoreOK(store, myTenants', seen) /\ TenantFits(store, page, myTenants')
    BY <1>0, <2>1 DEF StoreOK, TenantFits, Known
  <2>. QED
    BY <1>0, <2>1, <2>2 DEF ClientInv, ClientFlags, SignOutHolds
<1>14. ASSUME NEW s \in Sessions, AccessExpires(s) PROVE ClientInv'
  BY <1>14, AccessExpiresOK
<1>15. CASE UNCHANGED vars
  BY <1>15 DEF vars, history, ClientInv, ClientFlags, SignOutHolds
<1>. QED
  BY <1>1, <1>2, <1>3, <1>8, <1>9, <1>10, <1>11, <1>12, <1>13, <1>14, <1>15
  DEF ClientNext, Pages

LEMMA ClientInvariant == ClientSpec => []ClientInv
<1>. QED
  BY ClientInvInit, ClientInvStep, PTL DEF ClientSpec

\* Every variable of the tab keeps its type, and only sessions that were begun
\* are over.
THEOREM ClientTypeCorrect == ClientSpec => []ClientTypeOK
<1>1. ClientInv => ClientTypeOK
  BY DEF ClientInv, ClientFlags, StoreOK, RequestsOK, Known, ClientTypeOK
<1>. QED
  BY <1>1, ClientInvariant, PTL

\* A tab never holds the access token of one session beside the refresh token
\* of another.
THEOREM TokensAreTogether == ClientSpec => []TokensTogether
<1>1. ClientInv => TokensTogether
  BY DEF ClientInv, StoreOK, TokensTogether
<1>. QED
  BY <1>1, ClientInvariant, PTL

\* Log out stands, unless a refresh was under way.
THEOREM LogOutHolds == ClientSpec => []LogOutStands
<1>1. ClientInv => LogOutStands
  BY Zenon DEF ClientInv, SignOutHolds, LogOutStands, SignedIn
<1>. QED
  BY <1>1, ClientInvariant, PTL

LEMMA AtMostOne ==
    ASSUME NEW S, IsFiniteSet(S), Cardinality(S) <= 1 PROVE OneUser(S)
<1>. SUFFICES ASSUME NEW u \in S, NEW v \in S, u # v PROVE FALSE
  BY DEF OneUser
<1>1. IsFiniteSet({u}) /\ Cardinality({u}) = 1
  BY FS_Singleton
<1>2. IsFiniteSet({u} \cup {v}) /\ Cardinality({u} \cup {v}) = 2
  <2>1. v \notin {u}
    OBVIOUS
  <2>2. /\ IsFiniteSet({u} \cup {v})
        /\ Cardinality({u} \cup {v}) = Cardinality({u}) + 1
    BY <1>1, <2>1, FS_AddElement
  <2>. QED
    BY <1>1, <2>2
<1>3. {u} \cup {v} \in SUBSET S
  OBVIOUS
<1>4. Cardinality({u} \cup {v}) <= Cardinality(S)
  BY <1>3, FS_Subset
<1>5. Cardinality(S) \in Nat
  BY FS_CardinalityType
<1>. QED
  BY <1>2, <1>4, <1>5

\* A document that has held one user's data only shows and sends that user's.
THEOREM IdentityHolds == ClientSpec => []IdentityPerLoad
<1>1. ClientInv => IdentityPerLoad
  <2>. SUFFICES ASSUME ClientInv, Cardinality(seen) <= 1
                PROVE  /\ SignedIn(store) /\ store.user # NoUser =>
                            store.user = TokenOwner(store.token)
                       /\ myTenants # NoUser => myTenants \in seen
                       /\ Rendered(store, page) /\ myTenants # NoUser =>
                            store.tenant \in TenantsOf[store.user]
                       /\ ~crossed
    BY DEF IdentityPerLoad
  <2>1. OneUser(seen) /\ StoreOK(store, myTenants, seen) /\ ~crossed
        /\ TenantFits(store, page, myTenants)
    BY AtMostOne DEF ClientInv
  <2>2. SignedIn(store) => TokenOwner(store.token) \in seen
    BY <2>1, ConstantFacts DEF StoreOK, StoreSet, SignedIn, Known
  <2>3. store.user # NoUser => store.user \in seen
    BY <2>1 DEF StoreOK, Known
  <2>4. myTenants # NoUser => myTenants \in seen
    BY <2>1 DEF StoreOK, Known
  <2>5. Rendered(store, page) /\ myTenants # NoUser => store.user = myTenants
    BY <2>1, <2>3, <2>4 DEF OneUser, Rendered
  <2>. QED
    BY <2>1, <2>2, <2>3, <2>4, <2>5 DEF OneUser, TenantFits
<1>. QED
  BY <1>1, ClientInvariant, PTL

-----------------------------------------------------------------------------
(* A request of the tab settles *)

\* What a step does to the request of a slot: it ends, is sent, waits for a
\* refresh, or is sent again; or nobody looks at it but the clock.
IsOver(q, after) == q.at # "idle" /\ after = Idle
GoesOut(q, after) == q.at = "idle" /\ after.at = "sent" /\ ~after.again
Waits(q, after) ==
    /\ q.at = "sent" /\ ~q.again
    /\ after.at = "refreshing" /\ after.again
GoesAgain(q, after) ==
    /\ q.at = "refreshing" /\ after.at = "sent" /\ after.again = q.again
Rests(q, after) == after.at = q.at /\ after.again = q.again

Advances(q, after) == IsOver(q, after) \/ Waits(q, after) \/ GoesAgain(q, after)

LEMMA AnswersAdvance ==
    ASSUME ClientInv, NEW r \in Requests, Answer(r)
    PROVE  /\ Advances(req[r], req'[r])
           /\ \A q \in Requests \ {r} : req'[q] = req[q] \/ req'[q] = Idle
<1>0. req \in [Requests -> RequestSet]
  BY DEF ClientInv, RequestsOK
<1>1. ASSUME NEW p, NEW st, Load(p, st), req[r].at # "idle"
      PROVE  /\ IsOver(req[r], req'[r])
             /\ \A q \in Requests \ {r} : req'[q] = Idle
  BY <1>1 DEF Load, IsOver
<1>2. ASSUME Finish(r), req[r].at # "idle"
      PROVE  /\ IsOver(req[r], req'[r])
             /\ \A q \in Requests \ {r} : req'[q] = req[q]
  BY <1>0, <1>2 DEF Finish, IsOver
<1>3. ASSUME NEW s \in Sessions,
             LoginAnswered(r, s) \/ Served(r) \/ Dropped(r) \/ Rejected(r)
      PROVE  Finish(r) /\ req[r].at # "idle"
  BY <1>3 DEF LoginAnswered, Served, Dropped, Rejected, Refused
<1>4. CASE Served(r) \/ Dropped(r) \/ Rejected(r)
  <2>1. Finish(r) /\ req[r].at # "idle"
    BY <1>4 DEF Served, Dropped, Rejected, Refused
  <2>. QED
    BY <1>2, <2>1 DEF Advances
<1>5. CASE NoRefresh(r) \/ RefreshFailed(r)
  <2>1. Load("login", EmptyStore) /\ req[r].at # "idle"
    BY <1>5 DEF NoRefresh, RefreshFailed, Refused
  <2>. QED
    BY <1>1, <2>1 DEF Advances
<1>6. CASE BeginRefresh(r)
  <2>1. /\ req[r].at = "sent" /\ ~req[r].again /\ req[r] \in RequestSet
        /\ req' = [req EXCEPT ![r].at = "refreshing", ![r].again = TRUE,
                              ![r].snap = store.rtoken]
    BY <1>0, <1>6 DEF BeginRefresh, Refused
  <2>2. Waits(req[r], req'[r])
    BY <1>0, <2>1 DEF Waits, RequestSet
  <2>. QED
    BY <1>0, <2>1, <2>2 DEF Advances
<1>7. CASE Refreshed(r)
  <2>1. /\ req[r].at = "refreshing" /\ req[r] \in RequestSet
        /\ req' = [req EXCEPT ![r].at = "sent", ![r].tok = store'.token]
    BY <1>0, <1>7 DEF Refreshed
  <2>2. GoesAgain(req[r], req'[r])
    BY <1>0, <2>1 DEF GoesAgain, RequestSet
  <2>. QED
    BY <1>0, <2>1, <2>2 DEF Advances
<1>. QED
  BY <1>2, <1>3, <1>4, <1>5, <1>6, <1>7 DEF Answer, Advances

LEMMA OthersLeave ==
    ASSUME ClientInv, [ClientNext]_vars, ~ \E r \in Requests : Answer(r),
           NEW q \in Requests
    PROVE  \/ req'[q] = Idle \/ GoesOut(req[q], req'[q])
           \/ Rests(req[q], req'[q])
<1>0. req \in [Requests -> RequestSet]
  BY DEF ClientInv, RequestsOK
<1>1. ASSUME NEW r \in Requests, NEW op, Send(r, op)
      PROVE  GoesOut(req[q], req'[q]) \/ Rests(req[q], req'[q])
  BY <1>0, <1>1 DEF Send, GoesOut, Rests, Idle
<1>2. ASSUME NEW r \in Requests,
             SendLogin(r) \/ SendVerify(r) \/ SendTenants(r) \/ SendPage(r)
      PROVE  GoesOut(req[q], req'[q]) \/ Rests(req[q], req'[q])
  BY <1>1, <1>2 DEF SendLogin, SendVerify, SendTenants, SendPage
<1>3. ASSUME NEW p \in Pages, Open(p) PROVE req'[q] = Idle
  BY <1>3 DEF Open, Load
<1>4. ASSUME NEW s \in Sessions, AccessExpires(s) PROVE Rests(req[q], req'[q])
  <2>1. PICK t : req'[q] = [req[q] EXCEPT !.tok = t]
    BY <1>4 DEF AccessExpires
  <2>. QED
    BY <1>0, <2>1 DEF Rests, RequestSet
<1>5. ASSUME \/ LogOut \/ GuardRedirect \/ PlatformRedirect \/ CacheExpires
             \/ \E p \in Pages : Navigate(p)
             \/ \E t \in Tenants : SelectTenant(t)
             \/ \E s \in Sessions : SessionEnds(s)
             \/ UNCHANGED vars
      PROVE  Rests(req[q], req'[q])
  BY <1>5 DEF LogOut, GuardRedirect, PlatformRedirect, CacheExpires, Navigate,
     SelectTenant, SessionEnds, vars, Rests
<1>. QED
  BY <1>2, <1>3, <1>4, <1>5 DEF ClientNext

\* A refresh is for a request that was not sent again yet, and marks it so.
ResentOnce == \A r \in Requests : req[r].at = "refreshing" => req[r].again

LEMMA ResentOnceAlways == ClientSpec => [](ClientInv /\ ResentOnce)
<1>1. ClientInit => ResentOnce
  BY DEF ClientInit, ResentOnce, Idle
<1>2. ClientInv /\ ResentOnce /\ [ClientNext]_vars => ResentOnce'
  <2>. SUFFICES ASSUME ClientInv, ResentOnce, [ClientNext]_vars,
                       NEW q \in Requests, req'[q].at = "refreshing"
                PROVE  req'[q].again
    BY DEF ResentOnce
  <2>1. Idle.at # "refreshing"
    BY DEF Idle
  <2>2. ASSUME NEW r \in Requests, Answer(r) PROVE req'[q].again
    <3>1. Advances(req[q], req'[q]) \/ req'[q] = req[q] \/ req'[q] = Idle
      BY <2>2, AnswersAdvance
    <3>. QED
      BY <2>1, <3>1 DEF Advances, IsOver, Waits, GoesAgain, ResentOnce
  <2>3. CASE ~ \E r \in Requests : Answer(r)
    BY <2>1, <2>3, OthersLeave DEF GoesOut, Rests, ResentOnce
  <2>. QED
    BY <2>2, <2>3
<1>. QED
  BY <1>1, <1>2, ClientInvInit, ClientInvStep, PTL DEF ClientSpec

\* The answers a request can still be given: one of its own, and before it a
\* 401 and the answer of the refresh.
AnswersLeft(q) ==
    IF q.at = "idle" THEN 0
    ELSE IF q.at = "refreshing" THEN 2
    ELSE IF q.again THEN 1 ELSE 3

\* However often the tokens expire, are replaced or lost meanwhile, a request is
\* given three answers at most: each one brings it nearer to its end, and no
\* step of the user, the clock or another request takes it back.
THEOREM ThreeAnswersAtMost ==
    ClientSpec =>
      [][\A r \in Requests :
            /\ Answer(r) => AnswersLeft(req'[r]) < AnswersLeft(req[r])
            /\ req[r].at # "idle" => AnswersLeft(req'[r]) <= AnswersLeft(req[r])]_vars
<1> DEFINE Nearer(r) ==
        /\ Answer(r) => AnswersLeft(req'[r]) < AnswersLeft(req[r])
        /\ req[r].at # "idle" => AnswersLeft(req'[r]) <= AnswersLeft(req[r])
<1>1. ClientInv /\ ResentOnce /\ [ClientNext]_vars =>
          [\A r \in Requests : Nearer(r)]_vars
  <2>. SUFFICES ASSUME ClientInv, ResentOnce, ClientNext, NEW q \in Requests
                PROVE  Nearer(q)
    OBVIOUS
  <2>1. AnswersLeft(Idle) = 0 /\ Idle.at = "idle"
    BY DEF AnswersLeft, Idle
  <2>2. \A x : AnswersLeft(x) \in 0..3
    BY DEF AnswersLeft
  <2>3. ASSUME Advances(req[q], req'[q])
        PROVE  AnswersLeft(req'[q]) < AnswersLeft(req[q])
    BY <2>1, <2>3 DEF Advances, IsOver, Waits, GoesAgain, ResentOnce, AnswersLeft
  <2>4. Answer(q) => AnswersLeft(req'[q]) < AnswersLeft(req[q])
    BY <2>3, AnswersAdvance
  <2>5. ASSUME req[q].at # "idle"
        PROVE  AnswersLeft(req'[q]) <= AnswersLeft(req[q])
    <3>1. Idle = req'[q] => AnswersLeft(req'[q]) <= AnswersLeft(req[q])
      BY <2>1, <2>2
    <3>2. Rests(req[q], req'[q]) => AnswersLeft(req'[q]) = AnswersLeft(req[q])
      BY DEF Rests, AnswersLeft
    <3>3. ASSUME NEW r \in Requests, Answer(r), r # q
          PROVE  AnswersLeft(req'[q]) <= AnswersLeft(req[q])
      BY <2>2, <3>1, <3>3, AnswersAdvance
    <3>4. CASE ~ \E r \in Requests : Answer(r)
      BY <2>2, <2>5, <3>1, <3>2, <3>4, OthersLeave DEF GoesOut
    <3>. QED
      BY <2>2, <2>4, <3>3, <3>4
  <2>. QED
    BY <2>4, <2>5
<1>. QED
  BY <1>1, ResentOnceAlways, PTL DEF ClientSpec
-----------------------------------------------------------------------------
(* A page behind AuthGuard is decided *)

\* GET /me/ is under way.
AsksWho == \E r \in Requests : req[r].at # "idle" /\ req[r].op = "me"

\* AuthGuard shows nothing only while it waits for GET /me/, or is about to send
\* it, unless the answer was lost.
GuardWaits ==
    page # "login" /\ SignedIn(store) /\ store.user = NoUser /\ ~lost =>
        verifyDue \/ AsksWho

\* What happens to another request leaves GET /me/ under way.
LEMMA OthersAsk ==
    ASSUME NEW r \in Requests, NEW q, req' = [req EXCEPT ![r] = q],
           req \in [Requests -> RequestSet], req[r].at = "idle" \/ req[r].op # "me"
    PROVE  AsksWho => AsksWho'
BY DEF AsksWho

LEMMA GuardWaitsAnswer ==
    ASSUME ClientInv, GuardWaits, NEW r \in Requests, Answer(r)
    PROVE  GuardWaits'
<1>0. /\ req \in [Requests -> RequestSet] /\ req[r] \in RequestSet
      /\ store \in StoreSet /\ myTenants \in Known(Users)
      /\ RequestOK(req[r], seen)
  BY DEF ClientInv, RequestsOK, StoreOK
<1>1. ASSUME NEW st, Load("login", st) PROVE GuardWaits'
  BY <1>1 DEF Load, GuardWaits
<1>2. ASSUME NEW s \in Sessions, LoginAnswered(r, s) PROVE GuardWaits'
  <2>. DEFINE st == [WithTokens(store, s) EXCEPT !.user = Owner[s]]
  <2>1. Owner[s] \in Users /\ Owner[s] # NoUser
    BY ConstantFacts
  <2>2. st \in StoreSet /\ st.user = Owner[s]
    BY <1>0, <2>1, WithTokensOK DEF StoreSet
  <2>3. store' = Settled(st, "tenant", myTenants)
    BY <1>2 DEF LoginAnswered
  <2>. HIDE DEF st
  <2>4. store'.user # NoUser
    BY <1>0, <2>1, <2>2, <2>3, SettledOK
  <2>. QED
    BY <2>4 DEF GuardWaits
<1>3. CASE Served(r)
  <2>. DEFINE as == TokenOwner(req[r].tok)
              st == IF req[r].op = "me" THEN [store EXCEPT !.user = as] ELSE store
  <2>1. /\ req' = [req EXCEPT ![r] = Idle] /\ page' = page /\ lost' = lost
        /\ verifyDue' = verifyDue /\ store' = Settled(st, page, myTenants')
        /\ myTenants' \in {myTenants, as} /\ req[r].tok # NoToken
    BY <1>3 DEF Served, Finish, Valid
  <2>2. as \in Users /\ as # NoUser
    BY <1>0, <2>1, ConstantFacts DEF RequestSet
  <2>3. /\ st \in StoreSet /\ st.token = store.token
        /\ st.user = IF req[r].op = "me" THEN as ELSE store.user
    BY <1>0, <2>2 DEF StoreSet
  <2>4. myTenants' \in Known(Users)
    BY <1>0, <2>1, <2>2 DEF Known
  <2>. HIDE DEF as, st
  <2>5. store'.token = store.token /\ store'.user = st.user
    BY <2>1, <2>3, <2>4, SettledOK
  <2>6. CASE req[r].op = "me"
    BY <2>2, <2>3, <2>5, <2>6 DEF GuardWaits
  <2>7. CASE req[r].op # "me"
    <3>1. AsksWho => AsksWho'
      BY <1>0, <2>1, <2>7, OthersAsk
    <3>. QED
      BY <2>1, <2>3, <2>5, <2>7, <3>1 DEF GuardWaits, SignedIn
  <2>. QED
    BY <2>6, <2>7
<1>4. CASE Dropped(r)
  <2>1. /\ req' = [req EXCEPT ![r] = Idle] /\ page' = page /\ store' = store
        /\ verifyDue' = verifyDue /\ (lost' <=> lost \/ req[r].op = "me")
    BY <1>4 DEF Dropped, Finish
  <2>2. CASE req[r].op = "me"
    BY <2>1, <2>2 DEF GuardWaits
  <2>3. CASE req[r].op # "me"
    <3>1. AsksWho => AsksWho'
      BY <1>0, <2>1, <2>3, OthersAsk
    <3>. QED
      BY <2>1, <2>3, <3>1 DEF GuardWaits, SignedIn
  <2>. QED
    BY <2>2, <2>3
<1>5. CASE BeginRefresh(r)
  <2>1. /\ req[r].at = "sent" /\ page' = page /\ store' = store
        /\ verifyDue' = verifyDue /\ lost' = lost
        /\ req' = [req EXCEPT ![r].at = "refreshing", ![r].again = TRUE,
                              ![r].snap = store.rtoken]
    BY <1>5 DEF BeginRefresh, Refused, history
  <2>2. AsksWho => AsksWho'
    BY <1>0, <2>1 DEF AsksWho, RequestSet
  <2>. QED
    BY <2>1, <2>2 DEF GuardWaits, SignedIn
<1>6. CASE NoRefresh(r) \/ RefreshFailed(r)
  BY <1>1, <1>6 DEF NoRefresh, RefreshFailed
<1>7. CASE Rejected(r)
  <2>1. /\ req' = [req EXCEPT ![r] = Idle] /\ page' = page
        /\ store' = IF req[r].op = "me" THEN EmptyStore ELSE store
        /\ verifyDue' = verifyDue /\ lost' = lost
    BY <1>7 DEF Rejected, Finish, history
  <2>2. CASE req[r].op = "me"
    BY <2>1, <2>2, EmptyOK DEF GuardWaits, SignedIn
  <2>3. CASE req[r].op # "me"
    <3>1. AsksWho => AsksWho'
      BY <1>0, <2>1, <2>3, OthersAsk
    <3>. QED
      BY <2>1, <2>3, <3>1 DEF GuardWaits, SignedIn
  <2>. QED
    BY <2>2, <2>3
<1>8. CASE Refreshed(r)
  <2>1. verifyDue' = TRUE
    BY <1>8 DEF Refreshed
  <2>. QED
    BY <2>1 DEF GuardWaits
<1>. QED
  BY <1>2, <1>3, <1>4, <1>5, <1>6, <1>7, <1>8 DEF Answer

\* A page behind AuthGuard never shows nothing for nothing: it waits for GET /me/,
\* of which one is under way or due, until it is shown or left; only a lost answer
\* leaves it with neither.
THEOREM GuardAwaitsItsAnswer == ClientSpec => []GuardWaits
<1>1. ClientInit => GuardWaits
  BY DEF ClientInit, GuardWaits
<1>2. ClientInv /\ GuardWaits /\ [ClientNext]_vars => GuardWaits'
  <2>. SUFFICES ASSUME ClientInv, GuardWaits, [ClientNext]_vars PROVE GuardWaits'
    OBVIOUS
  <2>0. /\ req \in [Requests -> RequestSet] /\ store \in StoreSet
        /\ store.token \in AccessTokens \cup {NoToken}
    BY DEF ClientInv, RequestsOK, StoreOK, StoreSet
  <2>1. ASSUME NEW r \in Requests, Answer(r) PROVE GuardWaits'
    BY <2>1, GuardWaitsAnswer
  <2>2. ASSUME NEW r \in Requests, NEW op, Send(r, op),
               verifyDue' = verifyDue \/ op = "me",
               UNCHANGED <<store, page, lost>>
        PROVE  GuardWaits'
    <3>. DEFINE q == [Idle EXCEPT !.at = "sent", !.op = op, !.tok = store.token,
                                  !.by = TokenOwner(store.token)]
    <3>1. /\ req[r].at = "idle" /\ req' = [req EXCEPT ![r] = q] /\ req'[r] = q
      BY <2>0, <2>2 DEF Send
    <3>2. q.at = "sent" /\ q.op = op
      BY DEF Idle
    <3>. HIDE DEF q
    <3>3. op = "me" => AsksWho'
      BY <3>1, <3>2 DEF AsksWho
    <3>4. AsksWho => AsksWho'
      BY <2>0, <3>1, OthersAsk
    <3>. QED
      BY <2>2, <3>3, <3>4 DEF GuardWaits, SignedIn
  <2>3. ASSUME NEW r \in Requests,
               SendLogin(r) \/ SendVerify(r) \/ SendTenants(r) \/ SendPage(r)
        PROVE  GuardWaits'
    BY <2>2, <2>3 DEF SendLogin, SendVerify, SendTenants, SendPage, history
  <2>4. ASSUME NEW p \in Pages, Open(p) PROVE GuardWaits'
    BY <2>4 DEF Open, Load, GuardWaits, SignedIn
  <2>5. ASSUME NEW s \in Sessions, AccessExpires(s) PROVE GuardWaits'
    <3>1. /\ store' = [store EXCEPT !.token = IF store.token.sess = s
                                              THEN [store.token EXCEPT !.old = TRUE]
                                              ELSE store.token]
          /\ page' = page /\ verifyDue' = verifyDue /\ lost' = lost
          /\ \A r \in Requests : req'[r].at = req[r].at /\ req'[r].op = req[r].op
      <4>1. ASSUME NEW r \in Requests
            PROVE  req'[r].at = req[r].at /\ req'[r].op = req[r].op
        <5>1. PICK t : req'[r] = [req[r] EXCEPT !.tok = t]
          BY <2>5 DEF AccessExpires
        <5>. QED
          BY <2>0, <5>1 DEF RequestSet
      <4>. QED
        BY <2>5, <4>1 DEF AccessExpires, history
    <3>2. store'.user = store.user /\ (SignedIn(store') => SignedIn(store))
      <4>1. store'.user = store.user
        BY <2>0, <3>1 DEF StoreSet
      <4>2. store.token = NoToken => store'.token = NoToken
        BY <2>0, <3>1, ConstantFacts DEF StoreSet
      <4>. QED
        BY <4>1, <4>2 DEF SignedIn
    <3>. QED
      BY <3>1, <3>2 DEF GuardWaits, AsksWho
  <2>6. CASE LogOut \/ GuardRedirect
    BY <2>6 DEF LogOut, GuardRedirect, GuardWaits
  <2>7. ASSUME NEW p \in Pages, PlatformRedirect \/ Navigate(p) PROVE GuardWaits'
    BY <2>7 DEF PlatformRedirect, Navigate, GuardWaits, Rendered
  <2>8. ASSUME NEW t \in Tenants, SelectTenant(t) PROVE GuardWaits'
    BY <2>8 DEF SelectTenant, GuardWaits, Rendered
  <2>9. ASSUME CacheExpires \/ (\E s \in Sessions : SessionEnds(s)) \/ UNCHANGED vars
        PROVE  GuardWaits'
    BY <2>9 DEF CacheExpires, SessionEnds, vars, history, GuardWaits, SignedIn,
       AsksWho
  <2>. QED
    BY <2>1, <2>3, <2>4, <2>5, <2>6, <2>7, <2>8, <2>9
    DEF ClientNext, Pages
<1>. QED
  BY <1>1, <1>2, ClientInvInit, ClientInvStep, PTL DEF ClientSpec

-----------------------------------------------------------------------------
(* /platform/users and the page of an account *)

\* The role that is picked is one of the organization that is.
RoleFitsHost == picks.of \in {NoOne, picks.host}

ListSound    == NoOne \notin outdated => Sound(everyone, Roster)
DetailsSound == \A a \in Accounts \ outdated : Sound(details[a], accounts[a])

AccountsInv ==
    /\ PlatformTypeOK /\ RoleFitsHost /\ RoleOfHost
    /\ ListSound /\ DetailsSound

LEMMA RosterType ==
    ASSUME accounts \in [Accounts -> AccountRow] PROVE Roster \in Rosters
BY DEF Roster, Rosters, AccountRow

LEMMA NothingOpen ==
    /\ NoBox \in [kind : {"none", "delete", "staff", "host", "revoke"},
                  of : Accounts \cup Grants \cup {NoOne}]
    /\ NoBox.kind = "none"
    /\ NoPicks \in [staff : BOOLEAN, host : Hosts \cup {NoOne},
                    of : Hosts \cup {NoOne}]
    /\ NoPicks.of = NoOne
BY DEF NoBox, NoPicks

LEMMA AccountsInvInit == PlatformInit => AccountsInv
<1>. SUFFICES ASSUME PlatformInit PROVE AccountsInv
  OBVIOUS
<1>. USE PlatformAssumption DEF PlatformInit
<1>1. accounts \in [Accounts -> AccountRow] /\ Roster \in Rosters
  BY RosterType DEF AccountRow, Grants, Standing
<1>2. everyone \in Query(Rosters) /\ Sound(everyone, Roster)
  BY <1>1, NewSound
<1>3. \A a \in Accounts : /\ details[a] \in Query(AccountRow)
                          /\ Sound(details[a], accounts[a])
  BY <1>1, NewSound
<1>4. details \in [Accounts -> Query(AccountRow)]
  BY <1>3
<1>5. PlatformTypeOK
  <2>1. calls \subseteq Calls /\ called \in 0 .. MaxCalls
    OBVIOUS
  <2>2. /\ visited = NoOne /\ box = NoBox /\ picks = NoPicks
        /\ outdated \subseteq Accounts \cup {NoOne}
    OBVIOUS
  <2>. QED
    BY ONLY <1>1, <1>2, <1>4, <2>1, <2>2, NothingOpen DEF PlatformTypeOK
<1>6. RoleFitsHost /\ RoleOfHost
  BY NothingOpen DEF RoleFitsHost, RoleOfHost
<1>. QED
  BY <1>2, <1>3, <1>5, <1>6, Zenon DEF AccountsInv, ListSound, DetailsSound

\* What the API makes of a request concerns its account only.
LEMMA CarriedRows ==
    ASSUME PlatformTypeOK, NEW c \in calls, Carried(c)
    PROVE  /\ c \in Calls /\ c.account \in Accounts
           /\ accounts' \in [Accounts -> AccountRow] /\ Roster' \in Rosters
           /\ \A a \in Accounts \ {c.account} : accounts'[a] = accounts[a]
           /\ c.op \in {"assign", "revoke"} => Roster' = Roster
<1>. USE DEF PlatformTypeOK
<1>1. /\ c \in Calls /\ c.account \in Accounts /\ c.role \in Grants
      /\ c.status \in Standing /\ c.op \in CallOps
  BY DEF Calls
<1>2. accounts[c.account] \in AccountRow
  BY <1>1
<1>. DEFINE Now == accounts[c.account]
<1>3. PICK row \in AccountRow :
          /\ accounts' = [accounts EXCEPT ![c.account] = row]
          /\ c.op \in {"assign", "revoke"} => row.status = Now.status
  <2>1. CASE c.op = "status"
    <3>1. [Now EXCEPT !.status = c.status] \in AccountRow
      BY <1>1, <1>2 DEF AccountRow
    <3>. QED
      BY <2>1, <3>1 DEF Carried
  <2>2. CASE c.op = "delete"
    <3>1. [status |-> "GONE", roles |-> {}] \in AccountRow
      BY DEF AccountRow
    <3>. QED
      BY <2>2, <3>1 DEF Carried
  <2>3. CASE c.op = "assign"
    <3>1. /\ [Now EXCEPT !.roles = @ \cup {c.role}] \in AccountRow
          /\ [Now EXCEPT !.roles = @ \cup {c.role}].status = Now.status
      BY <1>1, <1>2 DEF AccountRow
    <3>. QED
      BY <2>3, <3>1 DEF Carried
  <2>4. CASE c.op = "revoke"
    <3>1. /\ [Now EXCEPT !.roles = @ \ {c.role}] \in AccountRow
          /\ [Now EXCEPT !.roles = @ \ {c.role}].status = Now.status
      BY <1>1, <1>2 DEF AccountRow
    <3>. QED
      BY <2>4, <3>1 DEF Carried
  <2>. QED
    BY <1>1, <2>1, <2>2, <2>3, <2>4 DEF CallOps
<1>4. accounts' \in [Accounts -> AccountRow]
  BY <1>1, <1>3
<1>5. Roster' \in Rosters
  BY <1>4 DEF Roster, Rosters, AccountRow
<1>6. c.op \in {"assign", "revoke"} => Roster' = Roster
  BY <1>1, <1>3 DEF Roster
<1>. QED
  BY <1>1, <1>3, <1>4, <1>5, <1>6

\* What begins a request leaves of the invariant.
LEMMA RequestInv ==
    ASSUME AccountsInv, NEW op \in CallOps, NEW a \in Accounts,
           NEW s \in Standing, NEW g \in Grants, Request(op, a, s, g, g),
           box' \in {box, NoBox}
    PROVE  AccountsInv'
<1>. USE PlatformAssumption
     DEF AccountsInv, PlatformTypeOK, RoleFitsHost, RoleOfHost, ListSound,
         DetailsSound, Request
<1>1. [no |-> called, op |-> op, page |-> visited # NoOne, here |-> TRUE,
       account |-> a, status |-> s, role |-> g, of |-> g] \in Calls
  <2>1. (visited # NoOne) \in BOOLEAN /\ called \in Nat
    OBVIOUS
  <2>. QED
    BY <2>1 DEF Calls
<1>2. calls' \subseteq Calls
  BY <1>1
<1>5. called' \in 0 .. MaxCalls
  OBVIOUS
<1>3. \A c \in calls' : c.of = c.role
  OBVIOUS
<1>4. Roster' = Roster
  BY DEF Roster
<1>. QED
  BY <1>2, <1>3, <1>4, <1>5 DEF NoBox

\* Leaving a page keeps what is asked of a request.
LEMMA ElsewhereOK ==
    ASSUME NEW cs, cs \subseteq Calls, \A c \in cs : c.of = c.role
    PROVE  /\ Elsewhere(cs) \subseteq Calls
           /\ \A c \in Elsewhere(cs) : c.of = c.role
BY DEF Elsewhere, Calls

LEMMA AccountsInvStep == AccountsInv /\ [PlatformNext]_platformVars => AccountsInv'
<1>. SUFFICES ASSUME AccountsInv, [PlatformNext]_platformVars
              PROVE  AccountsInv'
  OBVIOUS
<1>. USE PlatformAssumption
     DEF AccountsInv, PlatformTypeOK, RoleFitsHost, RoleOfHost, ListSound,
         DetailsSound
<1>0. /\ Roster \in Rosters
      /\ \A a \in Accounts : /\ accounts[a] \in AccountRow
                             /\ details[a] \in Query(AccountRow)
  BY RosterType
<1>. UNCHANGED accounts => Roster' = Roster
  BY DEF Roster
<1>1. CASE EveryoneFetched
  <2>1. /\ everyone' \in Query(Rosters)
        /\ NoOne \notin outdated => Sound(everyone', Roster)
    <3>1. {Answered(everyone), Failed(everyone)} \subseteq Query(Rosters)
      BY <1>0, QueryType
    <3>2. NoOne \notin outdated => /\ Sound(Answered(everyone), Roster)
                                   /\ Sound(Failed(everyone), Roster)
      BY <1>0, <1>1, FetchedSound DEF EveryoneFetched
    <3>. QED
      BY <1>1, <3>1, <3>2 DEF EveryoneFetched
  <2>. QED
    BY <1>1, <2>1 DEF EveryoneFetched
<1>2. ASSUME NEW a \in Accounts, DetailsFetched(a) PROVE AccountsInv'
  <2>1. Answered(details[a]) \in Query(AccountRow)
        /\ Failed(details[a]) \in Query(AccountRow)
    BY <1>0, QueryType
  <2>2. a \notin outdated => /\ Sound(Answered(details[a]), accounts[a])
                             /\ Sound(Failed(details[a]), accounts[a])
    BY <1>0, <1>2, FetchedSound DEF DetailsFetched
  <2>3. PICK q \in {Answered(details[a]), Failed(details[a])} :
            details' = [details EXCEPT ![a] = q]
    BY <1>2 DEF DetailsFetched
  <2>. QED
    BY <1>2, <2>1, <2>2, <2>3 DEF DetailsFetched
<1>3. ASSUME NEW a \in Accounts, OpenAccount(a) PROVE AccountsInv'
  <2>1. Observed(details[a], accounts[a]) \in Query(AccountRow)
    BY <1>0, QueryType
  <2>2. a \notin outdated => Sound(Observed(details[a], accounts[a]), accounts[a])
    BY <1>0, ObservedSound
  <2>3. calls' \subseteq Calls /\ \A c \in calls' : c.of = c.role
    BY <1>3, ElsewhereOK DEF OpenAccount, Goes
  <2>. QED
    BY <1>3, <2>1, <2>2, <2>3 DEF OpenAccount, Goes, NoBox, NoPicks
<1>4. CASE BackToUsers
  <2>1. Observed(everyone, Roster) \in Query(Rosters)
    BY <1>0, QueryType
  <2>2. NoOne \notin outdated => Sound(Observed(everyone, Roster), Roster)
    BY <1>0, ObservedSound
  <2>3. calls' \subseteq Calls /\ \A c \in calls' : c.of = c.role
    BY <1>4, ElsewhereOK DEF BackToUsers, Goes
  <2>. QED
    BY <1>4, <2>1, <2>2, <2>3 DEF BackToUsers, Goes, NoBox, NoPicks
<1>5. visited \notin Accounts => Displayed = {}
  BY DEF Displayed
<1>6. ASSUME NEW a \in Accounts, AskDeleteAccount(a) PROVE AccountsInv'
  BY <1>6 DEF AskDeleteAccount, OpenBox
<1>7. ASSUME NEW kind \in {"staff", "host"}, OpenAssign(kind) PROVE AccountsInv'
  BY <1>5, <1>7 DEF OpenAssign, OpenBox
<1>8. ASSUME NEW g \in Grants, AskRevoke(g) PROVE AccountsInv'
  BY <1>5, <1>8 DEF AskRevoke, OpenBox
<1>9. CASE CloseBox
  BY <1>9 DEF CloseBox, NoBox
<1>10. CASE PickStaff
  BY <1>10 DEF PickStaff, Pick
<1>11. ASSUME NEW h \in Hosts \cup {NoOne}, PickHost(h) PROVE AccountsInv'
  BY <1>11 DEF PickHost, Pick
<1>12. CASE PickRole
  BY <1>12 DEF PickRole, Pick
<1>13. ASSUME NEW a \in Accounts, NEW s \in Standing, SetStatus(a, s)
       PROVE  AccountsInv'
  <2>. Request("status", a, s, Staff, Staff) /\ box' = box
    BY <1>13 DEF SetStatus
  <2>. QED
    BY RequestInv DEF CallOps, Grants
<1>14. CASE DeleteAccount
  <2>. /\ Request("delete", box.of, "ACTIVE", Staff, Staff)
       /\ box.of \in Accounts /\ box' \in {box, NoBox}
    BY <1>14 DEF DeleteAccount
  <2>. QED
    BY RequestInv DEF CallOps, Grants, Standing
<1>15. CASE AssignStaff
  <2>. /\ Request("assign", visited, "ACTIVE", Staff, Staff) /\ box' = box
       /\ visited \in Accounts
    BY <1>15 DEF AssignStaff
  <2>. QED
    BY RequestInv DEF CallOps, Grants, Standing
<1>16. CASE AssignHost
  <2>. /\ Request("assign", visited, "ACTIVE", picks.host, picks.host)
       /\ box' = box /\ visited \in Accounts /\ picks.host \in Hosts
    BY <1>16 DEF AssignHost
  <2>. QED
    BY RequestInv DEF CallOps, Grants, Standing
<1>17. CASE RevokeRole
  <2>. /\ Request("revoke", visited, "ACTIVE", box.of, box.of)
       /\ box' = box /\ visited \in Accounts /\ box.of \in Grants
    BY <1>17 DEF RevokeRole
  <2>. QED
    BY RequestInv DEF CallOps, Standing
<1>18. ASSUME NEW c \in calls, Carried(c), RefreshList
       PROVE  everyone' \in Query(Rosters) /\ Sound(everyone', Roster')
  <2>. Roster' \in Rosters /\ (visited = NoOne) \in BOOLEAN
    BY <1>18, CarriedRows
  <2>. QED
    BY <1>18, InvalidatedSound DEF RefreshList
<1>19. ASSUME NEW c \in calls, Carried(c), RefreshAccount(c.account)
       PROVE  /\ details' \in [Accounts -> Query(AccountRow)]
              /\ \A a \in Accounts \ (outdated \ {c.account}) :
                     Sound(details'[a], accounts'[a])
  <2>1. /\ c.account \in Accounts /\ accounts'[c.account] \in AccountRow
        /\ (visited = c.account) \in BOOLEAN
        /\ \A a \in Accounts \ {c.account} : accounts'[a] = accounts[a]
    BY <1>19, CarriedRows
  <2>2. LET q == Invalidated(details[c.account], visited = c.account,
                             accounts'[c.account])
        IN  q \in Query(AccountRow) /\ Sound(q, accounts'[c.account])
    BY <1>0, <2>1, InvalidatedSound
  <2>. QED
    BY <1>19, <2>1, <2>2 DEF RefreshAccount
<1>20. ASSUME NEW c \in calls, ListChanged(c) PROVE AccountsInv'
  BY <1>18, <1>20, CarriedRows DEF ListChanged
<1>21. ASSUME NEW c \in calls, StatusChanged(c) PROVE AccountsInv'
  BY <1>18, <1>19, <1>21, CarriedRows DEF StatusChanged
<1>22. ASSUME NEW c \in calls, AccountDeleted(c) PROVE AccountsInv'
  <2>. Carried(c) /\ Touched(c) = {c.account, NoOne}
    BY <1>22 DEF AccountDeleted, Touched
  <2>1. everyone' \in Query(Rosters)
    BY <1>22, CarriedRows, QueryType DEF AccountDeleted
  <2>2. calls' \subseteq Calls /\ \A d \in calls' : d.of = d.role
    BY <1>22, ElsewhereOK DEF AccountDeleted, Goes
  <2>3. /\ visited' \in Accounts \cup {NoOne}
        /\ box' \in {box, NoBox} /\ picks' \in {picks, NoPicks}
        /\ visited' # visited => box' = NoBox
    BY <1>22 DEF AccountDeleted, Goes
  <2>4. PlatformTypeOK'
    <3>1. /\ accounts' \in [Accounts -> AccountRow] /\ UNCHANGED <<details, called>>
          /\ outdated' \subseteq Accounts \cup {NoOne}
      BY <1>22, CarriedRows DEF AccountDeleted
    <3>. QED
      BY <2>1, <2>2, <2>3, <3>1, NothingOpen
  <2>5. ListSound' /\ DetailsSound'
    BY <1>22, CarriedRows DEF AccountDeleted
  <2>6. RoleFitsHost' /\ RoleOfHost'
    BY <2>2, <2>3, NothingOpen
  <2>. QED
    BY <2>4, <2>5, <2>6
<1>23. ASSUME NEW c \in calls, RolesChanged(c) PROVE AccountsInv'
  <2>. Carried(c) /\ Roster' = Roster
    BY <1>23, CarriedRows DEF RolesChanged
  <2>1. /\ picks' \in [staff : BOOLEAN, host : Hosts \cup {NoOne},
                       of : Hosts \cup {NoOne}]
        /\ picks'.of \in {NoOne, picks'.host}
    <3>. Dialog(c) \in {"revoke", "staff", "host"}
      BY DEF Dialog
    <3>. QED
      BY <1>23 DEF RolesChanged
  <2>2. box' \in {box, NoBox}
    BY <1>23 DEF RolesChanged
  <2>3. PlatformTypeOK'
    <3>1. /\ accounts' \in [Accounts -> AccountRow]
          /\ details' \in [Accounts -> Query(AccountRow)]
          /\ UNCHANGED <<everyone, visited, called>>
          /\ outdated' \subseteq outdated /\ calls' \subseteq calls
      BY <1>19, <1>23, CarriedRows DEF RolesChanged
    <3>. QED
      BY <2>1, <2>2, <3>1, NothingOpen
  <2>4. ListSound' /\ DetailsSound'
    BY <1>19, <1>23, CarriedRows DEF RolesChanged
  <2>5. RoleFitsHost' /\ RoleOfHost'
    BY <1>23, <2>1 DEF RolesChanged
  <2>. QED
    BY <2>3, <2>4, <2>5
<1>24. ASSUME NEW c \in calls, CallFailed(c) PROVE AccountsInv'
  BY <1>24 DEF CallFailed
<1>25. ASSUME NEW c \in calls, CallUnheard(c) PROVE AccountsInv'
  <2>. c.op \in CallOps
    BY DEF Calls
  <2>. QED
    BY <1>25, CarriedRows DEF CallUnheard, Touched, CallOps
<1>26. CASE UNCHANGED platformVars
  BY <1>26 DEF platformVars
<1>. QED
  BY <1>1, <1>2, <1>3, <1>4, <1>6, <1>7, <1>8, <1>9, <1>10, <1>11, <1>12, <1>13,
     <1>14, <1>15, <1>16, <1>17, <1>20, <1>21, <1>22, <1>23, <1>24, <1>25, <1>26
  DEF PlatformNext

LEMMA AccountsInvariant == PlatformSpec => []AccountsInv
<1>. QED
  BY AccountsInvInit, AccountsInvStep, PTL DEF PlatformSpec

\* Every variable of the two pages keeps its type, and a dialog asks to remove what
\* its page shows.
THEOREM PlatformTypeCorrect == PlatformSpec => []PlatformTypeOK
<1>1. AccountsInv => PlatformTypeOK
  BY DEF AccountsInv
<1>. QED
  BY <1>1, AccountsInvariant, PTL

\* The role that is granted is of the organization it is granted in: what is picked
\* fits until another organization is, and then nothing is picked.
THEOREM GrantedInItsHost == PlatformSpec => []RoleOfHost
<1>1. AccountsInv => RoleOfHost
  BY DEF AccountsInv
<1>. QED
  BY <1>1, AccountsInvariant, PTL

\* Both pages show what the API has: each query is sound unless it is outdated.
THEOREM AccountsFollow ==
    PlatformSpec => [](AccountsAreListed /\ AccountIsShown)
<1>1. AccountsInv => AccountsAreListed /\ AccountIsShown
  BY DEF AccountsInv, ListSound, DetailsSound, AccountsAreListed, AccountIsShown,
         Sound
<1>. QED
  BY <1>1, AccountsInvariant, PTL

-----------------------------------------------------------------------------
(* The pages together *)

\* A behaviour of the composition is one of every page.
LEMMA RecordPagesCompose ==
    RecordSpec =>
        PhoneSpec /\ CardSpec /\ SettingsSpec /\ PlatformSpec
<1>1. RecordInit =>
        PhoneInit /\ CardInit /\ SettingsInit /\ PlatformInit
  BY DEF RecordInit, Opens, ClosedPhone, ClosedCards, ClosedSettings
<1>2. [RecordNext]_<<opened, phoneVars, cardVars, settingsVars, platformVars>> =>
        /\ [PhoneNext]_phoneVars
        /\ [CardNext]_cardVars
        /\ [SettingsNext]_settingsVars
        /\ [PlatformNext]_platformVars
  BY DEF RecordNext, Moves
<1>. QED
  BY <1>1, <1>2, PTL
  DEF RecordSpec, PhoneSpec, CardSpec, SettingsSpec, PlatformSpec

\* The profile, the badges of the security page and the accounts of the platform
\* show what the API has.
THEOREM RecordsFollow == RecordSpec => []RecordsAreCurrent
<1>1. (/\ ProfileIsCurrent
       /\ BadgesAreTrue
       /\ AccountsAreListed /\ AccountIsShown)
      => RecordsAreCurrent
  BY DEF RecordsAreCurrent
<1>. QED
  BY <1>1, RecordPagesCompose, ProfileFollows, BadgesTrue, AccountsFollow, PTL
=============================================================================
