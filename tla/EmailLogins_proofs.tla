------------------------- MODULE EmailLogins_proofs -------------------------
(***************************************************************************)
(* What the two logins by e-mail guarantee for every set of accounts,      *)
(* links, passwords and requests: above all, that MagicLink implements     *)
(* OneTimeGrant, that a lockout of PasswordLogin is final, and how many    *)
(* wrong passwords requests that overlap can have answered before it.      *)
(*                                                                         *)
(* Magic links: a key is written once, for a jti nobody has used           *)
(* (KeysFresh), so once DEL has returned 1 no other DEL of that key will   *)
(* (SoleClaim), and the one claimant has not been paid yet.                *)
(*                                                                         *)
(* Passwords: whatever a handler has gone on to do, the right it claims    *)
(* was seen by the witness at the latest when the row was read             *)
(* (RightsSeen); and a login that is let past the lock has read a counter  *)
(* below it (AttemptsOK), so a full counter with nothing past it stays.    *)
(* Each wrong password that is answered uses up an attempt at one level of *)
(* the counter (WithinBudget), which bounds the guesses of any finite set  *)
(* of requests.                                                            *)
(***************************************************************************)
EXTENDS EmailLogins, Integers, FiniteSetTheorems, TLAPS

Past == {"verify_user", "verify_session"}   \* past the DEL

\* A request past its first await has the account or the link it works for.
LocalsOK ==
    \A r \in Requests :
        /\ pc[r] \in {"request_user", "request_flag"} => user[r] \in Users
        /\ pc[r] \in {"request_send", "request_rollback", "verify_get",
                      "verify_del", "verify_user", "verify_session",
                      "refused", "granted"} => link[r] \in Drawn

\* Keys, mails and payments are of links that have been drawn; a key that is
\* gone has ended for a recorded reason.
KeysFresh ==
    /\ flag \subseteq Drawn /\ inbox \subseteq Drawn /\ revoked \subseteq Drawn
    /\ Drawn \subseteq flag \cup ended
    /\ \A l \in Links : paid[l] > 0 => l \in Drawn \ flag

\* Whoever is past the DEL is alone with a link that is not paid for yet.
SoleClaim ==
    \A r \in Requests : pc[r] \in Past =>
        /\ link[r] \notin flag
        /\ paid[link[r]] = 0
        /\ \A q \in Requests : pc[q] \in Past /\ link[q] = link[r] => q = r

\* A link that was answered 502 has no key, so who comes later stops at GET.
LateStops ==
    /\ revoked \cap flag = {}
    /\ \A r \in late : pc[r] \in {"verify_get", "refused"} /\
                       (pc[r] = "verify_get" => link[r] \in revoked)

IInv == TypeOK /\ LocalsOK /\ KeysFresh /\ SoleClaim /\ LateStops
        /\ RefusedForCause

-----------------------------------------------------------------------------
(***************************************************************************)
(* The invariant                                                           *)
(***************************************************************************)

\* The initial states satisfy it.
LEMMA InitIInv == Init => IInv
BY MagicLinkAssumption
DEF Init, IInv, TypeOK, LocalsOK, KeysFresh, SoleClaim, LateStops,
    RefusedForCause, Drawn, Past, Status

\* The steps of POST /request keep it.
LEMMA RequestIInv ==
    ASSUME IInv, NEW r \in Requests, Request(r)
    PROVE  IInv'
<1> USE MagicLinkAssumption DEF IInv, TypeOK, LocalsOK, KeysFresh, SoleClaim,
        LateStops, RefusedForCause, Drawn, Past, Status, Awaits, Replies, Go,
        linkVars
<1>1. ASSUME NEW u \in Users, RequestArrive(r, u)
      PROVE  IInv'
  BY <1>1 DEF RequestArrive
<1>2. CASE RequestUser(r)
  BY <1>2 DEF RequestUser
<1>3. CASE RequestFlag(r)
  BY <1>3 DEF RequestFlag
<1>4. CASE RequestSend(r)
  BY <1>4 DEF RequestSend
<1>5. CASE RequestRollback(r)
  BY <1>5 DEF RequestRollback
<1>6. QED
  BY <1>1, <1>2, <1>3, <1>4, <1>5 DEF Request

\* The steps of GET /verify keep it.
LEMMA VerifyIInv ==
    ASSUME IInv, NEW r \in Requests, Verify(r)
    PROVE  IInv'
<1> USE MagicLinkAssumption DEF IInv, TypeOK, LocalsOK, KeysFresh, SoleClaim,
        LateStops, RefusedForCause, Drawn, Past, Status, Awaits, Replies, Go,
        linkVars
<1>1. ASSUME NEW l \in inbox, VerifyArrive(r, l)
      PROVE  IInv'
  BY <1>1 DEF VerifyArrive
<1>2. CASE VerifyGet(r)
  BY <1>2 DEF VerifyGet
<1>3. CASE VerifyDel(r) \/ VerifyDelLost(r)
  BY <1>3 DEF VerifyDel, VerifyDelLost
<1>4. CASE VerifyUser(r)
  BY <1>4 DEF VerifyUser
<1>5. CASE VerifySession(r)
  BY <1>5 DEF VerifySession
<1>6. QED
  BY <1>1, <1>2, <1>3, <1>4, <1>5 DEF Verify

\* So does every step.
LEMMA StepIInv == IInv /\ [Next]_vars => IInv'
<1> SUFFICES ASSUME IInv, [Next]_vars
             PROVE  IInv'
  OBVIOUS
<1> USE MagicLinkAssumption DEF IInv, TypeOK, LocalsOK, KeysFresh, SoleClaim,
        LateStops, RefusedForCause, Drawn, Past, linkVars
<1>1. ASSUME NEW r \in Requests, Reply(r) \/ Crash(r)
      PROVE  IInv'
  BY <1>1 DEF Reply, Crash, Leave, Status, Awaits, Replies
<1>2. CASE Environment
  BY <1>2 DEF Environment, UpdateStatus, LinkExpire, FlagExpire, Status
<1>3. CASE UNCHANGED vars
  BY <1>3 DEF vars
<1>4. QED
  BY <1>1, <1>2, <1>3, RequestIInv, VerifyIInv DEF Next

\* The invariant holds in every reachable state.
LEMMA Inductive == Spec => []IInv
BY InitIInv, StepIInv, PTL DEF Spec

-----------------------------------------------------------------------------
(***************************************************************************)
(* The refinement                                                          *)
(***************************************************************************)

\* A step of a request that is neither past the DEL before nor after it claims
\* nothing.
LEMMA SameClaims ==
    ASSUME TypeOK, NEW r \in Requests,
           \A q \in Requests \ {r} : pc'[q] = pc[q] /\ link'[q] = link[q],
           pc[r] \notin Past, pc'[r] \notin Past
    PROVE  \A l \in Links : Claimed(l)' = Claimed(l)
BY DEF Claimed, Past

\* What leaves keys, claims, owners and payments alone is a stuttering step.
LEMMA SameStage ==
    ASSUME UNCHANGED <<owner, flag, paid>>,
           \A l \in Links : Claimed(l)' = Claimed(l)
    PROVE  UNCHANGED <<Stage, paid>>
BY DEF Stage, Drawn


\* The step of a request past the DEL changes the claim on its own link only.
LEMMA OwnClaim ==
    ASSUME IInv, NEW r \in Requests, NEW l \in Links, link[r] = l,
           \A q \in Requests \ {r} : pc'[q] = pc[q] /\ link'[q] = link[q],
           pc[r] \in Past, pc'[r] \notin Past
    PROVE  /\ l \in Drawn \ flag /\ paid[l] = 0
           /\ Claimed(l) /\ ~ Claimed(l)'
           /\ \A m \in Links \ {l} : Claimed(m)' = Claimed(m)
<1>1. l \in Drawn \ flag /\ paid[l] = 0
  BY DEF IInv, SoleClaim, LocalsOK, Past
<1>2. \A q \in Requests \ {r} : ~ (pc[q] \in Past /\ link[q] = l)
  BY DEF IInv, SoleClaim
<1>3. QED
  BY <1>1, <1>2 DEF Claimed, Past

\* A step that changes the stage of one link moves that link.
LEMMA OneMoves ==
    ASSUME NEW l \in Links, NEW from, NEW to, Stage[l] \in from, Stage'[l] = to,
           \A m \in Links \ {l} : Stage'[m] = Stage[m]
    PROVE  Once!Move(l, from, to)
<1>1. Stage' = [Stage EXCEPT ![l] = to]
  BY DEF Stage
<1>2. QED
  BY <1>1 DEF Once!Move

\* A grant that moves is a step of OneTimeGrant.
LEMMA OneStep ==
    ASSUME NEW l \in Links,
           Once!Issue(l) \/ Once!Claim(l) \/ Once!Redeem(l) \/ Once!Void(l)
    PROVE  Once!Next
<1>1. Stage'[l] # Stage[l]
  BY DEF Stage, Once!Issue, Once!Claim, Once!Redeem, Once!Void, Once!Move
<1>2. QED
  BY <1>1 DEF Once!Next

\* Every step of the handlers is a step of the grant, or stutters.
LEMMA StepOnce ==
    ASSUME IInv, [Next]_vars
    PROVE  [Once!Next]_<<Stage, paid>>
<1> USE MagicLinkAssumption DEF IInv, TypeOK
<1>1. ASSUME NEW r \in Requests, RequestFlag(r)
      PROVE  \E l \in Links : Once!Issue(l)
  <2>1. PICK l \in Links \ Drawn :
          owner' = [owner EXCEPT ![l] = user[r]] /\ flag' = flag \cup {l}
    BY <1>1 DEF RequestFlag
  <2>2. \A m \in Links : Claimed(m)' = Claimed(m)
    BY <1>1 DEF RequestFlag, Go, Claimed
  <2>3. user[r] \in Users /\ paid' = paid
    BY <1>1 DEF RequestFlag, Go, LocalsOK
  <2>4. Stage[l] = "unissued" /\ Stage'[l] = "valid"
    BY <2>1, <2>3 DEF Stage, Drawn
  <2>5. \A m \in Links \ {l} : Stage'[m] = Stage[m]
    BY <2>1, <2>2, <2>3 DEF Stage, Drawn
  <2>6. QED
    BY <2>3, <2>4, <2>5, OneMoves DEF Once!Issue
<1>2. ASSUME NEW r \in Requests, VerifyDel(r), NEW l \in flag, link[r] = l
      PROVE  Once!Claim(l)
  <2>1. Claimed(l)' /\ \A m \in Links \ {l} : Claimed(m)' = Claimed(m)
    BY <1>2 DEF VerifyDel, Go, Claimed
  <2>2. l \in Drawn /\ ~ (paid[l] > 0) /\ flag' = flag \ {l}
        /\ owner' = owner /\ paid' = paid
    BY <1>2 DEF KeysFresh, VerifyDel
  <2>3. Stage[l] = "valid" /\ Stage'[l] = "claimed"
    BY <2>1, <2>2 DEF Stage, Drawn
  <2>4. \A m \in Links \ {l} : Stage'[m] = Stage[m]
    BY <2>1, <2>2 DEF Stage, Drawn
  <2>5. QED
    BY <2>2, <2>3, <2>4, OneMoves DEF Once!Claim
<1>3. ASSUME NEW r \in Requests, VerifySession(r), NEW l \in Links, link[r] = l
      PROVE  Once!Redeem(l)
  <2>1. /\ l \in Drawn \ flag /\ paid[l] = 0 /\ Claimed(l)
        /\ \A m \in Links \ {l} : Claimed(m)' = Claimed(m)
    BY <1>3, OwnClaim DEF VerifySession, Go, Past
  <2>2. paid' = [paid EXCEPT ![l] = @ + 1] /\ UNCHANGED <<owner, flag>>
    BY <1>3 DEF VerifySession, linkVars
  <2>3. Stage[l] = "claimed" /\ Stage'[l] = "redeemed"
    BY <2>1, <2>2 DEF Stage, Drawn
  <2>4. \A m \in Links \ {l} : Stage'[m] = Stage[m]
    BY <2>1, <2>2 DEF Stage, Drawn
  <2>5. QED
    BY <2>2, <2>3, <2>4, OneMoves DEF Once!Redeem
<1>4. ASSUME NEW r \in Requests, NEW l \in Links, link[r] = l, pc[r] \in Past,
             pc'[r] \notin Past, VerifyUser(r) \/ Crash(r)
      PROVE  Once!Void(l)
  <2>1. UNCHANGED <<owner, flag, paid>>
    BY <1>4 DEF VerifyUser, Crash, Leave, linkVars
  <2>2. /\ l \in Drawn \ flag /\ paid[l] = 0 /\ Claimed(l) /\ ~ Claimed(l)'
        /\ \A m \in Links \ {l} : Claimed(m)' = Claimed(m)
    BY <1>4, OwnClaim DEF VerifyUser, Crash, Leave, Go
  <2>3. Stage[l] = "claimed" /\ Stage'[l] = "void"
    BY <2>1, <2>2 DEF Stage, Drawn
  <2>4. \A m \in Links \ {l} : Stage'[m] = Stage[m]
    BY <2>1, <2>2 DEF Stage, Drawn
  <2>5. QED
    BY <2>1, <2>3, <2>4, OneMoves DEF Once!Void
<1>5. ASSUME NEW l \in Links, l \in flag, flag' = flag \ {l},
             UNCHANGED <<owner, paid>>,
             \A m \in Links : Claimed(m)' = Claimed(m)
      PROVE  Once!Void(l)
  <2>1. l \in Drawn /\ ~ (paid[l] > 0) /\ ~ Claimed(l)
    BY <1>5 DEF KeysFresh, Claimed, SoleClaim, Past
  <2>2. Stage[l] = "valid" /\ Stage'[l] = "void"
    BY <1>5, <2>1 DEF Stage, Drawn
  <2>3. \A m \in Links \ {l} : Stage'[m] = Stage[m]
    BY <1>5 DEF Stage, Drawn
  <2>4. QED
    BY <1>5, <2>2, <2>3, OneMoves DEF Once!Void
<1>6. ASSUME NEW r \in Requests,
             RequestRollback(r) \/ VerifyDel(r) \/ VerifyDelLost(r),
             \A l \in flag : ~ (VerifyDel(r) /\ link[r] = l)
      PROVE  Once!Next \/ UNCHANGED <<Stage, paid>>
  <2>1. /\ link[r] \in Links /\ flag' = flag \ {link[r]}
        /\ UNCHANGED <<owner, paid>>
    BY <1>6 DEF RequestRollback, VerifyDel, VerifyDelLost, Go, LocalsOK, Drawn
  <2>2. \A m \in Links : Claimed(m)' = Claimed(m)
    BY <1>6 DEF RequestRollback, VerifyDel, VerifyDelLost, Go, Claimed
  <2>3. CASE link[r] \in flag
    BY <1>5, <2>1, <2>2, <2>3, OneStep
  <2>4. CASE link[r] \notin flag
    BY <2>1, <2>2, <2>4, SameStage
  <2>5. QED
    BY <2>3, <2>4
<1>7. ASSUME NEW r \in Requests,
             \/ \E u \in Users : RequestArrive(r, u)
             \/ RequestUser(r) \/ RequestSend(r)
             \/ \E l \in inbox : VerifyArrive(r, l)
             \/ VerifyGet(r)
             \/ VerifyUser(r) /\ pc'[r] \in Past
             \/ (Reply(r) \/ Crash(r)) /\ pc[r] \notin Past
      PROVE  UNCHANGED <<Stage, paid>>
  <2>1. UNCHANGED <<owner, flag, paid>>
    BY <1>7 DEF RequestArrive, RequestUser, RequestSend, VerifyArrive,
       VerifyGet, VerifyUser, Reply, Crash, Leave, linkVars
  <2>2. \A m \in Links : Claimed(m)' = Claimed(m)
    BY <1>7 DEF RequestArrive, RequestUser, RequestSend, VerifyArrive,
       VerifyGet, VerifyUser, Reply, Crash, Leave, Go, Claimed, Past
  <2>3. QED
    BY <2>1, <2>2, SameStage
<1>8. CASE Environment
  <2>1. \A m \in Links : Claimed(m)' = Claimed(m)
    BY <1>8 DEF Environment, UpdateStatus, LinkExpire, FlagExpire, Claimed
  <2>2. ASSUME NEW l \in Links, FlagExpire(l)
        PROVE  Once!Void(l)
    BY <1>5, <2>1, <2>2 DEF FlagExpire
  <2>3. ASSUME \/ \E u \in Users : \E st \in Status : UpdateStatus(u, st)
               \/ \E l \in Links : LinkExpire(l)
        PROVE  UNCHANGED <<Stage, paid>>
    BY <2>1, <2>3, SameStage DEF UpdateStatus, LinkExpire, linkVars
  <2>4. QED
    BY <1>8, <2>2, <2>3, OneStep DEF Environment
<1>9. CASE UNCHANGED vars
  <2>1. \A m \in Links : Claimed(m)' = Claimed(m)
    BY <1>9 DEF vars, Claimed
  <2>2. QED
    BY <1>9, <2>1, SameStage DEF vars
<1>10. ASSUME NEW r \in Requests, Request(r)
       PROVE  Once!Next \/ UNCHANGED <<Stage, paid>>
  <2>1. RequestRollback(r) => ~ VerifyDel(r)
    BY DEF RequestRollback, VerifyDel, Go
  <2>2. QED
    BY <1>1, <1>6, <1>7, <1>10, <2>1, OneStep DEF Request
<1>11. ASSUME NEW r \in Requests, Verify(r)
       PROVE  Once!Next \/ UNCHANGED <<Stage, paid>>
  <2>1. CASE VerifyDel(r) \/ VerifyDelLost(r)
    BY <1>2, <1>6, <2>1, OneStep
  <2>2. CASE VerifyUser(r)
    <3>1. pc[r] \in Past /\ link[r] \in Links
      BY <2>2 DEF VerifyUser, Go, Past, LocalsOK, Drawn
    <3>2. QED
      BY <1>4, <1>7, <2>2, <3>1, OneStep
  <2>3. CASE VerifySession(r)
    <3>1. link[r] \in Links
      BY <2>3 DEF VerifySession, Go, LocalsOK, Drawn
    <3>2. QED
      BY <1>3, <2>3, <3>1, OneStep
  <2>4. QED
    BY <1>7, <1>11, <2>1, <2>2, <2>3 DEF Verify
<1>12. ASSUME NEW r \in Requests, Reply(r) \/ Crash(r)
       PROVE  Once!Next \/ UNCHANGED <<Stage, paid>>
  <2>1. CASE pc[r] \in Past
    <3>1. Crash(r) /\ pc'[r] \notin Past /\ link[r] \in Links
      BY <1>12, <2>1 DEF Reply, Crash, Leave, Past, Replies, LocalsOK, Drawn
    <3>2. QED
      BY <1>4, <2>1, <3>1, OneStep
  <2>2. QED
    BY <1>7, <1>12, <2>1
<1>13. QED
  BY <1>8, <1>9, <1>10, <1>11, <1>12 DEF Next

-----------------------------------------------------------------------------
(***************************************************************************)
(* The theorems                                                            *)
(***************************************************************************)

\* Every variable keeps its type.
THEOREM TypeCorrect == Spec => []TypeOK
<1>1. IInv => TypeOK
  BY DEF IInv
<1>2. QED
  BY <1>1, Inductive, PTL

\* Magic links implement one-time grants: the initial states map to the initial
\* state of OneTimeGrant and every step of a handler, a crash, a lost Redis reply
\* or an expiry maps to one of its steps or to a stutter.
THEOREM LinksAreOneTime == Spec => SingleUse
<1>1. Init => Once!Init
  BY DEF Init, Once!Init, Stage, Drawn
<1>2. QED
  BY <1>1, StepOnce, Inductive, PTL DEF Spec, SingleUse, Once!Spec, Once!vars

\* What OneTimeGrant promises: a grant is redeemed by the step that pays for it,
\* and stays redeemed.
LEMMA GrantsPayOnce == Once!Spec => []Once!AtMostOnce
<1> DEFINE Paying ==
        /\ Stage \in [Links -> Once!Stages]
        /\ paid \in [Links -> {0, 1}]
        /\ \A l \in Links : paid[l] = 1 => Stage[l] = "redeemed"
<1>1. Once!Init => Paying
  BY DEF Once!Init, Once!Stages
<1>2. Paying /\ [Once!Next]_<<Stage, paid>> => Paying'
  <2>. SUFFICES ASSUME Paying, Once!Next PROVE Paying'
    OBVIOUS
  <2>. HIDE DEF Stage
  <2>1. PICK l \in Links :
            \/ Once!Issue(l) \/ Once!Claim(l) \/ Once!Redeem(l) \/ Once!Void(l)
            \/ Once!Share(l) \/ \E k \in Links : Once!Replace(l, k)
    BY DEF Once!Next
  <2>2. CASE Once!Redeem(l)
    BY <2>2 DEF Once!Redeem, Once!Move, Once!Stages
  <2>3. CASE Once!Issue(l) \/ Once!Claim(l) \/ Once!Void(l) \/ Once!Share(l)
    BY <2>3 DEF Once!Issue, Once!Claim, Once!Void, Once!Share, Once!Move,
       Once!Stages
  <2>4. ASSUME NEW k \in Links, Once!Replace(l, k) PROVE Paying'
    BY <2>4 DEF Once!Replace, Once!Stages
  <2>. QED
    BY <2>1, <2>2, <2>3, <2>4
<1>3. Paying => Once!AtMostOnce
  BY DEF Once!AtMostOnce
<1>. QED
  BY <1>1, <1>2, <1>3, PTL DEF Once!Spec, Once!vars

\* So no magic link ever opens two sessions, whatever the handlers that hold it
\* do, however often it is presented and whatever Redis answers.
THEOREM LinksPayOnce == Spec => [](\A l \in Links : paid[l] <= 1)
<1>1. Once!AtMostOnce <=> \A l \in Links : paid[l] <= 1
  BY DEF Once!AtMostOnce
<1>. QED
  BY <1>1, LinksAreOneTime, GrantsPayOnce, PTL DEF SingleUse

\* A link whose request was answered 502 opens no session afterwards.
THEOREM FailedSendDead == Spec => []FailedSendIsDead
<1>1. IInv => FailedSendIsDead
  BY DEF IInv, LateStops, FailedSendIsDead
<1>2. QED
  BY <1>1, Inductive, PTL

\* A link in a mailbox is refused only once its key has ended or it has expired.
THEOREM Refusals == Spec => []RefusedForCause
<1>1. IInv => RefusedForCause
  BY DEF IInv
<1>2. QED
  BY <1>1, Inductive, PTL

-----------------------------------------------------------------------------
(***************************************************************************)
(* Passwords                                                               *)
(***************************************************************************)

\* An attempt under way works for an address, with the passwords its handler asks
\* for; one that is let past the lock has read a counter below the limit.
AttemptsOK ==
    \A a \in Attempts :
        /\ stage[a] # "idle" => whose[a] \in Holders
        /\ stage[a] \in {"wrong", "right"} => way[a] = "login"
        /\ stage[a] = "wrong" => seen[a] < Limit
        /\ stage[a] \in {"policy", "commit"} =>
              way[a] \in {"register", "reset", "set", "change"}
        /\ stage[a] \in {"row", "policy", "commit"}
           /\ way[a] \in {"register", "reset", "set", "change"} =>
              fresh[a] \in Passwords
        /\ stage[a] = "row" /\ way[a] \in {"login", "change"} =>
              given[a] \in Passwords
        /\ stage[a] = "send" => way[a] = "ask"

\* The witness has seen a right as soon as it held, and so before it was acted on.
RightsSeen ==
    \A a \in Attempts :
        /\ stage[a] # "idle" /\ Right(a) => a \in entitled
        /\ stage[a] # "idle" /\ way[a] \in {"ask", "reset"} => a \in entitled
        /\ stage[a] \in {"right", "policy", "commit", "send", "let_in", "done"} =>
              a \in entitled

PasswordInv == PasswordTypeOK /\ AttemptsOK

LEMMA PasswordInitInv == PasswordInit => PasswordInv /\ RightsSeen
BY PasswordLoginAssumption
DEF PasswordInit, PasswordInv, PasswordTypeOK, AttemptsOK, RightsSeen, Limit,
    Hashes, Ways, Stages, Answers

\* Every step keeps the types and what an attempt under way knows.
LEMMA PasswordStep == PasswordInv /\ [PasswordNext]_passwordVars => PasswordInv'
<1>. SUFFICES ASSUME PasswordInv, [PasswordNext]_passwordVars
              PROVE  PasswordInv'
  OBVIOUS
<1>. USE PasswordLoginAssumption
     DEF PasswordInv, PasswordTypeOK, AttemptsOK, Limit, Hashes, Ways, Stages,
         Answers, accountVars, attemptVars
<1>1. ASSUME NEW a \in Attempts, Arrivals(a), Witnessed
      PROVE  PasswordInv'
  BY <1>1 DEF Arrivals, Arrive, LoginArrives, AskArrives, RegisterArrives,
     ResetArrives, SetArrives, ChangeArrives, Witnessed
<1>2. ASSUME NEW a \in Attempts, LoginReads(a), Witnessed
      PROVE  PasswordInv'
  BY <1>2 DEF LoginReads, Compare, Answer, At, Witnessed
<1>3. ASSUME NEW a \in Attempts, LoginWrong(a) \/ LoginRight(a), Witnessed
      PROVE  PasswordInv'
  BY <1>3 DEF LoginWrong, LoginRight, Answer, At, Witnessed
<1>4. ASSUME NEW a \in Attempts, AskReads(a) \/ AskSends(a), Witnessed
      PROVE  PasswordInv'
  BY <1>4 DEF AskReads, AskSends, Answer, On, At, Witnessed
<1>5. ASSUME NEW a \in Attempts, SetterReads(a) \/ Policy(a), Witnessed
      PROVE  PasswordInv'
  BY <1>5 DEF SetterReads, Policy, OnIf, Answer, On, At, Witnessed
<1>6. ASSUME NEW a \in Attempts, RegisterCommits(a) \/ SetterCommits(a),
             Witnessed
      PROVE  PasswordInv'
  BY <1>6 DEF RegisterCommits, SetterCommits, Answer, At, Witnessed
<1>7. ASSUME NEW a \in Attempts, Answered(a) \/ Dies(a), Witnessed
      PROVE  PasswordInv'
  BY <1>7 DEF Answered, Dies, Departs, Witnessed
<1>8. ASSUME NEW u \in Holders, SocialSignUp(u) \/ TokenExpires(u), Witnessed
      PROVE  PasswordInv'
  BY <1>8 DEF SocialSignUp, TokenExpires, Witnessed
<1>9. CASE UNCHANGED passwordVars
  BY <1>9 DEF passwordVars
<1>. QED
  BY <1>1, <1>2, <1>3, <1>4, <1>5, <1>6, <1>7, <1>8, <1>9
  DEF PasswordNext, Attempt

\* What has been witnessed stays so while an attempt is under way, and whatever
\* is right in the next state is witnessed there.
LEMMA WitnessGrows ==
    ASSUME NEW a \in Attempts, Witnessed, stage[a]' # "idle"
    PROVE  /\ a \in entitled => a \in entitled'
           /\ Right(a)' => a \in entitled'
BY DEF Witnessed

\* So every attempt that goes on has had its right witnessed.
LEMMA RightsStep ==
    PasswordInv /\ RightsSeen /\ [PasswordNext]_passwordVars => RightsSeen'
<1>. SUFFICES ASSUME PasswordInv, RightsSeen, [PasswordNext]_passwordVars
              PROVE  RightsSeen'
  OBVIOUS
<1>. USE DEF PasswordInv, PasswordTypeOK
<1>1. CASE UNCHANGED passwordVars
  BY <1>1 DEF passwordVars, RightsSeen, Right
<1>2. CASE PasswordNext
  <2>. SUFFICES ASSUME NEW b \in Attempts, stage[b]' # "idle",
                       \/ way[b]' \in {"ask", "reset"}
                       \/ stage[b]' \in {"right", "policy", "commit", "send",
                                        "let_in", "done"}
                PROVE  b \in entitled'
    BY <1>2, WitnessGrows DEF RightsSeen, PasswordNext
  <2>0. /\ b \in entitled => b \in entitled'
        /\ Right(b)' => b \in entitled'
    BY <1>2, WitnessGrows DEF PasswordNext
  <2>. USE DEF RightsSeen, accountVars, attemptVars
  <2>1. ASSUME NEW a \in Attempts, Arrivals(a)
        PROVE  b \in entitled'
    <3>1. CASE b = a
      <4>1. /\ stage[b]' = "row"
            /\ way[b]' = "ask" \/ (way[b]' = "reset" /\ whose[b]' \in mailed')
        BY <2>1, <3>1
        DEF Arrivals, Arrive, LoginArrives, AskArrives, RegisterArrives,
            ResetArrives, SetArrives, ChangeArrives
      <4>. QED
        BY <2>0, <4>1 DEF Right
    <3>2. CASE b # a
      <4>1. stage[b]' = stage[b] /\ way[b]' = way[b]
        BY <2>1, <3>2
        DEF Arrivals, Arrive, LoginArrives, AskArrives, RegisterArrives,
            ResetArrives, SetArrives, ChangeArrives
      <4>. QED
        BY <2>0, <4>1
    <3>. QED
      BY <3>1, <3>2
  <2>2. ASSUME NEW a \in Attempts, LoginReads(a)
        PROVE  b \in entitled'
    BY <2>0, <2>2 DEF LoginReads, Compare, Answer, At, Right, AttemptsOK
  <2>3. ASSUME NEW a \in Attempts, LoginWrong(a) \/ LoginRight(a)
        PROVE  b \in entitled'
    BY <2>0, <2>3 DEF LoginWrong, LoginRight, Answer, At
  <2>4. ASSUME NEW a \in Attempts, AskReads(a) \/ AskSends(a)
        PROVE  b \in entitled'
    BY <2>0, <2>4 DEF AskReads, AskSends, Answer, On, At
  <2>5. ASSUME NEW a \in Attempts, SetterReads(a)
        PROVE  b \in entitled'
    <3>1. May(a) => Right(a) \/ way[a] = "reset"
      BY <2>5 DEF SetterReads, May, Right
    <3>. QED
      BY <2>0, <2>5, <3>1 DEF SetterReads, OnIf, Answer, On
  <2>6. ASSUME NEW a \in Attempts,
               Policy(a) \/ RegisterCommits(a) \/ SetterCommits(a)
        PROVE  b \in entitled'
    BY <2>0, <2>6 DEF Policy, RegisterCommits, SetterCommits, Answer, On, At
  <2>7. ASSUME NEW a \in Attempts, Answered(a) \/ Dies(a)
        PROVE  b \in entitled'
    BY <2>0, <2>7 DEF Answered, Dies, Departs
  <2>8. ASSUME NEW u \in Holders, SocialSignUp(u) \/ TokenExpires(u)
        PROVE  b \in entitled'
    BY <2>0, <2>8 DEF SocialSignUp, TokenExpires
  <2>. QED
    BY <1>2, <2>1, <2>2, <2>3, <2>4, <2>5, <2>6, <2>7, <2>8
    DEF PasswordNext, Attempt
<1>. QED
  BY <1>1, <1>2

\* Every variable of PasswordLogin keeps its type; the counter of failures never
\* passes the limit, whatever overlaps.
THEOREM PasswordTypeCorrect == PasswordSpec => []PasswordTypeOK
<1>1. PasswordInv => PasswordTypeOK
  BY DEF PasswordInv
<1>. QED
  BY <1>1, PasswordInitInv, PasswordStep, PTL DEF PasswordSpec

\* Nobody is let in, or sets a password, whose right was never there while the
\* request was under way.
THEOREM RightsAreHeld == PasswordSpec => []CredentialsHeld
<1>1. RightsSeen => CredentialsHeld
  BY DEF RightsSeen, CredentialsHeld
<1>. QED
  BY <1>1, PasswordInitInv, PasswordStep, RightsStep, PTL DEF PasswordSpec

\* A complete lock is kept by every step: only a login past the lock writes the
\* counter, and with the counter full no other comes past it.
LEMMA LockStep ==
    ASSUME PasswordInv, [PasswordNext]_passwordVars,
           NEW u \in Holders, Locked(u)
    PROVE  Locked(u)'
<1>. USE DEF PasswordInv, PasswordTypeOK, Locked, At, Limit, accountVars,
             attemptVars
<1>1. CASE UNCHANGED passwordVars
  BY <1>1 DEF passwordVars
<1>2. ASSUME NEW a \in Attempts, Arrivals(a)
      PROVE  Locked(u)'
  BY <1>2 DEF Arrivals, Arrive, LoginArrives, AskArrives, RegisterArrives,
     ResetArrives, SetArrives, ChangeArrives
<1>3. ASSUME NEW a \in Attempts, LoginReads(a)
      PROVE  Locked(u)'
  BY <1>3 DEF LoginReads, Compare, Answer
<1>4. ASSUME NEW a \in Attempts, LoginWrong(a) \/ LoginRight(a)
      PROVE  Locked(u)'
  BY <1>4 DEF LoginWrong, LoginRight, Answer
<1>5. ASSUME NEW a \in Attempts,
             AskReads(a) \/ AskSends(a) \/ SetterReads(a) \/ Policy(a)
      PROVE  Locked(u)'
  BY <1>5 DEF AskReads, AskSends, SetterReads, Policy, OnIf, On, Answer
<1>6. ASSUME NEW a \in Attempts, RegisterCommits(a) \/ SetterCommits(a)
      PROVE  Locked(u)'
  BY <1>6 DEF RegisterCommits, SetterCommits, Answer
<1>7. ASSUME NEW a \in Attempts, Answered(a) \/ Dies(a)
      PROVE  Locked(u)'
  BY <1>7 DEF Answered, Dies, Departs
<1>8. ASSUME NEW v \in Holders, SocialSignUp(v) \/ TokenExpires(v)
      PROVE  Locked(u)'
  BY <1>8 DEF SocialSignUp, TokenExpires
<1>. QED
  BY <1>1, <1>2, <1>3, <1>4, <1>5, <1>6, <1>7, <1>8 DEF PasswordNext, Attempt

\* A lockout with nothing in flight past it is final, for any number of attempts,
\* addresses and passwords.
THEOREM LockIsFinal == PasswordSpec => LockHolds
<1>1. PasswordInv /\ [PasswordNext]_passwordVars =>
        [\A u \in Holders : Locked(u) => Locked(u)']_passwordVars
  BY LockStep
<1>. QED
  BY <1>1, PasswordInitInv, PasswordStep, PTL DEF PasswordSpec, LockHolds

-----------------------------------------------------------------------------
(***************************************************************************)
(* How many guesses overlapping attempts have                              *)
(*                                                                         *)
(* An attempt can answer a guess at level s, that is, commit s + 1 over    *)
(* whatever the counter has become, only if it read s while the counter    *)
(* was there.  An attempt that is beyond level s has no such COMMIT to     *)
(* come and finds the counter above s, so one of those that are not must   *)
(* take the counter back first, and in doing so gets beyond s itself.      *)
(***************************************************************************)

\* Rising products: k! times the number of ways to choose k of x + k - 1.
Rise2(x) == x * (x + 1)
Rise3(x) == Rise2(x) * (x + 2)
Rise4(x) == Rise3(x) * (x + 3)
Rise5(x) == Rise4(x) * (x + 4)

\* Products grow with their factors.
LEMMA Times ==
    ASSUME NEW x \in Nat, NEW y \in Nat, NEW v \in Nat, NEW w \in Nat,
           x <= y, v <= w
    PROVE  x * v \in Nat /\ x * v <= y * w
<1>1. PICK d \in Nat : y = x + d
  <2>1. y - x \in Nat /\ y = x + (y - x)
    OBVIOUS
  <2>. QED
    BY <2>1
<1>2. PICK e \in Nat : w = v + e
  <2>1. w - v \in Nat /\ w = v + (w - v)
    OBVIOUS
  <2>. QED
    BY <2>1
<1>3. \A m, n \in Nat : m * n \in Nat
  OBVIOUS
<1>4. y * w = x * v + (x * e + d * v + d * e)
  BY <1>1, <1>2
<1>5. x * v \in Nat /\ x * e \in Nat /\ d * v \in Nat /\ d * e \in Nat
  BY <1>1, <1>2, <1>3
<1>. QED
  BY <1>4, <1>5

LEMMA RisingTypes ==
    ASSUME NEW x \in Nat
    PROVE  Rise2(x) \in Nat /\ Rise3(x) \in Nat /\ Rise4(x) \in Nat /\ Rise5(x) \in Nat
<1>1. Rise2(x) \in Nat
  BY DEF Rise2
<1>2. Rise3(x) \in Nat
  BY <1>1 DEF Rise3
<1>3. Rise4(x) \in Nat
  BY <1>2 DEF Rise4
<1>4. Rise5(x) \in Nat
  BY <1>3 DEF Rise5
<1>. QED
  BY <1>1, <1>2, <1>3, <1>4

LEMMA RisingMonotone ==
    ASSUME NEW x \in Nat, NEW y \in Nat, x <= y
    PROVE  Rise2(x) <= Rise2(y) /\ Rise3(x) <= Rise3(y) /\ Rise4(x) <= Rise4(y) /\ Rise5(x) <= Rise5(y)
<1>0. /\ x + 1 \in Nat /\ x + 2 \in Nat /\ x + 3 \in Nat /\ x + 4 \in Nat
      /\ y + 1 \in Nat /\ y + 2 \in Nat /\ y + 3 \in Nat /\ y + 4 \in Nat
      /\ x + 1 <= y + 1 /\ x + 2 <= y + 2 /\ x + 3 <= y + 3 /\ x + 4 <= y + 4
  OBVIOUS
<1>1. Rise2(x) <= Rise2(y)
  BY <1>0, Times DEF Rise2
<1>2. Rise3(x) <= Rise3(y)
  BY <1>0, <1>1, RisingTypes, Times DEF Rise3
<1>3. Rise4(x) <= Rise4(y)
  BY <1>0, <1>2, RisingTypes, Times DEF Rise4
<1>4. Rise5(x) <= Rise5(y)
  BY <1>0, <1>3, RisingTypes, Times DEF Rise5
<1>. QED
  BY <1>1, <1>2, <1>3, <1>4

LEMMA RisingNext ==
    ASSUME NEW x \in Nat
    PROVE  /\ Rise2(x + 1) = Rise2(x) + 2 * (x + 1)
           /\ Rise3(x + 1) = Rise3(x) + 3 * Rise2(x + 1)
           /\ Rise4(x + 1) = Rise4(x) + 4 * Rise3(x + 1)
           /\ Rise5(x + 1) = Rise5(x) + 5 * Rise4(x + 1)
<1>1. Rise2(x + 1) = Rise2(x) + 2 * (x + 1)
  BY DEF Rise2
<1>2. Rise3(x + 1) = Rise3(x) + 3 * Rise2(x + 1)
  BY DEF Rise2, Rise3
<1>3. Rise4(x + 1) = Rise4(x) + 4 * Rise3(x + 1)
  BY DEF Rise2, Rise3, Rise4
<1>4. Rise5(x + 1) = Rise5(x) + 5 * Rise4(x + 1)
  BY DEF Rise2, Rise3, Rise4, Rise5
<1>. QED
  BY <1>1, <1>2, <1>3, <1>4

\* 120 times the most guesses there can have been, when m[s] of the attempts are
\* beyond each level s.
Spent(m) == Rise5(m[0]) + 5 * Rise4(m[1]) + 20 * Rise3(m[2]) + 60 * Rise2(m[3]) + 120 * m[4]

LEMMA SpentType == ASSUME NEW m \in [0..4 -> Nat] PROVE Spent(m) \in Nat
<1>1. m[0] \in Nat /\ m[1] \in Nat /\ m[2] \in Nat /\ m[3] \in Nat /\ m[4] \in Nat
  OBVIOUS
<1>. QED
  BY <1>1, RisingTypes DEF Spent

LEMMA SpentMonotone ==
    ASSUME NEW m \in [0..4 -> Nat], NEW n \in [0..4 -> Nat],
           \A s \in 0..4 : m[s] <= n[s]
    PROVE  Spent(m) <= Spent(n)
<1>1. /\ m[0] \in Nat /\ m[1] \in Nat /\ m[2] \in Nat /\ m[3] \in Nat /\ m[4] \in Nat
      /\ n[0] \in Nat /\ n[1] \in Nat /\ n[2] \in Nat /\ n[3] \in Nat /\ n[4] \in Nat
      /\ m[0] <= n[0] /\ m[1] <= n[1] /\ m[2] <= n[2] /\ m[3] <= n[3] /\ m[4] <= n[4]
  OBVIOUS
<1>2. Rise5(m[0]) <= Rise5(n[0]) /\ Rise4(m[1]) <= Rise4(n[1]) /\ Rise3(m[2]) <= Rise3(n[2])
      /\ Rise2(m[3]) <= Rise2(n[3])
  BY <1>1, RisingMonotone
<1>. QED
  BY <1>1, <1>2, RisingTypes DEF Spent

\* What one more attempt adds to each of the terms.
LEMMA RisingSteps ==
    ASSUME NEW x \in Nat
    PROVE  /\ Rise2(x + 1) = Rise2(x) + 2 * x + 2
           /\ Rise3(x + 1) = Rise3(x) + 3 * Rise2(x) + 6 * x + 6
           /\ Rise4(x + 1) = Rise4(x) + 4 * Rise3(x) + 12 * Rise2(x) + 24 * x + 24
           /\ Rise5(x + 1) = Rise5(x) + 5 * Rise4(x) + 20 * Rise3(x) + 60 * Rise2(x)
                              + 120 * x + 120
<1>1. x + 1 \in Nat
  OBVIOUS
<1>2. /\ Rise2(x) \in Nat /\ Rise3(x) \in Nat /\ Rise4(x) \in Nat /\ Rise5(x) \in Nat
      /\ Rise2(x + 1) \in Nat /\ Rise3(x + 1) \in Nat
      /\ Rise4(x + 1) \in Nat /\ Rise5(x + 1) \in Nat
  BY <1>1, RisingTypes
<1>3. Rise2(x + 1) = Rise2(x) + 2 * x + 2
  BY <1>2, RisingNext
<1>4. Rise3(x + 1) = Rise3(x) + 3 * Rise2(x) + 6 * x + 6
  BY <1>2, <1>3, RisingNext
<1>5. Rise4(x + 1) = Rise4(x) + 4 * Rise3(x) + 12 * Rise2(x) + 24 * x + 24
  BY <1>2, <1>4, RisingNext
<1>6. Rise5(x + 1) = Rise5(x) + 5 * Rise4(x) + 20 * Rise3(x) + 60 * Rise2(x) + 120 * x + 120
  BY <1>2, <1>5, RisingNext
<1>. QED
  BY <1>3, <1>4, <1>5, <1>6

\* A guess at level s is paid for by one attempt more there, and by all those that
\* the levels above lose.
LEMMA SpentWrong ==
    ASSUME NEW m \in [0..4 -> Nat], NEW n \in [0..4 -> Nat], NEW s \in 0..4,
           \A t \in 0..4 : t < s => m[t] <= n[t],
           m[s] + 1 <= n[s],
           \A t \in 0..4 : t > s => m[t] <= m[s]
    PROVE  Spent(m) + 120 <= Spent(n)
<1>1. /\ m[0] \in Nat /\ m[1] \in Nat /\ m[2] \in Nat /\ m[3] \in Nat /\ m[4] \in Nat
      /\ n[0] \in Nat /\ n[1] \in Nat /\ n[2] \in Nat /\ n[3] \in Nat /\ n[4] \in Nat
      /\ m[s] + 1 \in Nat
  OBVIOUS
<1>2. \A x, y \in Nat : x <= y =>
         Rise2(x) <= Rise2(y) /\ Rise3(x) <= Rise3(y) /\ Rise4(x) <= Rise4(y) /\ Rise5(x) <= Rise5(y)
  BY RisingMonotone
<1>3. /\ Rise5(m[0]) \in Nat /\ Rise4(m[1]) \in Nat /\ Rise3(m[2]) \in Nat /\ Rise2(m[3]) \in Nat
      /\ Rise5(n[0]) \in Nat /\ Rise4(n[1]) \in Nat /\ Rise3(n[2]) \in Nat /\ Rise2(n[3]) \in Nat
  BY <1>1, RisingTypes
<1>4. /\ Rise2(m[s]) \in Nat /\ Rise3(m[s]) \in Nat /\ Rise4(m[s]) \in Nat /\ Rise5(m[s]) \in Nat
  BY <1>1, RisingTypes
<1>5. CASE s = 0
  <2>1. /\ Rise5(m[s] + 1) <= Rise5(n[0]) /\ Rise4(m[1]) <= Rise4(m[s])
        /\ Rise3(m[2]) <= Rise3(m[s]) /\ Rise2(m[3]) <= Rise2(m[s])
        /\ m[4] <= m[s]
    BY <1>1, <1>2, <1>5
  <2>2. Rise5(m[s] + 1) = Rise5(m[s]) + 5 * Rise4(m[s]) + 20 * Rise3(m[s]) + 60 * Rise2(m[s])
                           + 120 * m[s] + 120
    BY <1>1, RisingSteps
  <2>. QED
    BY <1>1, <1>3, <1>4, <1>5, <2>1, <2>2 DEF Spent
<1>6. CASE s = 1
  <2>1. /\ Rise5(m[0]) <= Rise5(n[0]) /\ Rise4(m[s] + 1) <= Rise4(n[1])
        /\ Rise3(m[2]) <= Rise3(m[s]) /\ Rise2(m[3]) <= Rise2(m[s])
        /\ m[4] <= m[s]
    BY <1>1, <1>2, <1>6
  <2>2. Rise4(m[s] + 1) = Rise4(m[s]) + 4 * Rise3(m[s]) + 12 * Rise2(m[s]) + 24 * m[s] + 24
    BY <1>1, RisingSteps
  <2>. QED
    BY <1>1, <1>3, <1>4, <1>6, <2>1, <2>2 DEF Spent
<1>7. CASE s = 2
  <2>1. /\ Rise5(m[0]) <= Rise5(n[0]) /\ Rise4(m[1]) <= Rise4(n[1])
        /\ Rise3(m[s] + 1) <= Rise3(n[2]) /\ Rise2(m[3]) <= Rise2(m[s])
        /\ m[4] <= m[s]
    BY <1>1, <1>2, <1>7
  <2>2. Rise3(m[s] + 1) = Rise3(m[s]) + 3 * Rise2(m[s]) + 6 * m[s] + 6
    BY <1>1, RisingSteps
  <2>. QED
    BY <1>1, <1>3, <1>4, <1>7, <2>1, <2>2 DEF Spent
<1>8. CASE s = 3
  <2>1. /\ Rise5(m[0]) <= Rise5(n[0]) /\ Rise4(m[1]) <= Rise4(n[1])
        /\ Rise3(m[2]) <= Rise3(n[2]) /\ Rise2(m[s] + 1) <= Rise2(n[3])
        /\ m[4] <= m[s]
    BY <1>1, <1>2, <1>8
  <2>2. Rise2(m[s] + 1) = Rise2(m[s]) + 2 * m[s] + 2
    BY <1>1, RisingSteps
  <2>. QED
    BY <1>1, <1>3, <1>4, <1>8, <2>1, <2>2 DEF Spent
<1>9. CASE s = 4
  <2>1. /\ Rise5(m[0]) <= Rise5(n[0]) /\ Rise4(m[1]) <= Rise4(n[1])
        /\ Rise3(m[2]) <= Rise3(n[2]) /\ Rise2(m[3]) <= Rise2(n[3])
        /\ m[4] + 1 <= n[4]
    BY <1>1, <1>2, <1>9
  <2>. QED
    BY <1>1, <1>3, <1>9, <2>1 DEF Spent
<1>. QED
  BY <1>5, <1>6, <1>7, <1>8, <1>9

\* The attempt is to commit s + 1 or less.
Behind(a, u, s) == At(a, "login", "wrong") /\ whose[a] = u /\ seen[a] <= s

Beyond(u, s) == {a \in Attempts : s < failed[u] /\ ~ Behind(a, u, s)}
Counts(u)    == [s \in 0..4 |-> Cardinality(Beyond(u, s))]

\* The guesses at an account are paid for.
WithinBudget == \A u \in Holders : 120 * guesses[u] <= Spent(Counts(u))

LEMMA CountsType ==
    ASSUME IsFiniteSet(Attempts), NEW u
    PROVE  /\ Counts(u) \in [0..4 -> Nat]
           /\ \A s \in 0..4 : /\ IsFiniteSet(Beyond(u, s))
                             /\ Counts(u)[s] = Cardinality(Beyond(u, s))
                             /\ Counts(u)[s] <= Cardinality(Attempts)
<1>1. ASSUME NEW s \in 0..4
      PROVE  /\ IsFiniteSet(Beyond(u, s)) /\ Cardinality(Beyond(u, s)) \in Nat
             /\ Cardinality(Beyond(u, s)) <= Cardinality(Attempts)
  <2>1. Beyond(u, s) \in SUBSET Attempts
    BY DEF Beyond
  <2>. QED
    BY <2>1, FS_Subset, FS_CardinalityType
<1>. QED
  BY <1>1 DEF Counts

\* A step that answers no guess and lets no attempt fall behind keeps within it.
LEMMA BudgetKept ==
    ASSUME IsFiniteSet(Attempts), NEW u \in Holders, WithinBudget,
           guesses'[u] = guesses[u], guesses[u] \in Nat,
           \A s \in 0..4 : Beyond(u, s) \subseteq Beyond(u, s)'
    PROVE  120 * guesses'[u] <= Spent(Counts(u))'
<1>1. \A s \in 0..4 : Beyond(u, s)' \in SUBSET Attempts
  BY DEF Beyond
<1>2. /\ Counts(u)' \in [0..4 -> Nat]
      /\ \A s \in 0..4 : /\ IsFiniteSet(Beyond(u, s)')
                        /\ Counts(u)'[s] = Cardinality(Beyond(u, s)')
  BY <1>1, FS_Subset, FS_CardinalityType DEF Counts
<1>3. \A s \in 0..4 : Counts(u)[s] <= Counts(u)'[s]
  BY <1>2, CountsType, FS_Subset
<1>4. Spent(Counts(u)) <= Spent(Counts(u)')
  BY <1>2, <1>3, CountsType, SpentMonotone
<1>5. Spent(Counts(u)) \in Nat /\ Spent(Counts(u)') \in Nat
  BY <1>2, CountsType, SpentType
<1>6. 120 * guesses[u] <= Spent(Counts(u))
  BY DEF WithinBudget
<1>7. Spent(Counts(u))' = Spent(Counts(u)')
  BY DEF Spent
<1>. QED
  BY <1>4, <1>5, <1>6, <1>7

\* The COMMIT of a failed attempt at level s is paid for.
LEMMA BudgetWrong ==
    ASSUME IsFiniteSet(Attempts), PasswordInv, WithinBudget,
           NEW a \in Attempts, LoginWrong(a),
           NEW u \in Holders, u = whose[a], NEW s \in 0..4, s = seen[a]
    PROVE  120 * guesses'[u] <= Spent(Counts(u))'
<1>. USE DEF PasswordInv, PasswordTypeOK, AttemptsOK, Limit
<1>1. /\ failed'[u] = s + 1 /\ guesses'[u] = guesses[u] + 1 /\ guesses[u] \in Nat
      /\ Behind(a, u, s) /\ stage'[a] # "wrong"
      /\ \A b \in Attempts : b # a => /\ stage'[b] = stage[b] /\ way'[b] = way[b]
                                      /\ whose'[b] = whose[b] /\ seen'[b] = seen[b]
  BY DEF LoginWrong, Answer, At, Behind
<1>2. \A t \in 0..4 : Beyond(u, t)' \in SUBSET Attempts
  BY DEF Beyond
<1>3. /\ Counts(u)' \in [0..4 -> Nat]
      /\ \A t \in 0..4 : /\ IsFiniteSet(Beyond(u, t)')
                        /\ Counts(u)'[t] = Cardinality(Beyond(u, t)')
  BY <1>2, FS_Subset, FS_CardinalityType DEF Counts
<1>4. ASSUME NEW t \in 0..4, t < s
      PROVE  Counts(u)[t] <= Counts(u)'[t]
  <2>1. Beyond(u, t) \subseteq Beyond(u, t)'
    BY <1>1, <1>4 DEF Beyond, Behind, At
  <2>. QED
    BY <1>3, <2>1, CountsType, FS_Subset
<1>5. Counts(u)[s] + 1 <= Counts(u)'[s]
  <2>1. a \notin Beyond(u, s)
    BY <1>1 DEF Beyond
  <2>2. Beyond(u, s) \cup {a} \subseteq Beyond(u, s)'
    BY <1>1 DEF Beyond, Behind, At
  <2>3. /\ IsFiniteSet(Beyond(u, s) \cup {a})
        /\ Cardinality(Beyond(u, s) \cup {a}) = Cardinality(Beyond(u, s)) + 1
    BY <1>1, <2>1, CountsType, FS_AddElement
  <2>4. Cardinality(Beyond(u, s) \cup {a}) <= Cardinality(Beyond(u, s)')
    BY <1>1, <1>3, <2>2, FS_Subset
  <2>. QED
    BY <1>1, <1>3, <2>3, <2>4, CountsType
<1>6. ASSUME NEW t \in 0..4, t > s
      PROVE  Counts(u)[t] <= Counts(u)[s]
  <2>1. Beyond(u, t) \subseteq Beyond(u, s)
    BY <1>1, <1>6 DEF Beyond, Behind
  <2>. QED
    BY <1>1, <2>1, CountsType, FS_Subset
<1>7. Spent(Counts(u)) + 120 <= Spent(Counts(u)')
  BY <1>1, <1>3, <1>4, <1>5, <1>6, CountsType, SpentWrong
<1>8. Spent(Counts(u)) \in Nat /\ Spent(Counts(u)') \in Nat
  BY <1>3, CountsType, SpentType
<1>9. 120 * guesses[u] <= Spent(Counts(u))
  BY <1>1 DEF WithinBudget
<1>10. 120 * guesses'[u] <= Spent(Counts(u)')
  BY <1>1, <1>7, <1>8, <1>9
<1>. QED
  BY <1>10 DEF Spent

\* Every step keeps within the budget.
LEMMA BudgetStep ==
    ASSUME IsFiniteSet(Attempts), PasswordInv, WithinBudget,
           [PasswordNext]_passwordVars
    PROVE  WithinBudget'
<1>. SUFFICES ASSUME NEW u \in Holders
              PROVE  120 * guesses'[u] <= Spent(Counts(u))'
  BY DEF WithinBudget
<1>. USE DEF PasswordInv, PasswordTypeOK, AttemptsOK, Limit, accountVars,
             attemptVars
<1>1. guesses[u] \in Nat /\ failed[u] \in 0..5
  OBVIOUS
<1>2. ASSUME guesses'[u] = guesses[u], failed'[u] = failed[u],
             \A b \in Attempts :
                 stage'[b] = "wrong" /\ way'[b] = "login" =>
                    \/ /\ stage[b] = "wrong" /\ way[b] = "login"
                       /\ whose'[b] = whose[b] /\ seen'[b] = seen[b]
                    \/ whose'[b] # u \/ seen'[b] = failed[u]
      PROVE  120 * guesses'[u] <= Spent(Counts(u))'
  <2>1. \A s \in 0..4 : Beyond(u, s) \subseteq Beyond(u, s)'
    BY <1>1, <1>2 DEF Beyond, Behind, At
  <2>. QED
    BY <1>1, <1>2, <2>1, BudgetKept
<1>3. CASE UNCHANGED passwordVars
  BY <1>2, <1>3 DEF passwordVars
<1>4. ASSUME NEW a \in Attempts, LoginReads(a)
      PROVE  120 * guesses'[u] <= Spent(Counts(u))'
  BY <1>2, <1>4 DEF LoginReads, Compare, Answer, At
<1>5. ASSUME NEW a \in Attempts, LoginWrong(a)
      PROVE  120 * guesses'[u] <= Spent(Counts(u))'
  <2>1. CASE whose[a] = u
    <3>1. seen[a] \in 0..4
      BY <1>5 DEF LoginWrong, At
    <3>. QED
      BY <1>5, <2>1, <3>1, BudgetWrong
  <2>2. CASE whose[a] # u
    BY <1>2, <1>5, <2>2 DEF LoginWrong, Answer, At
  <2>. QED
    BY <2>1, <2>2
<1>6. ASSUME NEW a \in Attempts, LoginRight(a)
      PROVE  120 * guesses'[u] <= Spent(Counts(u))'
  <2>1. CASE whose[a] = u
    <3>1. guesses'[u] = 0
      BY <1>6, <2>1 DEF LoginRight
    <3>2. \A s \in 0..4 : Beyond(u, s)' \in SUBSET Attempts
      BY DEF Beyond
    <3>3. Counts(u)' \in [0..4 -> Nat]
      BY <3>2, FS_Subset, FS_CardinalityType DEF Counts
    <3>4. Spent(Counts(u)') \in Nat
      BY <3>3, SpentType
    <3>. QED
      BY <3>1, <3>4 DEF Spent
  <2>2. CASE whose[a] # u
    BY <1>2, <1>6, <2>2 DEF LoginRight, Answer, At
  <2>. QED
    BY <2>1, <2>2
<1>7. ASSUME NEW a \in Attempts,
             \/ Arrivals(a) \/ AskReads(a) \/ AskSends(a) \/ SetterReads(a)
             \/ Policy(a) \/ RegisterCommits(a) \/ SetterCommits(a)
      PROVE  120 * guesses'[u] <= Spent(Counts(u))'
  <2>1. guesses' = guesses /\ failed' = failed
    BY <1>7
    DEF Arrivals, Arrive, LoginArrives, AskArrives, RegisterArrives,
        ResetArrives, SetArrives, ChangeArrives, AskReads, AskSends,
        SetterReads, Policy, RegisterCommits, SetterCommits
  <2>2. \A b \in Attempts :
            stage'[b] = "wrong" =>
                /\ stage[b] = "wrong" /\ way'[b] = way[b]
                /\ whose'[b] = whose[b] /\ seen'[b] = seen[b]
    BY <1>7
    DEF Arrivals, Arrive, LoginArrives, AskArrives, RegisterArrives,
        ResetArrives, SetArrives, ChangeArrives, AskReads, AskSends,
        SetterReads, Policy, RegisterCommits, SetterCommits, OnIf, On, Answer, At
  <2>. QED
    BY <1>2, <2>1, <2>2
<1>8. ASSUME NEW a \in Attempts, Answered(a) \/ Dies(a)
      PROVE  120 * guesses'[u] <= Spent(Counts(u))'
  BY <1>2, <1>8 DEF Answered, Dies, Departs
<1>9. ASSUME NEW v \in Holders, SocialSignUp(v) \/ TokenExpires(v)
      PROVE  120 * guesses'[u] <= Spent(Counts(u))'
  BY <1>2, <1>9 DEF SocialSignUp, TokenExpires
<1>. QED
  BY <1>3, <1>4, <1>5, <1>6, <1>7, <1>8, <1>9 DEF PasswordNext, Attempt

\* What n attempts can pay for, with none of them in flight.
LEMMA SpentAtMost ==
    ASSUME NEW n \in Nat, NEW m \in [0..4 -> Nat], \A s \in 0..4 : m[s] <= n
    PROVE  Spent(m) + 120 <= (n + 1) * (n + 2) * (n + 3) * (n + 4) * (n + 5)
<1>. DEFINE all == [s \in 0..4 |-> n]
<1>1. all \in [0..4 -> Nat] /\ \A s \in 0..4 : m[s] <= all[s]
  OBVIOUS
<1>2. Spent(m) <= Spent(all)
  BY <1>1, SpentMonotone
<1>3. Spent(all) = Rise5(n) + 5 * Rise4(n) + 20 * Rise3(n) + 60 * Rise2(n) + 120 * n
  BY DEF Spent
<1>4. Spent(m) \in Nat /\ Spent(all) \in Nat
  BY <1>1, SpentType
<1>5. Spent(all) + 120 = Rise5(n + 1)
  BY <1>3, RisingSteps, RisingTypes
<1>6. Rise5(n + 1) = (n + 1) * (n + 2) * (n + 3) * (n + 4) * (n + 5)
  <2>1. (n + 1) + 1 = n + 2 /\ (n + 1) + 2 = n + 3 /\ (n + 1) + 3 = n + 4
        /\ (n + 1) + 4 = n + 5
    OBVIOUS
  <2>. QED
    BY <2>1 DEF Rise5, Rise4, Rise3, Rise2
<1>. QED
  BY <1>2, <1>4, <1>5, <1>6

\* With n requests at a time, POST /auth/login answers at most
\* (n + 5)! / (n! 5!) - 1 wrong passwords between two logins that are let in: 5
\* one at a time, 20 with two at a time, 55 with three, in whatever order they
\* read and commit and whichever of them die.
THEOREM GuessesBounded ==
    ASSUME IsFiniteSet(Attempts), NEW n \in Nat, n = Cardinality(Attempts),
           (n + 1) * (n + 2) * (n + 3) * (n + 4) * (n + 5) <= 120 * (MaxGuesses + 1)
    PROVE  PasswordSpec => []GuessesAreBounded
<1>1. PasswordInit => WithinBudget
  <2>. SUFFICES ASSUME PasswordInit, NEW u \in Holders
                PROVE  120 * guesses[u] <= Spent(Counts(u))
    BY DEF WithinBudget
  <2>1. guesses[u] = 0
    BY DEF PasswordInit
  <2>. QED
    BY <2>1, CountsType, SpentType
<1>2. PasswordInv /\ WithinBudget /\ [PasswordNext]_passwordVars => WithinBudget'
  BY BudgetStep
<1>3. PasswordInv /\ WithinBudget => GuessesAreBounded
  <2>. SUFFICES ASSUME PasswordInv, WithinBudget, NEW u \in Holders
                PROVE  guesses[u] <= MaxGuesses
    BY DEF GuessesAreBounded
  <2>1. guesses[u] \in Nat /\ MaxGuesses \in Nat
    BY PasswordLoginAssumption DEF PasswordInv, PasswordTypeOK
  <2>2. Spent(Counts(u)) + 120 <= (n + 1) * (n + 2) * (n + 3) * (n + 4) * (n + 5)
    BY CountsType, SpentAtMost
  <2>3. 120 * guesses[u] <= Spent(Counts(u)) /\ Spent(Counts(u)) \in Nat
    BY CountsType, SpentType DEF WithinBudget
  <2>. DEFINE top == (n + 1) * (n + 2) * (n + 3) * (n + 4) * (n + 5)
  <2>4. top \in Nat
    OBVIOUS
  <2>. HIDE DEF top
  <2>5. Spent(Counts(u)) + 120 <= top /\ top <= 120 * (MaxGuesses + 1)
    BY <2>2 DEF top
  <2>. QED
    BY <2>1, <2>3, <2>4, <2>5
<1>. QED
  BY <1>1, <1>2, <1>3, PasswordInitInv, PasswordStep, PTL DEF PasswordSpec

\* The bound of the run: two requests at a time have twenty.
THEOREM TwentyGuesses ==
    ASSUME NEW x, NEW y, x # y, Attempts = {x, y}, MaxGuesses >= 20
    PROVE  PasswordSpec => []GuessesAreBounded
<1>1. IsFiniteSet(Attempts) /\ Cardinality(Attempts) = 2
  <2>1. IsFiniteSet({x}) /\ Cardinality({x}) = 1
    BY FS_Singleton
  <2>2. Attempts = {x} \cup {y} /\ y \notin {x}
    OBVIOUS
  <2>. QED
    BY <2>1, <2>2, FS_AddElement
<1>2. (2 + 1) * (2 + 2) * (2 + 3) * (2 + 4) * (2 + 5) <= 120 * (MaxGuesses + 1)
  BY PasswordLoginAssumption
<1>. QED
  BY <1>1, <1>2, GuessesBounded

-----------------------------------------------------------------------------
(* The two together *)

\* A behaviour of the composition is one of each.
LEMMA EmailLoginsCompose == EmailSpec => Spec /\ PasswordSpec
<1>1. EmailInit => Init /\ PasswordInit
  BY DEF EmailInit, ClosedLinks
<1>2. [EmailNext]_<<opened, vars, passwordVars>> =>
        [Next]_vars /\ [PasswordNext]_passwordVars
  BY DEF EmailNext, Moves
<1>. QED
  BY <1>1, <1>2, PTL DEF EmailSpec, Spec, PasswordSpec

\* What is shown of each way holds of the two together.
THEOREM EmailLoginsCorrect ==
    EmailSpec => /\ SingleUse /\ []FailedSendIsDead /\ []RefusedForCause
                 /\ LockHolds /\ []CredentialsHeld
BY EmailLoginsCompose, LinksAreOneTime, FailedSendDead, Refusals, LockIsFinal,
   RightsAreHeld, PTL
=============================================================================
