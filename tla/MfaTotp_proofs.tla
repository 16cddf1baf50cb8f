--------------------------- MODULE MfaTotp_proofs ---------------------------
(***************************************************************************)
(* What MfaTotp guarantees for every set of accounts, secrets, suspended   *)
(* logins and requests.                                                    *)
(*                                                                         *)
(* The argument for the second factor: a handler that has passed its check *)
(* of the row is in "fit" until it grants (Checked).  For enrollment: a    *)
(* handler about to enable the factor has confirmed the secret of the row, *)
(* unless it was overtaken, and from its UPDATE to its COMMIT the row lock *)
(* keeps others from overtaking it (ConfirmsTheRow).                       *)
(*                                                                         *)
(* For the suspended logins: one that is not shared is in the hand of one  *)
(* completion at most, which has not been paid (Alone), so each step is    *)
(* one of OneTimeGrant; one that is shared pays at most once for each      *)
(* request that has it in hand or had (HandsCount).                        *)
(***************************************************************************)
EXTENDS MfaTotp, FiniteSetTheorems, TLAPS

\* A request in progress has an account, and a Redis key where it uses one.
LocalsOK ==
    \A r \in Requests :
        /\ pc[r] # "idle" => user[r] \in Users
        /\ pc[r] \in {"login_setex", "complete_get", "complete_del",
                      "complete_row", "complete_session", "begin_get",
                      "confirm_get", "confirm_del", "confirm_session",
                      "confirm_commit"} => key[r] \in Keys

\* Who gives a code, and who gives none.
CodesOK ==
    \A r \in Requests :
        /\ pc[r] \in {"complete_get", "complete_del", "complete_row",
                      "complete_session", "confirm_get", "confirm_row",
                      "confirm_update", "confirm_del", "confirm_session",
                      "confirm_commit", "disable_row", "disable_update"}
             => code[r] # NoSecret
        /\ pc[r] \in {"login_row", "login_session"} => code[r] = NoSecret

\* A request about to be granted a session has passed its check of the row.
Checked ==
    \A r \in Requests :
        pc[r] \in {"login_session", "complete_session", "confirm_update",
                   "confirm_del", "confirm_session", "confirm_commit"}
          => r \in fit

IInv == TypeOK /\ LocalsOK /\ CodesOK /\ Checked /\ SecondFactor

\* From the UPDATE to the COMMIT of a resumed login its row is locked.
Locked ==
    \A r \in Requests :
        pc[r] \in {"confirm_del", "confirm_session", "confirm_commit"}
          => lock[user[r]] = r

\* A request about to enable the factor has confirmed the secret of the row,
\* unless it was overtaken.
ConfirmsTheRow ==
    \A r \in Requests :
        /\ pc[r] \in {"confirm_update", "confirm_del", "confirm_session",
                      "confirm_commit"}
        /\ user[r] \notin overtaken
        => /\ code[r] = secret[user[r]]
           /\ code[r] \in confirmed[user[r]]

ConfirmInv == Locked /\ ConfirmsTheRow /\ ConfirmedUnlessOvertaken

-----------------------------------------------------------------------------

\* The initial states satisfy the invariant.
LEMMA InitIInv == Init => IInv
BY MfaTotpAssumption
DEF Init, IInv, TypeOK, LocalsOK, CodesOK, Checked, SecondFactor

\* The key of a user, of either kind.
LEMMA KeyOK == \A u \in Users : <<"pending", u>> \in Keys /\ <<"enroll", u>> \in Keys
BY DEF Keys, Kinds

\* What the witness of a step records: a request in progress that fits keeps
\* fitting, and one that the step leaves fitting is recorded.
LEMMA WitnessOK ==
    ASSUME Witness
    PROVE  /\ fit' \subseteq Requests
           /\ \A r \in Requests : pc'[r] # "idle" =>
                /\ r \in fit => r \in fit'
                /\ code'[r] = NoSecret /\ ~ enabled'[user'[r]] => r \in fit'
                /\ code'[r] # NoSecret /\ code'[r] = secret'[user'[r]]
                     => r \in fit'
BY DEF Witness

\* Counting one more session keeps the counter's type.
LEMMA OneMore ==
    ASSUME NEW f \in [Logins -> Nat], NEW l
    PROVE  [f EXCEPT ![l] = @ + 1] \in [Logins -> Nat]
<1>1. CASE l \in Logins
  BY <1>1
<1>2. CASE l \notin Logins
  <2>1. \A x \in Logins : [f EXCEPT ![l] = @ + 1][x] = f[x]
    BY <1>2
  <2>2. QED
    BY <2>1
<1>3. QED
  BY <1>1, <1>2

\* The steps of a login keep the invariant.
LEMMA LoginIInv ==
    ASSUME IInv, Witness, NEW r \in Requests,
           \/ \E u \in Users : LoginArrive(r, u)
           \/ LoginRow(r) \/ LoginSetex(r) \/ LoginSession(r)
    PROVE  IInv'
<1> USE MfaTotpAssumption, KeyOK, WitnessOK
        DEF IInv, TypeOK, LocalsOK, CodesOK, Checked, SecondFactor, Go, Awaits,
            Replies, rowVars, slotVars, localVars, history
<1>1. ASSUME NEW u \in Users, LoginArrive(r, u)
      PROVE  IInv'
  BY <1>1 DEF LoginArrive, Arrive
<1>2. CASE LoginRow(r)
  BY <1>2 DEF LoginRow
<1>3. CASE LoginSetex(r)
  BY <1>3 DEF LoginSetex, Drawn
<1>4. CASE LoginSession(r)
  BY <1>4 DEF LoginSession
<1>5. QED
  BY <1>1, <1>2, <1>3, <1>4

\* The steps of completing a suspended login keep it.
LEMMA CompleteIInv ==
    ASSUME IInv, Witness, NEW r \in Requests,
           \/ \E u \in Users, c \in Secrets : CompleteArrive(r, u, c)
           \/ CompleteGet(r) \/ CompleteDel(r) \/ CompleteRow(r)
           \/ CompleteSession(r)
    PROVE  IInv'
<1> USE MfaTotpAssumption, KeyOK, WitnessOK
        DEF IInv, TypeOK, LocalsOK, CodesOK, Checked, SecondFactor, Go, Awaits,
            Replies, rowVars, slotVars, localVars, history
<1>1. ASSUME NEW u \in Users, NEW c \in Secrets, CompleteArrive(r, u, c)
      PROVE  IInv'
  BY <1>1 DEF CompleteArrive, Arrive
<1>2. CASE CompleteGet(r)
  BY <1>2 DEF CompleteGet, Get, Rival, Paying
<1>3. CASE CompleteDel(r)
  BY <1>3 DEF CompleteDel, Del
<1>4. CASE CompleteRow(r)
  BY <1>4 DEF CompleteRow, Verifies
<1>5. CASE CompleteSession(r)
  <2>1. paid' \in [Logins -> Nat]
    BY <1>5, OneMore DEF CompleteSession
  <2>2. TypeOK'
    BY <1>5, <2>1 DEF CompleteSession
  <2>3. (LocalsOK /\ CodesOK /\ Checked /\ SecondFactor)'
    BY <1>5 DEF CompleteSession
  <2>4. QED
    BY <2>2, <2>3
<1>6. QED
  BY <1>1, <1>2, <1>3, <1>4, <1>5

\* The steps of beginning an enrollment and of disabling the factor keep it.
LEMMA BeginDisableIInv ==
    ASSUME IInv, Witness, NEW r \in Requests,
           \/ \E u \in Users : BeginArrive(r, u)
           \/ BeginGet(r) \/ BeginRow(r) \/ BeginUpdate(r)
           \/ \E u \in Users, c \in Secrets : DisableArrive(r, u, c)
           \/ DisableRow(r) \/ DisableUpdate(r)
    PROVE  IInv'
<1> USE MfaTotpAssumption, KeyOK, WitnessOK
        DEF IInv, TypeOK, LocalsOK, CodesOK, Checked, SecondFactor, Go, Awaits,
            Replies, rowVars, slotVars, localVars, history
<1>1. ASSUME NEW u \in Users, BeginArrive(r, u)
      PROVE  IInv'
  <2>1. CASE Arrive(r, u, NoKey, NoSecret, "begin_row")
    BY <2>1 DEF Arrive
  <2>2. CASE Arrive(r, u, <<"enroll", u>>, NoSecret, "begin_get")
    BY <2>2 DEF Arrive
  <2>3. QED
    BY <1>1, <2>1, <2>2 DEF BeginArrive
<1>2. CASE BeginGet(r)
  BY <1>2 DEF BeginGet, Get
<1>3. CASE BeginRow(r)
  BY <1>3 DEF BeginRow
<1>4. CASE BeginUpdate(r)
  BY <1>4 DEF BeginUpdate, Overtake
<1>5. ASSUME NEW u \in Users, NEW c \in Secrets, DisableArrive(r, u, c)
      PROVE  IInv'
  BY <1>5 DEF DisableArrive, Arrive
<1>6. CASE DisableRow(r)
  BY <1>6 DEF DisableRow
<1>7. CASE DisableUpdate(r)
  BY <1>7 DEF DisableUpdate, Overtake
<1>8. QED
  BY <1>1, <1>2, <1>3, <1>4, <1>5, <1>6, <1>7

\* The steps of confirming an enrollment keep it.
LEMMA ConfirmIInv ==
    ASSUME IInv, Witness, NEW r \in Requests,
           \/ \E u \in Users, c \in Secrets : ConfirmArrive(r, u, c)
           \/ ConfirmGet(r) \/ ConfirmRow(r) \/ ConfirmUpdate(r)
           \/ ConfirmDel(r) \/ ConfirmSession(r) \/ ConfirmCommit(r)
    PROVE  IInv'
<1> USE MfaTotpAssumption, KeyOK, WitnessOK
        DEF IInv, TypeOK, LocalsOK, CodesOK, Checked, SecondFactor, Go, Awaits,
            Replies, rowVars, slotVars, localVars, history
<1>1. ASSUME NEW u \in Users, NEW c \in Secrets, ConfirmArrive(r, u, c)
      PROVE  IInv'
  <2>1. CASE Arrive(r, u, NoKey, c, "confirm_row")
    BY <2>1 DEF Arrive
  <2>2. CASE Arrive(r, u, <<"enroll", u>>, c, "confirm_get")
    BY <2>2 DEF Arrive
  <2>3. QED
    BY <1>1, <2>1, <2>2 DEF ConfirmArrive
<1>2. CASE ConfirmGet(r)
  BY <1>2 DEF ConfirmGet, Get
<1>3. CASE ConfirmRow(r)
  BY <1>3 DEF ConfirmRow, Verifies
<1>4. CASE ConfirmUpdate(r)
  <2>1. CASE key[r] = NoKey
    <3>1. TypeOK'
      BY <1>4, <2>1 DEF ConfirmUpdate
    <3>2. (LocalsOK /\ CodesOK)'
      BY <1>4, <2>1 DEF ConfirmUpdate
    <3>3. (Checked /\ SecondFactor)'
      BY <1>4, <2>1 DEF ConfirmUpdate
    <3>4. QED
      BY <3>1, <3>2, <3>3
  <2>2. CASE key[r] # NoKey
    <3>1. TypeOK'
      BY <1>4, <2>2 DEF ConfirmUpdate
    <3>2. (LocalsOK /\ CodesOK)'
      BY <1>4, <2>2 DEF ConfirmUpdate
    <3>3. (Checked /\ SecondFactor)'
      BY <1>4, <2>2 DEF ConfirmUpdate
    <3>4. QED
      BY <3>1, <3>2, <3>3
  <2>3. QED
    BY <2>1, <2>2
<1>5. CASE ConfirmDel(r)
  BY <1>5 DEF ConfirmDel, Del
<1>6. CASE ConfirmSession(r)
  <2>1. paid' \in [Logins -> Nat]
    BY <1>6, OneMore DEF ConfirmSession
  <2>2. TypeOK'
    BY <1>6, <2>1 DEF ConfirmSession
  <2>3. (LocalsOK /\ CodesOK /\ Checked /\ SecondFactor)'
    BY <1>6 DEF ConfirmSession
  <2>4. QED
    BY <2>2, <2>3
<1>7. CASE ConfirmCommit(r)
  BY <1>7 DEF ConfirmCommit
<1>8. QED
  BY <1>1, <1>2, <1>3, <1>4, <1>5, <1>6, <1>7

\* So does every step.
LEMMA StepIInv == IInv /\ [Next]_vars => IInv'
<1> SUFFICES ASSUME IInv, [Next]_vars
             PROVE  IInv'
  OBVIOUS
<1> USE MfaTotpAssumption, KeyOK, WitnessOK
        DEF IInv, TypeOK, LocalsOK, CodesOK, Checked, SecondFactor, Awaits,
            Replies, rowVars, slotVars, localVars, history
<1>1. ASSUME NEW r \in Requests, Reply(r) \/ Crash(r) \/ DelLost(r), Witness
      PROVE  IInv'
  BY <1>1 DEF Reply, Crash, Leave, DelLost
<1>2. ASSUME NEW k \in Keys, SlotExpire(k), Witness
      PROVE  IInv'
  BY <1>2 DEF SlotExpire
<1>3. CASE UNCHANGED vars
  BY <1>3 DEF vars
<1>4. QED
  BY <1>1, <1>2, <1>3, LoginIInv, CompleteIInv, BeginDisableIInv, ConfirmIInv
  DEF Next, Arrivals, Handler

\* The invariant holds in every reachable state.
LEMMA Inductive == Spec => []IInv
BY InitIInv, StepIInv, PTL DEF Spec

\* Every step keeps what is known of the requests that enable the factor.
LEMMA ConfirmStep ==
    ASSUME IInv, ConfirmInv, [Next]_vars
    PROVE  ConfirmInv'
<1> USE MfaTotpAssumption
        DEF IInv, TypeOK, LocalsOK, CodesOK, ConfirmInv, Locked, ConfirmsTheRow,
            ConfirmedUnlessOvertaken, rowVars, slotVars, localVars, history, Go
<1>1. ASSUME NEW r \in Requests, Arrivals(r)
      PROVE  ConfirmInv'
  BY <1>1 DEF Arrivals, LoginArrive, BeginArrive, CompleteArrive, ConfirmArrive,
     DisableArrive, Arrive
<1>2. ASSUME NEW r \in Requests,
             \/ LoginRow(r) \/ LoginSetex(r) \/ LoginSession(r)
             \/ CompleteGet(r) \/ CompleteDel(r) \/ CompleteRow(r)
             \/ CompleteSession(r) \/ DelLost(r)
      PROVE  ConfirmInv'
  BY <1>2 DEF LoginRow, LoginSetex, LoginSession, CompleteGet, CompleteDel,
     CompleteRow, CompleteSession, Get, Del, DelLost
<1>3. ASSUME NEW r \in Requests,
             \/ BeginGet(r) \/ BeginRow(r) \/ ConfirmGet(r) \/ ConfirmRow(r)
             \/ ConfirmDel(r) \/ ConfirmSession(r) \/ DisableRow(r)
      PROVE  ConfirmInv'
  BY <1>3 DEF BeginGet, BeginRow, ConfirmGet, ConfirmRow, ConfirmDel,
     ConfirmSession, DisableRow, Get, Del, Verifies
<1>4. ASSUME NEW r \in Requests, BeginUpdate(r) \/ DisableUpdate(r)
      PROVE  ConfirmInv'
  <2>1. Locked'
    BY <1>4 DEF BeginUpdate, DisableUpdate
  <2>2. ConfirmedUnlessOvertaken'
    BY <1>4 DEF BeginUpdate, DisableUpdate, Overtake
  <2>3. ASSUME NEW q \in Requests,
               pc'[q] \in {"confirm_update", "confirm_del", "confirm_session",
                           "confirm_commit"},
               user'[q] \notin overtaken'
        PROVE  code'[q] = secret'[user'[q]] /\ code'[q] \in confirmed'[user'[q]]
    <3>1. q # r /\ pc[q] = pc'[q] /\ UNCHANGED <<user, code, confirmed>>
      BY <1>4, <2>3 DEF BeginUpdate, DisableUpdate
    <3>2. user[q] # user[r]
      BY <1>4, <2>3, <3>1 DEF BeginUpdate, DisableUpdate, Free, Overtake
    <3>3. secret'[user[q]] = secret[user[q]] /\ user[q] \notin overtaken
      BY <1>4, <2>3, <3>1, <3>2 DEF BeginUpdate, DisableUpdate, Overtake
    <3>4. QED
      BY <2>3, <3>1, <3>3
  <2>4. QED
    BY <2>1, <2>2, <2>3
<1>5. ASSUME NEW r \in Requests, ConfirmUpdate(r)
      PROVE  ConfirmInv'
  BY <1>5 DEF ConfirmUpdate, Free
<1>6. ASSUME NEW r \in Requests, ConfirmCommit(r)
      PROVE  ConfirmInv'
  BY <1>6 DEF ConfirmCommit
<1>7. ASSUME NEW r \in Requests, Reply(r) \/ Crash(r)
      PROVE  ConfirmInv'
  BY <1>7 DEF Reply, Crash, Leave
<1>8. CASE (\E k \in Keys : SlotExpire(k)) \/ UNCHANGED vars
  BY <1>8 DEF SlotExpire, vars
<1>9. QED
  BY <1>1, <1>2, <1>3, <1>4, <1>5, <1>6, <1>7, <1>8 DEF Next, Handler

-----------------------------------------------------------------------------
(***************************************************************************)
(* Suspended logins are one-time grants                                    *)
(***************************************************************************)

PastDel == {"complete_row", "complete_session", "confirm_session"}

\* A slot holds a login that was put there, and a request works with a login of
\* the slot its token names, which a DEL has emptied of it for good.
LoginsOK ==
    /\ shared \subseteq Drawn
    /\ \A k \in Keys : slot[k] # NoLogin => made[slot[k]] = k
    /\ \A r \in Requests :
        /\ pc[r] \in {"idle", "login_row", "login_setex", "complete_get",
                      "begin_get", "confirm_get"} => login[r] = NoLogin
        /\ login[r] # NoLogin => key[r] \in Keys /\ made[login[r]] = key[r]
        /\ pc[r] \in Paying /\ key[r] \in Keys => login[r] # NoLogin
        /\ pc[r] \in PastDel => slot[key[r]] # login[r]

\* A login pays for nothing while it is in its slot.
UnpaidInSlot ==
    /\ \A l \in Logins \ Drawn : paid[l] = 0
    /\ \A k \in Keys : slot[k] # NoLogin => paid[slot[k]] = 0

\* A login that is not shared is in one request's hands at most, and is not paid
\* for before that request ends.
Alone ==
    \A l \in Logins \ shared :
        /\ paid[l] \in {0, 1}
        /\ \A r \in Requests : login[r] = l /\ pc[r] \in Paying =>
            /\ paid[l] = 0
            /\ \A q \in Requests : login[q] = l /\ pc[q] \in Paying => q = r

AloneInv == LoginsOK /\ UnpaidInSlot /\ Alone

\* Every step keeps the logins in their slots, or in one hand.
LEMMA AloneStep ==
    ASSUME IInv, AloneInv, [Next]_vars
    PROVE  AloneInv'
<1> USE MfaTotpAssumption, KeyOK
        DEF IInv, TypeOK, LocalsOK, AloneInv, LoginsOK, UnpaidInSlot, Alone,
            Drawn, Paying, PastDel, rowVars, slotVars, localVars, history, Go
<1>1. ASSUME NEW r \in Requests, Arrivals(r)
      PROVE  AloneInv'
  BY <1>1 DEF Arrivals, LoginArrive, BeginArrive, CompleteArrive, ConfirmArrive,
     DisableArrive, Arrive
<1>2. ASSUME NEW r \in Requests, LoginRow(r) \/ LoginSession(r)
      PROVE  AloneInv'
  BY <1>2 DEF LoginRow, LoginSession
<1>3. ASSUME NEW r \in Requests, LoginSetex(r)
      PROVE  AloneInv'
  BY <1>3 DEF LoginSetex
<1>4. ASSUME NEW r \in Requests, CompleteGet(r)
      PROVE  AloneInv'
  BY <1>4 DEF CompleteGet, Get, Rival
<1>5. ASSUME NEW r \in Requests, ConfirmGet(r)
      PROVE  AloneInv'
  BY <1>5 DEF ConfirmGet, Get, Rival
<1>6. ASSUME NEW r \in Requests, BeginGet(r)
      PROVE  AloneInv'
  BY <1>6 DEF BeginGet, Get, Rival
<1>7. ASSUME NEW r \in Requests, CompleteDel(r) \/ ConfirmDel(r) \/ DelLost(r)
      PROVE  AloneInv'
  BY <1>7 DEF CompleteDel, ConfirmDel, Del, DelLost
<1>8. ASSUME NEW r \in Requests, CompleteRow(r)
      PROVE  AloneInv'
  BY <1>8 DEF CompleteRow
<1>9. ASSUME NEW r \in Requests, CompleteSession(r) \/ ConfirmSession(r)
      PROVE  AloneInv'
  BY <1>9 DEF CompleteSession, ConfirmSession
<1>10. ASSUME NEW r \in Requests,
              \/ BeginRow(r) \/ BeginUpdate(r) \/ ConfirmRow(r)
              \/ ConfirmUpdate(r) \/ ConfirmCommit(r)
              \/ DisableRow(r) \/ DisableUpdate(r)
       PROVE  AloneInv'
  BY <1>10 DEF BeginRow, BeginUpdate, ConfirmRow, ConfirmUpdate, ConfirmCommit,
     DisableRow, DisableUpdate
<1>11. ASSUME NEW r \in Requests, Reply(r) \/ Crash(r)
       PROVE  AloneInv'
  BY <1>11 DEF Reply, Crash, Leave
<1>12. ASSUME NEW k \in Keys, SlotExpire(k)
       PROVE  AloneInv'
  BY <1>12 DEF SlotExpire
<1>13. CASE UNCHANGED vars
  BY <1>13 DEF vars
<1>14. QED
  BY <1>1, <1>2, <1>3, <1>4, <1>5, <1>6, <1>7, <1>8, <1>9, <1>10, <1>11, <1>12,
     <1>13 DEF Next, Handler

\* Where the stages agree, the one function is the other but for the rest.
LEMMA StagesDiffer ==
    /\ \A l \in Logins :
          (\A m \in Logins \ {l} : Stage'[m] = Stage[m])
            => Stage' = [Stage EXCEPT ![l] = Stage'[l]]
    /\ \A l \in Logins :
          (\A m \in Logins \ {l} : PaidUnshared'[m] = PaidUnshared[m])
            => PaidUnshared' = [PaidUnshared EXCEPT ![l] = PaidUnshared'[l]]
    /\ \A g, h \in Logins :
          (\A m \in Logins \ {g, h} : Stage'[m] = Stage[m])
            => Stage' = [Stage EXCEPT ![g] = Stage'[g], ![h] = Stage'[h]]
<1>1. \A f, g : /\ f = [l \in Logins |-> f[l]]
                /\ g = [l \in Logins |-> g[l]]
                => /\ \A l \in Logins : (\A m \in Logins \ {l} : g[m] = f[m])
                         => g = [f EXCEPT ![l] = g[l]]
                   /\ \A k, l \in Logins :
                         (\A m \in Logins \ {k, l} : g[m] = f[m])
                         => g = [f EXCEPT ![k] = g[k], ![l] = g[l]]
  OBVIOUS
<1>2. Stage = [l \in Logins |-> Stage[l]] /\ Stage' = [l \in Logins |-> Stage'[l]]
  BY DEF Stage
<1>3. /\ PaidUnshared = [l \in Logins |-> PaidUnshared[l]]
      /\ PaidUnshared' = [l \in Logins |-> PaidUnshared'[l]]
  BY DEF PaidUnshared
<1>4. QED
  BY <1>1, <1>2, <1>3

\* A step that moves one login along is a step of OneTimeGrant, or stutters.
LEMMA OneMoves ==
    ASSUME NEW l \in Logins,
           \A m \in Logins \ {l} : /\ Stage'[m] = Stage[m]
                                   /\ PaidUnshared'[m] = PaidUnshared[m],
           \/ Stage'[l] = Stage[l] /\ PaidUnshared'[l] = PaidUnshared[l]
           \/ /\ PaidUnshared'[l] = PaidUnshared[l]
              /\ \/ Stage[l] = "unissued" /\ Stage'[l] = "valid"
                 \/ /\ Stage[l] = "valid"
                    /\ Stage'[l] \in {"claimed", "void", "shared"}
                 \/ Stage[l] = "claimed" /\ Stage'[l] = "void"
           \/ /\ PaidUnshared'[l] = PaidUnshared[l] + 1
              /\ Stage[l] = "claimed" /\ Stage'[l] = "redeemed"
    PROVE  [Once!Next]_<<Stage, PaidUnshared>>
<1>1. /\ Stage' = [Stage EXCEPT ![l] = Stage'[l]]
      /\ PaidUnshared' = [PaidUnshared EXCEPT ![l] = PaidUnshared'[l]]
  BY StagesDiffer
<1>2. CASE Stage'[l] = Stage[l] /\ PaidUnshared'[l] = PaidUnshared[l]
  BY <1>1, <1>2 DEF Stage, PaidUnshared
<1>3. CASE /\ PaidUnshared'[l] = PaidUnshared[l]
           /\ \/ Stage[l] = "unissued" /\ Stage'[l] = "valid"
              \/ /\ Stage[l] = "valid"
                 /\ Stage'[l] \in {"claimed", "void", "shared"}
              \/ Stage[l] = "claimed" /\ Stage'[l] = "void"
  <2>1. PaidUnshared' = PaidUnshared
    BY <1>1, <1>3 DEF PaidUnshared
  <2>2. Stage[l] = "unissued" /\ Stage'[l] = "valid" => Once!Issue(l)
    BY <1>1, <2>1 DEF Once!Issue, Once!Move
  <2>3. Stage[l] = "valid" /\ Stage'[l] = "claimed" => Once!Claim(l)
    BY <1>1, <2>1 DEF Once!Claim, Once!Move
  <2>4. Stage[l] \in {"valid", "claimed"} /\ Stage'[l] = "void" => Once!Void(l)
    BY <1>1, <2>1 DEF Once!Void, Once!Move
  <2>5. Stage[l] = "valid" /\ Stage'[l] = "shared" => Once!Share(l)
    BY <1>1, <2>1 DEF Once!Share, Once!Move
  <2>6. QED
    BY <1>3, <2>2, <2>3, <2>4, <2>5 DEF Once!Next
<1>4. CASE /\ PaidUnshared'[l] = PaidUnshared[l] + 1
           /\ Stage[l] = "claimed" /\ Stage'[l] = "redeemed"
  <2>1. Once!Redeem(l)
    BY <1>1, <1>4 DEF Once!Redeem, Once!Move
  <2>2. QED
    BY <1>4, <2>1 DEF Once!Next
<1>5. QED
  BY <1>2, <1>3, <1>4

\* So is one in which a new login takes another's place.
LEMMA OneReplaces ==
    ASSUME NEW g \in Logins, NEW h \in Logins, g # h,
           \A m \in Logins \ {g, h} : Stage'[m] = Stage[m],
           PaidUnshared' = PaidUnshared,
           Stage[g] = "valid", Stage'[g] \in {"claimed", "void"},
           Stage[h] = "unissued", Stage'[h] = "valid"
    PROVE  Once!Next
<1>1. Stage' = [Stage EXCEPT ![g] = Stage'[g], ![h] = Stage'[h]]
  BY StagesDiffer
<1>2. Once!Replace(g, h)
  BY <1>1 DEF Once!Replace
<1>3. Stage' # Stage
  OBVIOUS
<1>4. QED
  BY <1>2, <1>3 DEF Once!Next

\* A login whose slot and history stay, and which no request takes up or leaves,
\* stays in its stage.
LEMMA Stays ==
    ASSUME NEW l \in Logins, Claimed(l)' = Claimed(l), made'[l] = made[l],
           (l \in shared)' = (l \in shared),
           (slot[made[l]] = l)' = (slot[made[l]] = l), paid'[l] = paid[l]
    PROVE  Stage'[l] = Stage[l] /\ PaidUnshared'[l] = PaidUnshared[l]
BY DEF Stage, PaidUnshared, Drawn

\* A slot that is emptied leaves its login with a claimant or lost.
LEMMA EmptySlot ==
    ASSUME IInv, AloneInv, NEW k \in Keys, slot[k] # NoLogin,
           slot' = [slot EXCEPT ![k] = NoLogin],
           UNCHANGED <<made, paid, shared>>,
           \A l \in Logins : Claimed(l)' = Claimed(l)
    PROVE  [Once!Next]_<<Stage, PaidUnshared>>
<1> USE MfaTotpAssumption DEF IInv, TypeOK, AloneInv
<1>1. PICK l \in Logins : slot[k] = l /\ made[l] = k
  BY DEF LoginsOK
<1>2. ASSUME NEW m \in Logins \ {l}
      PROVE  Stage'[m] = Stage[m] /\ PaidUnshared'[m] = PaidUnshared[m]
  <2>1. made[m] \in Keys \cup {NoKey}
    OBVIOUS
  <2>2. CASE made[m] = NoKey
    BY <2>2 DEF Stage, PaidUnshared, Drawn
  <2>3. CASE made[m] \in Keys
    <3>1. (slot[made[m]] = m)' = (slot[made[m]] = m)
      BY <1>1, <2>3
    <3>2. QED
      BY <3>1, Stays
  <2>4. QED
    BY <2>1, <2>2, <2>3
<1>3. PaidUnshared'[l] = PaidUnshared[l]
  BY DEF PaidUnshared
<1>4. CASE l \in shared
  <2>1. Stage'[l] = Stage[l]
    BY <1>4 DEF Stage, Drawn
  <2>2. QED
    BY <1>2, <1>3, <2>1, OneMoves
<1>5. CASE l \notin shared
  <2>1. paid[l] = 0 /\ made[l] # NoKey /\ slot'[made'[l]] # l
    BY <1>1 DEF UnpaidInSlot
  <2>2. Stage[l] = "valid" /\ Stage'[l] \in {"claimed", "void"}
    BY <1>1, <1>5, <2>1 DEF Stage, Drawn
  <2>3. QED
    BY <1>2, <1>3, <2>2, OneMoves
<1>6. QED
  BY <1>4, <1>5

\* A claimant that ends unpaid leaves its login lost, if it held one alone.
LEMMA Ends ==
    ASSUME IInv, AloneInv, NEW r \in Requests,
           UNCHANGED <<slot, made, paid, shared>>,
           pc'[r] \notin Paying,
           \A q \in Requests \ {r} : pc'[q] = pc[q] /\ login'[q] = login[q]
    PROVE  [Once!Next]_<<Stage, PaidUnshared>>
<1> USE MfaTotpAssumption DEF IInv, TypeOK, AloneInv
<1>1. ASSUME NEW m \in Logins, m # login[r] \/ pc[r] \notin Paying
      PROVE  Stage'[m] = Stage[m] /\ PaidUnshared'[m] = PaidUnshared[m]
  <2>1. Claimed(m)' = Claimed(m)
    BY <1>1 DEF Claimed
  <2>2. QED
    BY <2>1, Stays
<1>2. CASE login[r] = NoLogin \/ pc[r] \notin Paying
  <2>1. \A m \in Logins : Stage'[m] = Stage[m] /\ PaidUnshared'[m] = PaidUnshared[m]
    BY <1>1, <1>2
  <2>2. QED
    BY <2>1 DEF Stage, PaidUnshared
<1>3. CASE login[r] # NoLogin /\ pc[r] \in Paying
  <2>1. PICK l \in Logins : login[r] = l
    BY <1>3
  <2>2. PaidUnshared'[l] = PaidUnshared[l] /\ Stage'[l] \in {Stage[l], "void"}
    BY <1>3, <2>1 DEF Stage, PaidUnshared, Drawn, Claimed, Alone
  <2>3. Stage'[l] = Stage[l] \/ (Stage[l] = "claimed" /\ Stage'[l] = "void")
    <3>1. Claimed(l) /\ made[l] # NoKey
      BY <1>3, <2>1 DEF Claimed, LoginsOK, LocalsOK
    <3>2. l \in shared \/ paid[l] = 0
      BY <1>3, <2>1 DEF Alone
    <3>3. QED
      BY <2>2, <3>1, <3>2 DEF Stage, Drawn
  <2>4. QED
    BY <1>1, <2>1, <2>2, <2>3, OneMoves
<1>4. QED
  BY <1>2, <1>3

\* Every step is a step of OneTimeGrant, or stutters.
LEMMA StepOnce ==
    ASSUME IInv, AloneInv, [Next]_vars
    PROVE  [Once!Next]_<<Stage, PaidUnshared>>
<1> USE MfaTotpAssumption DEF IInv, TypeOK, AloneInv
<1> DEFINE Still(l) == Stage'[l] = Stage[l] /\ PaidUnshared'[l] = PaidUnshared[l]
<1>1. ASSUME \A l \in Logins : Still(l)
      PROVE  UNCHANGED <<Stage, PaidUnshared>>
  BY <1>1 DEF Stage, PaidUnshared
\* What neither moves a login nor changes who is to be paid for one.
<1>2. ASSUME UNCHANGED <<slot, made, paid, shared>>,
             \A l \in Logins : Claimed(l)' = Claimed(l)
      PROVE  [Once!Next]_<<Stage, PaidUnshared>>
  <2>1. \A l \in Logins : Still(l)
    BY <1>2, Stays
  <2>2. QED
    BY <1>1, <2>1
<1>3. ASSUME NEW r \in Requests, Arrivals(r)
      PROVE  [Once!Next]_<<Stage, PaidUnshared>>
  <2>1. UNCHANGED <<slot, made, paid, shared>> /\ login[r] = NoLogin
        /\ login' = login /\ pc[r] = "idle"
        /\ \A q \in Requests \ {r} : pc'[q] = pc[q]
    BY <1>3 DEF Arrivals, LoginArrive, BeginArrive, CompleteArrive, ConfirmArrive,
       DisableArrive, Arrive, Go, LoginsOK, slotVars, history
  <2>2. \A l \in Logins : Claimed(l)' = Claimed(l)
    BY <2>1 DEF Claimed
  <2>3. QED
    BY <1>2, <2>1, <2>2
<1>4. ASSUME NEW r \in Requests,
             \/ LoginRow(r) \/ LoginSession(r) \/ BeginRow(r) \/ BeginUpdate(r)
             \/ ConfirmCommit(r) \/ DisableRow(r) \/ DisableUpdate(r)
      PROVE  [Once!Next]_<<Stage, PaidUnshared>>
  <2>1. UNCHANGED <<slot, made, paid, shared, login>>
        /\ pc[r] \notin Paying /\ pc'[r] \notin Paying
        /\ \A q \in Requests \ {r} : pc'[q] = pc[q]
    BY <1>4 DEF LoginRow, LoginSession, BeginRow, BeginUpdate, ConfirmCommit,
       DisableRow, DisableUpdate, Go, Paying, slotVars, history
  <2>2. \A l \in Logins : Claimed(l)' = Claimed(l)
    BY <2>1 DEF Claimed
  <2>3. QED
    BY <1>2, <2>1, <2>2
<1>5. ASSUME NEW r \in Requests, LoginSetex(r)
      PROVE  [Once!Next]_<<Stage, PaidUnshared>>
  <2>1. PICK h \in Logins \ Drawn : /\ made' = [made EXCEPT ![h] = key[r]]
                                    /\ slot' = [slot EXCEPT ![key[r]] = h]
    BY <1>5 DEF LoginSetex
  <2>2. /\ UNCHANGED <<paid, shared, login>> /\ key[r] \in Keys
        /\ pc[r] \notin Paying /\ pc'[r] \notin Paying
        /\ \A q \in Requests \ {r} : pc'[q] = pc[q]
    BY <1>5 DEF LoginSetex, Go, Paying, LocalsOK, history
  <2>3. \A l \in Logins : Claimed(l)' = Claimed(l)
    BY <2>2 DEF Claimed
  <2>4. made[h] = NoKey /\ h \notin shared
    BY <2>1 DEF Drawn, LoginsOK
  <2>5. Stage[h] = "unissued" /\ Stage'[h] = "valid"
    BY <2>1, <2>2, <2>4 DEF Stage, Drawn
  <2>6. PaidUnshared' = PaidUnshared
    BY <2>2 DEF PaidUnshared
  <2>7. ASSUME NEW m \in Logins \ {h}, m # slot[key[r]]
        PROVE  Stage'[m] = Stage[m]
    <3>1. CASE made[m] = NoKey
      BY <2>1, <3>1 DEF Stage, Drawn
    <3>2. CASE made[m] \in Keys
      <4>1. (slot[made[m]] = m)' = (slot[made[m]] = m)
        BY <2>1, <2>2, <2>7, <3>2
      <4>2. QED
        BY <2>1, <2>2, <2>3, <4>1, Stays
    <3>3. QED
      BY <3>1, <3>2
  <2>8. CASE slot[key[r]] = NoLogin \/ slot[key[r]] \in shared
    <3>1. ASSUME NEW m \in Logins \ {h}
          PROVE  Stage'[m] = Stage[m]
      <4>1. CASE m = slot[key[r]]
        <5>1. m \in shared /\ m \in shared' /\ made[m] = key[r] /\ made'[m] = made[m]
          BY <2>1, <2>2, <2>8, <4>1 DEF LoginsOK
        <5>2. QED
          BY <2>2, <5>1 DEF Stage, Drawn
      <4>2. QED
        BY <2>7, <4>1
    <3>2. QED
      BY <2>5, <2>6, <3>1, OneMoves
  <2>9. CASE slot[key[r]] # NoLogin /\ slot[key[r]] \notin shared
    <3>1. PICK g \in Logins : slot[key[r]] = g
      BY <2>2, <2>9
    <3>2. made[g] = key[r] /\ g # h /\ g \notin shared /\ paid[g] = 0
      BY <2>2, <2>4, <2>9, <3>1 DEF LoginsOK, UnpaidInSlot
    <3>3. Stage[g] = "valid" /\ Stage'[g] \in {"claimed", "void"}
      BY <2>1, <2>2, <3>1, <3>2 DEF Stage, Drawn
    <3>4. QED
      BY <2>5, <2>6, <2>7, <3>1, <3>2, <3>3, OneReplaces
  <2>10. QED
    BY <2>8, <2>9
<1>6. ASSUME NEW r \in Requests, BeginGet(r)
      PROVE  [Once!Next]_<<Stage, PaidUnshared>>
  <2>1. UNCHANGED <<slot, made, paid, shared>>
        /\ pc[r] \notin Paying /\ pc'[r] \notin Paying
        /\ \A q \in Requests \ {r} : pc'[q] = pc[q] /\ login'[q] = login[q]
    BY <1>6 DEF BeginGet, Get, Go, Paying, slotVars
  <2>2. \A l \in Logins : Claimed(l)' = Claimed(l)
    BY <2>1 DEF Claimed
  <2>3. QED
    BY <1>2, <2>1, <2>2
<1>7. ASSUME NEW r \in Requests, CompleteGet(r) \/ ConfirmGet(r)
      PROVE  [Once!Next]_<<Stage, PaidUnshared>>
  <2>1. /\ UNCHANGED <<slot, made, paid>> /\ key[r] \in Keys
        /\ pc[r] \notin Paying /\ login'[r] = slot[key[r]]
        /\ slot[key[r]] = NoLogin => shared' = shared /\ pc'[r] \notin Paying
        /\ shared' \in {shared, shared \cup {slot[key[r]]}}
        /\ \A q \in Requests \ {r} : pc'[q] = pc[q] /\ login'[q] = login[q]
    BY <1>7 DEF CompleteGet, ConfirmGet, Get, Go, Paying, LocalsOK, slotVars
  <2>2. CASE slot[key[r]] = NoLogin
    <3>1. \A l \in Logins : Claimed(l)' = Claimed(l)
      BY <2>1, <2>2 DEF Claimed
    <3>2. QED
      BY <1>2, <2>1, <2>2, <3>1
  <2>3. CASE slot[key[r]] # NoLogin
    <3>1. PICK l \in Logins : slot[key[r]] = l
      BY <2>1, <2>3
    <3>2. made[l] = key[r] /\ paid[l] = 0
      BY <2>1, <2>3, <3>1 DEF LoginsOK, UnpaidInSlot
    <3>3. ASSUME NEW m \in Logins \ {l}
          PROVE  Still(m)
      <4>1. Claimed(m)' = Claimed(m)
        BY <2>1, <3>1 DEF Claimed
      <4>2. QED
        BY <2>1, <3>1, <4>1, Stays
    <3>4. PaidUnshared'[l] = PaidUnshared[l]
      BY <2>1, <3>2 DEF PaidUnshared
    <3>5. Stage'[l] = Stage[l] \/ (Stage[l] = "valid" /\ Stage'[l] = "shared")
      BY <2>1, <3>1, <3>2 DEF Stage, Drawn
    <3>6. QED
      BY <3>3, <3>4, <3>5, OneMoves
  <2>4. QED
    BY <2>2, <2>3
<1>8. ASSUME NEW r \in Requests, CompleteDel(r) \/ ConfirmDel(r) \/ DelLost(r)
      PROVE  [Once!Next]_<<Stage, PaidUnshared>>
  <2>1. /\ UNCHANGED <<made, paid, shared, login>> /\ key[r] \in Keys
        /\ slot' = [slot EXCEPT ![key[r]] = NoLogin]
        /\ pc[r] \in Paying /\ pc'[r] \in Paying
        /\ \A q \in Requests \ {r} : pc'[q] = pc[q]
    BY <1>8 DEF CompleteDel, ConfirmDel, Del, DelLost, Go, Paying, LocalsOK,
       history
  <2>2. \A l \in Logins : Claimed(l)' = Claimed(l)
    BY <2>1 DEF Claimed
  <2>3. CASE slot[key[r]] = NoLogin
    <3>1. slot' = slot
      BY <2>1, <2>3
    <3>2. QED
      BY <1>2, <2>1, <2>2, <3>1
  <2>4. CASE slot[key[r]] # NoLogin
    BY <2>1, <2>2, <2>4, EmptySlot
  <2>5. QED
    BY <2>3, <2>4
<1>9. ASSUME NEW r \in Requests, CompleteRow(r) \/ ConfirmRow(r) \/ ConfirmUpdate(r)
      PROVE  [Once!Next]_<<Stage, PaidUnshared>>
  <2>1. /\ UNCHANGED <<slot, made, paid, shared, login>> /\ pc[r] \in Paying
        /\ \A q \in Requests \ {r} : pc'[q] = pc[q] /\ login'[q] = login[q]
    BY <1>9 DEF CompleteRow, ConfirmRow, ConfirmUpdate, Go, Paying, slotVars,
       history
  <2>2. CASE pc'[r] \in Paying
    <3>1. \A l \in Logins : Claimed(l)' = Claimed(l)
      BY <2>1, <2>2 DEF Claimed
    <3>2. QED
      BY <1>2, <2>1, <3>1
  <2>3. CASE pc'[r] \notin Paying
    BY <2>1, <2>3, Ends
  <2>4. QED
    BY <2>2, <2>3
<1>10. ASSUME NEW r \in Requests, CompleteSession(r) \/ ConfirmSession(r)
       PROVE  [Once!Next]_<<Stage, PaidUnshared>>
  <2>1. /\ UNCHANGED <<slot, made, shared, login>>
        /\ paid' = [paid EXCEPT ![login[r]] = @ + 1]
        /\ pc[r] \in Paying /\ pc[r] \in PastDel /\ pc'[r] \notin Paying
        /\ key[r] \in Keys
        /\ \A q \in Requests \ {r} : pc'[q] = pc[q]
    BY <1>10 DEF CompleteSession, ConfirmSession, Go, Paying, PastDel, LocalsOK,
       slotVars
  <2>2. PICK l \in Logins : login[r] = l
    BY <2>1 DEF LoginsOK
  <2>3. made[l] = key[r] /\ slot[made[l]] # l
    BY <2>1, <2>2 DEF LoginsOK
  <2>4. ASSUME NEW m \in Logins \ {l}
        PROVE  Still(m)
    <3>1. Claimed(m)' = Claimed(m)
      BY <2>1, <2>2 DEF Claimed
    <3>2. QED
      BY <2>1, <2>2, <3>1, Stays
  <2>5. CASE l \in shared
    <3>1. Still(l)
      BY <2>1, <2>5 DEF Stage, PaidUnshared, Drawn
    <3>2. QED
      BY <2>4, <3>1, OneMoves
  <2>6. CASE l \notin shared
    <3>1. paid[l] = 0 /\ paid'[l] = 1
      BY <2>1, <2>2, <2>6 DEF Alone
    <3>2. Claimed(l)
      BY <2>1, <2>2 DEF Claimed
    <3>3. Stage[l] = "claimed"
      BY <2>1, <2>3, <2>6, <3>1, <3>2 DEF Stage, Drawn
    <3>4. Stage'[l] = "redeemed"
      BY <2>1, <2>3, <2>6, <3>1 DEF Stage, Drawn
    <3>5. PaidUnshared'[l] = PaidUnshared[l] + 1
      BY <2>1, <2>6, <3>1 DEF PaidUnshared
    <3>6. QED
      BY <2>4, <3>3, <3>4, <3>5, OneMoves
  <2>7. QED
    BY <2>5, <2>6
<1>11. ASSUME NEW r \in Requests, Reply(r) \/ Crash(r)
       PROVE  [Once!Next]_<<Stage, PaidUnshared>>
  <2>1. /\ UNCHANGED <<slot, made, paid, shared>> /\ pc'[r] \notin Paying
        /\ \A q \in Requests \ {r} : pc'[q] = pc[q] /\ login'[q] = login[q]
    BY <1>11 DEF Reply, Crash, Leave, Paying, slotVars, history
  <2>2. QED
    BY <2>1, Ends
<1>12. ASSUME NEW k \in Keys, SlotExpire(k)
       PROVE  [Once!Next]_<<Stage, PaidUnshared>>
  <2>1. /\ UNCHANGED <<made, paid, shared, pc, login>> /\ slot[k] # NoLogin
        /\ slot' = [slot EXCEPT ![k] = NoLogin]
    BY <1>12 DEF SlotExpire, history
  <2>2. \A l \in Logins : Claimed(l)' = Claimed(l)
    BY <2>1 DEF Claimed
  <2>3. QED
    BY <2>1, <2>2, EmptySlot
<1>13. CASE UNCHANGED vars
  BY <1>2, <1>13 DEF vars, slotVars, history, Claimed
<1>14. QED
  BY <1>3, <1>4, <1>5, <1>6, <1>7, <1>8, <1>9, <1>10, <1>11, <1>12, <1>13
  DEF Next, Handler

-----------------------------------------------------------------------------
(***************************************************************************)
(* The theorems                                                            *)
(***************************************************************************)

\* Every variable keeps its type.
THEOREM TypeCorrect == Spec => []TypeOK
<1>1. IInv => TypeOK
  BY DEF IInv
<1>2. QED
  BY <1>1, Inductive, PTL

\* The second factor is not skipped: no session without a code for a user who had
\* the factor enabled all along, none with a code that never fitted the secret.
THEOREM FactorNotSkipped == Spec => []SecondFactor
<1>1. IInv => SecondFactor
  BY DEF IInv
<1>2. QED
  BY <1>1, Inductive, PTL

\* An enabled factor is the one whose code was given to confirm it, unless a
\* begin or a disable came between the check of that code and its UPDATE.
THEOREM FactorConfirmed == Spec => []ConfirmedUnlessOvertaken
<1>1. Init => ConfirmInv
  BY DEF Init, ConfirmInv, Locked, ConfirmsTheRow, ConfirmedUnlessOvertaken
<1>2. IInv /\ ConfirmInv /\ [Next]_vars => ConfirmInv'
  BY ConfirmStep
<1>3. ConfirmInv => ConfirmedUnlessOvertaken
  BY DEF ConfirmInv
<1>4. QED
  BY <1>1, <1>2, <1>3, Inductive, PTL DEF Spec

\* Every step keeps the logins one-time.
LEMMA AloneAlways == Spec => []AloneInv
<1>1. Init => AloneInv
  BY MfaTotpAssumption
  DEF Init, AloneInv, LoginsOK, UnpaidInSlot, Alone, Drawn, Paying, PastDel
<1>2. QED
  BY <1>1, AloneStep, Inductive, PTL DEF Spec

\* Suspended logins implement one-time grants, but for those that two requests
\* have in hand at once: whatever login a later one puts in the slot, whatever
\* codes are tried, and whatever expires, crashes or is sent again.
THEOREM LoginsAreOneTime == Spec => SingleUse
<1>1. Init => Once!Init
  BY DEF Init, Once!Init, Stage, PaidUnshared, Drawn
<1>2. QED
  BY <1>1, AloneAlways, StepOnce, Inductive, PTL
  DEF Spec, SingleUse, Once!Spec, Once!vars

\* A suspended login that was never in two requests' hands pays for one session
\* at most.
THEOREM UnsharedLoginsPayOnce == Spec => [](\A l \in Logins \ shared : paid[l] <= 1)
<1>1. AloneInv => \A l \in Logins \ shared : paid[l] <= 1
  BY DEF AloneInv, Alone
<1>2. QED
  BY <1>1, AloneAlways, PTL

\* The requests that have a login in hand and are to be paid for it.
InHand(l) == {r \in Requests : login[r] = l /\ pc[r] \in Paying}

\* What a login has paid for and may still pay for.
HandsCount == \A l \in Logins : paid[l] + Cardinality(InHand(l)) <= Cardinality(Requests)

\* Every step keeps that count: what is taken in hand has paid for nothing yet.
LEMMA HandsStep ==
    ASSUME IsFiniteSet(Requests), IInv, AloneInv, HandsCount, [Next]_vars
    PROVE  HandsCount'
<1> SUFFICES ASSUME NEW l \in Logins
             PROVE  paid'[l] + Cardinality(InHand(l)') <= Cardinality(Requests)
  BY DEF HandsCount
<1> USE MfaTotpAssumption DEF IInv, TypeOK, AloneInv
<1>1. /\ InHand(l) \in SUBSET Requests /\ InHand(l)' \in SUBSET Requests
      /\ paid[l] \in Nat
  BY DEF InHand
<1>2. /\ IsFiniteSet(InHand(l)) /\ IsFiniteSet(InHand(l)')
      /\ Cardinality(InHand(l)) \in Nat /\ Cardinality(InHand(l)') \in Nat
      /\ Cardinality(Requests) \in Nat
      /\ Cardinality(InHand(l)') <= Cardinality(Requests)
  BY <1>1, FS_Subset, FS_CardinalityType
<1>3. paid[l] + Cardinality(InHand(l)) <= Cardinality(Requests)
  BY DEF HandsCount
<1>4. CASE paid'[l] = 0
  BY <1>2, <1>4
<1>5. CASE paid'[l] = paid[l] /\ InHand(l)' \subseteq InHand(l)
  <2>1. Cardinality(InHand(l)') <= Cardinality(InHand(l))
    BY <1>2, <1>5, FS_Subset
  <2>2. QED
    BY <1>1, <1>2, <1>3, <1>5, <2>1
<1>6. ASSUME NEW r \in InHand(l), paid'[l] = paid[l] + 1,
             InHand(l)' \subseteq InHand(l) \ {r}
      PROVE  paid'[l] + Cardinality(InHand(l)') <= Cardinality(Requests)
  <2>1. /\ IsFiniteSet(InHand(l) \ {r})
        /\ Cardinality(InHand(l) \ {r}) = Cardinality(InHand(l)) - 1
    BY <1>2, FS_RemoveElement
  <2>2. Cardinality(InHand(l)') <= Cardinality(InHand(l) \ {r})
    BY <1>6, <2>1, FS_Subset
  <2>3. QED
    BY <1>1, <1>2, <1>3, <1>6, <2>1, <2>2
<1>7. ASSUME NEW r \in Requests, CompleteGet(r) \/ ConfirmGet(r)
      PROVE  paid'[l] + Cardinality(InHand(l)') <= Cardinality(Requests)
  <2>1. /\ paid' = paid /\ key[r] \in Keys /\ login'[r] = slot[key[r]]
        /\ \A q \in Requests \ {r} : pc'[q] = pc[q] /\ login'[q] = login[q]
    BY <1>7 DEF CompleteGet, ConfirmGet, Get, Go, LocalsOK
  <2>2. CASE slot[key[r]] = l
    <3>1. paid[l] = 0
      BY <2>1, <2>2 DEF UnpaidInSlot
    <3>2. QED
      BY <1>4, <2>1, <3>1
  <2>3. CASE slot[key[r]] # l
    BY <1>5, <2>1, <2>3 DEF InHand
  <2>4. QED
    BY <2>2, <2>3
<1>8. ASSUME NEW r \in Requests, CompleteSession(r) \/ ConfirmSession(r)
      PROVE  paid'[l] + Cardinality(InHand(l)') <= Cardinality(Requests)
  <2>1. /\ paid' = [paid EXCEPT ![login[r]] = @ + 1] /\ login' = login
        /\ pc[r] \in Paying /\ pc'[r] \notin Paying
        /\ \A q \in Requests \ {r} : pc'[q] = pc[q]
    BY <1>8 DEF CompleteSession, ConfirmSession, Go, Paying
  <2>2. CASE login[r] = l
    BY <1>6, <2>1, <2>2 DEF InHand
  <2>3. CASE login[r] # l
    BY <1>5, <2>1, <2>3 DEF InHand
  <2>4. QED
    BY <2>2, <2>3
<1>9. ASSUME NEW r \in Requests, Arrivals(r) \/ BeginGet(r)
      PROVE  paid'[l] + Cardinality(InHand(l)') <= Cardinality(Requests)
  <2>1. /\ paid' = paid
        /\ pc'[r] \in Paying => login'[r] = NoLogin
        /\ \A q \in Requests \ {r} : pc'[q] = pc[q] /\ login'[q] = login[q]
    <3>1. CASE Arrivals(r)
      <4>1. /\ paid' = paid /\ login' = login /\ login[r] = NoLogin
            /\ \A q \in Requests \ {r} : pc'[q] = pc[q]
        BY <3>1 DEF Arrivals, LoginArrive, BeginArrive, CompleteArrive,
           ConfirmArrive, DisableArrive, Arrive, Go, LoginsOK, history
      <4>2. QED
        BY <4>1
    <3>2. CASE BeginGet(r)
      BY <3>2 DEF BeginGet, Get, Go, Paying
    <3>3. QED
      BY <1>9, <3>1, <3>2
  <2>2. QED
    BY <1>5, <2>1 DEF InHand
<1>10. ASSUME NEW r \in Requests,
              \/ LoginRow(r) \/ LoginSetex(r) \/ LoginSession(r)
              \/ CompleteDel(r) \/ CompleteRow(r) \/ BeginRow(r) \/ BeginUpdate(r)
              \/ ConfirmRow(r) \/ ConfirmUpdate(r) \/ ConfirmDel(r)
              \/ ConfirmCommit(r) \/ DisableRow(r) \/ DisableUpdate(r)
              \/ DelLost(r)
       PROVE  paid'[l] + Cardinality(InHand(l)') <= Cardinality(Requests)
  <2>1. /\ paid' = paid /\ login' = login
        /\ pc'[r] \in Paying => pc[r] \in Paying
        /\ \A q \in Requests \ {r} : pc'[q] = pc[q]
    BY <1>10 DEF LoginRow, LoginSetex, LoginSession, CompleteDel, CompleteRow,
       BeginRow, BeginUpdate, ConfirmRow, ConfirmUpdate, ConfirmDel, ConfirmCommit,
       DisableRow, DisableUpdate, DelLost, Del, Go, Paying, history
  <2>2. QED
    BY <1>5, <2>1 DEF InHand
<1>11. ASSUME NEW r \in Requests, Reply(r) \/ Crash(r)
       PROVE  paid'[l] + Cardinality(InHand(l)') <= Cardinality(Requests)
  <2>1. /\ paid' = paid /\ pc'[r] \notin Paying
        /\ \A q \in Requests \ {r} : pc'[q] = pc[q] /\ login'[q] = login[q]
    BY <1>11 DEF Reply, Crash, Leave, Paying, history
  <2>2. QED
    BY <1>5, <2>1 DEF InHand
<1>12. CASE (\E k \in Keys : SlotExpire(k)) \/ UNCHANGED vars
  BY <1>5, <1>12 DEF SlotExpire, vars, history, InHand
<1>13. QED
  BY <1>7, <1>8, <1>9, <1>10, <1>11, <1>12 DEF Next, Handler

\* A login that is shared pays for no more sessions than there are requests in
\* flight at once: those that read it before the first DEL.
THEOREM SharedLoginsPayPerRequest ==
    ASSUME IsFiniteSet(Requests)
    PROVE  Spec => [](\A l \in Logins : paid[l] <= Cardinality(Requests))
<1>1. Init => HandsCount
  <2>1. Init => \A l \in Logins : InHand(l) = {} /\ paid[l] = 0
    BY DEF Init, InHand, Paying
  <2>2. Cardinality({}) = 0 /\ Cardinality(Requests) \in Nat
    BY FS_EmptySet, FS_CardinalityType
  <2>3. QED
    BY <2>1, <2>2 DEF HandsCount
<1>2. IInv /\ AloneInv /\ HandsCount /\ [Next]_vars => HandsCount'
  BY HandsStep
<1>3. IInv /\ HandsCount => \A l \in Logins : paid[l] <= Cardinality(Requests)
  <2> SUFFICES ASSUME IInv, HandsCount, NEW l \in Logins
               PROVE  paid[l] <= Cardinality(Requests)
    OBVIOUS
  <2>1. InHand(l) \in SUBSET Requests
    BY DEF InHand
  <2>2. Cardinality(InHand(l)) \in Nat /\ Cardinality(Requests) \in Nat
    BY <2>1, FS_Subset, FS_CardinalityType
  <2>3. QED
    BY <2>2 DEF HandsCount, IInv, TypeOK
<1>4. QED
  BY <1>1, <1>2, <1>3, Inductive, AloneAlways, PTL DEF Spec
=============================================================================
