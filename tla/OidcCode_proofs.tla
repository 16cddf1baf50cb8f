-------------------------- MODULE OidcCode_proofs --------------------------
(***************************************************************************)
(* What OidcCode guarantees for every set of accounts, codes and requests. *)
(*                                                                         *)
(* The argument: a key is written once, for a code nobody has drawn, and   *)
(* never again after a DEL or its expiry, before which it is there         *)
(* (EndedForGood); so an exchange that arrives later stops at GET          *)
(* (LateStops), and one that arrives earlier does not.  A code that is not *)
(* shared is in one exchange at most past GET, which has not been paid     *)
(* (Alone).  One that is shared pays at most once for each exchange that   *)
(* has it in hand or had (HandsCount).                                     *)
(***************************************************************************)
EXTENDS OidcCode, FiniteSetTheorems, TLAPS

\* A request past its first await has the user or the code it works for.
LocalsOK ==
    \A r \in Requests :
        /\ pc[r] = "authorize_set" => user[r] \in Users
        /\ pc[r] \in PastGet \cup {"token_get", "granted"} => code[r] \in Drawn

\* A code that has been drawn has its key, or has ended, and never both.
EndedForGood ==
    /\ stored \subseteq Drawn
    /\ ended  = Drawn \ stored

\* A late exchange finds no key.
LateStops ==
    \A r \in late : /\ pc[r] \in {"token_get", "refused"}
                    /\ code[r] \in ended

IInv == TypeOK /\ LocalsOK /\ EndedForGood /\ LateStops

\* A code that is not shared has one exchange at most past its GET, and is not
\* paid for before that exchange ends.
Alone ==
    \A c \in Codes \ shared :
        /\ paid[c] \in {0, 1}
        /\ c \in stored \/ c \notin Drawn => paid[c] = 0
        /\ \A r \in Requests : code[r] = c =>
            /\ pc[r] \in PastGet => paid[c] = 0
            /\ pc[r] \in {"token_user", "token_session"} => c \notin stored
            /\ \A q \in Requests :
                code[q] = c /\ pc[q] \in PastGet /\ pc[r] \in PastGet => q = r

AloneInv == Alone /\ shared \subseteq Drawn

-----------------------------------------------------------------------------

\* The initial states satisfy the invariant.
LEMMA InitIInv == Init => IInv
BY OidcCodeAssumption
DEF Init, IInv, TypeOK, LocalsOK, EndedForGood, LateStops, Drawn, PastGet,
    Params, Compare, Correct

\* The steps of /oidc/authorize keep it.
LEMMA AuthorizeIInv ==
    ASSUME IInv, NEW r \in Requests, Authorize(r)
    PROVE  IInv'
<1> USE OidcCodeAssumption DEF IInv, TypeOK, LocalsOK, EndedForGood, LateStops,
        Drawn, PastGet, Awaits, Replies, Go, codeVars
<1>1. ASSUME NEW u \in Users, AuthorizeArrive(r, u)
      PROVE  IInv'
  BY <1>1 DEF AuthorizeArrive
<1>2. CASE AuthorizeSet(r)
  BY <1>2 DEF AuthorizeSet
<1>3. QED
  BY <1>1, <1>2 DEF Authorize

\* The steps of /oidc/token keep it.
LEMMA ExchangeIInv ==
    ASSUME IInv, NEW r \in Requests, Exchange(r)
    PROVE  IInv'
<1> USE OidcCodeAssumption DEF IInv, TypeOK, LocalsOK, EndedForGood, LateStops,
        Drawn, PastGet, Awaits, Replies, Go, codeVars
<1>1. ASSUME NEW c \in Codes, NEW p \in Params, TokenArrive(r, c, p)
      PROVE  IInv'
  BY <1>1 DEF TokenArrive
<1>2. CASE TokenGet(r)
  BY <1>2 DEF TokenGet
<1>3. CASE TokenDel(r) \/ TokenDelLost(r)
  BY <1>3 DEF TokenDel, TokenDelLost
<1>4. CASE TokenUser(r)
  BY <1>4 DEF TokenUser
<1>5. CASE TokenSession(r)
  BY <1>5 DEF TokenSession
<1>6. QED
  BY <1>1, <1>2, <1>3, <1>4, <1>5 DEF Exchange

\* So does every step.
LEMMA StepIInv == IInv /\ [Next]_vars => IInv'
<1> SUFFICES ASSUME IInv, [Next]_vars
             PROVE  IInv'
  OBVIOUS
<1> USE OidcCodeAssumption DEF IInv, TypeOK, LocalsOK, EndedForGood, LateStops,
        Drawn, PastGet, codeVars
<1>1. ASSUME NEW r \in Requests, Reply(r) \/ Crash(r)
      PROVE  IInv'
  <2>1. Correct \in Params
    BY DEF Correct, Params, Compare
  <2>2. QED
    BY <1>1, <2>1 DEF Reply, Crash, Leave, Awaits, Replies
<1>2. CASE Environment
  BY <1>2 DEF Environment, DeleteUser, CodeExpire
<1>3. CASE UNCHANGED vars
  BY <1>3 DEF vars
<1>4. QED
  BY <1>1, <1>2, <1>3, AuthorizeIInv, ExchangeIInv DEF Next

\* The invariant holds in every reachable state.
LEMMA Inductive == Spec => []IInv
BY InitIInv, StepIInv, PTL DEF Spec

\* Every step keeps the codes that are not shared in one hand.
LEMMA AloneStep ==
    ASSUME IInv, AloneInv, [Next]_vars
    PROVE  AloneInv'
<1> USE OidcCodeAssumption DEF IInv, TypeOK, LocalsOK, EndedForGood,
        AloneInv, Alone, Drawn, PastGet, codeVars
<1>1. ASSUME NEW r \in Requests, Authorize(r)
      PROVE  AloneInv'
  BY <1>1 DEF Authorize, AuthorizeArrive, AuthorizeSet, Go
<1>2. ASSUME NEW r \in Requests, NEW c \in Codes, NEW p \in Params,
             TokenArrive(r, c, p)
      PROVE  AloneInv'
  BY <1>2 DEF TokenArrive, Go
<1>3. ASSUME NEW r \in Requests, TokenGet(r)
      PROVE  AloneInv'
  BY <1>3 DEF TokenGet, Go, Rival
<1>4. ASSUME NEW r \in Requests, TokenDel(r) \/ TokenDelLost(r) \/ TokenUser(r)
      PROVE  AloneInv'
  BY <1>4 DEF TokenDel, TokenDelLost, TokenUser, Go
<1>5. ASSUME NEW r \in Requests, TokenSession(r)
      PROVE  AloneInv'
  BY <1>5 DEF TokenSession, Go
<1>6. ASSUME NEW r \in Requests, Reply(r) \/ Crash(r)
      PROVE  AloneInv'
  BY <1>6 DEF Reply, Crash, Leave
<1>7. CASE Environment
  BY <1>7 DEF Environment, DeleteUser, CodeExpire
<1>8. CASE UNCHANGED vars
  BY <1>8 DEF vars
<1>9. QED
  BY <1>1, <1>2, <1>3, <1>4, <1>5, <1>6, <1>7, <1>8 DEF Next, Exchange


\* A step that moves one code along is a step of OneTimeGrant, or stutters.
LEMMA OneMoves ==
    ASSUME NEW c \in Codes,
           \A d \in Codes \ {c} : /\ Stage'[d] = Stage[d]
                                  /\ PaidUnshared'[d] = PaidUnshared[d],
           \/ Stage'[c] = Stage[c] /\ PaidUnshared'[c] = PaidUnshared[c]
           \/ /\ PaidUnshared'[c] = PaidUnshared[c]
              /\ \/ Stage[c] = "unissued" /\ Stage'[c] = "valid"
                 \/ Stage[c] = "valid"    /\ Stage'[c] = "claimed"
                 \/ Stage[c] = "valid"    /\ Stage'[c] = "void"
                 \/ Stage[c] = "valid"    /\ Stage'[c] = "shared"
                 \/ Stage[c] = "claimed"  /\ Stage'[c] = "void"
           \/ /\ PaidUnshared'[c] = PaidUnshared[c] + 1
              /\ Stage[c] = "claimed" /\ Stage'[c] = "redeemed"
    PROVE  [Once!Next]_<<Stage, PaidUnshared>>
<1>1. /\ Stage' = [Stage EXCEPT ![c] = Stage'[c]]
      /\ PaidUnshared' = [PaidUnshared EXCEPT ![c] = PaidUnshared'[c]]
  BY DEF Stage, PaidUnshared
<1>2. CASE Stage'[c] = Stage[c] /\ PaidUnshared'[c] = PaidUnshared[c]
  BY <1>1, <1>2 DEF Stage, PaidUnshared
<1>3. CASE /\ PaidUnshared'[c] = PaidUnshared[c]
           /\ \/ Stage[c] = "unissued" /\ Stage'[c] = "valid"
              \/ Stage[c] = "valid"    /\ Stage'[c] = "claimed"
              \/ Stage[c] = "valid"    /\ Stage'[c] = "void"
              \/ Stage[c] = "valid"    /\ Stage'[c] = "shared"
              \/ Stage[c] = "claimed"  /\ Stage'[c] = "void"
  <2>1. PaidUnshared' = PaidUnshared
    BY <1>1, <1>3 DEF PaidUnshared
  <2>2. Stage[c] = "unissued" /\ Stage'[c] = "valid" => Once!Issue(c)
    BY <1>1, <2>1 DEF Once!Issue, Once!Move
  <2>3. Stage[c] = "valid" /\ Stage'[c] = "claimed" => Once!Claim(c)
    BY <1>1, <2>1 DEF Once!Claim, Once!Move
  <2>4. Stage[c] \in {"valid", "claimed"} /\ Stage'[c] = "void" => Once!Void(c)
    BY <1>1, <2>1 DEF Once!Void, Once!Move
  <2>5. Stage[c] = "valid" /\ Stage'[c] = "shared" => Once!Share(c)
    BY <1>1, <2>1 DEF Once!Share, Once!Move
  <2>6. QED
    BY <1>3, <2>2, <2>3, <2>4, <2>5 DEF Once!Next
<1>4. CASE /\ PaidUnshared'[c] = PaidUnshared[c] + 1
           /\ Stage[c] = "claimed" /\ Stage'[c] = "redeemed"
  <2>1. Once!Redeem(c)
    BY <1>1, <1>4 DEF Once!Redeem, Once!Move
  <2>2. QED
    BY <1>4, <2>1 DEF Once!Next
<1>5. QED
  BY <1>2, <1>3, <1>4

\* A code whose key and history stay, and which no request takes up or leaves,
\* stays in its stage.
LEMMA Stays ==
    ASSUME NEW c \in Codes, Claimed(c)' = Claimed(c),
           (c \in Drawn)' = (c \in Drawn), (c \in shared)' = (c \in shared),
           (c \in stored)' = (c \in stored), paid'[c] = paid[c]
    PROVE  Stage'[c] = Stage[c] /\ PaidUnshared'[c] = PaidUnshared[c]
BY DEF Stage, PaidUnshared

\* Every step is a step of OneTimeGrant, or stutters.
LEMMA StepOnce ==
    ASSUME IInv, AloneInv, [Next]_vars
    PROVE  [Once!Next]_<<Stage, PaidUnshared>>
<1> USE OidcCodeAssumption DEF IInv, TypeOK, AloneInv
<1> DEFINE Still(c) == Stage'[c] = Stage[c] /\ PaidUnshared'[c] = PaidUnshared[c]
<1>0. ASSUME \A c \in Codes : Still(c)
      PROVE  UNCHANGED <<Stage, PaidUnshared>>
  BY <1>0 DEF Stage, PaidUnshared
<1>1. ASSUME NEW r \in Requests, NEW u \in Users, AuthorizeArrive(r, u)
      PROVE  \A c \in Codes : Still(c)
  BY <1>1, Stays DEF AuthorizeArrive, Go, Claimed, Drawn, codeVars
<1>2. ASSUME NEW r \in Requests, AuthorizeSet(r)
      PROVE  [Once!Next]_<<Stage, PaidUnshared>>
  <2>1. PICK c \in Codes \ Drawn : /\ owner'  = [owner EXCEPT ![c] = user[r]]
                                   /\ stored' = stored \cup {c}
                                   /\ code'   = [code EXCEPT ![r] = c]
    BY <1>2 DEF AuthorizeSet
  <2>2. user[r] \in Users /\ UNCHANGED <<paid, shared>>
    BY <1>2 DEF AuthorizeSet, Go, LocalsOK
  <2>3. ASSUME NEW d \in Codes \ {c}
        PROVE  Still(d)
    <3>1. Claimed(d)' = Claimed(d)
      BY <1>2, <2>1 DEF AuthorizeSet, Go, Claimed
    <3>2. QED
      BY <2>1, <2>2, <3>1, Stays DEF Drawn
  <2>4. Stage[c] = "unissued" /\ Stage'[c] = "valid"
    BY <2>1, <2>2 DEF Stage, Drawn
  <2>5. PaidUnshared'[c] = PaidUnshared[c]
    BY <2>2 DEF PaidUnshared
  <2>6. QED
    BY <2>3, <2>4, <2>5, OneMoves
<1>3. ASSUME NEW r \in Requests, NEW c \in Codes, NEW p \in Params,
             TokenArrive(r, c, p)
      PROVE  \A d \in Codes : Still(d)
  BY <1>3, Stays DEF TokenArrive, Go, Claimed, Drawn, codeVars
<1>4. ASSUME NEW r \in Requests, NEW c \in Codes, code[r] = c,
             \/ TokenGet(r) \/ TokenDel(r) \/ TokenDelLost(r) \/ TokenUser(r)
             \/ TokenSession(r) \/ Reply(r) \/ Crash(r)
      PROVE  [Once!Next]_<<Stage, PaidUnshared>>
  <2>1. code[r] = c /\ owner' = owner /\ (pc[r] \in PastGet => c \in Drawn)
    BY <1>4 DEF TokenGet, TokenDel, TokenDelLost, TokenUser, TokenSession,
       Reply, Crash, Leave, Go, LocalsOK, PastGet, Drawn, codeVars
  <2>2. ASSUME NEW d \in Codes \ {c}
        PROVE  Still(d)
    <3>1. Claimed(d)' = Claimed(d)
      BY <1>4 DEF TokenGet, TokenDel, TokenDelLost, TokenUser, TokenSession,
         Reply, Crash, Leave, Go, Claimed, codeVars
    <3>2. /\ (d \in stored)' = (d \in stored) /\ (d \in shared)' = (d \in shared)
          /\ paid'[d] = paid[d]
      BY <1>4 DEF TokenGet, TokenDel, TokenDelLost, TokenUser, TokenSession,
         Reply, Crash, Leave, Go, codeVars
    <3>3. QED
      BY <2>1, <3>1, <3>2, Stays DEF Drawn
  <2>3. CASE c \in shared
    <3>1. c \in shared' /\ c \in Drawn /\ c \in Drawn'
      BY <1>4, <2>1, <2>3 DEF TokenGet, TokenDel, TokenDelLost, TokenUser,
         TokenSession, Reply, Crash, Leave, Drawn, codeVars
    <3>2. Still(c)
      BY <2>1, <2>3, <3>1 DEF Stage, PaidUnshared
    <3>3. QED
      BY <1>0, <2>2, <3>2
  <2>4. CASE c \notin shared
    <3>1. CASE TokenGet(r)
      <4>1. Claimed(c)' = Claimed(c)
        BY <3>1 DEF TokenGet, Go, Claimed, codeVars
      <4>2. CASE c \in shared'
        <5>1. c \in stored /\ UNCHANGED <<stored, paid>>
          BY <2>4, <3>1, <4>2 DEF TokenGet, codeVars
        <5>2. Stage[c] = "valid" /\ Stage'[c] = "shared"
          BY <2>1, <2>4, <4>2, <5>1 DEF Stage, EndedForGood, Drawn
        <5>3. PaidUnshared'[c] = PaidUnshared[c]
          BY <2>1, <2>4, <4>2, <5>1 DEF PaidUnshared, Alone
        <5>4. QED
          BY <2>1, <2>2, <5>2, <5>3, OneMoves
      <4>3. CASE c \notin shared'
        <5>1. Still(c)
          BY <2>1, <2>4, <3>1, <4>1, <4>3, Stays DEF TokenGet, Drawn, codeVars
        <5>2. QED
          BY <1>0, <2>2, <5>1
      <4>4. QED
        BY <4>2, <4>3
    <3>2. CASE TokenDel(r) \/ TokenDelLost(r)
      <4>1. /\ pc[r] = "token_del" /\ c \in Drawn /\ paid[c] = 0
            /\ c \notin stored' /\ UNCHANGED <<paid, shared, code>>
        BY <2>1, <2>4, <3>2 DEF TokenDel, TokenDelLost, Go, PastGet, Alone
      <4>2. Stage[c] = (IF c \in stored THEN "valid" ELSE "claimed")
        BY <2>1, <2>4, <4>1 DEF Stage, Claimed
      <4>3. Stage'[c] \in {"claimed", "void"}
        BY <2>1, <2>4, <4>1 DEF Stage, Drawn
      <4>4. PaidUnshared'[c] = PaidUnshared[c]
        BY <2>1, <4>1 DEF PaidUnshared
      <4>5. QED
        BY <2>1, <2>2, <4>2, <4>3, <4>4, OneMoves
    <3>3. CASE TokenSession(r)
      <4>1. /\ pc[r] = "token_session" /\ c \in Drawn \ stored /\ paid[c] = 0
            /\ paid' = [paid EXCEPT ![c] = @ + 1]
            /\ UNCHANGED <<stored, shared>>
        BY <2>1, <2>4, <3>3 DEF TokenSession, Go, PastGet, Alone, codeVars
      <4>2. Stage[c] = "claimed"
        BY <2>1, <2>4, <4>1 DEF Stage, Claimed
      <4>3. paid'[c] = 1
        BY <2>1, <4>1
      <4>4. Stage'[c] = "redeemed"
        BY <2>1, <2>4, <4>1, <4>3 DEF Stage, Drawn
      <4>5. PaidUnshared'[c] = PaidUnshared[c] + 1
        BY <2>1, <2>4, <4>1, <4>3 DEF PaidUnshared
      <4>6. QED
        BY <2>1, <2>2, <4>2, <4>4, <4>5, OneMoves
    <3>4. CASE TokenUser(r) \/ Reply(r) \/ Crash(r)
      <4>1. UNCHANGED <<stored, shared, paid>>
        BY <3>4 DEF TokenUser, Reply, Crash, Leave, codeVars
      <4>2. PaidUnshared'[c] = PaidUnshared[c]
        BY <2>1, <4>1 DEF PaidUnshared
      <4>3. Claimed(c)' => Claimed(c)
        BY <3>4, <4>1
        DEF TokenUser, Reply, Crash, Leave, Go, Claimed, codeVars
      <4>4. CASE ~ Claimed(c) \/ Claimed(c)'
        <5>1. Claimed(c)' = Claimed(c)
          BY <4>3, <4>4 DEF Claimed
        <5>2. QED
          BY <1>0, <2>1, <2>2, <4>1, <5>1, Stays DEF Drawn
      <4>5. CASE Claimed(c) /\ ~ Claimed(c)'
        <5>1. c \in Drawn \ stored /\ paid[c] = 0
          BY <2>1, <2>4, <4>5 DEF Claimed, Alone, PastGet, LocalsOK
        <5>2. Stage[c] = "claimed" /\ Stage'[c] = "void"
          BY <2>1, <2>4, <4>1, <4>5, <5>1 DEF Stage, Drawn
        <5>3. QED
          BY <2>1, <2>2, <4>2, <5>2, OneMoves
      <4>6. QED
        BY <4>4, <4>5
    <3>5. QED
      BY <1>4, <3>1, <3>2, <3>3, <3>4
  <2>5. QED
    BY <2>3, <2>4
<1>5. ASSUME NEW r \in Requests, Reply(r) \/ Crash(r), code[r] \notin Codes
      PROVE  \A c \in Codes : Still(c)
  <2>1. pc[r] \notin PastGet
    BY <1>5 DEF LocalsOK, Drawn
  <2>2. ASSUME NEW c \in Codes
        PROVE  Still(c)
    <3>1. Claimed(c)' = Claimed(c)
      BY <1>5, <2>1 DEF Reply, Crash, Leave, Claimed, PastGet, codeVars
    <3>2. QED
      BY <1>5, <3>1, Stays DEF Reply, Crash, Leave, Drawn, codeVars
  <2>3. QED
    BY <2>2
<1>6. ASSUME NEW u \in Users, DeleteUser(u)
      PROVE  \A c \in Codes : Still(c)
  BY <1>6, Stays DEF DeleteUser, Claimed, Drawn, codeVars
<1>7. ASSUME NEW c \in Codes, CodeExpire(c)
      PROVE  [Once!Next]_<<Stage, PaidUnshared>>
  <2>1. /\ c \in stored /\ stored' = stored \ {c}
        /\ UNCHANGED <<owner, pc, code, paid, shared>>
    BY <1>7 DEF CodeExpire
  <2>2. ASSUME NEW d \in Codes \ {c}
        PROVE  Still(d)
    <3>1. Claimed(d)' = Claimed(d)
      BY <2>1 DEF Claimed
    <3>2. QED
      BY <2>1, <3>1, Stays DEF Drawn
  <2>3. PaidUnshared'[c] = PaidUnshared[c]
    BY <2>1 DEF PaidUnshared
  <2>4. CASE c \in shared
    <3>1. Stage'[c] = Stage[c]
      BY <2>1, <2>4 DEF Stage, Drawn
    <3>2. QED
      BY <2>2, <2>3, <3>1, OneMoves
  <2>5. CASE c \notin shared
    <3>1. c \in Drawn /\ paid[c] = 0
      BY <2>1, <2>5 DEF EndedForGood, Alone
    <3>2. Stage[c] = "valid" /\ Stage'[c] \in {"claimed", "void"}
      BY <2>1, <2>5, <3>1 DEF Stage, Drawn
    <3>3. QED
      BY <2>2, <2>3, <3>2, OneMoves
  <2>6. QED
    BY <2>4, <2>5
<1>8. CASE UNCHANGED vars
  BY <1>0, <1>8, Stays DEF vars, Claimed, Drawn
<1>9. ASSUME NEW r \in Requests,
             \/ TokenGet(r) \/ TokenDel(r) \/ TokenDelLost(r) \/ TokenUser(r)
             \/ TokenSession(r)
      PROVE  code[r] \in Codes
  BY <1>9 DEF TokenGet, TokenDel, TokenDelLost, TokenUser, TokenSession, Go,
     LocalsOK, PastGet, Drawn
<1>10. QED
  BY <1>0, <1>1, <1>2, <1>3, <1>4, <1>5, <1>6, <1>7, <1>8, <1>9
  DEF Next, Authorize, Exchange, Environment

-----------------------------------------------------------------------------
(***************************************************************************)
(* The theorems                                                            *)
(***************************************************************************)

\* Every variable keeps its type.
THEOREM TypeCorrect == Spec => []TypeOK
<1>1. IInv => TypeOK
  BY DEF IInv
<1>2. QED
  BY <1>1, Inductive, PTL

\* A code that was presented, also to a refused request, or has expired is
\* granted to no exchange that arrives later.
THEOREM BurnedDead == Spec => []BurnedIsDead
<1>1. IInv => BurnedIsDead
  BY DEF IInv, LateStops, BurnedIsDead
<1>2. QED
  BY <1>1, Inductive, PTL

\* The client that presents a code with everything right is turned away only
\* because the account is gone or the code ended before: each code that is drawn
\* has a key until an expiry or a DEL ends it.
THEOREM RightClientRefusals == Spec => RefusedForCause
<1> DEFINE Cause(r) ==
             \/ owner[code[r]] \notin exists
             \/ pc[r] \in {"token_get", "token_del"} /\ code[r] \in ended
           ForCause == \A r \in Requests :
             /\ pc[r] \in PastGet \cup {"token_get"}
             /\ params[r] = Correct
             /\ pc'[r] = "refused"
             => Cause(r)
<1>1. ASSUME IInv, [Next]_vars
      PROVE  ForCause
  <2> SUFFICES ASSUME NEW r \in Requests, pc[r] \in PastGet \cup {"token_get"},
                      params[r] = Correct, pc'[r] = "refused"
               PROVE  Cause(r)
    OBVIOUS
  <2> USE DEF IInv, TypeOK, PastGet
  <2>1. ASSUME NEW q \in Requests,
               Authorize(q) \/ Exchange(q) \/ Reply(q) \/ Crash(q), q # r
        PROVE  FALSE
    BY <1>1, <2>1 DEF Authorize, AuthorizeArrive, AuthorizeSet, Exchange,
       TokenArrive, TokenGet, TokenDel, TokenDelLost, TokenUser, TokenSession,
       Reply, Crash, Leave, Go
  <2>2. CASE Authorize(r) \/ Reply(r) \/ Crash(r)
    BY <1>1, <2>2 DEF Authorize, AuthorizeArrive, AuthorizeSet, Reply, Crash,
       Leave, Go
  <2>3. CASE TokenGet(r)
    <3>1. pc[r] = "token_get" /\ code[r] \in Drawn \ stored
      BY <1>1, <2>3 DEF TokenGet, Go, LocalsOK
    <3>2. QED
      BY <1>1, <3>1 DEF EndedForGood
  <2>4. CASE Exchange(r) /\ ~ TokenGet(r)
    <3>1. Accepts(r)
      BY DEF Accepts, Correct
    <3>2. QED
      BY <1>1, <2>4, <3>1 DEF Exchange, TokenArrive, TokenDel, TokenDelLost,
         TokenUser, TokenSession, Go
  <2>5. CASE Environment \/ UNCHANGED vars
    BY <2>5 DEF Environment, DeleteUser, CodeExpire, vars
  <2>6. QED
    BY <1>1, <2>1, <2>2, <2>3, <2>4, <2>5 DEF Next
<1>2. QED
  BY <1>1, Inductive, PTL DEF Spec, RefusedForCause

\* Authorization codes implement one-time grants, but for those that two
\* exchanges have read at once: every step of a handler, a crash, a lost Redis
\* reply or an expiry maps to a step of OneTimeGrant or to a stutter.
THEOREM CodesAreOneTime == Spec => SingleUse
<1>1. Init => Once!Init
  BY DEF Init, Once!Init, Stage, PaidUnshared, Drawn
<1>2. Init => AloneInv
  BY OidcCodeAssumption DEF Init, AloneInv, Alone, Drawn, PastGet
<1>3. Spec => []AloneInv
  BY <1>2, AloneStep, Inductive, PTL DEF Spec
<1>4. QED
  BY <1>1, <1>3, StepOnce, Inductive, PTL
  DEF Spec, SingleUse, Once!Spec, Once!vars

\* A code that was never in two exchanges' hands pays for one session at most.
THEOREM UnsharedCodesPayOnce == Spec => [](\A c \in Codes \ shared : paid[c] <= 1)
<1>1. Init => AloneInv
  BY OidcCodeAssumption DEF Init, AloneInv, Alone, Drawn, PastGet
<1>2. AloneInv => \A c \in Codes \ shared : paid[c] <= 1
  BY DEF AloneInv, Alone
<1>3. QED
  BY <1>1, <1>2, AloneStep, Inductive, PTL DEF Spec

\* A code whose key exists, shared or not, has paid for nothing, and nobody is
\* past its DEL.
UnpaidWhileStored ==
    /\ \A c \in Codes : c \in stored \/ c \notin Drawn => paid[c] = 0
    /\ \A r \in Requests :
        pc[r] \in {"token_user", "token_session"} => code[r] \notin stored

\* The exchanges that have a code in hand.
InHand(c) == {r \in Requests : code[r] = c /\ pc[r] \in PastGet}

\* What a code has paid for and may still pay for.
HandsCount == \A c \in Codes : paid[c] + Cardinality(InHand(c)) <= Cardinality(Requests)

\* Every step keeps the codes that can be read unpaid.
LEMMA UnpaidStep ==
    ASSUME IInv, UnpaidWhileStored, [Next]_vars
    PROVE  UnpaidWhileStored'
<1> USE OidcCodeAssumption DEF IInv, TypeOK, LocalsOK, EndedForGood,
        UnpaidWhileStored, Drawn, PastGet, codeVars
<1>1. ASSUME NEW r \in Requests, Authorize(r)
      PROVE  UnpaidWhileStored'
  BY <1>1 DEF Authorize, AuthorizeArrive, AuthorizeSet, Go
<1>2. ASSUME NEW r \in Requests, Exchange(r)
      PROVE  UnpaidWhileStored'
  BY <1>2 DEF Exchange, TokenArrive, TokenGet, TokenDel, TokenDelLost, TokenUser,
     TokenSession, Go
<1>3. ASSUME NEW r \in Requests, Reply(r) \/ Crash(r)
      PROVE  UnpaidWhileStored'
  BY <1>3 DEF Reply, Crash, Leave
<1>4. CASE Environment \/ UNCHANGED vars
  BY <1>4 DEF Environment, DeleteUser, CodeExpire, vars
<1>5. QED
  BY <1>1, <1>2, <1>3, <1>4 DEF Next

\* Every step keeps the count: what is taken in hand has paid for nothing yet.
LEMMA HandsStep ==
    ASSUME IsFiniteSet(Requests), IInv, UnpaidWhileStored, HandsCount, [Next]_vars
    PROVE  HandsCount'
<1> SUFFICES ASSUME NEW c \in Codes
             PROVE  paid'[c] + Cardinality(InHand(c)') <= Cardinality(Requests)
  BY DEF HandsCount
<1> USE OidcCodeAssumption DEF IInv, TypeOK
<1>1. /\ InHand(c) \in SUBSET Requests /\ InHand(c)' \in SUBSET Requests
      /\ paid[c] \in Nat
  BY DEF InHand
<1>2. /\ IsFiniteSet(InHand(c)) /\ IsFiniteSet(InHand(c)')
      /\ Cardinality(InHand(c)) \in Nat /\ Cardinality(InHand(c)') \in Nat
      /\ Cardinality(Requests) \in Nat
      /\ Cardinality(InHand(c)') <= Cardinality(Requests)
  BY <1>1, FS_Subset, FS_CardinalityType
<1>3. paid[c] + Cardinality(InHand(c)) <= Cardinality(Requests)
  BY DEF HandsCount
<1>4. CASE paid'[c] = 0
  BY <1>2, <1>4
<1>5. CASE paid'[c] = paid[c] /\ InHand(c)' \subseteq InHand(c)
  <2>1. Cardinality(InHand(c)') <= Cardinality(InHand(c))
    BY <1>2, <1>5, FS_Subset
  <2>2. QED
    BY <1>1, <1>2, <1>3, <1>5, <2>1
<1>6. ASSUME NEW r \in InHand(c), paid'[c] = paid[c] + 1,
             InHand(c)' \subseteq InHand(c) \ {r}
      PROVE  paid'[c] + Cardinality(InHand(c)') <= Cardinality(Requests)
  <2>1. /\ IsFiniteSet(InHand(c) \ {r})
        /\ Cardinality(InHand(c) \ {r}) = Cardinality(InHand(c)) - 1
    BY <1>2, FS_RemoveElement
  <2>2. Cardinality(InHand(c)') <= Cardinality(InHand(c) \ {r})
    BY <1>6, <2>1, FS_Subset
  <2>3. QED
    BY <1>1, <1>2, <1>3, <1>6, <2>1, <2>2
<1>7. ASSUME NEW r \in Requests, TokenGet(r)
      PROVE  paid'[c] + Cardinality(InHand(c)') <= Cardinality(Requests)
  <2>1. /\ paid' = paid /\ code' = code
        /\ pc'[r] \in PastGet => code[r] \in stored
        /\ \A q \in Requests \ {r} : pc'[q] = pc[q]
    BY <1>7 DEF TokenGet, Go, PastGet
  <2>2. CASE code[r] = c /\ c \in stored
    <3>1. paid[c] = 0
      BY <2>2 DEF UnpaidWhileStored
    <3>2. QED
      BY <1>4, <2>1, <3>1
  <2>3. CASE code[r] # c \/ c \notin stored
    BY <1>5, <2>1, <2>3 DEF InHand
  <2>4. QED
    BY <2>2, <2>3
<1>8. ASSUME NEW r \in Requests, TokenSession(r)
      PROVE  paid'[c] + Cardinality(InHand(c)') <= Cardinality(Requests)
  <2>1. /\ paid' = [paid EXCEPT ![code[r]] = @ + 1] /\ code' = code
        /\ pc[r] \in PastGet /\ pc'[r] \notin PastGet
        /\ \A q \in Requests \ {r} : pc'[q] = pc[q]
    BY <1>8 DEF TokenSession, Go, PastGet
  <2>2. CASE code[r] = c
    BY <1>6, <2>1, <2>2 DEF InHand
  <2>3. CASE code[r] # c
    BY <1>5, <2>1, <2>3 DEF InHand
  <2>4. QED
    BY <2>2, <2>3
<1>9. ASSUME NEW r \in Requests,
             \/ Authorize(r) \/ \E d \in Codes, p \in Params : TokenArrive(r, d, p)
             \/ TokenDel(r) \/ TokenDelLost(r) \/ TokenUser(r)
             \/ Reply(r) \/ Crash(r)
      PROVE  paid'[c] + Cardinality(InHand(c)') <= Cardinality(Requests)
  <2>1. /\ paid' = paid
        /\ pc'[r] \in PastGet => pc[r] \in PastGet /\ code'[r] = code[r]
        /\ \A q \in Requests \ {r} : pc'[q] = pc[q] /\ code'[q] = code[q]
    BY <1>9 DEF Authorize, AuthorizeArrive, AuthorizeSet, TokenArrive, TokenDel,
       TokenDelLost, TokenUser, Reply, Crash, Leave, Go, PastGet, codeVars
  <2>2. QED
    BY <1>5, <2>1 DEF InHand
<1>10. CASE Environment \/ UNCHANGED vars
  BY <1>5, <1>10 DEF Environment, DeleteUser, CodeExpire, vars, InHand
<1>11. QED
  BY <1>7, <1>8, <1>9, <1>10 DEF Next, Exchange

\* A code that is shared pays for no more sessions than there are requests in
\* flight at once: those that read it before the first DEL.
THEOREM SharedCodesPayPerRequest ==
    ASSUME IsFiniteSet(Requests)
    PROVE  Spec => [](\A c \in Codes : paid[c] <= Cardinality(Requests))
<1>1. Init => UnpaidWhileStored
  BY DEF Init, UnpaidWhileStored
<1>2. Init => HandsCount
  <2>1. Init => \A c \in Codes : InHand(c) = {} /\ paid[c] = 0
    BY DEF Init, InHand, PastGet
  <2>2. Cardinality({}) = 0 /\ Cardinality(Requests) \in Nat
    BY FS_EmptySet, FS_CardinalityType
  <2>3. QED
    BY <2>1, <2>2 DEF HandsCount
<1>3. Spec => []UnpaidWhileStored
  BY <1>1, UnpaidStep, Inductive, PTL DEF Spec
<1>4. IInv /\ UnpaidWhileStored /\ HandsCount /\ [Next]_vars => HandsCount'
  BY HandsStep
<1>5. IInv /\ HandsCount => \A c \in Codes : paid[c] <= Cardinality(Requests)
  <2> SUFFICES ASSUME IInv, HandsCount, NEW c \in Codes
               PROVE  paid[c] <= Cardinality(Requests)
    OBVIOUS
  <2>1. InHand(c) \in SUBSET Requests
    BY DEF InHand
  <2>2. Cardinality(InHand(c)) \in Nat /\ Cardinality(Requests) \in Nat
    BY <2>1, FS_Subset, FS_CardinalityType
  <2>3. QED
    BY <2>2 DEF HandsCount, IInv, TypeOK
<1>6. QED
  BY <1>2, <1>3, <1>4, <1>5, Inductive, PTL DEF Spec
=============================================================================
