-------------------------- MODULE Sessions_proofs --------------------------
(***************************************************************************)
(* What Sessions guarantees for every set of users, sessions and requests. *)
(*                                                                         *)
(* The three invariants the runs check are not inductive.  What makes them *)
(* so is the order of the facts behind them: a session id is drawn once    *)
(* (DrawnOnce) and one that waits for its SETEX to be sent again is known  *)
(* to nobody (InHand), so a session a logout has covered stays dead        *)
(* (SpentDead); a logout knows at each await what it still has to delete   *)
(* (LogoutOwes); and a request past its checks carries their evidence      *)
(* (Checked).                                                              *)
(*                                                                         *)
(* Of what suspending an account brings about eventually, two halves are   *)
(* proved: nobody is let past a comparison of the status after it, and     *)
(* every handler ends (StepsLeft).  Both are silent about the endpoints    *)
(* behind a permission, which do not compare it.                           *)
(***************************************************************************)
EXTENDS Sessions, TLAPS

\* Past the EXISTS on the session key.
PastSession == {"guard_user", "permission", "select", "logout_keys", "logout_del",
                "introspect_user", "refresh_user", "served"}

\* At the SETEX of create_session.
Creating == {"login_session", "grant_create"}

\* Past the comparison of the status, where the endpoint has one.
PastStatus == {"select", "logout_keys", "logout_del", "served"}

\* Whoever names a session id - a Redis key, a token, a request, the history -
\* names one that has been drawn.
DrawnOnce ==
    /\ \A k \in session : k[2] \in drawn
    /\ \A t \in access \cup refresh : t.sid \in drawn \cup {NoSid}
    /\ \A r \in Requests : tok[r].sid \in drawn \cup {NoSid}
    /\ \A r \in Requests : before[r] \subseteq drawn
    /\ \A k \in spent : k[2] \in drawn \cup {NoSid}

\* Nothing but, perhaps, a Redis key names s.
Unnamed(s) ==
    /\ \A t \in access \cup refresh : t.sid # s
    /\ \A r \in Requests : tok[r].sid # s /\ s \notin before[r]
    /\ \A k \in spent : k[2] # s

\* The id whose SETEX is to be sent again has been drawn by this request, and
\* nobody has heard of it.
InHand ==
    \A r \in Requests : pc[r] \in Creating => \A s \in keys[r] :
        /\ s \in drawn /\ Unnamed(s)
        /\ \A q \in Requests \ {r} : pc[q] \in Creating => s \notin keys[q]

\* What a logout covered is gone.
SpentDead == spent \cap session = {}

\* A request at an await has a user; the endpoint and the await fit together.
LocalsOK ==
    \A r \in Requests :
        /\ pc[r] # "idle" => tok[r] \in Token
        /\ pc[r] \in {"guard_session", "guard_user"} =>
             op[r] \in Guarded \cup Managed
        /\ pc[r] = "permission" => op[r] \in Managed
        /\ pc[r] \in {"logout_keys", "logout_del"} => op[r] = "logout"
        /\ op[r] = "logout" => pc[r] \in {"guard_session", "guard_user", "refused",
                                       "logout_keys", "logout_del", "loggedOut"}
        /\ op[r] = "login" => pc[r] \in {"login_session", "loggedIn"}
        /\ pc[r] = "login_session" => op[r] = "login"
        /\ pc[r] \notin Creating \cup {"loggedIn", "granted", "logout_del",
                                       "loggedOut"} => keys[r] = {}

\* The sessions a logout will have covered are dead, or KEYS will find them, or
\* KEYS has found them.
LogoutOwes ==
    \A r \in Requests :
        /\ op[r] = "logout" /\ pc[r] # "idle" =>
             tok[r].sid \in before[r] \/ ~ Live(tok[r])
        /\ pc[r] = "logout_del" =>
             \A s \in before[r] : s \in keys[r] \/ <<tok[r].user, s>> \notin session

\* The evidence a request has gathered.
Checked ==
    \A r \in Requests :
        /\ "spent" \in seen[r] => pc[r] # "idle" /\ Key(tok[r]) \in spent
        /\ pc[r] \in PastSession /\ tok[r].sid # NoSid /\ op[r] # "logout" =>
             "spent" \notin seen[r] /\ "live" \in seen[r]
        /\ pc[r] \in PastStatus /\ op[r] \notin {"logout"} \cup Managed =>
             "active" \in seen[r]

\* What every step needs of the state it is taken in.
Base == TypeOK /\ LocalsOK /\ DrawnOnce /\ InHand

IInv == Base /\ SpentDead /\ LogoutOwes /\ Checked

-----------------------------------------------------------------------------
(***************************************************************************)
(* The steps, by what they do to the invariant                             *)
(***************************************************************************)

\* Steps that read the databases and move the request on.
Checks(r) ==
    \/ GuardSession(r) \/ GuardUser(r) \/ CheckPermission(r)
    \/ IntrospectSession(r) \/ IntrospectUser(r)
    \/ RefreshSession(r) \/ GrantUser(r) \/ AuthorizeUser(r)

\* Steps that issue tokens and touch no session.
Mints(r) == SelectTenant(r) \/ RefreshUser(r) \/ GrantSession(r)

\* A request arrives with claims that exist, at the first await of its endpoint.
Enters(r, o, t, at) ==
    /\ Arrive(r, o, t, at)
    /\ o \in Ops \ {"none"} /\ t \in Token /\ t.sid \in drawn \cup {NoSid}
    /\ at \in {"login_session", "guard_session", "guard_user",
               "introspect_session", "introspect_user", "refresh_session",
               "refused", "grant_user", "authorize_user"}
    /\ at \in PastSession => t.sid = NoSid
    /\ at \in {"guard_session", "guard_user"} => o \in Guarded \cup Managed
    /\ (o = "login") <=> (at = "login_session")
    /\ o = "logout" => t \in access /\ at \in {"guard_session", "guard_user"}
    /\ t \in access \cup refresh \/ t.sid = NoSid

\* Every arrival enters the handlers that way.
LEMMA ArrivalEnters ==
    ASSUME TypeOK, DrawnOnce, NEW r \in Requests, Arrivals(r)
    PROVE  \E o, t, at : Enters(r, o, t, at)
<1>1. ASSUME NEW u \in Users, LoginArrive(r, u)
      PROVE  \E t : Enters(r, "login", t, "login_session")
  <2>1. Enters(r, "login", [user |-> u, sid |-> NoSid], "login_session")
    BY <1>1 DEF LoginArrive, Token, Enters, Ops, PastSession
  <2>2. QED
    BY <2>1
<1>2. ASSUME NEW t \in access, NEW o \in Guarded \cup Managed, GuardArrive(r, t, o)
      PROVE  \E at : Enters(r, o, t, at)
  BY <1>2 DEF GuardArrive, Enters, Ops, Guarded, Managed, PastSession, TypeOK,
     DrawnOnce
<1>3. ASSUME NEW t \in access, IntrospectArrive(r, t)
      PROVE  \E at : Enters(r, "introspect", t, at)
  BY <1>3 DEF IntrospectArrive, Enters, Ops, Guarded, Managed, PastSession, TypeOK,
     DrawnOnce
<1>4. ASSUME NEW t \in refresh, RefreshArrive(r, t)
      PROVE  \E at : Enters(r, "refresh", t, at)
  BY <1>4 DEF RefreshArrive, Enters, Ops, Guarded, Managed, PastSession, TypeOK,
     DrawnOnce
<1>5. ASSUME NEW t \in refresh, GrantArrive(r, t)
      PROVE  \E at : Enters(r, "grant", t, at)
  BY <1>5 DEF GrantArrive, Enters, Ops, Guarded, Managed, PastSession, TypeOK,
     DrawnOnce
<1>6. ASSUME NEW t \in access, AuthorizeArrive(r, t)
      PROVE  \E at : Enters(r, "authorize", t, at)
  BY <1>6 DEF AuthorizeArrive, Enters, Ops, Guarded, Managed, PastSession, TypeOK,
     DrawnOnce
<1>7. QED
  BY <1>1, <1>2, <1>3, <1>4, <1>5, <1>6 DEF Arrivals

\* The ids create_session may write a key for.
NewSids(r) == IF keys[r] = {} THEN Sids \ drawn ELSE keys[r]

\* Whichever id create_session writes, nobody has heard of it.
LEMMA NewSidUnnamed ==
    ASSUME Base, NEW r \in Requests, pc[r] \in Creating, NEW s \in NewSids(r)
    PROVE  /\ Unnamed(s)
           /\ \A q \in Requests \ {r} : pc[q] \in Creating => s \notin keys[q]
<1> USE SessionsAssumption
<1>1. CASE keys[r] = {}
  <2>1. s \in Sids \ drawn /\ s # NoSid
    BY <1>1 DEF NewSids
  <2>2. QED
    BY <2>1 DEF Base, DrawnOnce, InHand, Unnamed, TypeOK
<1>2. CASE keys[r] # {}
  BY <1>2 DEF Base, InHand, NewSids
<1>3. QED
  BY <1>1, <1>2

\* The history is made of the known flags.
LEMMA WitnessType == TypeOK /\ Witness => seen' \in [Requests -> SUBSET Flags]
BY DEF TypeOK, Witness, Flags

\* A step keeps the types.
LEMMA TypeStep == Base /\ Next => TypeOK'
<1> SUFFICES ASSUME Base, Next
             PROVE  TypeOK'
  OBVIOUS
<1> USE SessionsAssumption DEF Base, TypeOK, LocalsOK, Token, Idle, Status, Ops,
                               Awaits, Replies
<1>0. seen' \in [Requests -> SUBSET Flags]
  BY WitnessType DEF Next
<1>1. ASSUME NEW r \in Requests, NEW o, NEW t, NEW at, Enters(r, o, t, at)
      PROVE  TypeOK'
  BY <1>0, <1>1 DEF Enters, Arrive, KeysOf, Issued
<1>2. ASSUME NEW r \in Requests, Checks(r)
      PROVE  TypeOK'
  <2>1. PICK at \in Awaits \cup Replies : pc' = [pc EXCEPT ![r] = at]
    BY <1>2 DEF Checks, GuardSession, GuardUser, CheckPermission, Behind,
       IntrospectSession, IntrospectUser, RefreshSession, GrantUser,
       AuthorizeUser, Go, Guarded, Managed
  <2>2. UNCHANGED <<status, session, drawn, access, refresh, op, tok, keys,
                    before, spent>>
    BY <1>2 DEF Checks, GuardSession, GuardUser, CheckPermission, Behind,
       IntrospectSession, IntrospectUser, RefreshSession, GrantUser,
       AuthorizeUser
  <2>3. QED
    BY <1>0, <2>1, <2>2
<1>3. ASSUME NEW r \in Requests, LoginSession(r)
      PROVE  TypeOK'
  <2>1. pc[r] \in Creating /\ \A s \in NewSids(r) : Unnamed(s)
    BY <1>3, NewSidUnnamed DEF LoginSession, Creating
  <2>2. QED
    BY <1>0, <1>3, <2>1 DEF LoginSession, CreateSession, NewSids, Unnamed,
         Creating, Go
<1>4. ASSUME NEW r \in Requests, Mints(r)
      PROVE  TypeOK'
  BY <1>0, <1>4 DEF Mints, SelectTenant, RefreshUser, GrantSession,
     tokenVars, Go
<1>5. ASSUME NEW r \in Requests, LogoutKeys(r)
      PROVE  TypeOK'
  BY <1>0, <1>5 DEF LogoutKeys, Covered, KeysOf, Go
<1>6. ASSUME NEW r \in Requests, LogoutDel(r)
      PROVE  TypeOK'
  BY <1>0, <1>6 DEF LogoutDel, Covered, Go
<1>7. ASSUME NEW r \in Requests, GrantCreate(r)
      PROVE  TypeOK'
  <2>1. pc[r] \in Creating /\ \A s \in NewSids(r) : Unnamed(s)
    BY <1>7, NewSidUnnamed DEF GrantCreate, Creating
  <2>2. QED
    BY <1>0, <1>7, <2>1 DEF GrantCreate, CreateSession, NewSids, Unnamed,
         Creating, Go
<1>8. ASSUME NEW r \in Requests, Leave(r)
      PROVE  TypeOK'
  BY <1>0, <1>8 DEF Leave, Go
<1>9. ASSUME Environment
      PROVE  TypeOK'
  BY <1>0, <1>9 DEF Environment, SocialLogin, DeleteUser, UpdateStatus,
     SessionExpire, localVars
<1>10. ASSUME NEW r \in Requests, SetexLost(r)
       PROVE  TypeOK'
  <2>1. pc[r] \in Creating /\ \A s \in NewSids(r) : Unnamed(s)
    BY <1>10, NewSidUnnamed DEF SetexLost, Creating
  <2>2. QED
    BY <1>0, <1>10, <2>1 DEF SetexLost, CreateSession, NewSids, Unnamed,
         Creating
<1>11. QED
  BY ArrivalEnters, <1>1, <1>2, <1>3, <1>4, <1>5, <1>6, <1>7, <1>8, <1>9, <1>10
  DEF Next, Arrivals, Handler, Checks, Mints, Reply, Crash

\* A step keeps endpoints, awaits and claims in agreement.
LEMMA LocalsStep == Base /\ Next => LocalsOK'
<1> SUFFICES ASSUME Base, Next
             PROVE  LocalsOK'
  OBVIOUS
<1> USE SessionsAssumption DEF Base, TypeOK, LocalsOK, Token, Idle, Guarded, Managed,
     Creating
<1>0. Witness
  BY DEF Next
<1>1. ASSUME NEW r \in Requests, NEW o, NEW t, NEW at, Enters(r, o, t, at)
      PROVE  LocalsOK'
  BY <1>1 DEF Enters, Arrive, KeysOf, Issued
<1>2. ASSUME NEW r \in Requests, Checks(r)
      PROVE  LocalsOK'
  BY <1>2 DEF Checks, GuardSession, GuardUser, CheckPermission, Behind,
     IntrospectSession, IntrospectUser, RefreshSession, GrantUser,
     AuthorizeUser, Go
<1>3. ASSUME NEW r \in Requests, LoginSession(r)
      PROVE  LocalsOK'
  <2>1. pc[r] \in Creating /\ \A s \in NewSids(r) : Unnamed(s)
    BY <1>3, NewSidUnnamed DEF LoginSession, Creating
  <2>2. QED
    BY <1>3, <2>1 DEF LoginSession, CreateSession, NewSids, Unnamed, Creating,
         Go
<1>4. ASSUME NEW r \in Requests, Mints(r)
      PROVE  LocalsOK'
  BY <1>4 DEF Mints, SelectTenant, RefreshUser, GrantSession,
     tokenVars, Go
<1>5. ASSUME NEW r \in Requests, LogoutKeys(r)
      PROVE  LocalsOK'
  BY <1>5 DEF LogoutKeys, Covered, KeysOf, Go
<1>6. ASSUME NEW r \in Requests, LogoutDel(r)
      PROVE  LocalsOK'
  BY <1>6 DEF LogoutDel, Covered, Go
<1>7. ASSUME NEW r \in Requests, GrantCreate(r)
      PROVE  LocalsOK'
  <2>1. pc[r] \in Creating /\ \A s \in NewSids(r) : Unnamed(s)
    BY <1>7, NewSidUnnamed DEF GrantCreate, Creating
  <2>2. QED
    BY <1>7, <2>1 DEF GrantCreate, CreateSession, NewSids, Unnamed, Creating, Go
<1>8. ASSUME NEW r \in Requests, Leave(r)
      PROVE  LocalsOK'
  BY <1>8 DEF Leave, Go
<1>9. ASSUME Environment
      PROVE  LocalsOK'
  BY <1>9 DEF Environment, SocialLogin, DeleteUser, UpdateStatus,
     SessionExpire, localVars
<1>10. ASSUME NEW r \in Requests, SetexLost(r)
       PROVE  LocalsOK'
  <2>1. pc[r] \in Creating /\ \A s \in NewSids(r) : Unnamed(s)
    BY <1>10, NewSidUnnamed DEF SetexLost, Creating
  <2>2. QED
    BY <1>10, <2>1 DEF SetexLost, CreateSession, NewSids, Unnamed, Creating
<1>11. QED
  BY ArrivalEnters, <1>1, <1>2, <1>3, <1>4, <1>5, <1>6, <1>7, <1>8, <1>9, <1>10
  DEF Next, Arrivals, Handler, Checks, Mints, Reply, Crash

\* A step names no session id that has not been drawn.
LEMMA DrawnStep == Base /\ Next => DrawnOnce'
<1> SUFFICES ASSUME Base, Next
             PROVE  DrawnOnce'
  OBVIOUS
<1> USE SessionsAssumption DEF Base, TypeOK, LocalsOK, DrawnOnce, Token, Idle,
     Awaits, Replies
<1>0. Witness
  BY DEF Next
<1>1. ASSUME NEW r \in Requests, NEW o, NEW t, NEW at, Enters(r, o, t, at)
      PROVE  DrawnOnce'
  BY <1>1 DEF Enters, Arrive, KeysOf, Issued
<1>2. ASSUME NEW r \in Requests, Checks(r)
      PROVE  DrawnOnce'
  BY <1>2 DEF Checks, GuardSession, GuardUser, CheckPermission, Behind,
     IntrospectSession, IntrospectUser, RefreshSession, GrantUser,
     AuthorizeUser, Go
<1>3. ASSUME NEW r \in Requests, LoginSession(r)
      PROVE  DrawnOnce'
  <2>1. pc[r] \in Creating /\ \A s \in NewSids(r) : Unnamed(s)
    BY <1>3, NewSidUnnamed DEF LoginSession, Creating
  <2>2. QED
    BY <1>3, <2>1 DEF LoginSession, CreateSession, NewSids, Unnamed, Creating,
         Go
<1>4. ASSUME NEW r \in Requests, Mints(r)
      PROVE  DrawnOnce'
  BY <1>4 DEF Mints, SelectTenant, RefreshUser, GrantSession,
     tokenVars, Go
<1>5. ASSUME NEW r \in Requests, LogoutKeys(r)
      PROVE  DrawnOnce'
  BY <1>5 DEF LogoutKeys, Covered, KeysOf, Go
<1>6. ASSUME NEW r \in Requests, LogoutDel(r)
      PROVE  DrawnOnce'
  BY <1>6 DEF LogoutDel, Covered, Go
<1>7. ASSUME NEW r \in Requests, GrantCreate(r)
      PROVE  DrawnOnce'
  <2>1. pc[r] \in Creating /\ \A s \in NewSids(r) : Unnamed(s)
    BY <1>7, NewSidUnnamed DEF GrantCreate, Creating
  <2>2. QED
    BY <1>7, <2>1 DEF GrantCreate, CreateSession, NewSids, Unnamed, Creating, Go
<1>8. ASSUME NEW r \in Requests, Leave(r)
      PROVE  DrawnOnce'
  BY <1>8 DEF Leave, Go
<1>9. ASSUME Environment
      PROVE  DrawnOnce'
  BY <1>9 DEF Environment, SocialLogin, DeleteUser, UpdateStatus,
     SessionExpire, localVars
<1>10. ASSUME NEW r \in Requests, SetexLost(r)
       PROVE  DrawnOnce'
  <2>1. pc[r] \in Creating /\ \A s \in NewSids(r) : Unnamed(s)
    BY <1>10, NewSidUnnamed DEF SetexLost, Creating
  <2>2. QED
    BY <1>10, <2>1 DEF SetexLost, CreateSession, NewSids, Unnamed, Creating
<1>11. QED
  BY ArrivalEnters, <1>1, <1>2, <1>3, <1>4, <1>5, <1>6, <1>7, <1>8, <1>9, <1>10
  DEF Next, Arrivals, Handler, Checks, Mints, Reply, Crash

\* A step leaves the ids in hand unheard of, but for the login or grant that
\* spends its own.
LEMMA InHandStep == Base /\ Next => InHand'
<1> SUFFICES ASSUME Base, Next
             PROVE  InHand'
  OBVIOUS
<1> USE SessionsAssumption DEF Base, TypeOK, LocalsOK, DrawnOnce, InHand, Token,
                               Idle, Creating, Unnamed
<1>1. ASSUME NEW r \in Requests, NEW o, NEW t, NEW at, Enters(r, o, t, at)
      PROVE  InHand'
  <2> SUFFICES ASSUME NEW q \in Requests, pc'[q] \in Creating, NEW s \in keys'[q]
               PROVE  /\ s \in drawn' /\ Unnamed(s)'
                      /\ \A p \in Requests \ {q} :
                           pc'[p] \in Creating => s \notin keys'[p]
    BY DEF InHand
  <2>1. UNCHANGED <<session, drawn, access, refresh, keys, spent>> /\ keys[r] = {}
    BY <1>1 DEF Enters, Arrive
  <2>2. \A p \in Requests \ {r} : pc'[p] = pc[p] /\ tok'[p] = tok[p]
                                  /\ before'[p] = before[p]
    BY <1>1 DEF Enters, Arrive
  <2>3. q # r /\ s \in drawn /\ Unnamed(s) /\ s # NoSid
    BY <2>1, <2>2
  <2>4. tok'[r] = t /\ before'[r] \subseteq {x \in Sids : \E a \in access : Key(a)[2] = x}
    BY <1>1 DEF Enters, Arrive, Issued, KeysOf, Key
  <2>5. t.sid # s /\ s \notin before'[r]
    BY <1>1, <2>3, <2>4 DEF Enters, Key
  <2>6. QED
    BY <2>1, <2>2, <2>3, <2>4, <2>5
<1>2. ASSUME NEW r \in Requests, Checks(r)
      PROVE  InHand'
  BY <1>2 DEF Checks, GuardSession, GuardUser, CheckPermission, Behind,
     IntrospectSession, IntrospectUser, RefreshSession, GrantUser, AuthorizeUser,
     Go, Guarded
<1>3. ASSUME NEW r \in Requests, LoginSession(r)
      PROVE  InHand'
  <2>1. \A s \in NewSids(r) : \A q \in Requests \ {r} :
          pc[q] \in Creating => s \notin keys[q]
    BY <1>3, NewSidUnnamed DEF LoginSession
  <2>2. QED
    BY <1>3, <2>1 DEF LoginSession, CreateSession, NewSids, Go
<1>4. ASSUME NEW r \in Requests, Mints(r)
      PROVE  InHand'
  BY <1>4 DEF Mints, SelectTenant, RefreshUser, GrantSession, tokenVars, Go
<1>5. ASSUME NEW r \in Requests, LogoutKeys(r)
      PROVE  InHand'
  BY <1>5 DEF LogoutKeys, Covered, KeysOf, Go
<1>6. ASSUME NEW r \in Requests, LogoutDel(r)
      PROVE  InHand'
  BY <1>6 DEF LogoutDel, Covered, Go
<1>7. ASSUME NEW r \in Requests, GrantCreate(r)
      PROVE  InHand'
  <2>1. \A s \in NewSids(r) : \A q \in Requests \ {r} :
          pc[q] \in Creating => s \notin keys[q]
    BY <1>7, NewSidUnnamed DEF GrantCreate
  <2>2. QED
    BY <1>7, <2>1 DEF GrantCreate, CreateSession, NewSids, Go
<1>8. ASSUME NEW r \in Requests, Leave(r)
      PROVE  InHand'
  BY <1>8 DEF Leave, Go
<1>9. ASSUME Environment
      PROVE  InHand'
  BY <1>9 DEF Environment, SocialLogin, DeleteUser, UpdateStatus,
     SessionExpire, localVars
<1>10. ASSUME NEW r \in Requests, SetexLost(r)
       PROVE  InHand'
  <2>1. \A s \in NewSids(r) : Unnamed(s) /\ \A q \in Requests \ {r} :
          pc[q] \in Creating => s \notin keys[q]
    BY <1>10, NewSidUnnamed DEF SetexLost
  <2>2. QED
    BY <1>10, <2>1 DEF SetexLost, CreateSession, NewSids
<1>11. QED
  BY ArrivalEnters, <1>1, <1>2, <1>3, <1>4, <1>5, <1>6, <1>7, <1>8, <1>9, <1>10
  DEF Next, Arrivals, Handler, Checks, Mints, Reply, Crash

\* No step brings a session under a running logout back.
LEMMA OwesStep == Base /\ LogoutOwes /\ Next => LogoutOwes'
<1> SUFFICES ASSUME Base, LogoutOwes, Next
             PROVE  LogoutOwes'
  OBVIOUS
<1> USE SessionsAssumption DEF Base, TypeOK, LocalsOK, DrawnOnce, LogoutOwes,
     Token, Idle, Live, Key, Guarded, Managed, Replies
<1>0. Witness
  BY DEF Next
<1>1. ASSUME NEW r \in Requests, NEW o, NEW t, NEW at, Enters(r, o, t, at)
      PROVE  LogoutOwes'
  BY <1>1 DEF Enters, Arrive, KeysOf, Issued
<1>2. ASSUME NEW r \in Requests, Checks(r)
      PROVE  LogoutOwes'
  BY <1>2 DEF Checks, GuardSession, GuardUser, CheckPermission, Behind,
     IntrospectSession, IntrospectUser, RefreshSession, GrantUser,
     AuthorizeUser, Go
<1>3. ASSUME NEW r \in Requests, LoginSession(r)
      PROVE  LogoutOwes'
  <2>1. pc[r] \in Creating /\ \A s \in NewSids(r) : Unnamed(s)
    BY <1>3, NewSidUnnamed DEF LoginSession, Creating
  <2>2. QED
    BY <1>3, <2>1 DEF LoginSession, CreateSession, NewSids, Unnamed, Creating,
         Go
<1>4. ASSUME NEW r \in Requests, Mints(r)
      PROVE  LogoutOwes'
  BY <1>4 DEF Mints, SelectTenant, RefreshUser, GrantSession,
     tokenVars, Go
<1>5. ASSUME NEW r \in Requests, LogoutKeys(r)
      PROVE  LogoutOwes'
  BY <1>5 DEF LogoutKeys, Covered, KeysOf, Go
<1>6. ASSUME NEW r \in Requests, LogoutDel(r)
      PROVE  LogoutOwes'
  BY <1>6 DEF LogoutDel, Covered, Go
<1>7. ASSUME NEW r \in Requests, GrantCreate(r)
      PROVE  LogoutOwes'
  <2>1. pc[r] \in Creating /\ \A s \in NewSids(r) : Unnamed(s)
    BY <1>7, NewSidUnnamed DEF GrantCreate, Creating
  <2>2. QED
    BY <1>7, <2>1 DEF GrantCreate, CreateSession, NewSids, Unnamed, Creating, Go
<1>8. ASSUME NEW r \in Requests, Leave(r)
      PROVE  LogoutOwes'
  BY <1>8 DEF Leave, Go
<1>9. ASSUME Environment
      PROVE  LogoutOwes'
  BY <1>9 DEF Environment, SocialLogin, DeleteUser, UpdateStatus,
     SessionExpire, localVars
<1>10. ASSUME NEW r \in Requests, SetexLost(r)
       PROVE  LogoutOwes'
  <2>1. pc[r] \in Creating /\ \A s \in NewSids(r) : Unnamed(s)
    BY <1>10, NewSidUnnamed DEF SetexLost, Creating
  <2>2. QED
    BY <1>10, <2>1 DEF SetexLost, CreateSession, NewSids, Unnamed, Creating
<1>11. QED
  BY ArrivalEnters, <1>1, <1>2, <1>3, <1>4, <1>5, <1>6, <1>7, <1>8, <1>9, <1>10
  DEF Next, Arrivals, Handler, Checks, Mints, Reply, Crash

\* No step brings a session back that a logout has covered.
LEMMA SpentStep == Base /\ LogoutOwes /\ SpentDead /\ Next => SpentDead'
<1> SUFFICES ASSUME Base, LogoutOwes, SpentDead, Next
             PROVE  SpentDead'
  OBVIOUS
<1> USE SessionsAssumption DEF Base, TypeOK, LocalsOK, DrawnOnce, LogoutOwes,
     SpentDead,
                               Token, Idle, Live, Key
<1>0. Witness
  BY DEF Next
<1>1. ASSUME NEW r \in Requests, NEW o, NEW t, NEW at, Enters(r, o, t, at)
      PROVE  SpentDead'
  BY <1>1 DEF Enters, Arrive, KeysOf, Issued
<1>2. ASSUME NEW r \in Requests, Checks(r)
      PROVE  SpentDead'
  BY <1>2 DEF Checks, GuardSession, GuardUser, CheckPermission, Behind,
     IntrospectSession, IntrospectUser, RefreshSession, GrantUser,
     AuthorizeUser, Go
<1>3. ASSUME NEW r \in Requests, LoginSession(r)
      PROVE  SpentDead'
  <2>1. pc[r] \in Creating /\ \A s \in NewSids(r) : Unnamed(s)
    BY <1>3, NewSidUnnamed DEF LoginSession, Creating
  <2>2. QED
    BY <1>3, <2>1 DEF LoginSession, CreateSession, NewSids, Unnamed, Creating,
         Go
<1>4. ASSUME NEW r \in Requests, Mints(r)
      PROVE  SpentDead'
  BY <1>4 DEF Mints, SelectTenant, RefreshUser, GrantSession,
     tokenVars, Go
<1>5. ASSUME NEW r \in Requests, LogoutKeys(r)
      PROVE  SpentDead'
  BY <1>5 DEF LogoutKeys, Covered, KeysOf, Go
<1>6. ASSUME NEW r \in Requests, LogoutDel(r)
      PROVE  SpentDead'
  <2>1. SUFFICES ASSUME NEW k \in spent', k \in session'
                 PROVE  FALSE
    OBVIOUS
  <2>2. /\ session' = session \ ({tok[r].user} \X keys[r])
        /\ spent' = spent \cup Covered(r)
        /\ pc[r] = "logout_del"
    BY <1>6 DEF LogoutDel
  <2>3. k \in session /\ k \notin {tok[r].user} \X keys[r]
    BY <2>1, <2>2
  <2>4. k \in Covered(r)
    BY <2>1, <2>2, <2>3
  <2>5. PICK s \in before[r] \cup {tok[r].sid} : k = <<tok[r].user, s>>
    BY <2>4 DEF Covered
  <2>6. s \in before[r]
    BY <2>2, <2>3, <2>5
  <2>7. s \in keys[r]
    BY <2>2, <2>3, <2>5, <2>6
  <2>8. QED
    BY <2>3, <2>5, <2>7
<1>7. ASSUME NEW r \in Requests, GrantCreate(r)
      PROVE  SpentDead'
  <2>1. pc[r] \in Creating /\ \A s \in NewSids(r) : Unnamed(s)
    BY <1>7, NewSidUnnamed DEF GrantCreate, Creating
  <2>2. QED
    BY <1>7, <2>1 DEF GrantCreate, CreateSession, NewSids, Unnamed, Creating, Go
<1>8. ASSUME NEW r \in Requests, Leave(r)
      PROVE  SpentDead'
  BY <1>8 DEF Leave, Go
<1>9. ASSUME Environment
      PROVE  SpentDead'
  BY <1>9 DEF Environment, SocialLogin, DeleteUser, UpdateStatus,
     SessionExpire, localVars
<1>10. ASSUME NEW r \in Requests, SetexLost(r)
       PROVE  SpentDead'
  <2>1. pc[r] \in Creating /\ \A s \in NewSids(r) : Unnamed(s)
    BY <1>10, NewSidUnnamed DEF SetexLost, Creating
  <2>2. QED
    BY <1>10, <2>1 DEF SetexLost, CreateSession, NewSids, Unnamed, Creating
<1>11. QED
  BY ArrivalEnters, <1>1, <1>2, <1>3, <1>4, <1>5, <1>6, <1>7, <1>8, <1>9, <1>10
  DEF Next, Arrivals, Handler, Checks, Mints, Reply, Crash

\* A step keeps the evidence of every request, and gathers its own.
LEMMA CheckedStep == Base /\ SpentDead /\ Checked /\ Next => Checked'
<1> SUFFICES ASSUME Base, SpentDead, Checked, Next
             PROVE  Checked'
  OBVIOUS
<1> USE SessionsAssumption DEF Base, TypeOK, LocalsOK, DrawnOnce, SpentDead,
     Checked, Witness,
     PastSession, PastStatus, Token, Idle, Live, Key, Guarded, Replies
<1>0. Witness
  BY DEF Next
<1>1. ASSUME NEW r \in Requests, NEW o, NEW t, NEW at, Enters(r, o, t, at)
      PROVE  Checked'
  BY <1>0, <1>1 DEF Enters, Arrive, KeysOf, Issued
<1>2. ASSUME NEW r \in Requests, Checks(r)
      PROVE  Checked'
  BY <1>0, <1>2 DEF Checks, GuardSession, GuardUser, CheckPermission, Behind,
     IntrospectSession, IntrospectUser, RefreshSession, GrantUser,
     AuthorizeUser, Go
<1>3. ASSUME NEW r \in Requests, LoginSession(r)
      PROVE  Checked'
  <2>1. pc[r] \in Creating /\ \A s \in NewSids(r) : Unnamed(s)
    BY <1>3, NewSidUnnamed DEF LoginSession, Creating
  <2>2. QED
    BY <1>0, <1>3, <2>1 DEF LoginSession, CreateSession, NewSids, Unnamed,
         Creating, Go
<1>4. ASSUME NEW r \in Requests, Mints(r)
      PROVE  Checked'
  <2>1. CASE SelectTenant(r)
    BY <1>0, <2>1 DEF SelectTenant, tokenVars, Go
  <2>2. CASE RefreshUser(r)
    <3>1. /\ UNCHANGED <<status, session, spent, tok, op>>
          /\ pc[r] = "refresh_user"
          /\ \/ pc' = [pc EXCEPT ![r] = "refused"]
             \/ /\ pc' = [pc EXCEPT ![r] = "served"]
                /\ status[tok[r].user] = "ACTIVE"
      BY <2>2 DEF RefreshUser, Go
    <3>2. /\ "active" \in seen'[r] \/ pc'[r] = "refused"
          /\ pc'[r] = "refused" => seen'[r] = {}
          /\ seen[r] \subseteq seen'[r] \/ pc'[r] = "refused"
          /\ "spent" \in seen'[r] => "spent" \in seen[r]
      BY <1>0, <3>1
    <3>3. \A q \in Requests \ {r} :
            /\ pc'[q] = pc[q] /\ tok'[q] = tok[q] /\ op'[q] = op[q]
            /\ "spent" \in seen'[q] => "spent" \in seen[q]
            /\ pc[q] \in PastSession \cup PastStatus /\ op[q] # "logout"
                 => seen[q] \subseteq seen'[q]
      BY <1>0, <3>1
    <3>4. QED
      BY <3>1, <3>2, <3>3
  <2>3. CASE GrantSession(r)
    BY <1>0, <2>3 DEF GrantSession, Go
  <2>4. QED
    BY <1>4, <2>1, <2>2, <2>3 DEF Mints
<1>5. ASSUME NEW r \in Requests, LogoutKeys(r)
      PROVE  Checked'
  BY <1>0, <1>5 DEF LogoutKeys, Covered, KeysOf, Go
<1>6. ASSUME NEW r \in Requests, LogoutDel(r)
      PROVE  Checked'
  BY <1>0, <1>6 DEF LogoutDel, Covered, Go
<1>7. ASSUME NEW r \in Requests, GrantCreate(r)
      PROVE  Checked'
  <2>1. pc[r] \in Creating /\ \A s \in NewSids(r) : Unnamed(s)
    BY <1>7, NewSidUnnamed DEF GrantCreate, Creating
  <2>2. QED
    BY <1>0, <1>7, <2>1 DEF GrantCreate, CreateSession, NewSids, Unnamed,
         Creating, Go
<1>8. ASSUME NEW r \in Requests, Leave(r)
      PROVE  Checked'
  BY <1>0, <1>8 DEF Leave, Go
<1>9. ASSUME Environment
      PROVE  Checked'
  BY <1>0, <1>9 DEF Environment, SocialLogin, DeleteUser, UpdateStatus,
     SessionExpire, localVars
<1>10. ASSUME NEW r \in Requests, SetexLost(r)
       PROVE  Checked'
  <2>1. pc[r] \in Creating /\ \A s \in NewSids(r) : Unnamed(s)
    BY <1>10, NewSidUnnamed DEF SetexLost, Creating
  <2>2. QED
    BY <1>0, <1>10, <2>1 DEF SetexLost, CreateSession, NewSids, Unnamed,
         Creating
<1>11. QED
  BY ArrivalEnters, <1>1, <1>2, <1>3, <1>4, <1>5, <1>6, <1>7, <1>8, <1>9, <1>10
  DEF Next, Arrivals, Handler, Checks, Mints, Reply, Crash

-----------------------------------------------------------------------------
(***************************************************************************)
(* The theorems                                                            *)
(***************************************************************************)

\* The initial states satisfy the strengthening ...
LEMMA InitIInv == Init => IInv
BY SessionsAssumption
DEF Init, IInv, Base, TypeOK, DrawnOnce, InHand, SpentDead, LocalsOK, LogoutOwes,
    Checked, Idle, Token, Status, Ops, Guarded, Managed, Live, Creating, PastSession,
    PastStatus

\* ... and every step keeps it.
LEMMA StepIInv == IInv /\ [Next]_vars => IInv'
<1> SUFFICES ASSUME IInv, [Next]_vars
             PROVE  IInv'
  OBVIOUS
<1>1. CASE Next
  BY <1>1, TypeStep, DrawnStep, InHandStep, SpentStep, LocalsStep, OwesStep,
     CheckedStep DEF IInv, Base
<1>2. CASE UNCHANGED vars
  BY <1>2 DEF vars, IInv, Base, TypeOK, DrawnOnce, InHand, Unnamed, SpentDead,
              LocalsOK, LogoutOwes, Checked, Live, Key, Token
<1>3. QED
  BY <1>1, <1>2

\* The strengthening is an invariant of the specification.
LEMMA Inductive == Spec => []IInv
BY InitIInv, StepIInv, PTL DEF Spec

\* Every variable keeps its type: a request at an await has the claims of a
\* token, whatever users, sessions and requests there are.
THEOREM TypeCorrect == Spec => []TypeOK
<1>1. IInv => TypeOK
  BY DEF IInv, Base
<1>2. QED
  BY <1>1, Inductive, PTL

\* A logout that has replied has ended, for every request that arrives later,
\* each session its user had when it arrived: SessionService.delete_all_sessions
\* is KEYS and then DEL, and a session that DEL misses was created after it.
THEOREM LogoutEffective == Spec => []LogoutIsEffective
<1>1. IInv => LogoutIsEffective
  BY DEF IInv, Checked, Base, LocalsOK, LogoutIsEffective, PastSession
<1>2. QED
  BY <1>1, Inductive, PTL

\* No guarded endpoint, introspection or refresh serves a session-bound token
\* whose session was dead from the request's arrival to its reply.
THEOREM ServedOnlyLive == Spec => []ServedWhileLive
<1>1. IInv => ServedWhileLive
  BY DEF IInv, Checked, Base, LocalsOK, ServedWhileLive, PastSession
<1>2. QED
  BY <1>1, Inductive, PTL

\* No endpoint that compares the status serves a user who was not ACTIVE from the
\* request's arrival to its reply; those behind a permission do (Managed).
THEOREM ServedOnlyActive == Spec => []ServedWhileActive
<1>1. IInv => ServedWhileActive
  BY DEF IInv, Checked, Base, LocalsOK, ServedWhileActive, PastStatus
<1>2. QED
  BY <1>1, Inductive, PTL

\* An ended session stays ended: the only writers of session keys draw a new id.
THEOREM SessionsEndOnce == Spec => NoSessionRevival
<1> DEFINE StaysDead == \A t \in access : Key(t) \notin session
                                          => Key(t) \notin session'
<1>1. IInv /\ [Next]_vars => [StaysDead]_vars
  <2> SUFFICES ASSUME IInv, Next
               PROVE  StaysDead
    OBVIOUS
  <2>1. ASSUME NEW r \in Requests,
               LoginSession(r) \/ GrantCreate(r) \/ SetexLost(r)
        PROVE  StaysDead
    <3>1. PICK s \in NewSids(r) : session' = session \cup {<<tok[r].user, s>>}
      BY <2>1 DEF LoginSession, GrantCreate, SetexLost, CreateSession, NewSids
    <3>2. Unnamed(s)
      BY <2>1, NewSidUnnamed
      DEF IInv, LoginSession, GrantCreate, SetexLost, Creating
    <3>3. QED
      BY <3>1, <3>2 DEF Unnamed, Key
  <2>2. ASSUME NEW r \in Requests, LogoutDel(r)
        PROVE  StaysDead
    BY <2>2 DEF LogoutDel
  <2>3. ASSUME NEW r \in Requests, NEW o, NEW t, NEW at, Enters(r, o, t, at)
        PROVE  StaysDead
    BY <2>3 DEF Enters, Arrive
  <2>4. ASSUME NEW r \in Requests,
               Checks(r) \/ Mints(r) \/ LogoutKeys(r) \/ Reply(r) \/ Crash(r)
        PROVE  StaysDead
    BY <2>4 DEF Checks, Mints, GuardSession, GuardUser, CheckPermission,
       IntrospectSession, IntrospectUser, RefreshSession, RefreshUser, GrantUser,
       GrantSession, AuthorizeUser, SelectTenant, LogoutKeys, Reply, Crash, Leave
  <2>5. CASE Environment
    BY <2>5 DEF Environment, SocialLogin, DeleteUser, UpdateStatus,
       SessionExpire
  <2>6. QED
    BY ArrivalEnters, <2>1, <2>2, <2>3, <2>4, <2>5
    DEF IInv, Base, Next, Arrivals, Handler, Checks, Mints
<1>2. QED
  BY <1>1, Inductive, PTL DEF Spec, NoSessionRevival

-----------------------------------------------------------------------------
(***************************************************************************)
(* What of SuspensionTakesHold is safety: nobody more is let past the      *)
(* status, and who was leaves in a few awaits.  That the awaits complete   *)
(* is the fairness.                                                        *)
(***************************************************************************)

\* The requests of u to endpoints that compare the status, that have been found
\* ACTIVE and are not over.
Admitted(u) ==
    {r \in Requests : /\ tok[r].user = u /\ op[r] \notin Managed
                      /\ pc[r] \in PastStatus \cup {"loggedOut"}}

\* While a user is suspended, or absent, no step of anybody lets a request of
\* theirs past a comparison of the status; those that were let past before only
\* become fewer.
THEOREM SuspensionAdmitsNobody ==
    Spec => [][\A u \in Users :
                 status[u] # "ACTIVE" => Admitted(u)' \subseteq Admitted(u)]_vars
<1> DEFINE Fewer == \A u \in Users :
                      status[u] # "ACTIVE" => Admitted(u)' \subseteq Admitted(u)
<1>1. IInv /\ [Next]_vars => [Fewer]_vars
  <2> SUFFICES ASSUME IInv, Next, NEW u \in Users, status[u] # "ACTIVE",
                      NEW q \in Requests, tok'[q].user = u, op'[q] \notin Managed,
                      pc'[q] \in PastStatus \cup {"loggedOut"}
               PROVE  q \in Admitted(u)
    BY DEF Admitted
  <2> USE DEF IInv, Base, TypeOK, PastStatus, Admitted
  <2>1. ASSUME NEW r \in Requests,
               \/ SetexLost(r) \/ Crash(r) \/ LoginSession(r) \/ GuardSession(r)
               \/ IntrospectSession(r) \/ RefreshSession(r) \/ GrantUser(r)
               \/ GrantSession(r) \/ GrantCreate(r) \/ AuthorizeUser(r) \/ Reply(r)
        PROVE  q \in Admitted(u)
    BY <2>1 DEF SetexLost, Crash, LoginSession, GuardSession, IntrospectSession,
       RefreshSession, GrantUser, GrantSession, GrantCreate, AuthorizeUser, Reply,
       Leave, Go
  <2>2. ASSUME NEW r \in Requests,
               \/ GuardUser(r) \/ CheckPermission(r) \/ IntrospectUser(r)
               \/ RefreshUser(r)
               \/ SelectTenant(r) \/ LogoutKeys(r) \/ LogoutDel(r)
        PROVE  q \in Admitted(u)
    BY <2>2 DEF GuardUser, CheckPermission, Behind, IntrospectUser, RefreshUser,
       SelectTenant, LogoutKeys, LogoutDel, Go, LocalsOK, Guarded, Managed
  <2>3. ASSUME NEW r \in Requests, NEW o, NEW t, NEW at, Enters(r, o, t, at)
        PROVE  q \in Admitted(u)
    BY <2>3 DEF Enters, Arrive
  <2>4. CASE Environment
    BY <2>4 DEF Environment, SocialLogin, DeleteUser, UpdateStatus, SessionExpire,
       localVars
  <2>5. QED
    BY ArrivalEnters, <2>1, <2>2, <2>3, <2>4 DEF Next, Arrivals, Handler
<1>2. QED
  BY <1>1, Inductive, PTL DEF Spec

\* The steps a request still has, at most, from each await.
StepsLeft(at) ==
    IF at = "idle" THEN 0
    ELSE IF at \in Replies THEN 1
    ELSE IF at \in {"login_session", "permission", "select", "logout_del",
                    "introspect_user", "refresh_user", "grant_create",
                    "authorize_user"} THEN 2
    ELSE IF at \in {"logout_keys", "introspect_session", "refresh_session",
                    "grant_session"} THEN 3
    ELSE IF at \in {"guard_user", "grant_user"} THEN 4
    ELSE 5

\* A handler runs through five steps at most and waits for no other: each of its
\* own steps brings it nearer to its end, and nobody else's takes it back.
THEOREM HandlersEnd ==
    Spec => [][\A r \in Requests :
                 /\ Handler(r) => StepsLeft(pc'[r]) < StepsLeft(pc[r])
                 /\ pc[r] # "idle" => StepsLeft(pc'[r]) <= StepsLeft(pc[r])]_vars
<1> DEFINE Nearer(r) ==
        /\ Handler(r) => StepsLeft(pc'[r]) < StepsLeft(pc[r])
        /\ pc[r] # "idle" => StepsLeft(pc'[r]) <= StepsLeft(pc[r])
<1>1. IInv /\ [Next]_vars => [\A r \in Requests : Nearer(r)]_vars
  <2> SUFFICES ASSUME IInv, Next, NEW q \in Requests
               PROVE  Nearer(q)
    OBVIOUS
  <2> USE DEF IInv, Base, TypeOK, LocalsOK
  <2>1. ASSUME NEW r \in Requests, Handler(r)
        PROVE  /\ StepsLeft(pc'[r]) < StepsLeft(pc[r])
               /\ \A p \in Requests \ {r} : pc'[p] = pc[p]
    <3>1. ASSUME \/ LoginSession(r) \/ GuardSession(r) \/ GuardUser(r)
                 \/ CheckPermission(r) \/ SelectTenant(r) \/ LogoutKeys(r) \/ LogoutDel(r)
          PROVE  /\ StepsLeft(pc'[r]) < StepsLeft(pc[r])
                 /\ \A p \in Requests \ {r} : pc'[p] = pc[p]
      BY <3>1 DEF LoginSession, GuardSession, GuardUser, CheckPermission, Behind,
         SelectTenant, LogoutKeys, LogoutDel, Go, StepsLeft, Replies, Guarded,
         Managed
    <3>2. ASSUME \/ IntrospectSession(r) \/ IntrospectUser(r) \/ RefreshSession(r)
                 \/ RefreshUser(r)
          PROVE  /\ StepsLeft(pc'[r]) < StepsLeft(pc[r])
                 /\ \A p \in Requests \ {r} : pc'[p] = pc[p]
      BY <3>2 DEF IntrospectSession, IntrospectUser, RefreshSession, RefreshUser,
         Go, StepsLeft, Replies
    <3>3. ASSUME \/ GrantUser(r) \/ GrantSession(r) \/ GrantCreate(r)
                 \/ AuthorizeUser(r) \/ Reply(r)
          PROVE  /\ StepsLeft(pc'[r]) < StepsLeft(pc[r])
                 /\ \A p \in Requests \ {r} : pc'[p] = pc[p]
      BY <3>3 DEF GrantUser, GrantSession, GrantCreate, AuthorizeUser, Reply, Leave,
         Go, StepsLeft, Replies
    <3>4. QED
      BY <2>1, <3>1, <3>2, <3>3 DEF Handler
  <2>2. \A r \in Requests : StepsLeft(pc[r]) \in 0..5 /\ StepsLeft("idle") = 0
    BY DEF StepsLeft
  <2>3. ASSUME NEW r \in Requests, Handler(r)
        PROVE  Nearer(q)
    <3>1. Handler(q) => StepsLeft(pc'[q]) < StepsLeft(pc[q])
      BY <2>1
    <3>2. StepsLeft(pc'[q]) <= StepsLeft(pc[q])
      <4>1. CASE q = r
        <5>1. StepsLeft(pc'[q]) < StepsLeft(pc[q]) /\ StepsLeft(pc'[q]) \in 0..5
          BY <2>1, <2>3, <4>1 DEF StepsLeft
        <5>2. QED
          BY <2>2, <5>1
      <4>2. CASE q # r
        BY <2>1, <2>2, <2>3, <4>2
      <4>3. QED
        BY <4>1, <4>2
    <3>3. QED
      BY <3>1, <3>2
  <2>4. ASSUME ~ \E r \in Requests : Handler(r),
               pc[q] # "idle" => pc'[q] \in {pc[q], "idle"}
        PROVE  Nearer(q)
    BY <2>2, <2>4
  <2>5. ASSUME NEW r \in Requests, NEW o, NEW t, NEW at, Enters(r, o, t, at)
        PROVE  pc[q] # "idle" => pc'[q] \in {pc[q], "idle"}
    BY <2>5 DEF Enters, Arrive
  <2>6. ASSUME NEW r \in Requests, SetexLost(r) \/ Crash(r)
        PROVE  pc[q] # "idle" => pc'[q] \in {pc[q], "idle"}
    BY <2>6 DEF SetexLost, Crash, Leave, Go
  <2>7. ASSUME Environment
        PROVE  pc[q] # "idle" => pc'[q] \in {pc[q], "idle"}
    BY <2>7 DEF Environment, SocialLogin, DeleteUser, UpdateStatus, SessionExpire,
       localVars
  <2>8. QED
    BY ArrivalEnters, <2>3, <2>4, <2>5, <2>6, <2>7 DEF Next, Arrivals
<1>2. QED
  BY <1>1, Inductive, PTL DEF Spec
=============================================================================
