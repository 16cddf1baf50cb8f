--------------------------- MODULE PasswordLogin ----------------------------
(***************************************************************************)
(* Accounts and their passwords: registering, POST /auth/login with its    *)
(* lockout, and the three ways a password is set (AuthService).            *)
(*                                                                         *)
(* Handlers are split at each await: the SELECT of the account, what is    *)
(* decided from it, and the UPDATE with its COMMIT.  Each request has a    *)
(* database session of its own, which writes what it has computed from the *)
(* row it read, however old: failed_login_attempts is incremented in       *)
(* Python, and assigning the 0 that was read writes nothing.               *)
(*                                                                         *)
(* A user who is signed in is authenticated as in Sessions.  Accounts are  *)
(* not deleted here.  The form of /oidc/authorize compares a password too; *)
(* it neither looks at the counter nor writes it.                          *)
(***************************************************************************)
EXTENDS Naturals

CONSTANTS
    Holders,    \* e-mail addresses, one account each at most
    Passwords,
    Attempts,   \* requests that can be in flight at once
    NoHolder,   \* the address of an attempt that is idle
    NoPassword, \* password_hash of an account made by a social login
    Absent,     \* password_hash of an address that has no account
    MaxGuesses  \* what GuessesAreBounded claims

ASSUME PasswordLoginAssumption ==
    /\ NoHolder \notin Holders
    /\ NoPassword \notin Passwords /\ Absent \notin Passwords
    /\ NoPassword # Absent
    /\ MaxGuesses \in Nat

Limit == 5              \* failed_login_attempts >= 5

Ways    == {"register", "login", "ask", "reset", "set", "change"}
Stages  == {"row", "wrong", "right", "send", "policy", "commit"}
Answers == {"let_in", "done", "turned_away"}

VARIABLES
    hash,       \* Postgres: users.password_hash
    failed,     \* Postgres: users.failed_login_attempts
    mailed,     \* accounts for which an unexpired reset token exists
    stage,      \* per attempt: the await it stands at, or its answer
    way,        \* per attempt: the handler
    whose,      \* per attempt: the address, or the user who is signed in
    given,      \* per attempt: the password to be verified
    fresh,      \* per attempt: the password to be set
    seen,       \* per attempt: failed_login_attempts of the row it has read
    \* History, read by no action
    guesses,    \* wrong passwords answered since the account was last let in
    entitled    \* attempts whose right held at some instant since they arrived

accountVars == <<hash, failed, mailed>>
attemptVars == <<whose, given, fresh, seen>>
passwordVars == <<hash, failed, mailed, stage, way, whose, given, fresh, seen,
                  guesses, entitled>>

Hashes == Passwords \cup {NoPassword, Absent}

PasswordTypeOK ==
    /\ hash     \in [Holders -> Hashes]
    /\ failed   \in [Holders -> 0..Limit]
    /\ mailed   \subseteq Holders
    /\ stage    \in [Attempts -> {"idle"} \cup Stages \cup Answers]
    /\ way      \in [Attempts -> Ways]
    /\ whose    \in [Attempts -> Holders \cup {NoHolder}]
    /\ given    \in [Attempts -> Passwords \cup {NoPassword}]
    /\ fresh    \in [Attempts -> Passwords \cup {NoPassword}]
    /\ seen     \in [Attempts -> 0..Limit]
    /\ guesses  \in [Holders -> Nat]
    /\ entitled \subseteq Attempts

PasswordInit ==
    /\ hash     = [u \in Holders |-> Absent]
    /\ failed   = [u \in Holders |-> 0]
    /\ mailed   = {}
    /\ stage    = [a \in Attempts |-> "idle"]
    /\ way      = [a \in Attempts |-> "login"]
    /\ whose    = [a \in Attempts |-> NoHolder]
    /\ given    = [a \in Attempts |-> NoPassword]
    /\ fresh    = [a \in Attempts |-> NoPassword]
    /\ seen     = [a \in Attempts |-> 0]
    /\ guesses  = [u \in Holders |-> 0]
    /\ entitled = {}

At(a, w, s) == stage[a] = s /\ way[a] = w

\* On to an await.
On(a, s) ==
    /\ stage' = [stage EXCEPT ![a] = s]
    /\ UNCHANGED <<way, attemptVars>>

\* The answer; the locals die with the handler.
Answer(a, s) ==
    /\ stage' = [stage EXCEPT ![a] = s]
    /\ given' = [given EXCEPT ![a] = NoPassword]
    /\ fresh' = [fresh EXCEPT ![a] = NoPassword]
    /\ seen'  = [seen EXCEPT ![a] = 0]
    /\ UNCHANGED <<way, whose>>

\* Answered at once unless the condition holds.
OnIf(a, ok, s) == IF ok THEN On(a, s) ELSE Answer(a, "turned_away")

Arrive(a, w, u, p, q) ==
    /\ stage[a] = "idle"
    /\ stage' = [stage EXCEPT ![a] = "row"]
    /\ way'   = [way EXCEPT ![a] = w]
    /\ whose' = [whose EXCEPT ![a] = u]
    /\ given' = [given EXCEPT ![a] = p]
    /\ fresh' = [fresh EXCEPT ![a] = q]
    /\ UNCHANGED <<accountVars, seen, guesses>>

-----------------------------------------------------------------------------
(***************************************************************************)
(* POST /auth/login: authenticate_user                                     *)
(***************************************************************************)

LoginArrives(a, u, p) == Arrive(a, "login", u, p, NoPassword)

\* What the row of the account decides once it is known to have one.
Compare(a, open) ==
    LET u == whose[a]
        s == IF given[a] = hash[u] THEN "right" ELSE "wrong" IN
    /\ At(a, "login", "row")
    /\ \/ /\ hash[u] # Absent /\ open
          /\ stage' = [stage EXCEPT ![a] = s]
          /\ seen'  = [seen EXCEPT ![a] = failed[u]]
          /\ UNCHANGED <<way, whose, given, fresh>>
       \/ /\ hash[u] = Absent \/ ~ open
          /\ Answer(a, "turned_away")
    /\ UNCHANGED <<accountVars, guesses>>

\* Broken variant: one guess too many.
LoginRowOffByOne(a) == Compare(a, failed[whose[a]] <= Limit)

\* Broken variant: the right password is asked for first, the lock after it.
LoginRowLockedLast(a) ==
    Compare(a, failed[whose[a]] < Limit \/ given[a] = hash[whose[a]])

\* get_by_email, the lockout, and the password against the hash that was read.
LoginReads(a) == Compare(a, failed[whose[a]] < Limit)

\* COMMIT of what was read, plus one.  No password matches NoPassword.
LoginWrong(a) ==
    /\ At(a, "login", "wrong")
    /\ failed'  = [failed EXCEPT ![whose[a]] = seen[a] + 1]
    /\ guesses' = [guesses EXCEPT ![whose[a]] = @ + 1]
    /\ Answer(a, "turned_away")
    /\ UNCHANGED <<hash, mailed>>

\* COMMIT of last_login_at and, if the row that was read had failures, of zero.
LoginRight(a) ==
    /\ At(a, "login", "right")
    /\ failed'  = [failed EXCEPT ![whose[a]] = IF seen[a] = 0 THEN @ ELSE 0]
    /\ guesses' = [guesses EXCEPT ![whose[a]] = 0]
    /\ Answer(a, "let_in")
    /\ UNCHANGED <<hash, mailed>>

-----------------------------------------------------------------------------
(***************************************************************************)
(* POST /auth/password-reset/request                                       *)
(***************************************************************************)

AskArrives(a, u) == Arrive(a, "ask", u, NoPassword, NoPassword)

\* An unknown address is answered as any other; an account without a password
\* raises.
AskReads(a) ==
    /\ At(a, "ask", "row")
    /\ \/ hash[whose[a]] = Absent /\ Answer(a, "done")
       \/ hash[whose[a]] = NoPassword /\ Answer(a, "turned_away")
       \/ hash[whose[a]] \in Passwords /\ On(a, "send")
    /\ UNCHANGED <<accountVars, guesses>>

\* The mail leaves, or a failure is logged; the answer is the same.  A token is
\* good for its hour, however often it is used or mailed.
AskSends(a) ==
    /\ At(a, "ask", "send")
    /\ mailed' \in {mailed, mailed \cup {whose[a]}}
    /\ Answer(a, "done")
    /\ UNCHANGED <<hash, failed, guesses>>

-----------------------------------------------------------------------------
(***************************************************************************)
(* Setting a password: POST /auth/register, /password-reset/confirm,       *)
(* /set-password and /update-password                                      *)
(***************************************************************************)

RegisterArrives(a, u, q) == Arrive(a, "register", u, NoPassword, q)

\* The JWT is checked when it arrives.
ResetArrives(a, u, q) == u \in mailed /\ Arrive(a, "reset", u, NoPassword, q)

\* The user is signed in, so there is an account.
SetArrives(a, u, q)       == hash[u] # Absent /\ Arrive(a, "set", u, NoPassword, q)
ChangeArrives(a, u, p, q) == hash[u] # Absent /\ Arrive(a, "change", u, p, q)

\* Broken variant: /set-password does not ask whether there is a password.
MayOverwrite(a) ==
    LET h == hash[whose[a]] IN
    CASE way[a] = "register" -> h = Absent
      [] way[a] = "change"   -> h \in Passwords /\ given[a] = h
      [] OTHER               -> h # Absent

\* What the row must say before the new password is looked at.
May(a) ==
    LET h == hash[whose[a]] IN
    CASE way[a] = "register" -> h = Absent
      [] way[a] = "reset"    -> h # Absent
      [] way[a] = "set"      -> h = NoPassword
      [] way[a] = "change"   -> h \in Passwords /\ given[a] = h
      [] OTHER               -> FALSE

SetterReads(a) ==
    /\ stage[a] = "row" /\ way[a] \in {"register", "reset", "set", "change"}
    /\ OnIf(a, May(a), "policy")
    /\ UNCHANGED <<accountVars, guesses>>

\* _validate_new_password: the policy of the tenant is awaited.
Policy(a) ==
    /\ stage[a] = "policy"
    /\ On(a, "commit") \/ Answer(a, "turned_away")
    /\ UNCHANGED <<accountVars, guesses>>

\* INSERT and COMMIT: users.email is unique, so the later of two registrations
\* fails, as one does whose user name or phone number is another's.  The account
\* stays if its verifications cannot be started, though the answer is an error.
RegisterCommits(a) ==
    /\ At(a, "register", "commit")
    /\ \/ /\ hash[whose[a]] = Absent
          /\ hash' = [hash EXCEPT ![whose[a]] = fresh[a]]
          /\ Answer(a, "done") \/ Answer(a, "turned_away")
       \/ Answer(a, "turned_away") /\ UNCHANGED hash
    /\ UNCHANGED <<failed, mailed, guesses>>

\* UPDATE of password_hash, over whatever it has become.  The counter of failed
\* logins stays, and so do the tokens that were mailed.
SetterCommits(a) ==
    /\ stage[a] = "commit" /\ way[a] # "register"
    /\ hash' = [hash EXCEPT ![whose[a]] = fresh[a]]
    /\ Answer(a, "done")
    /\ UNCHANGED <<failed, mailed, guesses>>

-----------------------------------------------------------------------------

Departs(a) ==
    /\ stage' = [stage EXCEPT ![a] = "idle"]
    /\ way'   = [way EXCEPT ![a] = "login"]
    /\ whose' = [whose EXCEPT ![a] = NoHolder]
    /\ given' = [given EXCEPT ![a] = NoPassword]
    /\ fresh' = [fresh EXCEPT ![a] = NoPassword]
    /\ seen'  = [seen EXCEPT ![a] = 0]
    /\ UNCHANGED <<accountVars, guesses>>

Answered(a) == stage[a] \in Answers /\ Departs(a)

\* The worker dies or the database is lost: nothing is committed or answered.
Dies(a) == stage[a] \in Stages /\ Departs(a)

\* A social login makes an account without a password.
SocialSignUp(u) ==
    /\ hash[u] = Absent
    /\ hash' = [hash EXCEPT ![u] = NoPassword]
    /\ UNCHANGED <<failed, mailed, stage, way, attemptVars, guesses>>

\* The hour of the reset tokens is over.
TokenExpires(u) ==
    /\ u \in mailed
    /\ mailed' = mailed \ {u}
    /\ UNCHANGED <<hash, failed, stage, way, attemptVars, guesses>>

\* The right an attempt claims: the password it gives is the account's, the
\* account has none yet, a token for it is out, or the address is free.
Right(a) ==
    LET h == hash[whose[a]] IN
    CASE way[a] \in {"login", "change"} -> h \in Passwords /\ given[a] = h
      [] way[a] = "set"                 -> h = NoPassword
      [] way[a] = "reset"               -> whose[a] \in mailed
      [] way[a] = "register"            -> h = Absent
      [] OTHER                          -> TRUE

Witnessed ==
    entitled' = {a \in Attempts : stage'[a] # "idle" /\ (a \in entitled \/ Right(a)')}

Arrivals(a) == \E u \in Holders :
    \/ AskArrives(a, u)
    \/ \E p \in Passwords :
        \/ LoginArrives(a, u, p) \/ RegisterArrives(a, u, p)
        \/ ResetArrives(a, u, p) \/ SetArrives(a, u, p)
        \/ \E q \in Passwords : ChangeArrives(a, u, p, q)

Attempt(a) ==
    \/ LoginReads(a) \/ LoginWrong(a) \/ LoginRight(a)
    \/ AskReads(a) \/ AskSends(a)
    \/ SetterReads(a) \/ Policy(a) \/ RegisterCommits(a) \/ SetterCommits(a)

PasswordNext ==
    /\ \/ \E a \in Attempts : \/ Arrivals(a) \/ Attempt(a)
                             \/ Answered(a) \/ Dies(a)
       \/ \E u \in Holders : SocialSignUp(u) \/ TokenExpires(u)
    /\ Witnessed

PasswordSpec == PasswordInit /\ [][PasswordNext]_passwordVars

-----------------------------------------------------------------------------
(***************************************************************************)
(* Properties                                                              *)
(***************************************************************************)

\* Between two logins that are let in, POST /auth/login answers a limited number
\* of wrong passwords.  Limit of them, one attempt at a time; an attempt that
\* commits late takes the counter back, but each time to a higher value, so that
\* two overlapping attempts get 6 + 5 + 4 + 3 + 2 answers and no more.  (For any
\* number of them the bound is that of GuessesBounded in EmailLogins_proofs.)
GuessesAreBounded == \A u \in Holders : guesses[u] <= MaxGuesses

\* The counter has reached the limit, and no login that was let past it is still
\* to commit.
Locked(u) ==
    /\ failed[u] = Limit
    /\ \A a \in Attempts : whose[a] = u => ~ At(a, "login", "wrong") /\
                                          ~ At(a, "login", "right")

\* A lock that is complete is final: whatever is asked, reset, set or changed and
\* whatever dies, nothing in these handlers opens it again.
LockHolds == [][\A u \in Holders : Locked(u) => Locked(u)']_passwordVars

\* Who is let in, or sets a password, had the right to at some instant since the
\* request arrived, although the row is read once and written awaits later.
CredentialsHeld ==
    \A a \in Attempts : stage[a] \in {"let_in", "done"} => a \in entitled
=============================================================================
