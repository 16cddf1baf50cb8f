---------------------------- MODULE EmailLogins -----------------------------
(***************************************************************************)
(* The two ways to sign in with an e-mail address: by a password and by a  *)
(* magic link.  What the one writes the other does not read (a link works  *)
(* while the password is locked out): a behaviour is about one of them,    *)
(* and the other stays as it is.                                           *)
(***************************************************************************)
EXTENDS MagicLink, PasswordLogin

VARIABLE opened     \* the way the behaviour is about

ClosedLinks == Init /\ status = [u \in Users |-> "ACTIVE"]

\* The way that is opened moves, the other stays as it is.
Moves(it, Step, its) ==
    \/ opened = it /\ Step
    \/ opened # it /\ UNCHANGED its

EmailInit ==
    /\ PasswordInit
    /\ \/ opened = "link" /\ Init
       \/ opened = "password" /\ ClosedLinks

EmailNext ==
    /\ UNCHANGED opened
    /\ Moves("link", Next, vars)
    /\ Moves("password", PasswordNext, passwordVars)

EmailSpec == EmailInit /\ [][EmailNext]_<<opened, vars, passwordVars>>
=============================================================================
