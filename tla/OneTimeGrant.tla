---------------------------- MODULE OneTimeGrant ----------------------------
(***************************************************************************)
(* What the API promises of everything it calls single-use: a magic link,  *)
(* an authorization code, a pending MFA login.  Such a grant is issued     *)
(* once, claimed by one presenter at most, and pays for one session at     *)
(* most.  Redis keeps the grants; the modules that model the code map      *)
(* their state onto "stage" and "paid".                                    *)
(***************************************************************************)
EXTENDS Naturals

CONSTANT Grants

VARIABLES
    stage,  \* per grant: how far it has come
    paid    \* per grant that is not shared: the sessions created for it

vars == <<stage, paid>>

Stages == {"unissued", "valid", "claimed", "redeemed", "void", "shared"}

Init ==
    /\ stage = [g \in Grants |-> "unissued"]
    /\ paid  = [g \in Grants |-> 0]

Move(g, from, to) ==
    /\ stage[g] \in from
    /\ stage' = [stage EXCEPT ![g] = to]

Issue(g)  == Move(g, {"unissued"}, "valid") /\ UNCHANGED paid

\* One presenter takes the grant: it is worth nothing to any other from here on.
Claim(g)  == Move(g, {"valid"}, "claimed") /\ UNCHANGED paid

\* The claimant passes the remaining checks and gets its session ...
Redeem(g) ==
    /\ Move(g, {"claimed"}, "redeemed")
    /\ paid' = [paid EXCEPT ![g] = @ + 1]

\* ... or it does not, or the grant expires or is withdrawn unclaimed.
Void(g)   == Move(g, {"valid", "claimed"}, "void") /\ UNCHANGED paid

\* A new grant takes the place of one, which is lost or with its claimant.
Replace(g, h) ==
    /\ stage[g] = "valid" /\ stage[h] = "unissued"
    /\ \E left \in {"claimed", "void"} :
        stage' = [stage EXCEPT ![g] = left, ![h] = "valid"]
    /\ UNCHANGED paid

\* Two presenters have the grant in hand at once.  Where the code lets that
\* happen, nothing is promised of the grant from here on.
Share(g)  == Move(g, {"valid"}, "shared") /\ UNCHANGED paid

\* Every step moves a grant; said first, it spares TLC the rest of most steps.
Next ==
    /\ stage' # stage
    /\ \E g \in Grants :
        \/ Issue(g) \/ Claim(g) \/ Redeem(g) \/ Void(g) \/ Share(g)
        \/ \E h \in Grants : Replace(g, h)

Spec == Init /\ [][Next]_vars

\* No grant pays for two sessions.
AtMostOnce == \A g \in Grants : paid[g] \leq 1
=============================================================================
