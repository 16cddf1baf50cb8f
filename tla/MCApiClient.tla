---------------------------- MODULE MCApiClient ----------------------------
(***************************************************************************)
(* Small instances of ApiClient for TLC: two users of one browser, with a  *)
(* login and an organization each; and, for liveness, one of them.         *)
(***************************************************************************)
EXTENDS ApiClient, TLC

CONSTANTS alice, bob, s1, s2, t1, t2

MCOwner       == s1 :> alice @@ s2 :> bob
MCTenantsOf   == alice :> {t1} @@ bob :> {t2}
MCFirstTenant == alice :> t1 @@ bob :> t2

\* One user and one login.
MCOwner1       == s1 :> alice
MCTenantsOf1   == alice :> {t1}
MCFirstTenant1 == alice :> t1

Symmetry == Permutations(Requests)
=============================================================================
