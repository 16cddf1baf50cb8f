----------------------------- MODULE MCMfaTotp -----------------------------
(***************************************************************************)
(* Small instances of MfaTotp for TLC.                                     *)
(***************************************************************************)
EXTENDS MfaTotp, TLC

\* Secrets, suspended logins and requests are interchangeable.
Symmetry == Permutations(Secrets) \cup Permutations(Logins)
            \cup Permutations(Requests)
=============================================================================
