----------------------------- MODULE MCOidcCode -----------------------------
(***************************************************************************)
(* Small instances of OidcCode for TLC.                                    *)
(***************************************************************************)
EXTENDS OidcCode, TLC

\* Codes and requests are interchangeable.
Symmetry == Permutations(Codes) \cup Permutations(Requests)
=============================================================================
