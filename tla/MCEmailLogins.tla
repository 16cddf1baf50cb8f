--------------------------- MODULE MCEmailLogins ----------------------------
(***************************************************************************)
(* Small instances of EmailLogins for TLC.                                 *)
(***************************************************************************)
EXTENDS EmailLogins, TLC

\* Links, passwords and requests are interchangeable.
Symmetry == Permutations(Links) \cup Permutations(Requests)
            \cup Permutations(Passwords) \cup Permutations(Attempts)
=============================================================================
