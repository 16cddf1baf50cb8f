---------------------------- MODULE MCFormPages -----------------------------
(***************************************************************************)
(* A small instance of the pages whose forms keep what they ask for and    *)
(* show: /login (two accounts; both credential tabs, or the magic link     *)
(* alone), the pages that sign a visitor in, the pages that mail something *)
(* or spend what was mailed, and the platform's pages that give out a      *)
(* secret.  A behaviour is about one page; the others stay closed.         *)
(***************************************************************************)
EXTENDS FormPages, TLC

MCMethodSets == {Methods, {"magic_link"}}

Symmetry == Permutations(Accounts) \cup Permutations(Addresses)
=============================================================================
