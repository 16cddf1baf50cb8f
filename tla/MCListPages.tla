---------------------------- MODULE MCListPages -----------------------------
(***************************************************************************)
(* A small instance of the pages that show rows of the API through cached  *)
(* queries and change them from dialogs: the passkeys of a user, and, with *)
(* two organizations to select, the users of an organization and their     *)
(* roles, its mail or SMS configurations, and its social providers.  A     *)
(* behaviour is about one page; the others stay closed.                    *)
(***************************************************************************)
EXTENDS ListPages, TLC

Symmetry == Permutations(Orgs)
=============================================================================
