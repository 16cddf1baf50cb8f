--------------------------- MODULE MCRecordPages ----------------------------
(***************************************************************************)
(* A small instance of the pages that show and change one record of the    *)
(* API: the profile and its phone number (/me, /verify-phone), the         *)
(* password and second factor (/me/security), the sign-in settings of an   *)
(* organization, of which there are two, and two accounts of the platform  *)
(* (/platform/users).  A behaviour is about one page; the others stay      *)
(* closed.                                                                 *)
(***************************************************************************)
EXTENDS RecordPages, TLC

Symmetry ==
    Permutations(Numbers) \cup Permutations(Values)
=============================================================================
