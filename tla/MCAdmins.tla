----------------------------- MODULE MCAdmins -----------------------------
(***************************************************************************)
(* Admins for TLC.  Accounts, sessions and starters are interchangeable     *)
(* model values.                                                            *)
(***************************************************************************)
EXTENDS Admins, TLC

Symmetry == Permutations(Admins) \cup Permutations(Sessions) \cup Permutations(Starters)
=============================================================================
