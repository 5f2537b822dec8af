---------------------------- MODULE MCReconcile ----------------------------
(***************************************************************************)
(* Reconcile for TLC.  Profiles and labels are interchangeable.             *)
(***************************************************************************)
EXTENDS Reconcile, TLC

Symmetry == Permutations(Profiles) \cup Permutations(Labels)
=============================================================================
