--------------------------- MODULE MCSourceSync ---------------------------
(***************************************************************************)
(* SourceSync for TLC.  Jobs, URLs and HWID values are model values; jobs   *)
(* and inputs are interchangeable, so the safety run uses their symmetry.   *)
(***************************************************************************)
EXTENDS SourceSync, TLC

Symmetry == Permutations(Jobs) \cup Permutations(Urls)
=============================================================================
