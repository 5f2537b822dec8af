--------------------------- MODULE MCHealthBatch ---------------------------
(***************************************************************************)
(* HealthBatch for TLC.  Three targets and two slots: a target waits for a  *)
(* slot, and two contend for the mutex.                                     *)
(***************************************************************************)
EXTENDS HealthBatch
=============================================================================
