----------------------------- MODULE MCBackup -----------------------------
(***************************************************************************)
(* Backup for TLC.  Two changes of the database give three versions: an     *)
(* export, one overtaken by it, and one that overtakes it.                  *)
(***************************************************************************)
EXTENDS Backup
=============================================================================
