------------------------------ MODULE Backup ------------------------------
(***************************************************************************)
(* The SQLite backup: a goroutine that exports the live database with      *)
(* VACUUM INTO, verifies the export and publishes it over the previous one  *)
(* with two renames.  Each system call on the three files is a step; the    *)
(* process may stop between any two of them, and any call may fail.         *)
(*                                                                         *)
(* A file is the version of the database it holds and whether SQLite's      *)
(* integrity check accepts it.  Only this goroutine touches the files.      *)
(***************************************************************************)
EXTENDS Naturals

CONSTANTS
    MaxWrites,      \* bound on changes of the live database
    MaxCrashes,     \* bound on stops of the process
    MaxFaults       \* bound on failed file operations

ASSUME BackupBounds == MaxWrites \in Nat /\ MaxCrashes \in Nat /\ MaxFaults \in Nat

VARIABLES
    database,       \* Nat: version of the live database
    backup,         \* the file at BACKUP_PATH
    candidate,      \* the file at BACKUP_PATH.tmp
    previous,       \* the file at BACKUP_PATH.previous
    pc,             \* the goroutine's next step
    hadPrevious,    \* BOOLEAN: local of publishSQLiteBackup
    prior,          \* history: the file at BACKUP_PATH when the attempt began
    published,      \* history: the version last renamed to BACKUP_PATH, 0 before the first
    crashes, faults

files == <<backup, candidate, previous>>
vars == <<database, files, pc, hadPrevious, prior, published, crashes, faults>>

File == [version : Nat, sound : BOOLEAN]
Missing == [version |-> 0, sound |-> FALSE]

\* Where the goroutine is; "waiting" for the ticker or the first run at start.
Steps == {"waiting", "exporting", "copying", "verifying", "clearing", "preserving",
          "publishing", "restoring", "discarding", "dropping", "down"}

TypeOK ==
    /\ database \in Nat
    /\ backup \in File /\ candidate \in File /\ previous \in File
    /\ pc \in Steps
    /\ hadPrevious \in BOOLEAN
    /\ prior \in File
    /\ published \in Nat
    /\ crashes \in Nat /\ faults \in Nat

Init ==
    /\ database = 1
    /\ backup = Missing /\ candidate = Missing /\ previous = Missing
    /\ pc = "waiting"
    /\ hadPrevious = FALSE
    /\ prior = Missing
    /\ published = 0
    /\ crashes = 0 /\ faults = 0

\* A file operation takes effect or fails.
Try(ok) ==
    /\ ok \/ faults < MaxFaults
    /\ faults' = IF ok THEN faults ELSE faults + 1

-----------------------------------------------------------------------------
(* One attempt, performBackup.                                              *)

\* Variant for the checks: a leftover of an attempt that died stays in the way.
KeepLeftover(ok) == UNCHANGED candidate

RemoveLeftover(ok) == candidate' = IF ok THEN Missing ELSE candidate

Begin ==
    /\ pc = "waiting"
    /\ \E ok \in BOOLEAN : Try(ok) /\ RemoveLeftover(ok)
    /\ prior' = backup
    /\ pc' = "exporting"
    /\ UNCHANGED <<database, backup, previous, hadPrevious, published, crashes>>

\* VACUUM INTO refuses a file that exists and reads one snapshot; until it is
\* complete the file is no database.
Export ==
    /\ pc = "exporting"
    /\ IF candidate = Missing
       THEN /\ candidate' = [version |-> database, sound |-> FALSE]
            /\ pc' = "copying"
       ELSE /\ pc' = "waiting"
            /\ UNCHANGED candidate
    /\ UNCHANGED <<database, backup, previous, hadPrevious, prior, published, crashes, faults>>

\* The copy ends well, fails, or seems to end well on a damaged disk.
Copied ==
    /\ pc = "copying"
    /\ \E ok \in BOOLEAN, next \in {"verifying", "waiting"} :
        /\ Try(ok)
        /\ ok => next = "verifying"
        /\ candidate' = [candidate EXCEPT !.sound = ok]
        /\ pc' = next
    /\ UNCHANGED <<database, backup, previous, hadPrevious, prior, published, crashes>>

\* Variant for the checks: the export is taken for granted.
AcceptAny(ok) == TRUE

\* PRAGMA integrity_check; opening the file may also fail.
Accepted(ok) == candidate.sound /\ ok

Verify ==
    /\ pc = "verifying"
    /\ \E ok \in BOOLEAN :
        /\ Try(ok)
        /\ pc' = IF Accepted(ok) THEN "clearing" ELSE "discarding"
    /\ UNCHANGED <<database, files, hadPrevious, prior, published, crashes>>

-----------------------------------------------------------------------------
(* Publication, preserveSQLiteBackup and publishSQLiteBackup.               *)

Clear ==
    /\ pc = "clearing"
    /\ \E ok \in BOOLEAN : Try(ok) /\ previous' = IF ok THEN Missing ELSE previous
    /\ pc' = "preserving"
    /\ UNCHANGED <<database, backup, candidate, hadPrevious, prior, published, crashes>>

\* Nothing to preserve, or the rename that moves the backup aside.
Preserve ==
    /\ pc = "preserving"
    /\ \E ok \in BOOLEAN :
        /\ Try(ok)
        /\ hadPrevious' = (ok /\ backup # Missing)
        /\ pc' = IF ok THEN "publishing" ELSE "discarding"
        /\ IF ok /\ backup # Missing
           THEN previous' = backup /\ backup' = Missing
           ELSE UNCHANGED <<previous, backup>>
    /\ UNCHANGED <<database, candidate, prior, published, crashes>>

Publish ==
    /\ pc = "publishing"
    /\ \E ok \in BOOLEAN :
        /\ Try(ok)
        /\ IF ok
           THEN /\ backup' = candidate
                /\ candidate' = Missing
                /\ published' = candidate.version
                /\ pc' = IF hadPrevious THEN "dropping" ELSE "waiting"
           ELSE /\ pc' = IF hadPrevious THEN "restoring" ELSE "discarding"
                /\ UNCHANGED <<backup, candidate, published>>
    /\ UNCHANGED <<database, previous, hadPrevious, prior, crashes>>

\* Variant for the checks: the artifact set aside is removed, not moved back.
RestoreByRemoval(ok) == previous' = Missing /\ UNCHANGED backup

MoveBack(ok) ==
    IF ok THEN backup' = previous /\ previous' = Missing ELSE UNCHANGED <<backup, previous>>

\* A failed publication moves the artifact back, best effort.
Restore ==
    /\ pc = "restoring"
    /\ \E ok \in BOOLEAN : Try(ok) /\ MoveBack(ok)
    /\ pc' = "discarding"
    /\ UNCHANGED <<database, candidate, hadPrevious, prior, published, crashes>>

\* Variant for the checks: the goroutine ends at the first failed attempt.
DiscardAndStop ==
    /\ pc = "discarding"
    /\ \E ok \in BOOLEAN : Try(ok) /\ candidate' = IF ok THEN Missing ELSE candidate
    /\ pc' = "stopped"
    /\ UNCHANGED <<database, backup, previous, hadPrevious, prior, published, crashes>>

\* Every failure after the export removes the candidate, best effort.
Discard ==
    /\ pc = "discarding"
    /\ \E ok \in BOOLEAN : Try(ok) /\ candidate' = IF ok THEN Missing ELSE candidate
    /\ pc' = "waiting"
    /\ UNCHANGED <<database, backup, previous, hadPrevious, prior, published, crashes>>

Drop ==
    /\ pc = "dropping"
    /\ \E ok \in BOOLEAN : Try(ok) /\ previous' = IF ok THEN Missing ELSE previous
    /\ pc' = "waiting"
    /\ UNCHANGED <<database, backup, candidate, hadPrevious, prior, published, crashes>>

Attempt ==
    \/ Begin \/ Export \/ Copied \/ Verify
    \/ Clear \/ Preserve \/ Publish \/ Restore \/ Discard \/ Drop

-----------------------------------------------------------------------------

Write ==
    /\ pc # "down" /\ database <= MaxWrites
    /\ database' = database + 1
    /\ UNCHANGED <<files, pc, hadPrevious, prior, published, crashes, faults>>

\* The files survive the process; startBackup makes an attempt at every start.
Crash ==
    /\ pc # "down" /\ crashes < MaxCrashes
    /\ crashes' = crashes + 1
    /\ pc' = "down"
    /\ hadPrevious' = FALSE
    /\ UNCHANGED <<database, files, prior, published, faults>>

Restart ==
    /\ pc = "down"
    /\ pc' = "waiting"
    /\ UNCHANGED <<database, files, hadPrevious, prior, published, crashes, faults>>

Next == Attempt \/ Write \/ Crash \/ Restart

Spec == Init /\ [][Next]_vars

\* The goroutine's loop never ends, and the container is restarted.
FairSpec == Spec /\ WF_vars(Attempt) /\ WF_vars(Restart)

-----------------------------------------------------------------------------
(* Properties                                                                *)

\* What is at the destination or set aside is a complete, verified export:
\* never the partial file of a failed or interrupted VACUUM INTO.
OnlyVerifiedIsPublished ==
    /\ backup # Missing => backup.sound
    /\ previous # Missing => previous.sound

\* One attempt never loses what it found: from its start, through every failed
\* call, until the next attempt begins, the artifact that was at the
\* destination or a newer one is at the destination or set aside.
AttemptKeepsThePrior ==
    prior # Missing =>
        \E f \in {backup, previous} : f.sound /\ f.version >= prior.version

\* Every change of the database reaches a published backup: no leftover of a
\* failed or interrupted attempt blocks the attempts after it.
ChangesReachABackup ==
    \A v \in 1..MaxWrites + 1 : (database >= v) ~> (backup.version >= v)

\* "Publication owns a verified candidate, its destination and recoverable
\* prior artifact." (backup_publication.go): once a backup was published, a
\* verified export is always in one of the three files.
AnArtifactSurvives ==
    published > 0 => \E f \in {backup, previous, candidate} : f.sound
=============================================================================
