--------------------------- MODULE BackupProofs ---------------------------
(***************************************************************************)
(* Proofs about Backup, for any number of changes, stops and failed calls.  *)
(* The inductive invariant says where the artifact that an attempt found is *)
(* at each of the attempt's steps.                                          *)
(***************************************************************************)
EXTENDS Backup, TLAPS

\* No file is newer than the database it was exported from.
VersionsBounded ==
    /\ backup.version <= database
    /\ prior.version <= database

\* The export of this attempt is not older than what the attempt found.
ExportIsFresh ==
    pc \in {"copying", "verifying", "clearing", "preserving", "publishing"} =>
        prior.version <= candidate.version /\ candidate.version <= database

\* Only an accepted export reaches publication.
ExportIsVerified ==
    pc \in {"clearing", "preserving", "publishing"} => candidate.sound

\* Where the found artifact is while the attempt runs.
PriorIsKnown ==
    /\ pc \in {"exporting", "copying", "verifying", "clearing", "preserving"} => backup = prior
    /\ pc \in {"publishing", "restoring"} =>
        IF hadPrevious THEN previous = prior ELSE prior = Missing
    /\ pc = "restoring" => hadPrevious
    /\ pc = "dropping" => backup.sound /\ backup.version >= prior.version

BackupInv ==
    /\ TypeOK
    /\ OnlyVerifiedIsPublished
    /\ AttemptKeepsThePrior
    /\ VersionsBounded
    /\ ExportIsFresh
    /\ ExportIsVerified
    /\ PriorIsKnown

-----------------------------------------------------------------------------

\* What the steps need to know of files: the fields of one, and that a missing
\* file is neither verified nor new.
LEMMA FileFacts ==
  /\ Missing \in File
  /\ Missing.version = 0 /\ Missing.sound = FALSE
  /\ \A f \in File : f.version \in Nat /\ f.sound \in BOOLEAN
  BY DEF File, Missing

\* A new export is a file with the given fields.
LEMMA NewFile ==
  ASSUME NEW v \in Nat, NEW b \in BOOLEAN
  PROVE  LET f == [version |-> v, sound |-> b] IN
           f \in File /\ f.version = v /\ f.sound = b
  BY DEF File

\* Finishing an export changes its soundness only.
LEMMA SoundFile ==
  ASSUME NEW f \in File, NEW b \in BOOLEAN
  PROVE  LET g == [f EXCEPT !.sound = b] IN
           g \in File /\ g.version = f.version /\ g.sound = b
  BY DEF File

\* Initially no file exists, so there is nothing to lose.
LEMMA BackupInit == Init => BackupInv
<1>1. Init => hadPrevious \in BOOLEAN
  BY Zenon DEF Init
<1> QED
  BY <1>1, BackupBounds, FileFacts DEF Init, BackupInv, TypeOK, Steps, OnlyVerifiedIsPublished,
     AttemptKeepsThePrior, VersionsBounded, ExportIsFresh, ExportIsVerified, PriorIsKnown

\* The preparation of an export touches neither the destination nor the
\* artifact set aside.
LEMMA PreparationKeeps ==
  BackupInv /\ (Begin \/ Export \/ Copied \/ Verify) => BackupInv'
<1> SUFFICES ASSUME BackupInv, Begin \/ Export \/ Copied \/ Verify
             PROVE  BackupInv'
  OBVIOUS
<1> USE BackupBounds, FileFacts DEF BackupInv, TypeOK, Steps, OnlyVerifiedIsPublished,
        AttemptKeepsThePrior, VersionsBounded, ExportIsFresh, ExportIsVerified, PriorIsKnown
<1>1. CASE Begin
  BY <1>1 DEF Begin, RemoveLeftover, Try
<1>2. CASE Export
  <2>1. database \in Nat
    OBVIOUS
  <2>2. CASE candidate = Missing
    <3>1. candidate' \in File /\ candidate'.version = database
      BY <1>2, <2>1, <2>2, NewFile DEF Export
    <3> QED
      BY <1>2, <2>2, <3>1 DEF Export
  <2>3. CASE candidate # Missing
    BY <1>2, <2>3 DEF Export
  <2> QED
    BY <2>2, <2>3
<1>3. CASE Copied
  BY <1>3, SoundFile DEF Copied, Try
<1>4. CASE Verify
  BY <1>4 DEF Verify, Accepted, Try, files
<1> QED
  BY <1>1, <1>2, <1>3, <1>4

\* The two renames and their repair hand the found artifact from one name to
\* the other.
LEMMA PublicationKeeps ==
  BackupInv /\ (Clear \/ Preserve \/ Publish \/ Restore \/ Discard \/ Drop) => BackupInv'
<1> SUFFICES ASSUME BackupInv, Clear \/ Preserve \/ Publish \/ Restore \/ Discard \/ Drop
             PROVE  BackupInv'
  OBVIOUS
<1> USE BackupBounds, FileFacts DEF BackupInv, TypeOK, Steps, OnlyVerifiedIsPublished,
        AttemptKeepsThePrior, VersionsBounded, ExportIsFresh, ExportIsVerified, PriorIsKnown
<1>1. CASE Clear
  BY <1>1 DEF Clear, Try
<1>2. CASE Preserve
  <2>1. hadPrevious' \in BOOLEAN
    BY <1>2, Zenon DEF Preserve
  <2>2. CASE backup = Missing
    BY <1>2, <2>1, <2>2 DEF Preserve, Try
  <2>3. CASE backup # Missing
    BY <1>2, <2>1, <2>3 DEF Preserve, Try
  <2> QED
    BY <2>2, <2>3
<1>3. CASE Publish
  <2> DEFINE Renamed ==
        /\ backup' = candidate /\ candidate' = Missing /\ published' = candidate.version
        /\ pc' = IF hadPrevious THEN "dropping" ELSE "waiting"
      Refused ==
        /\ pc' = IF hadPrevious THEN "restoring" ELSE "discarding"
        /\ UNCHANGED <<backup, candidate, published>>
  <2>1. /\ pc = "publishing" /\ faults' \in Nat /\ (Renamed \/ Refused)
        /\ UNCHANGED <<database, previous, hadPrevious, prior, crashes>>
    BY <1>3 DEF Publish, Try
  <2>2. CASE Renamed
    <3>1. /\ backup' \in File /\ backup'.sound /\ backup'.version <= database
          /\ backup'.version >= prior.version
      BY <2>1, <2>2
    <3>2. TypeOK'
      BY <2>1, <2>2, <3>1
    <3>3. VersionsBounded' /\ ExportIsFresh' /\ ExportIsVerified' /\ PriorIsKnown'
      BY <2>1, <2>2, <3>1
    <3>4. OnlyVerifiedIsPublished' /\ AttemptKeepsThePrior'
      BY <2>1, <3>1
    <3> QED
      BY <3>2, <3>3, <3>4
  <2>3. CASE Refused
    BY <2>1, <2>3
  <2> QED
    BY <2>1, <2>2, <2>3
<1>4. CASE Restore
  <2>1. /\ pc = "restoring" /\ pc' = "discarding" /\ faults' \in Nat
        /\ \/ backup' = previous /\ previous' = Missing
           \/ UNCHANGED <<backup, previous>>
        /\ UNCHANGED <<database, candidate, hadPrevious, prior, published, crashes>>
    BY <1>4 DEF Restore, MoveBack, Try
  <2>2. CASE UNCHANGED <<backup, previous>>
    BY <2>1, <2>2
  <2>3. CASE backup' = previous /\ previous' = Missing
    BY <2>1, <2>3
  <2> QED
    BY <2>1, <2>2, <2>3
<1>5. CASE Discard
  BY <1>5 DEF Discard, Try
<1>6. CASE Drop
  BY <1>6 DEF Drop, Try
<1> QED
  BY <1>1, <1>2, <1>3, <1>4, <1>5, <1>6

\* The database only grows, and a stop or a start moves no file.
LEMMA EnvironmentKeeps ==
  BackupInv /\ (Write \/ Crash \/ Restart) => BackupInv'
<1> SUFFICES ASSUME BackupInv, Write \/ Crash \/ Restart
             PROVE  BackupInv'
  OBVIOUS
<1> USE BackupBounds, FileFacts DEF BackupInv, TypeOK, Steps, OnlyVerifiedIsPublished,
        AttemptKeepsThePrior, VersionsBounded, ExportIsFresh, ExportIsVerified, PriorIsKnown, files
<1>1. CASE Write
  BY <1>1 DEF Write
<1>2. CASE Crash
  <2>1. hadPrevious' \in BOOLEAN
    BY <1>2, Zenon DEF Crash
  <2> QED
    BY <1>2, <2>1 DEF Crash
<1>3. CASE Restart
  BY <1>3 DEF Restart
<1> QED
  BY <1>1, <1>2, <1>3

\* No step changes the invariant when no variable changes.
LEMMA BackupStutter == BackupInv /\ UNCHANGED vars => BackupInv'
  BY DEF BackupInv, TypeOK, OnlyVerifiedIsPublished, AttemptKeepsThePrior, VersionsBounded,
     ExportIsFresh, ExportIsVerified, PriorIsKnown, vars, files

\* The inductive invariant holds in every behaviour of performBackup.
THEOREM BackupInvariant == Spec => []BackupInv
<1>1. BackupInv /\ [Next]_vars => BackupInv'
  BY PreparationKeeps, PublicationKeeps, EnvironmentKeeps, BackupStutter DEF Next, Attempt
<1> QED
  BY BackupInit, <1>1, PTL DEF Spec

\* Type correctness of the files and of the goroutine's locals.
THEOREM BackupTypes == Spec => []TypeOK
<1>1. BackupInv => TypeOK
  BY DEF BackupInv
<1> QED
  BY BackupInvariant, <1>1, PTL

\* The destination and the artifact set aside never hold an export that the
\* integrity check did not accept.
THEOREM PublishedIsVerified == Spec => []OnlyVerifiedIsPublished
<1>1. BackupInv => OnlyVerifiedIsPublished
  BY DEF BackupInv
<1> QED
  BY BackupInvariant, <1>1, PTL

\* No attempt loses the artifact it found, whichever of its calls fail and
\* wherever the process stops.
THEOREM PriorIsKept == Spec => []AttemptKeepsThePrior
<1>1. BackupInv => AttemptKeepsThePrior
  BY DEF BackupInv
<1> QED
  BY BackupInvariant, <1>1, PTL
=============================================================================
