------------------------- MODULE SubscriptionPatch -------------------------
(***************************************************************************)
(* The writers of one user's subscription columns.  A PATCH reads the row,  *)
(* computes the new one and writes it if every column is still what it      *)
(* read; if not it starts over, a limited number of times.  A PUT, a change *)
(* of the user's settings and the user's deletion are single statements     *)
(* that ask nothing.                                                        *)
(***************************************************************************)
EXTENDS SubscriptionRow

CONSTANTS
    Requests, Patches, Gone,
    Attempts,       \* subscriptionPatchAttempts
    MaxChanges      \* bound on the statements that ask nothing

ASSUME AttemptsAssumption == Attempts \in Nat \ {0} /\ MaxChanges \in Nat
ASSUME PatchesAssumption == Patches \subseteq Patch /\ Gone \notin Row

VARIABLES
    row,            \* Row or Gone: the users row
    local,          \* [Requests -> record]: the handler's locals
    changes,        \* number of statements that ask nothing so far
    writes          \* history: number of changes of the row so far

vars == <<row, local, changes, writes>>

Answers == {"done", "invalid", "missing", "conflict", "failed"}

New == [stage |-> "new"]
\* since: history: writes when the request began.
Handling == [stage : {"loading", "storing"}, patch : Patches, attempt : 1..Attempts,
             snapshot : Row \cup {Gone}, since : Nat]
Answered == [stage : Answers, since : Nat]

TypeOK ==
    /\ row \in Row \cup {Gone}
    /\ local \in [Requests -> Handling \cup Answered \cup {New}]
    /\ changes \in 0..MaxChanges
    /\ writes \in Nat

\* What createUser stores: an issue date, an expiry after it, and a reason if
\* the user is created blocked.
Created == {r \in Row : Consistent(r) /\ r.starts # Null /\ r.expires # Null
                        /\ r.starts < r.expires /\ r.note = Null}

Init ==
    /\ row \in Created
    /\ local = [r \in Requests |-> New]
    /\ changes = 0 /\ writes = 0

-----------------------------------------------------------------------------
(* A PATCH request, patchUserSubscription.                                   *)

Set(r, value) == local' = [local EXCEPT ![r] = value]
Answer(r, answer) == Set(r, [stage |-> answer, since |-> local[r].since])
Active(r) == local[r].stage \in {"loading", "storing"}

Receive(r) ==
    /\ local[r] = New
    /\ \E patch \in Patches :
        Set(r, [stage |-> "loading", patch |-> patch, attempt |-> 1, snapshot |-> Gone,
                since |-> writes])
    /\ UNCHANGED <<row, changes, writes>>

\* Variant for the checks: only the dates the request sends are compared.
SentDatesValid(patch, snapshot) ==
    patch.starts \in {Null, Unset} \/ patch.expires \in {Null, Unset}
    \/ Valid(applySubscriptionPatch(patch, snapshot))

PatchAccepted(patch, snapshot) == Valid(applySubscriptionPatch(patch, snapshot))

\* The new row is computed, and validated, from what this read returned.
Load(r) ==
    /\ local[r].stage = "loading"
    /\ CASE row = Gone -> Answer(r, "missing")
         [] row # Gone /\ ~PatchAccepted(local[r].patch, row) -> Answer(r, "invalid")
         [] OTHER -> Set(r, [local[r] EXCEPT !.stage = "storing", !.snapshot = row])
    /\ UNCHANGED <<row, changes, writes>>

\* Variant for the checks: the dates are written without asking for the zone
\* they were read in.
SameColumns(snapshot) == row # Gone /\ [row EXCEPT !.zone = snapshot.zone] = snapshot

\* The WHERE clause: every column, and the zone, as the snapshot has it.
Unchanged(snapshot) == row # Gone /\ row = snapshot

\* Variant for the checks: the row is read once, before the first attempt.
RetryStale(r) ==
    IF local[r].attempt = Attempts THEN Answer(r, "conflict")
    ELSE Set(r, [local[r] EXCEPT !.attempt = @ + 1])

\* Variant for the checks: the attempts are counted but not limited.
RetryWithoutEnd(r) ==
    Set(r, [local[r] EXCEPT !.attempt = @ + 1, !.stage = "loading", !.snapshot = Gone])

Retry(r) ==
    IF local[r].attempt = Attempts THEN Answer(r, "conflict")
    ELSE Set(r, [local[r] EXCEPT !.attempt = @ + 1, !.stage = "loading", !.snapshot = Gone])

CountWrite == writes' = IF row' = row THEN writes ELSE writes + 1

\* An error may be reported after the statement took effect.
Store(r) ==
    /\ local[r].stage = "storing"
    /\ IF Unchanged(local[r].snapshot)
       THEN /\ row' = [applySubscriptionPatch(local[r].patch, local[r].snapshot)
                       EXCEPT !.zone = row.zone]
            /\ CountWrite
            /\ \E answer \in {"done", "failed"} : Answer(r, answer)
       ELSE Retry(r) /\ UNCHANGED <<row, writes>>
    /\ UNCHANGED changes

\* A statement fails, the request is cancelled, or the process stops.
Fail(r) ==
    /\ Active(r)
    /\ Answer(r, "failed")
    /\ UNCHANGED <<row, changes, writes>>

-----------------------------------------------------------------------------
(* The statements that ask nothing.                                          *)

Change ==
    /\ row # Gone /\ changes < MaxChanges
    /\ changes' = changes + 1
    /\ UNCHANGED local

\* A PUT: every column, its dates in the server's zone, unset columns cleared.
replaceUserSubscription ==
    /\ Change
    /\ row' \in {next \in Row : Consistent(next) /\ next.zone = row.zone}
    /\ CountWrite

updateUserSettings ==
    /\ Change
    /\ \E zone \in Zones : row' = [row EXCEPT !.zone = zone]
    /\ CountWrite

deleteUser == Change /\ row' = Gone /\ CountWrite

-----------------------------------------------------------------------------

Next ==
    \/ \E r \in Requests : Receive(r) \/ Load(r) \/ Store(r) \/ Fail(r)
    \/ replaceUserSubscription \/ updateUserSettings \/ deleteUser

Spec == Init /\ [][Next]_vars

-----------------------------------------------------------------------------
(* Properties                                                                *)

\* Whatever the writers do, the dates are in order and a reason is there only
\* while the subscription is blocked: two PATCH requests that are each valid
\* for the row they read never leave a row that neither would have accepted.
RowStaysConsistent == row # Gone => Consistent(row)

\* A request is answered "changed; retry" only after the row was changed under
\* it once per attempt: an unhindered PATCH never meets a conflict.
ConflictMeansContention ==
    \A r \in Requests : local[r].stage = "conflict" => writes - local[r].since >= Attempts

Waiting == [r \in Requests |-> IF Active(r) THEN {local[r].patch} ELSE {}]
Told == [r \in Requests |-> IF local[r].stage \in Answers THEN local[r].stage ELSE "none"]

Promise == INSTANCE AtomicPatch WITH asked <- Waiting, answer <- Told

\* Every PATCH is applied at once to the row as it then is, in the time zone
\* the user then has, or not at all: it never writes back a column it does not
\* name (patchUserSubscription).
ImplementsPromise == Promise!Spec
=============================================================================
