-------------------------- MODULE SubscriptionRow --------------------------
(***************************************************************************)
(* A user's subscription columns and what one PATCH request makes of them:  *)
(* an unset field leaves its column alone, null clears it, a value replaces *)
(* it.  Dates without a zone are in the user's time zone.                   *)
(*                                                                         *)
(* The columns that no other column depends on (name, URLs, refresh hours)  *)
(* stand as one, note.  A zone is its distance from UTC.                    *)
(***************************************************************************)
EXTENDS Integers

CONSTANTS
    Hours,          \* local times a request may name
    Zones,          \* users.time_zone
    Texts,          \* values of blocked_reason and of note
    Null,           \* a NULL column; a field that is null
    Unset           \* a field the request leaves out

ASSUME ZonesAssumption == Hours \subseteq Int /\ Zones \subseteq Int
Statuses == {"active", "blocked"}     \* "paused" is as "active" here

Dates == {hour - zone : hour \in Hours, zone \in Zones}

ASSUME FieldsAssumption ==
    /\ Null \notin Texts /\ Null \notin Hours /\ Null \notin Dates
    /\ Unset \notin Texts /\ Unset \notin Hours /\ Unset \notin Statuses /\ Unset # Null

Row == [status : Statuses, reason : Texts \cup {Null}, starts : Dates \cup {Null},
        expires : Dates \cup {Null}, note : Texts \cup {Null}, zone : Zones]

Patch == [status : Statuses \cup {Unset}, reason : Texts \cup {Null, Unset},
          starts : Hours \cup {Null, Unset}, expires : Hours \cup {Null, Unset},
          note : Texts \cup {Null, Unset}]

\* applyPatchString, applyPatchURL, applyPatchRefreshHours
Replaced(field, column) == IF field = Unset THEN column ELSE field

\* applyPatchTime
ReplacedDate(field, column, zone) ==
    IF field = Unset THEN column ELSE IF field = Null THEN Null ELSE field - zone

validDateRange(starts, expires) == starts = Null \/ expires = Null \/ starts <= expires

\* A reason belongs to a blocked subscription only.
ClearedReason(status, reason) == IF status = "blocked" THEN reason ELSE Null

applySubscriptionPatch(patch, row) ==
    LET status == Replaced(patch.status, row.status) IN
    [status |-> status,
     reason |-> ClearedReason(status, Replaced(patch.reason, row.reason)),
     starts |-> ReplacedDate(patch.starts, row.starts, row.zone),
     expires |-> ReplacedDate(patch.expires, row.expires, row.zone),
     note |-> Replaced(patch.note, row.note),
     zone |-> row.zone]

Valid(row) == validDateRange(row.starts, row.expires)

\* Every row the commands leave: valid dates, and no reason without a block.
Consistent(row) == Valid(row) /\ row.reason = ClearedReason(row.status, row.reason)
=============================================================================
