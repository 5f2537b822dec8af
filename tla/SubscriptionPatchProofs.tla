---------------------- MODULE SubscriptionPatchProofs ----------------------
(***************************************************************************)
(* Proofs about SubscriptionPatch for any number of requests, attempts,     *)
(* patches and concurrent statements.                                       *)
(***************************************************************************)
EXTENDS SubscriptionPatch, TLAPS

-----------------------------------------------------------------------------
(* What one patch makes of a row.                                           *)

\* A patch of a row of the table is a row of the table, in the same zone, and
\* has a reason only if it is blocked (applySubscriptionPatch).
LEMMA PatchedRow ==
    ASSUME NEW patch \in Patch, NEW old \in Row
    PROVE  /\ applySubscriptionPatch(patch, old) \in Row
           /\ applySubscriptionPatch(patch, old).zone = old.zone
           /\ Valid(applySubscriptionPatch(patch, old))
                => Consistent(applySubscriptionPatch(patch, old))
<1> DEFINE status == Replaced(patch.status, old.status)
           starts == ReplacedDate(patch.starts, old.starts, old.zone)
           expires == ReplacedDate(patch.expires, old.expires, old.zone)
           reason == ClearedReason(status, Replaced(patch.reason, old.reason))
           note == Replaced(patch.note, old.note)
           new == [status |-> status, reason |-> reason, starts |-> starts,
                   expires |-> expires, note |-> note, zone |-> old.zone]
<1>1. status \in Statuses
    BY DEF Replaced, Patch, Row
<1>2. starts \in Dates \cup {Null} /\ expires \in Dates \cup {Null}
    BY FieldsAssumption DEF ReplacedDate, Patch, Row, Dates
<1>3. reason \in Texts \cup {Null} /\ note \in Texts \cup {Null}
    BY DEF ClearedReason, Replaced, Patch, Row
<1>4. applySubscriptionPatch(patch, old) = new
    BY DEF applySubscriptionPatch
<1>5. new \in Row
    BY <1>1, <1>2, <1>3 DEF Row
<1>6. new.reason = ClearedReason(new.status, new.reason)
    BY DEF ClearedReason
<1> QED
    BY <1>4, <1>5, <1>6 DEF Consistent

-----------------------------------------------------------------------------
(* The inductive invariant.                                                 *)

\* What a request that holds a snapshot knows of it: the patch was accepted on
\* it, and each attempt before this one met a change of the row; so did this
\* one if the row is no longer the snapshot.
Knows(r) ==
    /\ local[r].stage = "loading" => writes - local[r].since >= local[r].attempt - 1
    /\ local[r].stage = "storing" =>
        /\ local[r].snapshot \in Row
        /\ PatchAccepted(local[r].patch, local[r].snapshot)
        /\ writes - local[r].since >= local[r].attempt - 1
        /\ row # local[r].snapshot => writes - local[r].since >= local[r].attempt
    /\ local[r].stage = "conflict" => writes - local[r].since >= Attempts

PatchInv ==
    /\ TypeOK
    /\ RowStaysConsistent
    /\ \A r \in Requests : Knows(r)

\* The stage of a request tells which record its locals are.
LEMMA Stages ==
    ASSUME TypeOK, NEW r \in Requests
    PROVE  /\ Active(r) => local[r] \in Handling
           /\ local[r].stage \in Answers => local[r] \in Answered
           /\ local[r].stage \in {"new", "loading", "storing"} \cup Answers
BY DEF TypeOK, Handling, Answered, New, Answers, Active

LEMMA InitPatchInv == Init => PatchInv
<1> SUFFICES ASSUME Init PROVE PatchInv
    OBVIOUS
<1>1. TypeOK
    BY AttemptsAssumption DEF Init, TypeOK, Created
<1>2. RowStaysConsistent
    BY DEF Init, Created, RowStaysConsistent
<1>3. \A r \in Requests : Knows(r)
    BY DEF Init, New, Knows
<1> QED
    BY <1>1, <1>2, <1>3 DEF PatchInv

\* The steps that leave the row and the counters alone, and set one request's
\* locals.
LEMMA LocalStep ==
    ASSUME PatchInv, NEW r \in Requests, NEW value \in Handling \cup Answered,
           Set(r, value), UNCHANGED <<row, changes, writes>>,
           value.stage = "loading" => writes - value.since >= value.attempt - 1,
           value.stage = "storing" =>
             /\ value.snapshot = row /\ row \in Row
             /\ PatchAccepted(value.patch, row)
             /\ writes - value.since >= value.attempt - 1,
           value.stage = "conflict" => writes - value.since >= Attempts
    PROVE  PatchInv'
<1>1. TypeOK'
    BY DEF PatchInv, TypeOK, Set
<1>2. RowStaysConsistent'
    BY DEF PatchInv, RowStaysConsistent
<1>3. ASSUME NEW q \in Requests PROVE Knows(q)'
    <2>1. CASE q = r
        <3>1. local'[q] = value
            BY <2>1 DEF Set, PatchInv, TypeOK
        <3> QED
            BY <3>1 DEF Knows
    <2>2. CASE q # r
        <3>1. local'[q] = local[q]
            BY <2>2 DEF Set, PatchInv, TypeOK
        <3> QED
            BY <3>1 DEF Knows, PatchInv
    <2> QED
        BY <2>1, <2>2
<1> QED
    BY <1>1, <1>2, <1>3 DEF PatchInv

LEMMA ReceiveKeeps ==
    ASSUME PatchInv, NEW r \in Requests, Receive(r) PROVE PatchInv'
<1>1. PICK patch \in Patches :
        Set(r, [stage |-> "loading", patch |-> patch, attempt |-> 1, snapshot |-> Gone,
                since |-> writes])
    BY DEF Receive
<1> DEFINE value == [stage |-> "loading", patch |-> patch, attempt |-> 1, snapshot |-> Gone,
                     since |-> writes]
<1>2. writes \in Nat /\ 1 \in 1..Attempts
    BY AttemptsAssumption DEF PatchInv, TypeOK
<1>3. value \in Handling
    BY <1>2 DEF Handling
<1>4. writes - value.since >= value.attempt - 1
    BY <1>2
<1> QED
    BY <1>1, <1>3, <1>4, LocalStep DEF Receive

LEMMA AnswerKeeps ==
    ASSUME PatchInv, NEW r \in Requests, NEW answer \in Answers, Active(r),
           Answer(r, answer), UNCHANGED <<row, changes, writes>>,
           answer = "conflict" => writes - local[r].since >= Attempts
    PROVE  PatchInv'
<1> DEFINE value == [stage |-> answer, since |-> local[r].since]
<1>1. local[r].since \in Nat
    BY Stages DEF PatchInv, Handling
<1>2. value \in Answered
    BY <1>1 DEF Answered
<1>3. value.stage # "loading" /\ value.stage # "storing"
    BY DEF Answers
<1> QED
    BY <1>2, <1>3, LocalStep DEF Answer

LEMMA LoadKeeps ==
    ASSUME PatchInv, NEW r \in Requests, Load(r) PROVE PatchInv'
<1>1. Active(r) /\ local[r] \in Handling
    BY Stages DEF Load, Active, PatchInv
<1>2. UNCHANGED <<row, changes, writes>>
    BY DEF Load
<1>3. CASE Answer(r, "missing")
    BY <1>1, <1>2, <1>3, AnswerKeeps DEF Answers
<1>4. CASE Answer(r, "invalid")
    BY <1>1, <1>2, <1>4, AnswerKeeps DEF Answers
<1>5. CASE /\ row # Gone /\ PatchAccepted(local[r].patch, row)
           /\ Set(r, [local[r] EXCEPT !.stage = "storing", !.snapshot = row])
    <2> DEFINE value == [local[r] EXCEPT !.stage = "storing", !.snapshot = row]
    <2>1. row \in Row
        BY <1>5 DEF PatchInv, TypeOK
    <2>2. /\ value \in Handling /\ value.stage = "storing" /\ value.snapshot = row
          /\ value.patch = local[r].patch /\ value.since = local[r].since
          /\ value.attempt = local[r].attempt
        BY <1>1, <2>1 DEF Handling
    <2>3. writes - local[r].since >= local[r].attempt - 1
        BY DEF PatchInv, Knows, Load
    <2> HIDE DEF value
    <2> QED
        BY <1>2, <1>5, <2>1, <2>2, <2>3, LocalStep DEF value
<1> QED
    BY <1>3, <1>4, <1>5 DEF Load

LEMMA RetryKeeps ==
    ASSUME PatchInv, NEW r \in Requests, local[r].stage = "storing",
           ~Unchanged(local[r].snapshot), Retry(r), UNCHANGED <<row, changes, writes>>
    PROVE  PatchInv'
<1>1. Active(r) /\ local[r] \in Handling
    BY Stages DEF Active, PatchInv
<1>2. local[r].snapshot \in Row
    BY DEF PatchInv, Knows
<1>3. row # local[r].snapshot
    BY <1>2, PatchesAssumption DEF Unchanged
<1>4. writes - local[r].since >= local[r].attempt
    BY <1>3 DEF PatchInv, Knows
<1>5. CASE local[r].attempt = Attempts
    BY <1>1, <1>4, <1>5, AnswerKeeps DEF Retry, Answers
<1>6. CASE local[r].attempt # Attempts
    <2> DEFINE value == [local[r] EXCEPT !.attempt = @ + 1, !.stage = "loading", !.snapshot = Gone]
    <2>1. local[r].attempt + 1 \in 1..Attempts
        BY <1>1, <1>6, AttemptsAssumption DEF Handling
    <2>2. /\ value \in Handling /\ value.stage = "loading" /\ value.since = local[r].since
          /\ value.attempt = local[r].attempt + 1
        BY <1>1, <2>1 DEF Handling
    <2>3. writes - value.since >= value.attempt - 1
        BY <1>1, <1>4, <2>2 DEF Handling, PatchInv, TypeOK
    <2>4. Set(r, value)
        BY <1>6 DEF Retry
    <2> HIDE DEF value
    <2> QED
        BY <2>2, <2>3, <2>4, LocalStep
<1> QED
    BY <1>5, <1>6

\* The steps that may change the row: the locals of the other requests stay,
\* and every change of the row is counted.
LEMMA RowStep ==
    ASSUME PatchInv, row' \in Row \cup {Gone}, row' # Gone => Consistent(row'),
           changes' \in 0..MaxChanges, CountWrite,
           local' \in [Requests -> Handling \cup Answered \cup {New}],
           \A q \in Requests :
                local'[q] = local[q] \/ local'[q].stage \in {"done", "failed"}
    PROVE  PatchInv'
<1>1. writes \in Nat /\ writes' \in Nat /\ writes' >= writes
    BY DEF PatchInv, TypeOK, CountWrite
<1>2. row' # row => writes' = writes + 1
    BY DEF CountWrite
<1>3. TypeOK'
    BY <1>1 DEF TypeOK
<1>4. RowStaysConsistent'
    BY DEF RowStaysConsistent
<1>5. ASSUME NEW q \in Requests PROVE Knows(q)'
    <2>1. CASE local'[q].stage \in {"done", "failed"}
        BY <2>1 DEF Knows
    <2>2. CASE local'[q] = local[q]
        <3>1. local'[q] = local[q]
            BY <2>2
        <3>2. CASE Active(q)
            <4>1. local[q].since \in Nat /\ local[q].attempt \in Nat
                BY <3>2, Stages DEF Handling, PatchInv
            <4>2. CASE local[q].stage = "loading"
                BY <1>1, <3>1, <4>1, <4>2 DEF Knows, PatchInv
            <4>3. CASE local[q].stage = "storing"
                BY <1>1, <1>2, <3>1, <4>1, <4>3 DEF Knows, PatchInv
            <4> QED
                BY <3>2, <4>2, <4>3 DEF Active
        <3>3. CASE local[q].stage \in Answers
            <4>1. local[q].since \in Nat
                BY <3>3, Stages DEF Answered, PatchInv
            <4>2. local[q].stage # "loading" /\ local[q].stage # "storing"
                BY <3>3 DEF Answers
            <4> QED
                BY <1>1, <3>1, <4>1, <4>2, AttemptsAssumption DEF Knows, PatchInv
        <3>4. CASE local[q].stage = "new"
            BY <3>1, <3>4 DEF Knows
        <3> QED
            BY <3>2, <3>3, <3>4, Stages DEF PatchInv, Active
    <2> QED
        BY <2>1, <2>2
<1> QED
    BY <1>3, <1>4, <1>5 DEF PatchInv

LEMMA StoreKeeps ==
    ASSUME PatchInv, NEW r \in Requests, Store(r) PROVE PatchInv'
<1>1. local[r].stage = "storing" /\ local[r] \in Handling
    BY Stages DEF Store, Active, PatchInv
<1>2. CASE Unchanged(local[r].snapshot)
    <2> DEFINE new == applySubscriptionPatch(local[r].patch, row)
    <2>1. row = local[r].snapshot /\ row \in Row
        BY <1>2 DEF Unchanged, PatchInv, TypeOK
    <2>2. local[r].patch \in Patch
        BY <1>1, PatchesAssumption DEF Handling
    <2>3. new \in Row /\ new.zone = row.zone /\ (Valid(new) => Consistent(new))
        BY <2>1, <2>2, PatchedRow
    <2>4. row' = [new EXCEPT !.zone = row.zone] /\ CountWrite /\ UNCHANGED changes
        BY <1>2, <2>1 DEF Store
    <2>5. row' = new
        BY <2>3, <2>4 DEF Row
    <2>6. Valid(new)
        BY <1>1, <2>1 DEF PatchInv, Knows, PatchAccepted
    <2>7. PICK answer \in {"done", "failed"} : Answer(r, answer)
        BY <1>2 DEF Store
    <2>8. [stage |-> answer, since |-> local[r].since] \in Answered
        BY <1>1 DEF Answered, Answers, Handling
    <2>9. local' \in [Requests -> Handling \cup Answered \cup {New}]
        BY <2>7, <2>8 DEF Answer, Set, PatchInv, TypeOK
    <2>10. \A q \in Requests :
              local'[q] = local[q] \/ local'[q].stage \in {"done", "failed"}
        BY <2>7 DEF Answer, Set, PatchInv, TypeOK
    <2>11. changes' \in 0..MaxChanges
        BY <2>4 DEF PatchInv, TypeOK
    <2> QED
        BY <2>3, <2>4, <2>5, <2>6, <2>9, <2>10, <2>11, RowStep
<1>3. CASE ~Unchanged(local[r].snapshot)
    BY <1>1, <1>3, RetryKeeps DEF Store
<1> QED
    BY <1>2, <1>3

LEMMA ChangeKeeps ==
    ASSUME PatchInv, replaceUserSubscription \/ updateUserSettings \/ deleteUser
    PROVE  PatchInv'
<1>1. row \in Row /\ Consistent(row)
    BY DEF replaceUserSubscription, updateUserSettings, deleteUser, Change, PatchInv, TypeOK,
           RowStaysConsistent
<1>2. /\ CountWrite /\ changes' \in 0..MaxChanges /\ local' = local
    BY AttemptsAssumption
    DEF replaceUserSubscription, updateUserSettings, deleteUser, Change, PatchInv, TypeOK
<1>3. row' \in Row \cup {Gone} /\ (row' # Gone => Consistent(row'))
    <2>1. CASE replaceUserSubscription
        BY <2>1 DEF replaceUserSubscription
    <2>2. CASE updateUserSettings
        <3>1. PICK zone \in Zones : row' = [row EXCEPT !.zone = zone]
            BY <2>2 DEF updateUserSettings
        <3>2. row' \in Row
            BY <1>1, <3>1 DEF Row
        <3>3. /\ row'.status = row.status /\ row'.reason = row.reason
              /\ row'.starts = row.starts /\ row'.expires = row.expires
            BY <1>1, <3>1 DEF Row
        <3> QED
            BY <1>1, <3>2, <3>3 DEF Consistent, Valid
    <2>3. CASE deleteUser
        BY <2>3 DEF deleteUser
    <2> QED
        BY <2>1, <2>2, <2>3
<1>4. local' \in [Requests -> Handling \cup Answered \cup {New}]
    BY <1>2 DEF PatchInv, TypeOK
<1> QED
    BY <1>2, <1>3, <1>4, RowStep, Zenon

LEMMA NextKeeps == PatchInv /\ [Next]_vars => PatchInv'
<1> SUFFICES ASSUME PatchInv, [Next]_vars PROVE PatchInv'
    OBVIOUS
<1>1. CASE \E r \in Requests : Receive(r)
    BY <1>1, ReceiveKeeps
<1>2. CASE \E r \in Requests : Load(r)
    BY <1>2, LoadKeeps
<1>3. CASE \E r \in Requests : Store(r)
    BY <1>3, StoreKeeps
<1>4. CASE \E r \in Requests : Fail(r)
    BY <1>4, AnswerKeeps DEF Fail, Answers
<1>5. CASE replaceUserSubscription \/ updateUserSettings \/ deleteUser
    BY <1>5, ChangeKeeps
<1>6. CASE UNCHANGED vars
    BY <1>6 DEF vars, PatchInv, TypeOK, RowStaysConsistent, Knows, PatchAccepted
<1> QED
    BY <1>1, <1>2, <1>3, <1>4, <1>5, <1>6 DEF Next

THEOREM PatchInvariant == Spec => []PatchInv
BY InitPatchInv, NextKeeps, PTL DEF Spec

\* Type correctness, for any requests and attempts.
THEOREM PatchTypes == Spec => []TypeOK
<1>1. PatchInv => TypeOK
    BY DEF PatchInv
<1> QED
    BY <1>1, PatchInvariant, PTL

\* No interleaving of PATCH, PUT and settings requests leaves dates out of order
\* or a reason without a block (applySubscriptionPatch, replaceUserSubscription).
THEOREM RowIsConsistent == Spec => []RowStaysConsistent
<1>1. PatchInv => RowStaysConsistent
    BY DEF PatchInv
<1> QED
    BY <1>1, PatchInvariant, PTL

\* A PATCH is told "changed; retry" only after as many changes of the row as it
\* has attempts (patchUserSubscription).
THEOREM OnlyContentionConflicts == Spec => []ConflictMeansContention
<1>1. PatchInv => ConflictMeansContention
    BY DEF PatchInv, Knows, ConflictMeansContention
<1> QED
    BY <1>1, PatchInvariant, PTL

-----------------------------------------------------------------------------
(* The refinement of AtomicPatch.                                           *)

\* A step that answers a request empties what it waits for and tells it.
LEMMA AnswerMaps ==
    ASSUME PatchInv, NEW r \in Requests, NEW told \in Answers, Active(r), Answer(r, told)
    PROVE  /\ Waiting[r] = {local[r].patch}
           /\ Waiting' = [Waiting EXCEPT ![r] = {}]
           /\ Told' = [Told EXCEPT ![r] = told]
<1>1. local' = [local EXCEPT ![r] = [stage |-> told, since |-> local[r].since]]
    BY DEF Answer, Set
<1>2. local \in [Requests -> Handling \cup Answered \cup {New}]
    BY DEF PatchInv, TypeOK
<1>3. local'[r].stage = told /\ \A q \in Requests \ {r} : local'[q] = local[q]
    BY <1>1, <1>2
<1>4. told # "loading" /\ told # "storing"
    BY DEF Answers
<1>5. Waiting' = [Waiting EXCEPT ![r] = {}]
    BY <1>3, <1>4 DEF Waiting, Active
<1>6. Told' = [Told EXCEPT ![r] = told]
    BY <1>3 DEF Told
<1> QED
    BY <1>5, <1>6 DEF Waiting

\* A step that keeps a request waiting with the same patch is invisible.
LEMMA StillWaiting ==
    ASSUME PatchInv, NEW r \in Requests, NEW value, Set(r, value), Active(r),
           value.stage \in {"loading", "storing"}, value.patch = local[r].patch
    PROVE  Waiting' = Waiting /\ Told' = Told
<1>1. local \in [Requests -> Handling \cup Answered \cup {New}]
    BY DEF PatchInv, TypeOK
<1>2. local'[r] = value /\ \A q \in Requests \ {r} : local'[q] = local[q]
    BY <1>1 DEF Set
<1>3. Waiting' = Waiting
    BY <1>2 DEF Waiting, Active
<1>4. Told' = Told
    BY <1>2 DEF Told, Active, Answers
<1> QED
    BY <1>3, <1>4

\* The promise speaks of the same rows, and of the same effect of a patch.
LEMMA SameRows == Promise!Row = Row
BY DEF Promise!Row, Row, Promise!Statuses, Statuses, Promise!Dates, Dates

LEMMA SamePatch ==
    ASSUME NEW patch, NEW r
    PROVE  /\ Promise!applySubscriptionPatch(patch, r) = applySubscriptionPatch(patch, r)
           /\ Promise!Valid(r) = Valid(r)
           /\ Promise!Consistent(r) = Consistent(r)
<1>1. Promise!applySubscriptionPatch(patch, r) = applySubscriptionPatch(patch, r)
    BY DEF Promise!applySubscriptionPatch, applySubscriptionPatch, Promise!Replaced, Replaced,
           Promise!ReplacedDate, ReplacedDate, Promise!ClearedReason, ClearedReason
<1>2. Promise!Valid(r) = Valid(r)
    BY DEF Promise!Valid, Valid, Promise!validDateRange, validDateRange
<1>3. Promise!Consistent(r) = Consistent(r)
    BY <1>2 DEF Promise!Consistent, Consistent, Promise!ClearedReason, ClearedReason
<1> QED
    BY <1>1, <1>2, <1>3

LEMMA RefusalMaps ==
    ASSUME PatchInv, NEW r \in Requests, NEW told \in Answers, Active(r), Answer(r, told),
           UNCHANGED row,
           \/ told \in {"conflict", "failed"}
           \/ told = "missing" /\ row = Gone
           \/ told = "invalid" /\ row # Gone /\ ~PatchAccepted(local[r].patch, row)
    PROVE  Promise!Refuse(r)
<1>1. /\ Waiting[r] = {local[r].patch}
      /\ Waiting' = [Waiting EXCEPT ![r] = {}]
      /\ Told' = [Told EXCEPT ![r] = told]
    BY AnswerMaps
<1>2. ASSUME NEW Allowed, told \in Allowed PROVE Promise!Answered(r, Allowed)
    BY <1>1, <1>2 DEF Promise!Answered
<1>3. CASE told \in {"conflict", "failed"}
    BY <1>2, <1>3 DEF Promise!Refuse
<1>4. CASE told = "missing" /\ row = Gone
    BY <1>2, <1>4 DEF Promise!Refuse
<1>5. CASE told = "invalid" /\ row # Gone /\ ~PatchAccepted(local[r].patch, row)
    <2>1. ~Promise!Valid(Promise!applySubscriptionPatch(local[r].patch, row))
        BY <1>5, SamePatch DEF PatchAccepted
    <2>2. Promise!Answered(r, {"invalid"})
        BY <1>2, <1>5
    <2> QED
        BY <1>1, <1>5, <2>1, <2>2 DEF Promise!Refuse
<1> QED
    BY <1>3, <1>4, <1>5

LEMMA ReceiveMaps ==
    ASSUME PatchInv, NEW r \in Requests, Receive(r) PROVE Promise!Ask(r)
<1>1. PICK patch \in Patches :
        Set(r, [stage |-> "loading", patch |-> patch, attempt |-> 1, snapshot |-> Gone,
                since |-> writes])
    BY DEF Receive
<1>2. local \in [Requests -> Handling \cup Answered \cup {New}] /\ local[r].stage = "new"
    BY DEF PatchInv, TypeOK, Receive, New
<1>3. /\ local'[r].stage = "loading" /\ local'[r].patch = patch
      /\ \A q \in Requests \ {r} : local'[q] = local[q]
    BY <1>1, <1>2 DEF Set
<1>4. Waiting[r] = {} /\ Told[r] = "none"
    BY <1>2 DEF Waiting, Told, Active, Answers
<1>5. Waiting' = [Waiting EXCEPT ![r] = {patch}]
    BY <1>3 DEF Waiting, Active
<1>6. Told' = Told
    BY <1>2, <1>3 DEF Told, Answers
<1> QED
    BY <1>4, <1>5, <1>6 DEF Promise!Ask, Receive

LEMMA LoadMaps ==
    ASSUME PatchInv, NEW r \in Requests, Load(r)
    PROVE  Promise!Refuse(r) \/ UNCHANGED <<row, Waiting, Told>>
<1>1. Active(r) /\ UNCHANGED row
    BY DEF Load, Active
<1>2. CASE row = Gone /\ Answer(r, "missing")
    BY <1>1, <1>2, RefusalMaps DEF Answers
<1>3. CASE row # Gone /\ ~PatchAccepted(local[r].patch, row) /\ Answer(r, "invalid")
    BY <1>1, <1>3, RefusalMaps DEF Answers
<1>4. CASE Set(r, [local[r] EXCEPT !.stage = "storing", !.snapshot = row])
    <2> DEFINE value == [local[r] EXCEPT !.stage = "storing", !.snapshot = row]
    <2>1. local[r] \in Handling
        BY <1>1, Stages DEF PatchInv
    <2>2. value.stage \in {"loading", "storing"} /\ value.patch = local[r].patch
        BY <2>1 DEF Handling
    <2> HIDE DEF value
    <2> QED
        BY <1>1, <1>4, <2>2, StillWaiting DEF value
<1> QED
    BY <1>2, <1>3, <1>4 DEF Load

LEMMA StoreMaps ==
    ASSUME PatchInv, NEW r \in Requests, Store(r)
    PROVE  Promise!Apply(r) \/ Promise!Refuse(r) \/ UNCHANGED <<row, Waiting, Told>>
<1>1. Active(r) /\ local[r].stage = "storing" /\ local[r] \in Handling
    BY Stages DEF Store, Active, PatchInv
<1>2. CASE Unchanged(local[r].snapshot)
    <2>1. row = local[r].snapshot /\ row \in Row /\ row # Gone
        BY <1>2 DEF Unchanged, PatchInv, TypeOK
    <2>2. PICK told \in {"done", "failed"} : Answer(r, told)
        BY <1>2 DEF Store
    <2>3. /\ Waiting[r] = {local[r].patch}
          /\ Waiting' = [Waiting EXCEPT ![r] = {}]
          /\ Told' = [Told EXCEPT ![r] = told]
        BY <1>1, <2>2, AnswerMaps DEF Answers
    <2>4. local[r].patch \in Patch
        BY <1>1, PatchesAssumption DEF Handling
    <2>5. row' = applySubscriptionPatch(local[r].patch, row)
        BY <1>2, <2>1, <2>4, PatchedRow DEF Store, Row
    <2>6. Valid(row')
        BY <1>1, <2>1, <2>5 DEF PatchInv, Knows, PatchAccepted
    <2>7. Promise!Answered(r, {"done", "failed"})
        BY <2>3 DEF Promise!Answered
    <2>8. row' = Promise!applySubscriptionPatch(local[r].patch, row) /\ Promise!Valid(row')
        BY <2>5, <2>6, SamePatch
    <2> QED
        BY <2>1, <2>3, <2>7, <2>8 DEF Promise!Apply
<1>3. CASE ~Unchanged(local[r].snapshot)
    <2>1. UNCHANGED row /\ Retry(r)
        BY <1>3 DEF Store
    <2>2. CASE Answer(r, "conflict")
        BY <1>1, <2>1, <2>2, RefusalMaps DEF Answers
    <2>3. CASE Set(r, [local[r] EXCEPT !.attempt = @ + 1, !.stage = "loading", !.snapshot = Gone])
        <3> DEFINE value == [local[r] EXCEPT !.attempt = @ + 1, !.stage = "loading",
                                             !.snapshot = Gone]
        <3>1. value.stage \in {"loading", "storing"} /\ value.patch = local[r].patch
            BY <1>1 DEF Handling
        <3> HIDE DEF value
        <3> QED
            BY <1>1, <2>1, <2>3, <3>1, StillWaiting DEF value
    <2> QED
        BY <2>1, <2>2, <2>3 DEF Retry
<1> QED
    BY <1>2, <1>3

LEMMA ChangeMaps ==
    ASSUME PatchInv, PatchInv', replaceUserSubscription \/ updateUserSettings \/ deleteUser
    PROVE  Promise!Change
<1>1. row # Gone /\ local' = local
    BY DEF replaceUserSubscription, updateUserSettings, deleteUser, Change
<1>2. Waiting' = Waiting /\ Told' = Told
    BY <1>1 DEF Waiting, Told, Active
<1>3. row' = Gone \/ (row' \in Row /\ Consistent(row'))
    BY DEF PatchInv, TypeOK, RowStaysConsistent
<1> QED
    BY <1>1, <1>2, <1>3, SameRows, SamePatch DEF Promise!Change

\* Every PATCH is applied at once to the row as it then is, in the time zone the
\* user then has, or not at all (patchUserSubscription, snapshot.store): the
\* handlers refine AtomicPatch, for any number of overlapping requests.
THEOREM PatchesAreAtomic == Spec => ImplementsPromise
<1>1. Init => Promise!Init
    <2> SUFFICES ASSUME Init PROVE Promise!Init
        OBVIOUS
    <2>1. row \in Row /\ Consistent(row)
        BY DEF Init, Created
    <2>2. \A r \in Requests : local[r].stage = "new"
        BY DEF Init, New
    <2>3. Waiting = [r \in Requests |-> {}] /\ Told = [r \in Requests |-> "none"]
        BY <2>2 DEF Waiting, Told, Active, Answers
    <2> QED
        BY <2>1, <2>3, SameRows, SamePatch DEF Promise!Init
<1>2. PatchInv /\ PatchInv' /\ [Next]_vars => [Promise!Next]_(Promise!vars)
    <2> SUFFICES ASSUME PatchInv, PatchInv', [Next]_vars
                 PROVE  Promise!Next \/ UNCHANGED <<row, Waiting, Told>>
        BY DEF Promise!vars
    <2>1. ASSUME NEW r \in Requests, Receive(r) PROVE Promise!Next
        BY <2>1, ReceiveMaps DEF Promise!Next
    <2>2. ASSUME NEW r \in Requests, Load(r)
          PROVE  Promise!Next \/ UNCHANGED <<row, Waiting, Told>>
        BY <2>2, LoadMaps DEF Promise!Next
    <2>3. ASSUME NEW r \in Requests, Store(r)
          PROVE  Promise!Next \/ UNCHANGED <<row, Waiting, Told>>
        BY <2>3, StoreMaps DEF Promise!Next
    <2>4. ASSUME NEW r \in Requests, Fail(r) PROVE Promise!Next
        BY <2>4, RefusalMaps DEF Fail, Answers, Promise!Next
    <2>5. ASSUME replaceUserSubscription \/ updateUserSettings \/ deleteUser PROVE Promise!Next
        BY <2>5, ChangeMaps DEF Promise!Next
    <2>6. ASSUME UNCHANGED vars PROVE UNCHANGED <<row, Waiting, Told>>
        BY <2>6 DEF vars, Waiting, Told, Active
    <2> QED
        BY <2>1, <2>2, <2>3, <2>4, <2>5, <2>6 DEF Next
<1> QED
    BY <1>1, <1>2, PatchInvariant, PTL DEF Spec, ImplementsPromise, Promise!Spec
=============================================================================
