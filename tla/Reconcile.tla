----------------------------- MODULE Reconcile -----------------------------
(***************************************************************************)
(* Reconciliation of a parsed feed with the stored keys of one source, and  *)
(* the administrator's changes of those keys in between.  A refresh is one  *)
(* transaction and so one step: its whole computation is the operator       *)
(* Refreshed, a fold over the feed.                                         *)
(*                                                                         *)
(* A link is a connection profile and its label; the label is a part of the *)
(* URI, so the reference (a digest of the URI) stands for the link itself   *)
(* and the fingerprint (a digest of the profile) for the profile.           *)
(***************************************************************************)
EXTENDS Naturals, FiniteSets, Sequences, FiniteSetsExt

CONSTANTS
    Profiles, Labels,
    Names,          \* local display names
    Unnamed,        \* no display name
    Users,          \* users with selected keys
    AllUsers,       \* users in assignment mode "all"
    MaxFeed,        \* bound on the links of a feed
    MaxHistory,     \* bound on the rows an earlier version left
    MaxRefreshes,   \* bound on refreshes
    MaxChanges      \* bound on administrators' changes

ASSUME ReconcileBounds == {MaxFeed, MaxHistory, MaxRefreshes, MaxChanges} \subseteq Nat
ASSUME UnnamedAssumption == Unnamed \notin Names
ASSUME UsersAssumption == Users \cap AllUsers = {}

VARIABLES
    rows,           \* the source's vless_keys by id, with their user_keys
    lastId,         \* sqlite_sequence: ids are not reused
    refreshes, changes

reconcileVars == <<rows, lastId, refreshes, changes>>

Links == [profile : Profiles, label : Labels]

\* marked: profile_fingerprint is set; rows of earlier versions have none.
Row == [ref : Links, url : Links, marked : BOOLEAN, name : Names \cup {Unnamed},
        users : SUBSET (Users \cup AllUsers)]

\* Parsing drops the second link of a profile (appendExternalParsedItem).
Feeds == {feed \in UNION {[1..n -> Links] : n \in 1..MaxFeed} :
            \A i, j \in DOMAIN feed : feed[i].profile = feed[j].profile => i = j}

RowsTyped ==
    /\ DOMAIN rows \subseteq 1..lastId
    /\ \A id \in DOMAIN rows : rows[id] \in Row
    /\ lastId \in Nat /\ refreshes \in 0..MaxRefreshes /\ changes \in 0..MaxChanges

\* The two unique indexes of a source's keys.
RefsUnique(table) == \A i, j \in DOMAIN table : table[i].ref = table[j].ref => i = j
FingerprintsUnique(table) ==
    \A i, j \in DOMAIN table :
        table[i].marked /\ table[j].marked /\ table[i].url.profile = table[j].url.profile => i = j

\* What an earlier version left: several rows of one profile, some with a
\* fingerprint and most without.
ReconcileInit ==
    /\ \E n \in 0..MaxHistory :
        /\ rows \in [1..n -> {row \in Row : row.ref = row.url /\ AllUsers \subseteq row.users}]
        /\ lastId = n
    /\ RefsUnique(rows) /\ FingerprintsUnique(rows)
    /\ refreshes = 0 /\ changes = 0

-----------------------------------------------------------------------------
(* Repair of historical duplicates, repairDuplicateGroups.                   *)

SameProfile(table, id) == {j \in DOMAIN table : table[j].url.profile = table[id].url.profile}

\* The row that holds the fingerprint, otherwise the oldest.
duplicateSurvivor(table, id) ==
    LET group == SameProfile(table, id)
        marked == {j \in group : table[j].marked}
    IN  Min(IF marked # {} THEN marked ELSE group)

\* Its own name, otherwise the first one in the order of the ids.
inheritClientDisplayName(table, id) ==
    LET named == {j \in SameProfile(table, id) : table[j].name # Unnamed}
    IN  IF table[id].name # Unnamed \/ named = {} THEN table[id].name ELSE table[Min(named)].name

\* Variant for the checks: the assignments of the duplicates go with them.
OwnUsers(table, id) == table[id].users

MergeUserAssignments(table, id) == UNION {table[j].users : j \in SameProfile(table, id)}

\* Variant for the checks: the duplicates are left as they are.
Unrepaired(table) == table

Repaired(table) ==
    [id \in {duplicateSurvivor(table, j) : j \in DOMAIN table} |->
        IF SameProfile(table, id) = {id} THEN table[id]
        ELSE [table[id] EXCEPT !.marked = TRUE,
                               !.name = inheritClientDisplayName(table, id),
                               !.users = MergeUserAssignments(table, id)]]

-----------------------------------------------------------------------------
(* Matching and writing.  Every look-up is made in the table as it was when   *)
(* the refresh began; only "left", the ids no link has claimed, shrinks.      *)

\* The label decides when both sides have it exactly once.
Labelled(old, feed, link) ==
    LET stored == {id \in DOMAIN old : old[id].url.label = link.label}
        listed == {n \in DOMAIN feed : feed[n].label = link.label}
    IN  IF Cardinality(stored) = 1 /\ Cardinality(listed) = 1 THEN stored ELSE {}

matchExisting(old, left, feed, link) ==
    LET referred == {id \in DOMAIN old : old[id].ref = link}
        identical == {id \in DOMAIN old : old[id].url.profile = link.profile}
    IN  IF referred # {} THEN referred
        ELSE IF identical # {} THEN identical
        ELSE Labelled(old, feed, link) \cap left

\* A row with what a link gives it; its id, reference, name and assignments stay.
Written(table, id, link) == [table EXCEPT ![id] = [@ EXCEPT !.url = link, !.marked = TRUE]]

\* Variant for the checks: a claimed row still counts as unclaimed.
writeStillLeft(state, id, link) ==
    LET table == Written(state.table, id, link) IN
    IF FingerprintsUnique(table) THEN [state EXCEPT !.table = table]
    ELSE [state EXCEPT !.failed = TRUE]

\* The unique index on fingerprints refuses a profile that another row holds at
\* that moment, and that fails the refresh.
writeMatched(state, id, link) ==
    LET table == Written(state.table, id, link) IN
    IF FingerprintsUnique(table)
    THEN [state EXCEPT !.table = table, !.left = @ \ {id}]
    ELSE [state EXCEPT !.failed = TRUE]

\* A new row, assigned to every user in mode "all".
Added(state, link) ==
    LET row == [ref |-> link, url |-> link, marked |-> TRUE, name |-> Unnamed, users |-> AllUsers]
    IN  [id \in DOMAIN state.table \cup {state.next} |->
            IF id = state.next THEN row ELSE state.table[id]]

\* An insertion that a unique index refuses is a duplicate and is skipped.
insertNew(state, link) ==
    LET table == Added(state, link) IN
    IF RefsUnique(table) /\ FingerprintsUnique(table)
    THEN [state EXCEPT !.table = table, !.next = @ + 1]
    ELSE state

upsertParsedKey(old, feed, state, link) ==
    LET matched == matchExisting(old, state.left, feed, link) IN
    IF state.failed THEN state
    ELSE IF matched # {} THEN writeMatched(state, Min(matched), link)
    ELSE insertNew(state, link)

\* A link the parser refused makes absence ambiguous: nothing is removed.
removeUnmatched(table, left, partial) == IF partial THEN {} ELSE left

\* The state after each number of links of the feed.
Progress(old, feed, start) ==
    LET after[n \in 0..Len(feed)] ==
            IF n = 0 THEN start ELSE upsertParsedKey(old, feed, after[n - 1], feed[n])
    IN  after

\* The transaction as a whole: what it leaves, or that it failed.
Refreshed(table, last, feed, partial) ==
    LET old == Repaired(table)
        start == [table |-> old, left |-> DOMAIN old, next |-> last + 1, failed |-> FALSE]
        end == Progress(old, feed, start)[Len(feed)]
        gone == removeUnmatched(end.table, end.left, partial)
    IN  IF end.failed THEN [table |-> table, last |-> last, failed |-> TRUE]
        ELSE [table |-> Restrict(end.table, DOMAIN end.table \ gone),
              last |-> end.next - 1, failed |-> FALSE]

-----------------------------------------------------------------------------

Sync ==
    /\ refreshes < MaxRefreshes
    /\ refreshes' = refreshes + 1
    /\ \E feed \in Feeds, partial \in BOOLEAN :
        LET result == Refreshed(rows, lastId, feed, partial) IN
        rows' = result.table /\ lastId' = result.last
    /\ UNCHANGED changes

\* A source's key has only its display name changed by an administrator.
UpdateSourceOwnedMetadata ==
    /\ changes < MaxChanges
    /\ \E id \in DOMAIN rows, name \in Names \cup {Unnamed} :
        rows' = [rows EXCEPT ![id].name = name]
    /\ changes' = changes + 1
    /\ UNCHANGED <<lastId, refreshes>>

UpdateUserKeyAssignment ==
    /\ changes < MaxChanges
    /\ \E user \in Users, ids \in SUBSET DOMAIN rows :
        rows' = [id \in DOMAIN rows |->
                    [rows[id] EXCEPT !.users = IF id \in ids THEN @ \cup {user} ELSE @ \ {user}]]
    /\ changes' = changes + 1
    /\ UNCHANGED <<lastId, refreshes>>

BulkDeleteKeys ==
    /\ changes < MaxChanges
    /\ \E ids \in SUBSET DOMAIN rows : rows' = Restrict(rows, DOMAIN rows \ ids)
    /\ changes' = changes + 1
    /\ UNCHANGED <<lastId, refreshes>>

ReconcileNext == Sync \/ UpdateSourceOwnedMetadata \/ UpdateUserKeyAssignment \/ BulkDeleteKeys

ReconcileSpec == ReconcileInit /\ [][ReconcileNext]_reconcileVars

-----------------------------------------------------------------------------
(* Properties.  Each says what every refresh of the table that is stored now  *)
(* would leave.                                                              *)

\* A refresh leaves one row per profile: the duplicates earlier versions left
\* do not outlive it, and no order of links makes new ones.
OneRowPerProfile ==
    \A feed \in Feeds, partial \in BOOLEAN :
        LET after == Refreshed(rows, lastId, feed, partial) IN
        ~after.failed =>
            \A i, j \in DOMAIN after.table :
                after.table[i].url.profile = after.table[j].url.profile => i = j

\* Assignments and display names are local and outlive a refresh: a row stays
\* with both, or was the duplicate of a row that has them now, or is gone
\* because a complete feed no longer lists its profile.
LocalMetadataSurvives ==
    \A feed \in Feeds, partial \in BOOLEAN :
        LET after == Refreshed(rows, lastId, feed, partial) IN
        \A id \in DOMAIN rows :
            \/ \E j \in SameProfile(rows, id) \cap DOMAIN after.table :
                /\ rows[id].users \subseteq after.table[j].users
                /\ rows[id].name # Unnamed => after.table[j].name # Unnamed
            \/ /\ ~partial
               /\ rows[id].url.profile \notin {feed[n].profile : n \in DOMAIN feed}

\* Refreshing from the same feed settles: a third refresh changes nothing that
\* the second one left.
RefreshSettles ==
    \A feed \in Feeds, partial \in BOOLEAN :
        LET one == Refreshed(rows, lastId, feed, partial)
            two == Refreshed(one.table, one.last, feed, partial)
            three == Refreshed(two.table, two.last, feed, partial)
        IN  three.table = two.table

\* "assigning the canonical fingerprint cannot temporarily conflict with a
\* duplicate" (sync.go): no order of links makes the unique index on
\* fingerprints refuse a row, which would fail this refresh and every later
\* refresh from the same feed.
NoFingerprintConflict ==
    \A feed \in Feeds, partial \in BOOLEAN : ~Refreshed(rows, lastId, feed, partial).failed
=============================================================================
