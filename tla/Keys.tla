---------------------------------- MODULE Keys ----------------------------------
(*****************************************************************************)
(* Key administration: the key table with its secrets, the categories, the   *)
(* order and the entitlements of the users (internal/keymanagement and       *)
(* internal/storage).                                                        *)
(*                                                                           *)
(* A repository transaction is one action.  What a command reads before it   *)
(* (the row an edit is planned from, the identifiers an order is checked     *)
(* against, the category a bulk edit is going to set) is an action of its    *)
(* own, and the request carries it to the transaction.  Labels, statuses and *)
(* display names are left out: no property tells their values apart.         *)
(*****************************************************************************)
EXTENDS Integers, FiniteSets, Sequences, FiniteSetsExt

CONSTANTS
  KeyIds, CatIds,      \* identifiers, given out in increasing order
  Names,               \* names of categories
  Uris,                \* profile URIs
  Sources,             \* external sources
  Users,
  Requests,            \* administrators' requests in progress
  SeedKeys, SeedCats,  \* the rows of the database at the start
  MaxWork,             \* bound: commands issued in one behaviour
  Local,               \* external_source_id IS NULL
  Nothing

VARIABLES
  keys,        \* vless_keys, each with its secret in vless_key_secrets
  cats,        \* key_categories
  last,        \* the identifiers given out last (AUTOINCREMENT)
  users,       \* users: "absent" or the assignment mode
  assigned,    \* user_keys
  request,     \* what a request holds between its reads and its transaction
  saves,       \* history: the revisions the saves of each key started from
  work

vars == <<keys, cats, last, users, assigned, request, saves, work>>

NoCat == 0
NoName == ""
Kinds == {"real", "informational"}
CatChoices == {[by |-> "none"]} \cup [by : {"name"}, name : Names] \cup [by : {"id"}, id : CatIds]
ByName == {c \in CatChoices : c.by # "id"}
CloneIndex(k) == <<"clone", k>>

Idle == [op |-> "idle"]
Row == [source : Sources \cup {Local}, uri : Uris,
        index : Uris \cup {CloneIndex(k) : k \in KeyIds} \cup {Nothing},
        rev : Nat, kind : Kinds, cat : CatIds \cup {NoCat}, order : Int]
Category == [name : Names, order : Nat]

ASSUME KeysAssumption ==
  /\ KeyIds \subseteq Nat \ {0} /\ CatIds \subseteq Nat \ {0}
  /\ IsFiniteSet(KeyIds) /\ IsFiniteSet(CatIds) /\ IsFiniteSet(Names)
  /\ Local \notin Sources /\ NoName \notin Names /\ MaxWork \in Nat
  /\ Nothing \notin Row /\ Nothing \notin Category
  /\ \A k \in KeyIds : CloneIndex(k) \notin Uris

\* The rows at the start were written by the same statements.
ASSUME SeedsAssumption ==
  /\ SeedKeys \in [KeyIds -> Row \cup {Nothing}] /\ SeedCats \in [CatIds -> Category \cup {Nothing}]
  /\ \A k \in KeyIds : SeedKeys[k] # Nothing /\ SeedKeys[k].source = Local =>
       /\ SeedKeys[k].index \in {SeedKeys[k].uri, CloneIndex(k)}
       /\ \A j \in KeyIds \ {k} : SeedKeys[j] # Nothing /\ SeedKeys[j].source = Local =>
            SeedKeys[j].index # SeedKeys[k].index

Existing == {k \in KeyIds : keys[k] # Nothing}
ExistingCats == {c \in CatIds : cats[c] # Nothing}
AllUsers == {u \in Users : users[u] = "all"}
\* COALESCE(MAX(sort_order), 0) + 1
After(orders) == (IF orders = {} THEN 0 ELSE Max(orders)) + 1
NextOrder == After({keys[k].order : k \in Existing})
NextCatOrder == After({cats[c].order : c \in ExistingCats})
CatNamed(name) == {c \in ExistingCats : cats[c].name = name}
Orders(s) == {f \in [1..Cardinality(s) -> s] : \A i, j \in 1..Cardinality(s) : f[i] = f[j] => i = j}

Init ==
  /\ keys = SeedKeys /\ cats = SeedCats
  /\ last = [key |-> Max(Existing \cup {0}), cat |-> Max(ExistingCats \cup {0})]
  /\ users = [u \in Users |-> "absent"] /\ assigned = {}
  /\ request = [r \in Requests |-> Idle]
  /\ saves = [k \in KeyIds |-> <<>>]
  /\ work = 0

TypeOK ==
  /\ keys \in [KeyIds -> Row \cup {Nothing}]
  /\ cats \in [CatIds -> Category \cup {Nothing}]
  /\ last \in [key : KeyIds \cup {0}, cat : CatIds \cup {0}]
  /\ users \in [Users -> {"absent", "all", "selected"}]
  /\ assigned \subseteq Users \X KeyIds
  /\ saves \in [KeyIds -> Seq(Nat)]
  /\ work \in 0..MaxWork

Work == work < MaxWork /\ work' = work + 1
Hold(r, q) == request' = [request EXCEPT ![r] = q]
End(r) == Hold(r, Idle)
In(r, op) == request[r].op = op

-----------------------------------------------------------------------------
(* Categories: an upsert by name, or the identifier the client names.        *)

\* The category table, the identifier given out last, and the category of the key.
Upsert(name) ==
  IF CatNamed(name) # {} THEN {<<cats, last.cat, c>> : c \in CatNamed(name)}
  ELSE {<<[cats EXCEPT ![c] = [name |-> name, order |-> NextCatOrder]], c, c>> :
            c \in {last.cat + 1} \cap CatIds}

\* Empty when the foreign key refuses the identifier.
Resolve(choice) ==
  CASE choice.by = "none" -> {<<cats, last.cat, NoCat>>}
    [] choice.by = "id"   -> {<<cats, last.cat, c>> : c \in {choice.id} \cap ExistingCats}
    [] choice.by = "name" -> Upsert(choice.name)

\* idx_vless_keys_local_blind_index: local keys only.
Distinct(k, index) == \A j \in Existing \ {k} : keys[j].source = Local => keys[j].index # index

\* Mutant of Assign: a new key is nobody's.
AssignNobody(k) == UNCHANGED assigned
Assign(k) == assigned' = assigned \cup (AllUsers \X {k})
Drop(ks) == /\ keys' = [k \in KeyIds |-> IF k \in ks THEN Nothing ELSE keys[k]]
            /\ assigned' = {a \in assigned : a[2] \notin ks}

\* INSERT of a local key, its secret and its assignments; c is an outcome of Resolve.
Insert(k, uri, index, kind, cat) ==
  /\ k \in KeyIds /\ Distinct(k, index)
  /\ keys' = [keys EXCEPT ![k] = [source |-> Local, uri |-> uri, index |-> index, rev |-> 1,
                                  kind |-> kind, cat |-> cat, order |-> NextOrder]]
  /\ Assign(k)

\* CreateLocal; with a category by name, or none, also CreateLegacy.
CreateKey(uri, kind, choice) ==
  /\ Work
  /\ \E c \in Resolve(choice) :
       /\ Insert(last.key + 1, uri, uri, kind, c[3])
       /\ cats' = c[1] /\ last' = [key |-> last.key + 1, cat |-> c[2]]
  /\ UNCHANGED <<users, request, saves>>

-----------------------------------------------------------------------------
(* The profile editor: load, plan from a second read, save by the revision.  *)

Load(r, k) ==
  /\ Work /\ In(r, "idle") /\ k \in Existing
  /\ Hold(r, [op |-> "loaded", key |-> k, rev |-> keys[k].rev])
  /\ UNCHANGED <<keys, cats, last, users, assigned, saves>>

\* GetByID and planLocalProfileUpdate: only a real key takes a URI from the request.
PlannedUri(k, kind, uri) == IF kind = "real" THEN uri ELSE keys[k].uri

\* Mutant of AtRevision: UPDATE ... WHERE id = ? alone.
AnyRevision(k, rev) == keys[k] # Nothing
AtRevision(k, rev) == keys[k] # Nothing /\ keys[k].rev = rev

Plan(r, kind, uri, choice) ==
  /\ In(r, "loaded")
  /\ LET k == request[r].key IN
       IF ~AtRevision(k, request[r].rev) THEN End(r)
       ELSE IF keys[k].source # Local
         THEN Hold(r, [op |-> "metadata", key |-> k, rev |-> request[r].rev])
         ELSE Hold(r, [op |-> "edit", key |-> k, rev |-> request[r].rev, kind |-> kind,
                       uri |-> PlannedUri(k, kind, uri), choice |-> choice])
  /\ UNCHANGED <<keys, cats, last, users, assigned, saves, work>>

Saved(k, rev) == saves' = [saves EXCEPT ![k] = Append(@, rev)]

\* Mutant of EditedIndex: the secret is replaced, the index is not.
IndexKept(k, uri) == keys[k].index

\* The index of an unchanged URI is kept: a clone keeps its own.
EditedIndex(k, uri) == IF keys[k].uri = uri THEN keys[k].index ELSE uri

\* loadLocalKeyForUpdate
MayEdit(k, rev) == AtRevision(k, rev) /\ keys[k].source = Local

SaveEdit(r) ==
  LET q == request[r] IN
  /\ In(r, "edit") /\ MayEdit(q.key, q.rev) /\ Distinct(q.key, EditedIndex(q.key, q.uri))
  /\ \E c \in Resolve(q.choice) :
       /\ keys' = [keys EXCEPT ![q.key] =
            [keys[q.key] EXCEPT !.uri = q.uri, !.index = EditedIndex(q.key, q.uri),
                                !.kind = q.kind, !.cat = c[3], !.rev = @ + 1]]
       /\ cats' = c[1] /\ last' = [last EXCEPT !.cat = c[2]]
  /\ Saved(q.key, q.rev) /\ End(r)
  /\ UNCHANGED <<users, assigned, work>>

SaveMetadata(r) ==
  LET q == request[r] IN
  /\ In(r, "metadata") /\ AtRevision(q.key, q.rev)
  /\ keys' = [keys EXCEPT ![q.key].rev = @ + 1]
  /\ Saved(q.key, q.rev) /\ End(r)
  /\ UNCHANGED <<cats, last, users, assigned, work>>

Clone(r) ==
  LET q == request[r]  k == last.key + 1 IN
  /\ In(r, "loaded") /\ AtRevision(q.key, q.rev)
  /\ Insert(k, keys[q.key].uri, CloneIndex(k), keys[q.key].kind, keys[q.key].cat)
  /\ last' = [last EXCEPT !.key = k] /\ End(r)
  /\ UNCHANGED <<cats, users, saves, work>>

-----------------------------------------------------------------------------
(* The deprecated routes: no revision, no ownership.                         *)

\* GetLegacyByID gives an informational key the URI it has.
LoadLegacy(r, k, kind, uri, choice) ==
  /\ Work /\ In(r, "idle") /\ k \in Existing
  /\ Hold(r, [op |-> "legacy", key |-> k, kind |-> kind, uri |-> PlannedUri(k, kind, uri),
              choice |-> choice])
  /\ UNCHANGED <<keys, cats, last, users, assigned, saves>>

\* legacyUpdateSortOrder, legacyOrderNeedsRefresh
LegacyOrder(k, kind) ==
  IF keys[k].order <= 0 \/ keys[k].kind # kind THEN NextOrder ELSE keys[k].order

\* The index is unique among local keys alone.
LegacyFits(q) == q.key \in Existing /\ (keys[q.key].source = Local => Distinct(q.key, q.uri))

SaveLegacy(r) ==
  LET q == request[r] IN
  /\ In(r, "legacy") /\ LegacyFits(q)
  /\ \E c \in Resolve(q.choice) :
       /\ keys' = [keys EXCEPT ![q.key] = [@ EXCEPT !.uri = q.uri, !.index = q.uri, !.kind = q.kind,
                                           !.cat = c[3], !.order = LegacyOrder(q.key, q.kind)]]
       /\ cats' = c[1] /\ last' = [last EXCEPT !.cat = c[2]]
  /\ End(r)
  /\ UNCHANGED <<users, assigned, saves, work>>

\* DeleteLegacy, BulkDeleteKeys: all of the keys, or none.
Delete(ks) ==
  /\ Work /\ ks \subseteq Existing /\ ks # {}
  /\ Drop(ks)
  /\ UNCHANGED <<cats, last, users, request, saves>>

\* BulkUpdateKeys with a category: ensured by statements of its own before the transaction.
EnsureForBulk(r, ks, name) ==
  /\ Work /\ In(r, "idle") /\ ks # {}
  /\ \E c \in Upsert(name) :
       /\ Hold(r, [op |-> "bulk", keys |-> ks, cat |-> c[3]])
       /\ cats' = c[1] /\ last' = [last EXCEPT !.cat = c[2]]
  /\ UNCHANGED <<keys, users, assigned, saves>>

SaveBulk(r) ==
  LET q == request[r] IN
  /\ In(r, "bulk") /\ q.keys \subseteq Existing /\ q.cat \in ExistingCats
  /\ keys' = [k \in KeyIds |-> IF k \in q.keys THEN [keys[k] EXCEPT !.cat = q.cat] ELSE keys[k]]
  /\ End(r)
  /\ UNCHANGED <<cats, last, users, assigned, saves, work>>

\* A conflict, a lost row, an index already taken: the transaction rolls back.
Refused(choice) == choice.by = "id" /\ choice.id \notin ExistingCats
Fail(r) ==
  LET q == request[r] IN
  /\ \/ /\ In(r, "edit")
        /\ ~(/\ MayEdit(q.key, q.rev) /\ ~Refused(q.choice)
             /\ Distinct(q.key, EditedIndex(q.key, q.uri)))
     \/ (In(r, "metadata") \/ In(r, "loaded")) /\ ~AtRevision(q.key, q.rev)
     \/ In(r, "legacy") /\ ~LegacyFits(q)
     \/ In(r, "bulk") /\ ~(q.keys \subseteq Existing /\ q.cat \in ExistingCats)
  /\ End(r)
  /\ UNCHANGED <<keys, cats, last, users, assigned, saves, work>>

-----------------------------------------------------------------------------
(* Order and categories.                                                     *)

\* validateKeyOrder: each existing key once.
ValidOrder(ids) == ids \in Orders(Existing)

ReadOrder(r, ids) ==
  /\ Work /\ In(r, "idle") /\ ValidOrder(ids)
  /\ Hold(r, [op |-> "order", ids |-> ids])
  /\ UNCHANGED <<keys, cats, last, users, assigned, saves>>

\* Mutant of Ordered: the loop ends at the first identifier that is gone.
OrderedUntilGone(ids) ==
  LET reached == {i \in DOMAIN ids : \A j \in 1..i : keys[ids[j]] # Nothing} IN
  [k \in KeyIds |-> IF \E i \in reached : ids[i] = k
                    THEN [keys[k] EXCEPT !.order = CHOOSE i \in reached : ids[i] = k]
                    ELSE keys[k]]

\* saveKeyOrder: an identifier that is gone updates no row and keeps its place.
Ordered(ids) ==
  [k \in KeyIds |-> IF keys[k] # Nothing /\ \E i \in DOMAIN ids : ids[i] = k
                    THEN [keys[k] EXCEPT !.order = CHOOSE i \in DOMAIN ids : ids[i] = k]
                    ELSE keys[k]]

SaveOrder(r) ==
  /\ In(r, "order") /\ keys' = Ordered(request[r].ids) /\ End(r)
  /\ UNCHANGED <<cats, last, users, assigned, saves, work>>

\* CreateKeyCategory reads MAX(sort_order) before its upsert.
ReadCatOrder(r, name) ==
  /\ Work /\ In(r, "idle")
  /\ Hold(r, [op |-> "category", name |-> name, order |-> NextCatOrder])
  /\ UNCHANGED <<keys, cats, last, users, assigned, saves>>

\* UpdateKeyCategory reads the order of the old name, which must exist, before its transaction.
ReadRename(r, old, new) ==
  /\ Work /\ In(r, "idle")
  /\ \E c \in CatNamed(old) :
       Hold(r, [op |-> "rename", old |-> old, name |-> new, order |-> cats[c].order])
  /\ UNCHANGED <<keys, cats, last, users, assigned, saves>>

\* INSERT ... ON CONFLICT(name): an existing category keeps its order.
Put(name, order) ==
  IF CatNamed(name) # {} THEN {<<cats, last.cat, c>> : c \in CatNamed(name)}
  ELSE {<<[cats EXCEPT ![c] = [name |-> name, order |-> order]], c, c>> :
            c \in {last.cat + 1} \cap CatIds}

SaveCategory(r) ==
  /\ In(r, "category")
  /\ \E c \in Put(request[r].name, request[r].order) : cats' = c[1] /\ last' = [last EXCEPT !.cat = c[2]]
  /\ End(r)
  /\ UNCHANGED <<keys, users, assigned, saves, work>>

\* renameCategoryReferences: the keys move to the new name's category, the old one goes.
SaveRename(r) ==
  LET q == request[r]  old == IF q.old = q.name THEN {} ELSE CatNamed(q.old) IN
  /\ In(r, "rename")
  /\ \E c \in Put(q.name, q.order) :
       /\ keys' = [k \in KeyIds |-> IF keys[k] # Nothing /\ keys[k].cat \in old
                                    THEN [keys[k] EXCEPT !.cat = c[3]] ELSE keys[k]]
       /\ cats' = [d \in CatIds |-> IF d \in old THEN Nothing ELSE c[1][d]]
       /\ last' = [last EXCEPT !.cat = c[2]]
  /\ End(r)
  /\ UNCHANGED <<users, assigned, saves, work>>

\* The statement of deleteCategoryKeys also finds keys by the name: "" is that of no category.
KeysIn(name) == {k \in Existing : keys[k].cat \in CatNamed(name) \/ (keys[k].cat = NoCat /\ name = NoName)}

DeleteCategory(name, withKeys) ==
  /\ Work
  /\ IF withKeys THEN Drop(KeysIn(name))
     ELSE /\ keys' = [k \in KeyIds |-> IF k \in KeysIn(name) THEN [keys[k] EXCEPT !.cat = NoCat]
                                       ELSE keys[k]]
          /\ UNCHANGED assigned
  /\ cats' = [c \in CatIds |-> IF c \in CatNamed(name) THEN Nothing ELSE cats[c]]
  /\ UNCHANGED <<last, users, request, saves>>

ReorderCategories(names) ==
  /\ Work
  /\ cats' = [c \in CatIds |-> IF cats[c] # Nothing /\ \E i \in DOMAIN names : names[i] = cats[c].name
                THEN [cats[c] EXCEPT !.order = CHOOSE i \in DOMAIN names : names[i] = cats[c].name]
                ELSE cats[c]]
  /\ UNCHANGED <<keys, last, users, assigned, request, saves>>

-----------------------------------------------------------------------------
(* Source synchronisation, on one key of the source, and the users.          *)

\* NextSortOrder: external_source_id != ? is not true of a local key, whose column is NULL.
Counted(s, cat) == {k \in Existing : keys[k].cat = cat /\ keys[k].source \notin {s, Local}}
ImportOrder(s, cat, top) ==
  LET orders == {keys[k].order : k \in Counted(s, cat)} IN
  IF top THEN (IF orders = {} THEN 1 ELSE Min(orders)) - (1 + 8)
         ELSE After(orders)

\* The revision and the index are not the synchronisation's to write.
Import(s, uri, choice, top) ==
  /\ Work
  /\ \E c \in Resolve(choice) :
       LET order == ImportOrder(s, c[3], top)
           owned == {k \in Existing : keys[k].source = s} IN
       /\ cats' = c[1]
       /\ \/ \E k \in owned :
               /\ keys' = [keys EXCEPT ![k] = [@ EXCEPT !.uri = uri, !.kind = "real", !.cat = c[3],
                                                        !.order = order]]
               /\ last' = [last EXCEPT !.cat = c[2]] /\ UNCHANGED assigned
          \/ /\ owned = {} /\ last.key + 1 \in KeyIds
             /\ keys' = [keys EXCEPT ![last.key + 1] =
                  [source |-> s, uri |-> uri, index |-> Nothing, rev |-> 1, kind |-> "real",
                   cat |-> c[3], order |-> order]]
             /\ Assign(last.key + 1)
             /\ last' = [key |-> last.key + 1, cat |-> c[2]]
  /\ UNCHANGED <<users, request, saves>>

\* The row of a new user is in mode all: AssignAllKeysToUser in the same transaction.
CreateUser(u) ==
  /\ Work /\ users[u] = "absent"
  /\ users' = [users EXCEPT ![u] = "all"]
  /\ assigned' = assigned \cup ({u} \X Existing)
  /\ UNCHANGED <<keys, cats, last, request, saves>>

\* updateUserKeyAssignment: the old rows go first; a key that does not exist rolls back.
UpdateAssignment(u, mode, ks) ==
  /\ Work /\ users[u] # "absent"
  /\ IF mode = "all" THEN ks = {} ELSE ks \subseteq Existing
  /\ users' = [users EXCEPT ![u] = mode]
  /\ assigned' = {a \in assigned : a[1] # u}
                   \cup ({u} \X (IF mode = "all" THEN Existing ELSE ks))
  /\ UNCHANGED <<keys, cats, last, request, saves>>

DeleteUser(u) ==
  /\ Work /\ users[u] # "absent"
  /\ users' = [users EXCEPT ![u] = "absent"] /\ assigned' = {a \in assigned : a[1] # u}
  /\ UNCHANGED <<keys, cats, last, request, saves>>

-----------------------------------------------------------------------------
Start(r) ==
  \/ \E k \in KeyIds : Load(r, k) \/ \E kind \in Kinds, uri \in Uris, c \in ByName :
                                        LoadLegacy(r, k, kind, uri, c)
  \/ \E ks \in SUBSET KeyIds, name \in Names : EnsureForBulk(r, ks, name)
  \/ \E ids \in Orders(Existing) : ReadOrder(r, ids)
  \/ \E name \in Names : ReadCatOrder(r, name) \/ \E old \in Names : ReadRename(r, old, name)

Finish(r) ==
  \/ \E kind \in Kinds, uri \in Uris, c \in CatChoices : Plan(r, kind, uri, c)
  \/ SaveEdit(r) \/ SaveMetadata(r) \/ Clone(r) \/ SaveLegacy(r) \/ SaveBulk(r) \/ SaveOrder(r)
  \/ SaveCategory(r) \/ SaveRename(r) \/ Fail(r)

Command ==
  \/ \E uri \in Uris, kind \in Kinds, c \in CatChoices : CreateKey(uri, kind, c)
  \/ \E ks \in SUBSET KeyIds : Delete(ks)
  \/ \E name \in Names \cup {NoName}, withKeys \in BOOLEAN : DeleteCategory(name, withKeys)
  \/ \E names \in Orders(Names) : ReorderCategories(names)
  \/ \E s \in Sources, uri \in Uris, c \in ByName, top \in BOOLEAN : Import(s, uri, c, top)
  \/ \E u \in Users : CreateUser(u) \/ DeleteUser(u)
                      \/ \E mode \in {"all", "selected"}, ks \in SUBSET KeyIds : UpdateAssignment(u, mode, ks)

Next == Command \/ \E r \in Requests : Start(r) \/ Finish(r)

Spec == Init /\ [][Next]_vars

-----------------------------------------------------------------------------
(* Properties.                                                               *)

\* A user whose keys are not chosen has every key, however the creations of keys and users,
\* imports, clones and changes of the assignment interleave.
AllModeSeesEveryKey ==
  /\ AllUsers \X Existing \subseteq assigned
  /\ \A a \in assigned : users[a[1]] # "absent" /\ keys[a[2]] # Nothing

\* Two saves of a key never start from one revision: of the editors that loaded the same row only
\* one is accepted, whatever was read before and between (profile_write.go).
OneSavePerRevision ==
  \A k \in KeyIds : \A i, j \in DOMAIN saves[k] : i < j => saves[k][i] < saves[k][j]

\* The blind index of a local key is that of the secret beside it, or the one it got as a clone:
\* without clones two local keys never hold one profile.
IndexTellsTheSecret ==
  \A k \in Existing : keys[k].source = Local =>
    /\ keys[k].index \in {keys[k].uri, CloneIndex(k)}
    /\ \A j \in Existing \ {k} :
         keys[j].source = Local /\ keys[j].uri = keys[k].uri =>
           CloneIndex(k) = keys[k].index \/ CloneIndex(j) = keys[j].index

\* Keys that still exist when an order is saved stand in the order that was asked for, although
\* keys may have been created and deleted since it was validated (key_order_repository.go).
OrderIsTheRequested ==
  [][\A r \in Requests : In(r, "order") /\ request'[r] = Idle =>
       LET ids == request[r].ids IN
       \A i, j \in DOMAIN ids : i < j /\ keys[ids[i]] # Nothing /\ keys[ids[j]] # Nothing =>
         keys'[ids[i]].order < keys'[ids[j]].order]_vars

\* source_keys.go, of NextSortOrder: imported keys go "above every other key in the category when
\* top is set, otherwise below".
ImportsGoWhereAsked ==
  [][\A s \in Sources : \A k \in KeyIds :
       (keys[k] = Nothing /\ keys'[k] # Nothing /\ keys'[k].source = s) =>
         LET others == {j \in Existing : keys[j].cat = keys'[k].cat} IN
         \/ \A j \in others : keys'[k].order < keys[j].order
         \/ \A j \in others : keys'[k].order > keys[j].order]_vars
=============================================================================
