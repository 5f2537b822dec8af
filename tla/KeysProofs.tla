------------------------------ MODULE KeysProofs ------------------------------
(*****************************************************************************)
(* Proofs about Keys, for any numbers of keys, categories, users and         *)
(* requests, and any length of a behaviour.                                  *)
(*****************************************************************************)
EXTENDS Keys, FiniteSetTheorems, WellFoundedInduction, TLAPS

-----------------------------------------------------------------------------
(* Data: the greatest and the least of finitely many integers.               *)

Before == {ss \in Nat \X Nat : ss[1] < ss[2]}

\* The library's order on the natural numbers, as a set of pairs.
LEMMA BeforeIsWellFounded == IsWellFoundedOn(Before, Nat)
  BY ONLY NatLessThanWellFounded, SMT DEF OpToRel, Before

\* A set of natural numbers that is not empty has a least member.
LEMMA LeastNatural ==
  ASSUME NEW S, S \subseteq Nat, S # {}
  PROVE  \E n \in S : \A m \in S : n <= m
<1>1. PICK n \in S : \A m \in S : ~ (<<m, n>> \in Before)
  BY WFMin, BeforeIsWellFounded
<1>2. ASSUME NEW m \in S PROVE n <= m
  <2>1. m \in Nat /\ n \in Nat /\ <<m, n>> \in Nat \X Nat
    OBVIOUS
  <2>2. ~ (m < n)
    BY <1>1, <2>1 DEF Before
  <2> QED BY <2>1, <2>2
<1> QED BY <1>2

\* A function on a finite set takes a greatest value.
LEMMA GreatestValue ==
  ASSUME NEW S, IsFiniteSet(S), S # {}, NEW f \in [S -> Int]
  PROVE  \E x \in S : \A y \in S : f[x] >= f[y]
<1>1. PICK seq \in Seq(S) : \A s \in S : \E n \in 1..Len(seq) : seq[n] = s
  BY DEF IsFiniteSet
<1>2. Len(seq) \in Nat /\ \A i \in 1..Len(seq) : seq[i] \in S
  OBVIOUS
<1> DEFINE Has(m) == \E i \in 1..m : \A j \in 1..m : f[seq[i]] >= f[seq[j]]
           Bad == {m \in 1..Len(seq) : ~ Has(m)}
<1>3. Bad = {}
  <2> SUFFICES ASSUME Bad # {} PROVE FALSE
    OBVIOUS
  <2>1. PICK m \in Bad : \A n \in Bad : m <= n
    <3>1. Bad \subseteq Nat
      OBVIOUS
    <3> HIDE DEF Bad
    <3> QED BY <3>1, LeastNatural
  <2>2. m \in 1..Len(seq) /\ m \in Nat /\ f[seq[m]] \in Int
    BY <1>2
  <2>3. m # 1
    <3>1. ASSUME m = 1 PROVE Has(m)
      BY <2>2, <3>1
    <3> QED BY <3>1
  <2>4. Has(m - 1)
    <3>1. m - 1 \in 1..Len(seq) /\ ~ (m <= m - 1)
      BY <2>2, <2>3, <1>2
    <3> QED BY <2>1, <3>1
  <2>5. PICK i \in 1..(m - 1) : \A j \in 1..(m - 1) : f[seq[i]] >= f[seq[j]]
    BY <2>4
  <2> SUFFICES Has(m)
    BY <2>1
  <2> HIDE DEF Bad
  <2>6. \A j \in 1..m : j = m \/ j \in 1..(m - 1)
    BY <2>2
  <2>7. \A j \in 1..m : f[seq[j]] \in Int
    <3>1. \A j \in 1..m : j \in 1..Len(seq)
      BY <1>2, <2>2
    <3> QED BY <1>2, <3>1
  <2>8. i \in 1..m /\ m \in 1..m
    BY <2>2
  <2>9. CASE f[seq[i]] >= f[seq[m]]
    BY <2>5, <2>6, <2>8, <2>9
  <2>10. CASE f[seq[m]] >= f[seq[i]]
    <3>1. ASSUME NEW j \in 1..m PROVE f[seq[m]] >= f[seq[j]]
      <4>1. CASE j = m
        BY <2>2, <4>1
      <4>2. CASE j # m
        <5>1. f[seq[i]] >= f[seq[j]]
          BY <2>5, <2>6, <4>2
        <5> QED BY <2>2, <2>7, <2>8, <2>10, <5>1
      <4> QED BY <4>1, <4>2
    <3> QED BY <2>8, <3>1
  <2>11. f[seq[i]] \in Int /\ f[seq[m]] \in Int
    BY <2>7, <2>8
  <2> QED BY <2>9, <2>10, <2>11
<1>4. Len(seq) \in 1..Len(seq)
  BY <1>1, <1>2
<1>5. Has(Len(seq))
  BY <1>3, <1>4
<1>6. PICK i \in 1..Len(seq) : \A j \in 1..Len(seq) : f[seq[i]] >= f[seq[j]]
  BY <1>5
<1>7. \A y \in S : f[seq[i]] >= f[y]
  BY <1>1, <1>6
<1> QED BY <1>2, <1>7

\* Max of the values of a function and zero.
LEMMA MaxWithZero ==
  ASSUME NEW S, IsFiniteSet(S), NEW f \in [S -> Int]
  PROVE  LET T == {f[x] : x \in S} \cup {0} IN
         Max(T) \in T /\ \A y \in T : Max(T) >= y
<1> DEFINE T == {f[x] : x \in S} \cup {0}
<1>1. \E x \in T : \A y \in T : x >= y
  <2>1. CASE S = {}
    BY <2>1
  <2>2. CASE S # {}
    <3>1. PICK x \in S : \A y \in S : f[x] >= f[y]
      BY <2>2, GreatestValue
    <3>2. CASE f[x] >= 0
      BY <3>1, <3>2
    <3>3. CASE ~ (f[x] >= 0)
      BY <3>1, <3>3
    <3> QED BY <3>2, <3>3
  <2> QED BY <2>1, <2>2
<1> HIDE DEF T
<1>2. Max(T) \in T /\ \A y \in T : Max(T) >= y
  BY <1>1 DEF Max
<1> QED BY <1>2 DEF T

\* Max and Min of the values of a function on a finite set that is not empty.
LEMMA ExtremesAreValues ==
  ASSUME NEW S, IsFiniteSet(S), S # {}, NEW f \in [S -> Int]
  PROVE  LET T == {f[x] : x \in S} IN Max(T) \in T /\ Max(T) \in Int /\ Min(T) \in Int
<1> DEFINE T == {f[x] : x \in S}
           g == [x \in S |-> 0 - f[x]]
<1>1. \E x \in T : \A y \in T : x >= y
  BY GreatestValue
<1>2. \E x \in T : \A y \in T : x =< y
  <2>1. g \in [S -> Int]
    OBVIOUS
  <2>2. PICK x \in S : \A y \in S : g[x] >= g[y]
    <3> HIDE DEF g
    <3> QED BY <2>1, GreatestValue
  <2>3. \A y \in S : f[x] =< f[y]
    BY <2>2
  <2> QED BY <2>3
<1>3. T \subseteq Int
  OBVIOUS
<1> HIDE DEF T
<1>4. Max(T) \in T
  BY <1>1 DEF Max
<1>5. Min(T) \in T
  BY <1>2 DEF Min
<1> QED BY <1>3, <1>4, <1>5 DEF T

-----------------------------------------------------------------------------
(* The inductive invariant.                                                  *)

\* What a request holds between its reads and its transaction.
Held(q) ==
  /\ q.op \in {"loaded", "metadata", "edit"} => q.key \in KeyIds /\ q.rev \in Nat
  /\ q.op \in {"edit", "legacy"} =>
       q.key \in KeyIds /\ q.kind \in Kinds /\ q.uri \in Uris /\ q.choice \in CatChoices
  /\ q.op = "bulk" => q.keys \subseteq KeyIds /\ q.cat \in CatIds
  /\ q.op = "order" => \E s \in SUBSET KeyIds : q.ids \in Orders(s)
  /\ q.op = "category" => q.name \in Names /\ q.order \in Nat
  /\ q.op = "rename" => q.old \in Names /\ q.name \in Names /\ q.order \in Nat

RequestsHold ==
  /\ request = [r \in Requests |-> request[r]]
  /\ \A r \in Requests : Held(request[r])

\* Identifiers are given out once, so the next one has no row and no history.
IdsAreFresh ==
  \A k \in KeyIds : k > last.key => keys[k] = Nothing /\ saves[k] = <<>>

\* The saves of a key started from revisions before the one it has.
SavesAreBefore ==
  \A k \in Existing : \A i \in DOMAIN saves[k] : saves[k][i] < keys[k].rev

\* The index of a local key is its URI's or its own, and no other local key's.
IndexesAreDistinct ==
  \A k \in Existing : keys[k].source = Local =>
    keys[k].index \in {keys[k].uri, CloneIndex(k)} /\ Distinct(k, keys[k].index)

KeysInv ==
  /\ TypeOK
  /\ RequestsHold
  /\ IdsAreFresh
  /\ SavesAreBefore
  /\ OneSavePerRevision
  /\ IndexesAreDistinct
  /\ AllModeSeesEveryKey

\* The rows that are ordered are finitely many, so their orders have bounds.
LEMMA OrdersAreIntegers ==
  ASSUME TypeOK
  PROVE  /\ NextOrder \in Int /\ NextCatOrder \in Nat
         /\ \A s, cat : \A top \in BOOLEAN : ImportOrder(s, cat, top) \in Int
<1>1. IsFiniteSet(Existing) /\ IsFiniteSet(ExistingCats)
  <2>1. Existing \in SUBSET KeyIds /\ ExistingCats \in SUBSET CatIds
    BY DEF Existing, ExistingCats
  <2> QED BY <2>1, FS_Subset, KeysAssumption
<1>2. NextOrder \in Int
  <2> DEFINE f == [k \in Existing |-> keys[k].order]
             T == {keys[k].order : k \in Existing}
  <2>0. f \in [Existing -> Int]
    BY DEF TypeOK, Existing, Row
  <2>1. f \in [Existing -> Int] /\ T = {f[k] : k \in Existing} /\ (T = {} <=> Existing = {})
    BY <2>0
  <2>2. T # {} => Max(T) \in Int
    <3> HIDE DEF f, T
    <3> QED BY <1>1, <2>1, ExtremesAreValues
  <2>3. NextOrder = (IF T = {} THEN 0 ELSE Max(T)) + 1
    BY DEF NextOrder, After
  <2> HIDE DEF T
  <2> QED BY <2>2, <2>3
<1>3. NextCatOrder \in Nat
  <2> DEFINE f == [c \in ExistingCats |-> cats[c].order]
             T == {cats[c].order : c \in ExistingCats}
  <2>0. f \in [ExistingCats -> Nat]
    BY DEF TypeOK, ExistingCats, Category
  <2>1. /\ f \in [ExistingCats -> Int] /\ \A c \in ExistingCats : f[c] \in Nat
        /\ T = {f[c] : c \in ExistingCats} /\ (T = {} <=> ExistingCats = {})
    <3>1. f \in [ExistingCats -> Int] /\ \A c \in ExistingCats : f[c] \in Nat
      <4> HIDE DEF f
      <4> QED BY <2>0
    <3>2. T = {f[c] : c \in ExistingCats} /\ (T = {} <=> ExistingCats = {})
      OBVIOUS
    <3> QED BY <3>1, <3>2
  <2>2. T # {} => Max(T) \in {f[c] : c \in ExistingCats}
    <3> HIDE DEF f, T
    <3> QED BY <1>1, <2>1, ExtremesAreValues
  <2>3. NextCatOrder = (IF T = {} THEN 0 ELSE Max(T)) + 1
    BY DEF NextCatOrder, After
  <2> HIDE DEF T, f
  <2> QED BY <2>1, <2>2, <2>3
<1>4. ASSUME NEW s, NEW cat, NEW top \in BOOLEAN PROVE ImportOrder(s, cat, top) \in Int
  <2> DEFINE C == Counted(s, cat)
             f == [k \in C |-> keys[k].order]
             T == {keys[k].order : k \in C}
  <2>1. C \in SUBSET Existing
    BY DEF Counted
  <2>2. IsFiniteSet(C)
    BY <1>1, <2>1, FS_Subset
  <2>3. f \in [C -> Int]
    BY <2>1 DEF TypeOK, Existing, Row
  <2>4. T = {f[k] : k \in C} /\ (T = {} <=> C = {})
    OBVIOUS
  <2>5. T # {} => Max(T) \in Int /\ Min(T) \in Int
    <3> HIDE DEF f, T, C
    <3> QED BY <2>2, <2>3, <2>4, ExtremesAreValues
  <2>6. ImportOrder(s, cat, top) =
          IF top THEN (IF T = {} THEN 1 ELSE Min(T)) - (1 + 8) ELSE (IF T = {} THEN 0 ELSE Max(T)) + 1
    BY DEF ImportOrder, After
  <2> HIDE DEF T
  <2> QED BY <2>5, <2>6
<1> QED BY <1>2, <1>3, <1>4

CatTables == [CatIds -> Category \cup {Nothing}]

\* What a category choice comes to has the types of the tables.
LEMMA UpsertTypes ==
  ASSUME TypeOK, NEW name \in Names, NEW c \in Upsert(name)
  PROVE  c[1] \in CatTables /\ c[2] \in CatIds \cup {0} /\ c[3] \in CatIds
<1>1. NextCatOrder \in Nat
  BY OrdersAreIntegers
<1>2. CatNamed(name) \subseteq CatIds
  BY DEF CatNamed, ExistingCats
<1>3. CASE CatNamed(name) # {}
  <2>1. PICK d \in CatNamed(name) : c = <<cats, last.cat, d>>
    BY <1>3 DEF Upsert
  <2> QED BY <1>2, <2>1 DEF TypeOK, CatTables
<1>4. CASE CatNamed(name) = {}
  <2>1. PICK d \in CatIds : c = <<[cats EXCEPT ![d] = [name |-> name, order |-> NextCatOrder]], d, d>>
    BY <1>4 DEF Upsert
  <2>2. [name |-> name, order |-> NextCatOrder] \in Category
    BY <1>1 DEF Category
  <2> QED BY <2>1, <2>2 DEF TypeOK, CatTables
<1> QED BY <1>3, <1>4

\* The same for the category a client names by either means, or not at all.
LEMMA ResolveTypes ==
  ASSUME TypeOK, NEW choice \in CatChoices, NEW c \in Resolve(choice)
  PROVE  c[1] \in CatTables /\ c[2] \in CatIds \cup {0} /\ c[3] \in CatIds \cup {NoCat}
<1>1. CASE choice.by = "none"
  <2>1. c = <<cats, last.cat, NoCat>>
    BY <1>1 DEF Resolve
  <2> QED BY <2>1 DEF TypeOK, CatTables
<1>2. CASE choice.by = "id"
  <2>1. PICK d \in ExistingCats : c = <<cats, last.cat, d>>
    BY <1>2 DEF Resolve
  <2> QED BY <2>1 DEF TypeOK, CatTables, ExistingCats
<1>3. CASE choice.by = "name"
  <2>1. choice.name \in Names /\ c \in Upsert(choice.name)
    BY <1>3 DEF Resolve, CatChoices
  <2> QED BY <2>1, UpsertTypes
<1> QED BY <1>1, <1>2, <1>3 DEF CatChoices

\* The same for the category table's own commands.
LEMMA PutTypes ==
  ASSUME TypeOK, NEW name \in Names, NEW order \in Nat, NEW c \in Put(name, order)
  PROVE  c[1] \in CatTables /\ c[2] \in CatIds \cup {0} /\ c[3] \in CatIds
<1>2. CatNamed(name) \subseteq CatIds
  BY DEF CatNamed, ExistingCats
<1>3. CASE CatNamed(name) # {}
  <2>1. PICK d \in CatNamed(name) : c = <<cats, last.cat, d>>
    BY <1>3 DEF Put
  <2> QED BY <1>2, <2>1 DEF TypeOK, CatTables
<1>4. CASE CatNamed(name) = {}
  <2>1. PICK d \in CatIds : c = <<[cats EXCEPT ![d] = [name |-> name, order |-> order]], d, d>>
    BY <1>4 DEF Put
  <2>2. [name |-> name, order |-> order] \in Category
    BY DEF Category
  <2> QED BY <2>1, <2>2 DEF TypeOK, CatTables
<1> QED BY <1>3, <1>4

-----------------------------------------------------------------------------
(* What a step does to the keys: five kinds of effect.                       *)

\* The rows stay, with their profiles and revisions.
Rearranged ==
  /\ keys' \in [KeyIds -> Row \cup {Nothing}]
  /\ \A k \in KeyIds :
       /\ keys'[k] = Nothing <=> keys[k] = Nothing
       /\ keys[k] # Nothing =>
            /\ keys'[k].source = keys[k].source /\ keys'[k].uri = keys[k].uri
            /\ keys'[k].index = keys[k].index /\ keys'[k].rev = keys[k].rev
  /\ last'.key = last.key
  /\ UNCHANGED <<users, assigned, saves>>

\* Keys go, with their assignments.
Erased == (\E ks : Drop(ks)) /\ UNCHANGED <<last, users, saves>>

\* A key gets the next identifier and belongs to every user of mode all.
Born(k, row) ==
  /\ k \in KeyIds /\ k = last.key + 1 /\ row \in Row
  /\ keys' = [keys EXCEPT ![k] = row]
  /\ row.source = Local => row.index \in {row.uri, CloneIndex(k)} /\ Distinct(k, row.index)
  /\ assigned' = assigned \cup (AllUsers \X {k})
  /\ last'.key = k
  /\ UNCHANGED <<users, saves>>

\* One row is written, by a revision or without.
Rewritten(k, row) ==
  /\ k \in Existing /\ row \in Row /\ row.source = keys[k].source
  /\ keys' = [keys EXCEPT ![k] = row]
  /\ row.source = Local => \/ row.uri = keys[k].uri /\ row.index = keys[k].index
                           \/ row.index = row.uri /\ Distinct(k, row.index)
  /\ \/ saves' = saves /\ row.rev = keys[k].rev
     \/ saves' = [saves EXCEPT ![k] = Append(@, keys[k].rev)] /\ row.rev = keys[k].rev + 1
  /\ last'.key = last.key
  /\ UNCHANGED <<users, assigned>>

\* Users come, change and go.
Granted ==
  /\ users' \in [Users -> {"absent", "all", "selected"}]
  /\ assigned' \subseteq Users \X KeyIds
  /\ AllModeSeesEveryKey'
  /\ UNCHANGED <<keys, last, saves>>

Effect ==
  \/ Rearranged \/ Erased \/ Granted
  \/ \E k \in KeyIds, row \in Row : Born(k, row) \/ Rewritten(k, row)

\* A key is inserted as it says, whatever category it gets.
LEMMA InsertBears ==
  ASSUME KeysInv, NEW k, k = last.key + 1, NEW uri \in Uris, NEW index, NEW kind \in Kinds,
         NEW cat \in CatIds \cup {NoCat}, index \in {uri, CloneIndex(k)},
         Insert(k, uri, index, kind, cat), last'.key = k, UNCHANGED <<users, saves>>
  PROVE  \E row \in Row : Born(k, row)
<1> DEFINE row == [source |-> Local, uri |-> uri, index |-> index, rev |-> 1, kind |-> kind,
                   cat |-> cat, order |-> NextOrder]
<1>1. k \in KeyIds /\ Distinct(k, index) /\ keys' = [keys EXCEPT ![k] = row] /\ Assign(k)
  BY DEF Insert
<1>2. NextOrder \in Int
  BY OrdersAreIntegers DEF KeysInv
<1>3. index \in Uris \cup {CloneIndex(j) : j \in KeyIds} \cup {Nothing}
  BY <1>1
<1>4. row \in Row
  BY <1>2, <1>3 DEF Row
<1>5. row.uri = uri /\ row.index = index
  OBVIOUS
<1> HIDE DEF row
<1>6. Born(k, row)
  BY <1>1, <1>4, <1>5 DEF Born, Assign
<1> QED BY <1>4, <1>6

\* A row that only gets another category or another place keeps its profile.
LEMMA MovedRowsStay ==
  ASSUME TypeOK, keys' = [k \in KeyIds |-> keys'[k]],
         \A k \in KeyIds :
           \/ keys'[k] = keys[k]
           \/ /\ keys[k] # Nothing
              /\ \/ \E c \in CatIds \cup {NoCat} : keys'[k] = [keys[k] EXCEPT !.cat = c]
                 \/ \E o \in Int : keys'[k] = [keys[k] EXCEPT !.order = o],
         last'.key = last.key, UNCHANGED <<users, assigned, saves>>
  PROVE  Rearranged
<1>1. ASSUME NEW row \in Row, NEW c \in CatIds \cup {NoCat}, NEW new, new = [row EXCEPT !.cat = c]
      PROVE  /\ new \in Row /\ new.source = row.source /\ new.uri = row.uri
             /\ new.index = row.index /\ new.rev = row.rev
  BY <1>1 DEF Row
<1>2. ASSUME NEW row \in Row, NEW o \in Int, NEW new, new = [row EXCEPT !.order = o]
      PROVE  /\ new \in Row /\ new.source = row.source /\ new.uri = row.uri
             /\ new.index = row.index /\ new.rev = row.rev
  BY <1>2 DEF Row
<1>3. ASSUME NEW k \in KeyIds
      PROVE  /\ keys'[k] \in Row \cup {Nothing}
             /\ keys'[k] = Nothing <=> keys[k] = Nothing
             /\ keys[k] # Nothing =>
                  /\ keys'[k].source = keys[k].source /\ keys'[k].uri = keys[k].uri
                  /\ keys'[k].index = keys[k].index /\ keys'[k].rev = keys[k].rev
  <2>1. keys[k] \in Row \cup {Nothing} /\ Nothing \notin Row
    BY KeysAssumption DEF TypeOK
  <2>2. CASE keys'[k] = keys[k]
    BY <2>1, <2>2
  <2>3. CASE keys[k] # Nothing
             /\ \E c \in CatIds \cup {NoCat} : keys'[k] = [keys[k] EXCEPT !.cat = c]
    BY <1>1, <2>1, <2>3
  <2>4. CASE keys[k] # Nothing /\ \E o \in Int : keys'[k] = [keys[k] EXCEPT !.order = o]
    BY <1>2, <2>1, <2>4
  <2> QED BY <2>2, <2>3, <2>4
<1>4. keys' \in [KeyIds -> Row \cup {Nothing}]
  BY <1>3
<1> QED BY <1>3, <1>4 DEF Rearranged

\* Every command that creates, edits, moves or deletes has one of the effects.
LEMMA CommandEffects == ASSUME KeysInv, Command PROVE Effect
<1>0. TypeOK /\ AllModeSeesEveryKey /\ KeysAssumption
  BY KeysAssumption DEF KeysInv
<1>1. ASSUME NEW uri \in Uris, NEW kind \in Kinds, NEW choice \in CatChoices,
             CreateKey(uri, kind, choice)
      PROVE  Effect
  <2>1. PICK c \in Resolve(choice) : Insert(last.key + 1, uri, uri, kind, c[3])
                                     /\ last' = [key |-> last.key + 1, cat |-> c[2]]
    BY <1>1 DEF CreateKey
  <2>2. c[3] \in CatIds \cup {NoCat}
    BY <1>0, ResolveTypes
  <2>3. last'.key = last.key + 1 /\ UNCHANGED <<users, saves>>
    BY <1>1, <2>1 DEF CreateKey
  <2>4. \E row \in Row : Born(last.key + 1, row)
    BY <2>1, <2>2, <2>3, InsertBears
  <2> QED BY <2>4 DEF Effect, Born
<1>2. ASSUME NEW ks, Delete(ks) PROVE Effect
  BY <1>2 DEF Delete, Effect, Erased
<1>3. ASSUME NEW name, NEW withKeys \in BOOLEAN, DeleteCategory(name, withKeys) PROVE Effect
  <2>1. CASE withKeys
    BY <1>3, <2>1 DEF DeleteCategory, Effect, Erased
  <2>2. CASE ~ withKeys
    <3>1. /\ keys' = [k \in KeyIds |-> IF k \in KeysIn(name) THEN [keys[k] EXCEPT !.cat = NoCat]
                                       ELSE keys[k]]
          /\ UNCHANGED <<last, users, assigned, saves>>
      BY <1>3, <2>2 DEF DeleteCategory
    <3>2. \A k \in KeysIn(name) : keys[k] # Nothing
      BY DEF KeysIn, Existing
    <3>3. keys' = [k \in KeyIds |-> keys'[k]]
      BY <3>1
    <3>4. \A k \in KeyIds :
            keys'[k] = keys[k] \/ (keys[k] # Nothing /\ keys'[k] = [keys[k] EXCEPT !.cat = NoCat])
      BY <3>1, <3>2
    <3> QED BY <1>0, <3>1, <3>3, <3>4, MovedRowsStay DEF Effect
  <2> QED BY <2>1, <2>2
<1>4. ASSUME NEW names, ReorderCategories(names) PROVE Effect
  BY <1>0, <1>4 DEF ReorderCategories, Effect, Rearranged, TypeOK
<1>5. ASSUME NEW s \in Sources, NEW uri \in Uris, NEW choice \in ByName, NEW top \in BOOLEAN,
             Import(s, uri, choice, top)
      PROVE  Effect
  <2>1. choice \in CatChoices
    BY DEF ByName
  <2>2. PICK c \in Resolve(choice) :
          LET order == ImportOrder(s, c[3], top)
              owned == {k \in Existing : keys[k].source = s} IN
          \/ \E k \in owned :
               /\ keys' = [keys EXCEPT ![k] = [@ EXCEPT !.uri = uri, !.kind = "real", !.cat = c[3],
                                                        !.order = order]]
               /\ last' = [last EXCEPT !.cat = c[2]] /\ UNCHANGED assigned
          \/ /\ owned = {} /\ last.key + 1 \in KeyIds
             /\ keys' = [keys EXCEPT ![last.key + 1] =
                  [source |-> s, uri |-> uri, index |-> Nothing, rev |-> 1, kind |-> "real",
                   cat |-> c[3], order |-> order]]
             /\ Assign(last.key + 1)
             /\ last' = [key |-> last.key + 1, cat |-> c[2]]
    BY <1>5 DEF Import
  <2>3. c[3] \in CatIds \cup {NoCat}
    BY <1>0, <2>1, ResolveTypes
  <2>4. ImportOrder(s, c[3], top) \in Int
    BY <1>0, OrdersAreIntegers
  <2>5. UNCHANGED <<users, saves>> /\ s # Local
    BY <1>0, <1>5 DEF Import, KeysAssumption
  <2>6. ASSUME NEW k \in Existing, keys[k].source = s,
               keys' = [keys EXCEPT ![k] = [@ EXCEPT !.uri = uri, !.kind = "real", !.cat = c[3],
                                                     !.order = ImportOrder(s, c[3], top)]],
               last' = [last EXCEPT !.cat = c[2]], UNCHANGED assigned
        PROVE  Effect
    <3> DEFINE row == [keys[k] EXCEPT !.uri = uri, !.kind = "real", !.cat = c[3],
                                      !.order = ImportOrder(s, c[3], top)]
    <3>1. keys[k] \in Row /\ k \in KeyIds
      BY <1>0 DEF TypeOK, Existing
    <3>2. row \in Row /\ row.source = s /\ row.rev = keys[k].rev
      BY <2>3, <2>4, <2>6, <3>1 DEF Row, Kinds
    <3>3. keys' = [keys EXCEPT ![k] = row] /\ last'.key = last.key
      BY <1>0, <2>6, <3>1 DEF TypeOK
    <3> HIDE DEF row
    <3>4. Rewritten(k, row)
      BY <2>5, <2>6, <3>2, <3>3 DEF Rewritten
    <3> QED BY <3>1, <3>2, <3>4 DEF Effect
  <2>7. ASSUME last.key + 1 \in KeyIds,
               keys' = [keys EXCEPT ![last.key + 1] =
                  [source |-> s, uri |-> uri, index |-> Nothing, rev |-> 1, kind |-> "real",
                   cat |-> c[3], order |-> ImportOrder(s, c[3], top)]],
               Assign(last.key + 1), last' = [key |-> last.key + 1, cat |-> c[2]]
        PROVE  Effect
    <3> DEFINE row == [source |-> s, uri |-> uri, index |-> Nothing, rev |-> 1, kind |-> "real",
                       cat |-> c[3], order |-> ImportOrder(s, c[3], top)]
    <3>1. row \in Row /\ row.source = s
      BY <2>3, <2>4 DEF Row, Kinds
    <3>2. keys' = [keys EXCEPT ![last.key + 1] = row] /\ last'.key = last.key + 1
      BY <2>7
    <3> HIDE DEF row
    <3>3. Born(last.key + 1, row)
      BY <2>5, <2>7, <3>1, <3>2 DEF Born, Assign
    <3> QED BY <2>7, <3>1, <3>3 DEF Effect
  <2> QED BY <2>2, <2>6, <2>7
<1>6. ASSUME NEW u \in Users, CreateUser(u) PROVE Effect
  <2>1. users' \in [Users -> {"absent", "all", "selected"}] /\ assigned' \subseteq Users \X KeyIds
    BY <1>0, <1>6 DEF CreateUser, TypeOK, Existing
  <2>2. AllModeSeesEveryKey'
    BY <1>0, <1>6 DEF CreateUser, TypeOK, Existing, AllUsers, AllModeSeesEveryKey
  <2> QED BY <1>6, <2>1, <2>2 DEF CreateUser, Granted, Effect
<1>7. ASSUME NEW u \in Users, DeleteUser(u) PROVE Effect
  <2>1. users' \in [Users -> {"absent", "all", "selected"}] /\ assigned' \subseteq Users \X KeyIds
    BY <1>0, <1>7 DEF DeleteUser, TypeOK, Existing
  <2>2. AllModeSeesEveryKey'
    BY <1>0, <1>7 DEF DeleteUser, TypeOK, Existing, AllUsers, AllModeSeesEveryKey
  <2> QED BY <1>7, <2>1, <2>2 DEF DeleteUser, Granted, Effect
<1>8. ASSUME NEW u \in Users, NEW mode \in {"all", "selected"}, NEW ks \in SUBSET KeyIds,
             UpdateAssignment(u, mode, ks)
      PROVE  Effect
  <2>1. users' \in [Users -> {"absent", "all", "selected"}] /\ assigned' \subseteq Users \X KeyIds
    BY <1>0, <1>8 DEF UpdateAssignment, TypeOK, Existing
  <2>2. users' = [users EXCEPT ![u] = mode] /\ keys' = keys /\ users[u] # "absent"
    BY <1>8 DEF UpdateAssignment
  <2>3. ASSUME mode = "all" PROVE AllModeSeesEveryKey'
    <3>1. assigned' = {a \in assigned : a[1] # u} \cup ({u} \X Existing)
      BY <1>8, <2>3 DEF UpdateAssignment
    <3> QED BY <1>0, <2>2, <2>3, <3>1 DEF TypeOK, Existing, AllUsers, AllModeSeesEveryKey
  <2>4. ASSUME mode = "selected" PROVE AllModeSeesEveryKey'
    <3>1. assigned' = {a \in assigned : a[1] # u} \cup ({u} \X ks) /\ ks \subseteq Existing
      BY <1>8, <2>4 DEF UpdateAssignment
    <3>2. AllUsers' \subseteq AllUsers \ {u} /\ Existing' = Existing
      BY <1>0, <2>2, <2>4 DEF TypeOK, AllUsers, Existing
    <3>3. AllUsers' \X Existing' \subseteq assigned'
      BY <1>0, <3>1, <3>2 DEF AllModeSeesEveryKey
    <3>4. ASSUME NEW a \in assigned' PROVE users'[a[1]] # "absent" /\ keys'[a[2]] # Nothing
      <4>1. CASE a \in assigned /\ a[1] # u
        <5>1. a[1] \in Users
          BY <1>0, <4>1 DEF TypeOK
        <5> QED BY <1>0, <2>2, <4>1, <5>1 DEF TypeOK, AllModeSeesEveryKey
      <4>2. CASE a \in {u} \X ks
        <5>1. a[1] = u /\ a[2] \in Existing
          BY <3>1, <4>2
        <5>2. users'[u] = "selected"
          BY <1>0, <2>2, <2>4 DEF TypeOK
        <5> QED BY <2>2, <5>1, <5>2 DEF Existing
      <4> QED BY <3>1, <4>1, <4>2
    <3> QED BY <3>3, <3>4 DEF AllModeSeesEveryKey
  <2>5. AllModeSeesEveryKey'
    BY <2>3, <2>4
  <2> QED BY <1>8, <2>1, <2>5 DEF UpdateAssignment, Granted, Effect
<1> QED BY <1>1, <1>2, <1>3, <1>4, <1>5, <1>6, <1>7, <1>8 DEF Command

\* A step that leaves the rows alone rearranges nothing.
LEMMA UnchangedRowsStay ==
  ASSUME TypeOK, keys' = keys, last'.key = last.key, UNCHANGED <<users, assigned, saves>>
  PROVE  Effect
BY DEF TypeOK, Rearranged, Effect

\* The row that an edit of a row writes.
Edited(row, uri, index, kind, cat) ==
  [row EXCEPT !.uri = uri, !.index = index, !.kind = kind, !.cat = cat, !.rev = @ + 1]

Indexes == Uris \cup {CloneIndex(j) : j \in KeyIds} \cup {Nothing}

\* It is a row.
LEMMA EditedRow ==
  ASSUME NEW row \in Row, NEW uri \in Uris, NEW kind \in Kinds, NEW cat \in CatIds \cup {NoCat},
         NEW index \in Indexes
  PROVE  /\ Edited(row, uri, index, kind, cat) \in Row
         /\ Edited(row, uri, index, kind, cat).source = row.source
         /\ Edited(row, uri, index, kind, cat).uri = uri
         /\ Edited(row, uri, index, kind, cat).index = index
         /\ Edited(row, uri, index, kind, cat).rev = row.rev + 1
<1> DEFINE new == Edited(row, uri, index, kind, cat)
<1>2. Row = [source : Sources \cup {Local}, uri : Uris, index : Indexes, rev : Nat, kind : Kinds,
             cat : CatIds \cup {NoCat}, order : Int]
  BY DEF Row, Indexes
<1>3. new = [row EXCEPT !.uri = uri, !.index = index, !.kind = kind, !.cat = cat, !.rev = @ + 1]
  BY DEF Edited
<1>4. row.rev + 1 \in Nat
  BY DEF Row
<1> HIDE DEF new
<1>5. new = [source |-> row.source, uri |-> uri, index |-> index, rev |-> row.rev + 1,
             kind |-> kind, cat |-> cat, order |-> row.order]
  BY <1>2, <1>3
<1>6. row.source \in Sources \cup {Local} /\ row.order \in Int
  BY <1>2
<1>7. new \in Row
  BY <1>2, <1>4, <1>5, <1>6
<1>8. /\ new.source = row.source /\ new.uri = uri /\ new.index = index
      /\ new.rev = row.rev + 1
  BY <1>5
<1> QED BY <1>7, <1>8 DEF new

\* A save by a revision writes the row it compared.
LEMMA SavesRewrite ==
  ASSUME KeysInv, NEW r \in Requests, SaveEdit(r) \/ SaveMetadata(r) \/ SaveLegacy(r)
  PROVE  Effect
<1> DEFINE q == request[r]
           k == q.key
<1>0. TypeOK /\ Held(q)
  BY DEF KeysInv, RequestsHold
<1>1. CASE SaveEdit(r)
  <2>1. /\ k \in KeyIds /\ q.uri \in Uris /\ q.kind \in Kinds /\ q.choice \in CatChoices
        /\ keys[k] # Nothing /\ keys[k].rev = q.rev /\ keys[k].source = Local
        /\ Distinct(k, EditedIndex(k, q.uri))
    BY <1>0, <1>1 DEF SaveEdit, In, MayEdit, AtRevision, Held
  <2>2. PICK c \in Resolve(q.choice) :
          /\ keys' = [keys EXCEPT ![q.key] =
                [keys[q.key] EXCEPT !.uri = q.uri, !.index = EditedIndex(q.key, q.uri),
                                    !.kind = q.kind, !.cat = c[3], !.rev = @ + 1]]
          /\ last' = [last EXCEPT !.cat = c[2]]
    BY <1>1 DEF SaveEdit
  <2>3. c[3] \in CatIds \cup {NoCat}
    BY <1>0, <2>1, ResolveTypes
  <2>4. keys[k] \in Row /\ k \in Existing
    BY <1>0, <2>1 DEF TypeOK, Existing
  <2>5. EditedIndex(k, q.uri) \in Indexes
    BY <2>1, <2>4 DEF EditedIndex, Row, Indexes
  <2> DEFINE row == Edited(keys[k], q.uri, EditedIndex(k, q.uri), q.kind, c[3])
  <2>6. keys' = [keys EXCEPT ![k] = row]
    BY <2>2 DEF Edited
  <2>7. row \in Row /\ row.source = keys[k].source /\ row.uri = q.uri
        /\ row.index = EditedIndex(k, q.uri) /\ row.rev = keys[k].rev + 1
    <3> DEFINE old == keys[k]  u == q.uri  v == q.kind  d == c[3]  i == EditedIndex(k, q.uri)
    <3>1. old \in Row /\ u \in Uris /\ v \in Kinds /\ d \in CatIds \cup {NoCat} /\ i \in Indexes
      BY <2>1, <2>3, <2>4, <2>5
    <3>2. row = Edited(old, u, i, v, d)
      OBVIOUS
    <3> HIDE DEF old, u, v, d, i, row
    <3>3. row \in Row /\ row.source = old.source /\ row.uri = u /\ row.index = i
          /\ row.rev = old.rev + 1
      BY <3>1, <3>2, EditedRow
    <3> QED BY <3>3 DEF old, u, i
  <2>8. last'.key = last.key /\ UNCHANGED <<users, assigned>>
        /\ saves' = [saves EXCEPT ![k] = Append(@, keys[k].rev)]
    BY <1>0, <1>1, <2>1, <2>2 DEF SaveEdit, Saved, TypeOK
  <2> HIDE DEF row
  <2>9. Rewritten(k, row)
    BY <2>1, <2>4, <2>6, <2>7, <2>8 DEF Rewritten, EditedIndex
  <2> QED BY <2>1, <2>7, <2>9 DEF Effect
<1>2. CASE SaveMetadata(r)
  <2> DEFINE row == [keys[k] EXCEPT !.rev = @ + 1]
  <2>1. k \in KeyIds /\ keys[k] # Nothing /\ keys[k].rev = q.rev
    BY <1>0, <1>2 DEF SaveMetadata, In, AtRevision, Held
  <2>2. keys[k] \in Row /\ k \in Existing
    BY <1>0, <2>1 DEF TypeOK, Existing
  <2>3. keys' = [keys EXCEPT ![k] = row]
    BY <1>0, <1>2 DEF SaveMetadata, TypeOK
  <2>4. row \in Row /\ row.source = keys[k].source /\ row.uri = keys[k].uri
        /\ row.index = keys[k].index /\ row.rev = keys[k].rev + 1
    BY <2>2 DEF Row
  <2>5. last'.key = last.key /\ UNCHANGED <<users, assigned>>
        /\ saves' = [saves EXCEPT ![k] = Append(@, keys[k].rev)]
    BY <1>2, <2>1 DEF SaveMetadata, Saved
  <2> HIDE DEF row
  <2>6. Rewritten(k, row)
    BY <2>2, <2>3, <2>4, <2>5 DEF Rewritten
  <2> QED BY <2>1, <2>4, <2>6 DEF Effect
<1>3. CASE SaveLegacy(r)
  <2> DEFINE row(c) == [keys[k] EXCEPT !.uri = q.uri, !.index = q.uri, !.kind = q.kind,
                                       !.cat = c[3], !.order = LegacyOrder(k, q.kind)]
  <2>1. /\ k \in KeyIds /\ q.uri \in Uris /\ q.kind \in Kinds /\ q.choice \in CatChoices
        /\ k \in Existing /\ (keys[k].source = Local => Distinct(k, q.uri))
    BY <1>0, <1>3 DEF SaveLegacy, In, LegacyFits, Held
  <2>2. PICK c \in Resolve(q.choice) : keys' = [keys EXCEPT ![k] = row(c)]
                                       /\ last' = [last EXCEPT !.cat = c[2]]
    BY <1>3 DEF SaveLegacy
  <2>3. c[3] \in CatIds \cup {NoCat}
    BY <1>0, <2>1, ResolveTypes
  <2>4. keys[k] \in Row
    BY <1>0, <2>1 DEF TypeOK, Existing
  <2>5. LegacyOrder(k, q.kind) \in Int
    BY <1>0, <2>4, OrdersAreIntegers DEF LegacyOrder, Row
  <2>6. row(c) \in Row /\ row(c).source = keys[k].source /\ row(c).uri = q.uri
        /\ row(c).index = q.uri /\ row(c).rev = keys[k].rev
    BY <2>1, <2>3, <2>4, <2>5 DEF Row
  <2>7. last'.key = last.key /\ UNCHANGED <<users, assigned, saves>>
    BY <1>0, <1>3, <2>2 DEF SaveLegacy, TypeOK
  <2> HIDE DEF row
  <2>8. Rewritten(k, row(c))
    BY <2>1, <2>2, <2>6, <2>7 DEF Rewritten
  <2> QED BY <2>1, <2>6, <2>8 DEF Effect
<1> QED BY <1>1, <1>2, <1>3

\* Every step of a request has one of the effects.
LEMMA RequestEffects ==
  ASSUME KeysInv, NEW r \in Requests, Start(r) \/ Finish(r) PROVE Effect
<1> DEFINE q == request[r]
<1>0. TypeOK /\ Held(q)
  BY DEF KeysInv, RequestsHold
<1>1. CASE Start(r)
  <2>1. ASSUME NEW ks, NEW name, EnsureForBulk(r, ks, name) PROVE Effect
    <3>1. keys' = keys /\ last'.key = last.key /\ UNCHANGED <<users, assigned, saves>>
      BY <1>0, <2>1 DEF EnsureForBulk, TypeOK
    <3> QED BY <1>0, <3>1, UnchangedRowsStay
  <2>2. ASSUME UNCHANGED <<keys, last, users, assigned, saves>> PROVE Effect
    BY <1>0, <2>2, UnchangedRowsStay
  <2> QED BY <1>1, <2>1, <2>2 DEF Start, Load, LoadLegacy, ReadOrder, ReadCatOrder, ReadRename
<1>2. ASSUME NEW kind, NEW uri, NEW choice, Plan(r, kind, uri, choice) PROVE Effect
  BY <1>0, <1>2, UnchangedRowsStay DEF Plan
<1>3. CASE Fail(r)
  BY <1>0, <1>3, UnchangedRowsStay DEF Fail
<1>4. CASE SaveCategory(r)
  <2>1. keys' = keys /\ last'.key = last.key /\ UNCHANGED <<users, assigned, saves>>
    BY <1>0, <1>4 DEF SaveCategory, TypeOK
  <2> QED BY <1>0, <2>1, UnchangedRowsStay
<1>5. CASE Clone(r)
  <2> DEFINE k == last.key + 1
  <2>1. q.key \in KeyIds /\ keys[q.key] # Nothing
    BY <1>0, <1>5 DEF Clone, In, AtRevision, Held
  <2>2. /\ Insert(k, keys[q.key].uri, CloneIndex(k), keys[q.key].kind, keys[q.key].cat)
        /\ last'.key = k /\ UNCHANGED <<users, saves>>
    BY <1>0, <1>5 DEF Clone, TypeOK
  <2>3. keys[q.key] \in Row
    BY <1>0, <2>1 DEF TypeOK
  <2>4. /\ keys[q.key].uri \in Uris /\ keys[q.key].kind \in Kinds
        /\ keys[q.key].cat \in CatIds \cup {NoCat}
    BY <2>3 DEF Row
  <2>5. \E row \in Row : Born(k, row)
    BY <2>2, <2>4, InsertBears
  <2> QED BY <2>5 DEF Effect, Born
<1>6. CASE SaveBulk(r)
  <2>1. /\ keys' = [k \in KeyIds |-> IF k \in q.keys THEN [keys[k] EXCEPT !.cat = q.cat] ELSE keys[k]]
        /\ UNCHANGED <<last, users, assigned, saves>>
    BY <1>6 DEF SaveBulk
  <2>2. q.cat \in CatIds /\ \A k \in q.keys : keys[k] # Nothing
    BY <1>0, <1>6 DEF SaveBulk, In, Held, Existing
  <2>3. keys' = [k \in KeyIds |-> keys'[k]]
    BY <2>1
  <2>4. \A k \in KeyIds :
          keys'[k] = keys[k] \/ (keys[k] # Nothing /\ keys'[k] = [keys[k] EXCEPT !.cat = q.cat])
    BY <2>1, <2>2
  <2> QED BY <1>0, <2>1, <2>2, <2>3, <2>4, MovedRowsStay DEF Effect
<1>7. CASE SaveOrder(r)
  <2>1. keys' = Ordered(q.ids) /\ UNCHANGED <<last, users, assigned, saves>> /\ In(r, "order")
    BY <1>7 DEF SaveOrder
  <2>2. PICK s \in SUBSET KeyIds : q.ids \in Orders(s)
    BY <1>0, <2>1 DEF In, Held
  <2>3. DOMAIN q.ids \subseteq Int
    <3>1. q.ids \in [1..Cardinality(s) -> s]
      BY <2>2 DEF Orders
    <3>2. DOMAIN q.ids = 1..Cardinality(s)
      BY <3>1
    <3>3. Cardinality(s) \in Nat
      BY KeysAssumption, FS_Subset, FS_CardinalityType
    <3> QED BY <3>2, <3>3
  <2> DEFINE at(k) == CHOOSE i \in DOMAIN q.ids : q.ids[i] = k
  <2>4. \A k \in KeyIds : (\E i \in DOMAIN q.ids : q.ids[i] = k) => at(k) \in Int
    BY <2>3
  <2>5. keys' = [k \in KeyIds |-> IF keys[k] # Nothing /\ \E i \in DOMAIN q.ids : q.ids[i] = k
                                  THEN [keys[k] EXCEPT !.order = at(k)] ELSE keys[k]]
    BY <2>1 DEF Ordered
  <2> HIDE DEF at
  <2>6. keys' = [k \in KeyIds |-> keys'[k]]
    BY <2>5
  <2>7. \A k \in KeyIds :
          \/ keys'[k] = keys[k]
          \/ keys[k] # Nothing /\ at(k) \in Int /\ keys'[k] = [keys[k] EXCEPT !.order = at(k)]
    BY <2>4, <2>5
  <2> QED BY <1>0, <2>1, <2>6, <2>7, MovedRowsStay DEF Effect
<1>8. CASE SaveRename(r)
  <2> DEFINE old == IF q.old = q.name THEN {} ELSE CatNamed(q.old)
  <2>1. PICK c \in Put(q.name, q.order) :
          /\ keys' = [k \in KeyIds |-> IF keys[k] # Nothing /\ keys[k].cat \in old
                                       THEN [keys[k] EXCEPT !.cat = c[3]] ELSE keys[k]]
          /\ last' = [last EXCEPT !.cat = c[2]]
    BY <1>8 DEF SaveRename
  <2>2. q.name \in Names /\ q.order \in Nat
    BY <1>0, <1>8 DEF SaveRename, In, Held
  <2>3. c[3] \in CatIds \cup {NoCat}
    BY <1>0, <2>2, PutTypes
  <2>4. last'.key = last.key /\ UNCHANGED <<users, assigned, saves>>
    BY <1>0, <1>8, <2>1 DEF SaveRename, TypeOK
  <2> HIDE DEF old
  <2>5. keys' = [k \in KeyIds |-> keys'[k]]
    BY <2>1
  <2>6. \A k \in KeyIds :
          keys'[k] = keys[k] \/ (keys[k] # Nothing /\ keys'[k] = [keys[k] EXCEPT !.cat = c[3]])
    BY <2>1
  <2> QED BY <1>0, <2>3, <2>4, <2>5, <2>6, MovedRowsStay DEF Effect
<1>9. CASE SaveEdit(r) \/ SaveMetadata(r) \/ SaveLegacy(r)
  BY <1>9, SavesRewrite
<1> QED BY <1>1, <1>2, <1>3, <1>4, <1>5, <1>6, <1>7, <1>8, <1>9 DEF Finish

\* Every step has one of the effects.
LEMMA NextEffects == ASSUME KeysInv, Next PROVE Effect
BY CommandEffects, RequestEffects DEF Next

-----------------------------------------------------------------------------
(* The invariant in every step.                                              *)

\* Each effect keeps the types of what it writes.
LEMMA EffectTypes ==
  ASSUME KeysInv, Effect
  PROVE  /\ keys' \in [KeyIds -> Row \cup {Nothing}]
         /\ users' \in [Users -> {"absent", "all", "selected"}]
         /\ assigned' \subseteq Users \X KeyIds
         /\ saves' \in [KeyIds -> Seq(Nat)]
<1>0. /\ keys \in [KeyIds -> Row \cup {Nothing}] /\ users \in [Users -> {"absent", "all", "selected"}]
      /\ assigned \subseteq Users \X KeyIds /\ saves \in [KeyIds -> Seq(Nat)]
  BY DEF KeysInv, TypeOK
<1>1. CASE Rearranged
  BY <1>0, <1>1 DEF Rearranged
<1>2. CASE Erased
  BY <1>0, <1>2 DEF Erased, Drop
<1>3. CASE Granted
  BY <1>0, <1>3 DEF Granted
<1>4. ASSUME NEW k \in KeyIds, NEW row \in Row, Born(k, row)
      PROVE  /\ keys' \in [KeyIds -> Row \cup {Nothing}] /\ assigned' \subseteq Users \X KeyIds
             /\ users' = users /\ saves' = saves
  BY <1>0, <1>4 DEF Born, AllUsers
<1>5. ASSUME NEW k \in KeyIds, NEW row \in Row, Rewritten(k, row)
      PROVE  /\ keys' \in [KeyIds -> Row \cup {Nothing}] /\ saves' \in [KeyIds -> Seq(Nat)]
             /\ users' = users /\ assigned' = assigned
  <2>1. keys[k].rev \in Nat
    BY <1>0, <1>5 DEF Rewritten, Existing, Row
  <2>2. Append(saves[k], keys[k].rev) \in Seq(Nat)
    BY <1>0, <2>1
  <2>3. saves' \in [KeyIds -> Seq(Nat)]
    BY <1>0, <1>5, <2>2 DEF Rewritten
  <2> QED BY <1>0, <1>5, <2>3 DEF Rewritten
<1> QED BY <1>0, <1>1, <1>2, <1>3, <1>4, <1>5 DEF Effect

\* The category table, the identifiers given out and the bound on the commands.
LEMMA TablesStep ==
  ASSUME KeysInv, [Next]_vars
  PROVE  /\ cats' \in CatTables
         /\ last' \in [key : KeyIds \cup {0}, cat : CatIds \cup {0}]
         /\ work' \in 0..MaxWork
<1> DEFINE Good == /\ cats' \in CatTables
                   /\ last' \in [key : KeyIds \cup {0}, cat : CatIds \cup {0}]
                   /\ work' \in 0..MaxWork
<1>0. /\ TypeOK /\ cats \in CatTables /\ last \in [key : KeyIds \cup {0}, cat : CatIds \cup {0}]
      /\ work \in 0..MaxWork /\ MaxWork \in Nat
  BY KeysAssumption DEF KeysInv, TypeOK, CatTables
<1>1. ASSUME Work PROVE work' \in 0..MaxWork
  BY <1>0, <1>1 DEF Work
<1>2. ASSUME NEW k, NEW cat \in CatIds \cup {0}, k \in KeyIds,
             last' = [key |-> k, cat |-> cat] \/ last' = [last EXCEPT !.cat = cat]
      PROVE  last' \in [key : KeyIds \cup {0}, cat : CatIds \cup {0}]
  BY <1>0, <1>2
<1>3. ASSUME NEW cat \in CatIds \cup {0}, last' = [last EXCEPT !.cat = cat]
      PROVE  last' \in [key : KeyIds \cup {0}, cat : CatIds \cup {0}]
  BY <1>0, <1>3
<1>4. ASSUME NEW uri \in Uris, NEW kind \in Kinds, NEW choice \in CatChoices,
             CreateKey(uri, kind, choice)
      PROVE  Good
  <2>1. PICK c \in Resolve(choice) : /\ last.key + 1 \in KeyIds /\ cats' = c[1]
                                     /\ last' = [key |-> last.key + 1, cat |-> c[2]]
    BY <1>4 DEF CreateKey, Insert
  <2> QED BY <1>0, <1>1, <1>2, <1>4, <2>1, ResolveTypes DEF CreateKey
<1>5. ASSUME NEW s \in Sources, NEW uri \in Uris, NEW choice \in ByName, NEW top \in BOOLEAN,
             Import(s, uri, choice, top)
      PROVE  Good
  <2>1. PICK c \in Resolve(choice) :
          /\ cats' = c[1]
          /\ \/ last' = [last EXCEPT !.cat = c[2]]
             \/ last.key + 1 \in KeyIds /\ last' = [key |-> last.key + 1, cat |-> c[2]]
    BY <1>5 DEF Import
  <2>2. choice \in CatChoices
    BY DEF ByName
  <2>3. cats' \in CatTables /\ c[2] \in CatIds \cup {0}
    BY <1>0, <2>1, <2>2, ResolveTypes
  <2> QED BY <1>1, <1>2, <1>3, <1>5, <2>1, <2>3 DEF Import
<1>6. ASSUME NEW name, NEW withKeys, DeleteCategory(name, withKeys) PROVE Good
  BY <1>0, <1>1, <1>6 DEF DeleteCategory, CatTables
<1>7. ASSUME NEW names \in Orders(Names), ReorderCategories(names) PROVE Good
  <2>1. DOMAIN names \subseteq Nat
    <3>1. names \in [1..Cardinality(Names) -> Names]
      BY DEF Orders
    <3>2. Cardinality(Names) \in Nat
      BY KeysAssumption, FS_CardinalityType
    <3> QED BY <3>1, <3>2
  <2> DEFINE at(c) == CHOOSE i \in DOMAIN names : names[i] = cats[c].name
             moved(c) == cats[c] # Nothing /\ \E i \in DOMAIN names : names[i] = cats[c].name
  <2>2. cats' = [c \in CatIds |-> IF moved(c) THEN [cats[c] EXCEPT !.order = at(c)] ELSE cats[c]]
    BY <1>7 DEF ReorderCategories
  <2>3. ASSUME NEW c \in CatIds, moved(c) PROVE [cats[c] EXCEPT !.order = at(c)] \in Category
    <3>1. at(c) \in Nat
      BY <2>1, <2>3
    <3>2. cats[c] \in Category
      BY <1>0, <2>3 DEF CatTables
    <3> HIDE DEF at
    <3> QED BY <3>1, <3>2 DEF Category
  <2> HIDE DEF at, moved
  <2>4. cats' \in CatTables
    BY <1>0, <2>2, <2>3 DEF CatTables
  <2> QED BY <1>0, <1>1, <1>7, <2>4 DEF ReorderCategories
<1>8. ASSUME Work, UNCHANGED <<cats, last>> PROVE Good
  BY <1>0, <1>1, <1>8
<1>9. CASE Command
  BY <1>4, <1>5, <1>6, <1>7, <1>8, <1>9 DEF Command, Delete, CreateUser, DeleteUser, UpdateAssignment
<1>10. ASSUME NEW r \in Requests, Start(r) PROVE Good
  <2>1. ASSUME NEW ks, NEW name \in Names, EnsureForBulk(r, ks, name) PROVE Good
    <3>1. PICK c \in Upsert(name) : cats' = c[1] /\ last' = [last EXCEPT !.cat = c[2]]
      BY <2>1 DEF EnsureForBulk
    <3>2. cats' \in CatTables /\ c[2] \in CatIds \cup {0}
      BY <1>0, <3>1, UpsertTypes
    <3> QED BY <1>1, <1>3, <2>1, <3>1, <3>2 DEF EnsureForBulk
  <2> QED BY <1>8, <1>10, <2>1 DEF Start, Load, LoadLegacy, ReadOrder, ReadCatOrder, ReadRename
<1>11. ASSUME NEW r \in Requests, Finish(r) PROVE Good
  <2> DEFINE q == request[r]
  <2>0. Held(q)
    BY DEF KeysInv, RequestsHold
  <2>1. CASE SaveEdit(r) \/ SaveLegacy(r)
    <3>1. q.choice \in CatChoices /\ work' = work
      BY <2>0, <2>1 DEF SaveEdit, SaveLegacy, In, Held
    <3>2. PICK c \in Resolve(q.choice) : cats' = c[1] /\ last' = [last EXCEPT !.cat = c[2]]
      BY <2>1 DEF SaveEdit, SaveLegacy
    <3>3. cats' \in CatTables /\ c[2] \in CatIds \cup {0}
      BY <1>0, <3>1, <3>2, ResolveTypes
    <3> QED BY <1>0, <1>3, <3>1, <3>2, <3>3
  <2>2. CASE SaveCategory(r)
    <3>1. q.name \in Names /\ q.order \in Nat /\ work' = work
      BY <2>0, <2>2 DEF SaveCategory, In, Held
    <3>2. PICK c \in Put(q.name, q.order) : cats' = c[1] /\ last' = [last EXCEPT !.cat = c[2]]
      BY <2>2 DEF SaveCategory
    <3>3. cats' \in CatTables /\ c[2] \in CatIds \cup {0}
      BY <1>0, <3>1, <3>2, PutTypes
    <3> QED BY <1>0, <1>3, <3>1, <3>2, <3>3
  <2>3. CASE SaveRename(r)
    <3>1. q.name \in Names /\ q.order \in Nat /\ work' = work
      BY <2>0, <2>3 DEF SaveRename, In, Held
    <3> DEFINE old == IF q.old = q.name THEN {} ELSE CatNamed(q.old)
    <3>2. PICK c \in Put(q.name, q.order) :
            /\ cats' = [d \in CatIds |-> IF d \in old THEN Nothing ELSE c[1][d]]
            /\ last' = [last EXCEPT !.cat = c[2]]
      BY <2>3 DEF SaveRename
    <3>3. c[1] \in CatTables /\ c[2] \in CatIds \cup {0}
      BY <1>0, <3>1, PutTypes
    <3> HIDE DEF old
    <3>4. cats' \in CatTables
      BY <3>2, <3>3 DEF CatTables
    <3> QED BY <1>0, <1>3, <3>1, <3>2, <3>3, <3>4
  <2>4. CASE Clone(r)
    <3>1. last.key + 1 \in KeyIds /\ last' = [last EXCEPT !.key = last.key + 1]
          /\ UNCHANGED <<cats, work>>
      BY <2>4 DEF Clone, Insert
    <3> QED BY <1>0, <3>1
  <2>5. ASSUME UNCHANGED <<cats, last, work>> PROVE Good
    BY <1>0, <2>5
  <2> QED BY <1>11, <2>1, <2>2, <2>3, <2>4, <2>5 DEF Finish, Plan, SaveMetadata, SaveBulk,
             SaveOrder, Fail
<1>12. CASE UNCHANGED vars
  BY <1>0, <1>12 DEF vars
<1> QED BY <1>9, <1>10, <1>11, <1>12 DEF Next

\* What a request holds is what its reads gave it.
LEMMA RequestsStep == ASSUME KeysInv, [Next]_vars PROVE RequestsHold'
<1>0. TypeOK /\ RequestsHold
  BY DEF KeysInv
<1>1. ASSUME NEW r \in Requests, NEW q, Held(q), Hold(r, q) PROVE RequestsHold'
  BY <1>0, <1>1 DEF RequestsHold, Hold, Held
<1>2. ASSUME NEW r \in Requests, End(r) PROVE RequestsHold'
  <2>1. Held(Idle)
    BY DEF Held, Idle
  <2> QED BY <1>1, <1>2, <2>1 DEF End
<1>3. ASSUME request' = request PROVE RequestsHold'
  BY <1>0, <1>3 DEF RequestsHold, Held
<1>4. \A k \in Existing : k \in KeyIds /\ keys[k] \in Row /\ keys[k].rev \in Nat /\ keys[k].uri \in Uris
  BY <1>0 DEF TypeOK, Existing, Row
<1>5. ASSUME NEW r \in Requests, Start(r) PROVE RequestsHold'
  <2>1. ASSUME NEW k, Load(r, k) PROVE RequestsHold'
    <3>1. Held([op |-> "loaded", key |-> k, rev |-> keys[k].rev])
      BY <1>4, <2>1 DEF Load, Held
    <3> QED BY <1>1, <2>1, <3>1 DEF Load
  <2>2. ASSUME NEW k, NEW kind \in Kinds, NEW uri \in Uris, NEW choice \in ByName,
               LoadLegacy(r, k, kind, uri, choice)
        PROVE  RequestsHold'
    <3>1. PlannedUri(k, kind, uri) \in Uris /\ choice \in CatChoices /\ k \in KeyIds
      BY <1>4, <2>2 DEF LoadLegacy, PlannedUri, ByName
    <3>2. Held([op |-> "legacy", key |-> k, kind |-> kind, uri |-> PlannedUri(k, kind, uri),
                choice |-> choice])
      BY <3>1 DEF Held
    <3> QED BY <1>1, <2>2, <3>2 DEF LoadLegacy
  <2>3. ASSUME NEW ks \in SUBSET KeyIds, NEW name \in Names, EnsureForBulk(r, ks, name)
        PROVE  RequestsHold'
    <3>1. PICK c \in Upsert(name) : Hold(r, [op |-> "bulk", keys |-> ks, cat |-> c[3]])
      BY <2>3 DEF EnsureForBulk
    <3>2. Held([op |-> "bulk", keys |-> ks, cat |-> c[3]])
      BY <1>0, UpsertTypes DEF Held
    <3> QED BY <1>1, <3>1, <3>2
  <2>4. ASSUME NEW ids, ReadOrder(r, ids) PROVE RequestsHold'
    <3>1. ids \in Orders(Existing) /\ Existing \in SUBSET KeyIds
      BY <2>4 DEF ReadOrder, ValidOrder, Existing
    <3>2. Held([op |-> "order", ids |-> ids])
      BY <3>1 DEF Held
    <3> QED BY <1>1, <2>4, <3>2 DEF ReadOrder
  <2>5. ASSUME NEW name \in Names, ReadCatOrder(r, name) PROVE RequestsHold'
    <3>1. Held([op |-> "category", name |-> name, order |-> NextCatOrder])
      BY <1>0, OrdersAreIntegers DEF Held
    <3> QED BY <1>1, <2>5, <3>1 DEF ReadCatOrder
  <2>6. ASSUME NEW name \in Names, NEW old \in Names, ReadRename(r, old, name) PROVE RequestsHold'
    <3>1. PICK c \in CatNamed(old) :
            Hold(r, [op |-> "rename", old |-> old, name |-> name, order |-> cats[c].order])
      BY <2>6 DEF ReadRename
    <3>2. cats[c].order \in Nat
      BY <1>0 DEF CatNamed, ExistingCats, TypeOK, Category
    <3>3. Held([op |-> "rename", old |-> old, name |-> name, order |-> cats[c].order])
      BY <3>2 DEF Held
    <3> QED BY <1>1, <3>1, <3>3
  <2> QED BY <1>5, <2>1, <2>2, <2>3, <2>4, <2>5, <2>6 DEF Start
<1>6. ASSUME NEW r \in Requests, NEW kind \in Kinds, NEW uri \in Uris, NEW choice \in CatChoices,
             Plan(r, kind, uri, choice)
      PROVE  RequestsHold'
  <2> DEFINE k == request[r].key
  <2>1. k \in KeyIds /\ request[r].rev \in Nat
    BY <1>0, <1>6 DEF Plan, In, RequestsHold, Held
  <2>2. CASE ~ AtRevision(k, request[r].rev)
    BY <1>2, <1>6, <2>2 DEF Plan
  <2>3. CASE AtRevision(k, request[r].rev) /\ keys[k].source # Local
    <3>1. Held([op |-> "metadata", key |-> k, rev |-> request[r].rev])
      BY <2>1 DEF Held
    <3> QED BY <1>1, <1>6, <2>3, <3>1 DEF Plan
  <2>4. CASE AtRevision(k, request[r].rev) /\ keys[k].source = Local
    <3>1. PlannedUri(k, kind, uri) \in Uris
      BY <1>4, <2>1, <2>4 DEF PlannedUri, AtRevision, Existing
    <3>2. Held([op |-> "edit", key |-> k, rev |-> request[r].rev, kind |-> kind,
                uri |-> PlannedUri(k, kind, uri), choice |-> choice])
      BY <2>1, <3>1 DEF Held
    <3> QED BY <1>1, <1>6, <2>4, <3>2 DEF Plan
  <2> QED BY <2>2, <2>3, <2>4
<1>7. ASSUME NEW r \in Requests, Finish(r) PROVE RequestsHold'
  BY <1>2, <1>6, <1>7 DEF Finish, SaveEdit, SaveMetadata, Clone, SaveLegacy, SaveBulk, SaveOrder,
     SaveCategory, SaveRename, Fail
<1>8. CASE Command
  BY <1>3, <1>8 DEF Command, CreateKey, Delete, DeleteCategory, ReorderCategories, Import,
     CreateUser, DeleteUser, UpdateAssignment
<1>9. CASE UNCHANGED vars
  BY <1>3, <1>9 DEF vars
<1> QED BY <1>5, <1>7, <1>8, <1>9 DEF Next

\* Only the identifier after the last is given out, and the last only grows.
LEMMA FreshStep == ASSUME KeysInv, Effect PROVE IdsAreFresh'
<1>0. /\ IdsAreFresh /\ last.key \in Nat /\ KeyIds \subseteq Nat
      /\ keys \in [KeyIds -> Row \cup {Nothing}] /\ saves \in [KeyIds -> Seq(Nat)]
  BY KeysAssumption DEF KeysInv, TypeOK
<1>1. CASE Rearranged
  BY <1>0, <1>1 DEF Rearranged, IdsAreFresh
<1>2. CASE Erased
  BY <1>0, <1>2 DEF Erased, Drop, IdsAreFresh
<1>3. CASE Granted
  BY <1>0, <1>3 DEF Granted, IdsAreFresh
<1>4. ASSUME NEW k \in KeyIds, NEW row \in Row, Born(k, row) PROVE IdsAreFresh'
  <2>1. /\ k = last.key + 1 /\ last'.key = k /\ saves' = saves
        /\ \A j \in KeyIds \ {k} : keys'[j] = keys[j]
    BY <1>0, <1>4 DEF Born
  <2>2. ASSUME NEW j \in KeyIds, j > k PROVE keys[j] = Nothing /\ saves[j] = <<>> /\ j # k
    BY <1>0, <2>1, <2>2 DEF IdsAreFresh
  <2> QED BY <2>1, <2>2 DEF IdsAreFresh
<1>5. ASSUME NEW k \in KeyIds, NEW row \in Row, Rewritten(k, row) PROVE IdsAreFresh'
  BY <1>0, <1>5 DEF Rewritten, Existing, IdsAreFresh
<1> QED BY <1>1, <1>2, <1>3, <1>4, <1>5 DEF Effect

\* Each save starts from a later revision than the ones before it.
LEMMA SavesStep == ASSUME KeysInv, Effect PROVE SavesAreBefore' /\ OneSavePerRevision'
<1>0. /\ IdsAreFresh /\ SavesAreBefore /\ OneSavePerRevision
      /\ last.key \in Nat /\ KeyIds \subseteq Nat /\ Nothing \notin Row
      /\ keys \in [KeyIds -> Row \cup {Nothing}] /\ saves \in [KeyIds -> Seq(Nat)]
  BY KeysAssumption DEF KeysInv, TypeOK
<1>1. CASE Rearranged
  BY <1>0, <1>1 DEF Rearranged, SavesAreBefore, OneSavePerRevision, Existing
<1>2. CASE Erased
  <2>1. Existing' \subseteq Existing /\ \A k \in Existing' : keys'[k] = keys[k]
    BY <1>0, <1>2 DEF Erased, Drop, Existing
  <2> QED BY <1>0, <1>2, <2>1 DEF Erased, SavesAreBefore, OneSavePerRevision
<1>3. CASE Granted
  BY <1>0, <1>3 DEF Granted, SavesAreBefore, OneSavePerRevision, Existing
<1>4. ASSUME NEW k \in KeyIds, NEW row \in Row, Born(k, row)
      PROVE  SavesAreBefore' /\ OneSavePerRevision'
  <2>1. saves' = saves /\ saves[k] = <<>>
    BY <1>0, <1>4 DEF Born, IdsAreFresh
  <2>2. \A j \in Existing' : j = k \/ (j \in Existing /\ keys'[j] = keys[j])
    BY <1>0, <1>4 DEF Born, Existing
  <2> QED BY <1>0, <2>1, <2>2 DEF SavesAreBefore, OneSavePerRevision
<1>5. ASSUME NEW k \in KeyIds, NEW row \in Row, Rewritten(k, row)
      PROVE  SavesAreBefore' /\ OneSavePerRevision'
  <2>1. /\ k \in Existing /\ keys'[k] = row /\ keys[k].rev \in Nat
        /\ \A j \in KeyIds \ {k} : keys'[j] = keys[j]
    BY <1>0, <1>5 DEF Rewritten, Existing, Row
  <2>2. Existing' = Existing
    BY <1>0, <1>5, <2>1 DEF Existing
  <2>3. CASE saves' = saves /\ row.rev = keys[k].rev
    BY <1>0, <2>1, <2>2, <2>3 DEF SavesAreBefore, OneSavePerRevision, Existing
  <2>4. CASE saves' = [saves EXCEPT ![k] = Append(@, keys[k].rev)] /\ row.rev = keys[k].rev + 1
    <3>1. /\ saves'[k] = Append(saves[k], keys[k].rev)
          /\ \A j \in KeyIds \ {k} : saves'[j] = saves[j]
      BY <1>0, <2>4
    <3>2. \A i \in DOMAIN saves[k] : saves[k][i] < keys[k].rev /\ saves[k][i] \in Nat
      BY <1>0, <2>1 DEF SavesAreBefore
    <3>3. /\ DOMAIN saves'[k] = 1..(Len(saves[k]) + 1) /\ DOMAIN saves[k] = 1..Len(saves[k])
          /\ Len(saves[k]) \in Nat
          /\ saves'[k][Len(saves[k]) + 1] = keys[k].rev
          /\ \A i \in 1..Len(saves[k]) : saves'[k][i] = saves[k][i]
      BY <1>0, <2>1, <3>1
    <3>4. \A i \in DOMAIN saves'[k] : i \in 1..Len(saves[k]) \/ i = Len(saves[k]) + 1
      BY <3>3
    <3>5. SavesAreBefore'
      <4>1. \A i \in DOMAIN saves'[k] : saves'[k][i] < row.rev
        BY <2>1, <2>4, <3>2, <3>3, <3>4
      <4> QED BY <1>0, <2>1, <2>2, <3>1, <4>1 DEF SavesAreBefore, Existing
    <3>6. OneSavePerRevision'
      <4>1. \A i, j \in DOMAIN saves'[k] : i < j => saves'[k][i] < saves'[k][j]
        <5> SUFFICES ASSUME NEW i \in DOMAIN saves'[k], NEW j \in DOMAIN saves'[k], i < j
                     PROVE  saves'[k][i] < saves'[k][j]
          OBVIOUS
        <5>1. i \in 1..Len(saves[k])
          BY <3>3
        <5>2. CASE j \in 1..Len(saves[k])
          BY <1>0, <3>3, <5>1, <5>2 DEF OneSavePerRevision
        <5>3. CASE j = Len(saves[k]) + 1
          BY <3>2, <3>3, <5>1, <5>3
        <5> QED BY <3>4, <5>2, <5>3
      <4> QED BY <1>0, <3>1, <4>1 DEF OneSavePerRevision
    <3> QED BY <3>5, <3>6
  <2> QED BY <1>5, <2>3, <2>4 DEF Rewritten
<1> QED BY <1>1, <1>2, <1>3, <1>4, <1>5 DEF Effect

\* Every index that is written is checked against the local keys of that moment.
LEMMA IndexStep == ASSUME KeysInv, Effect PROVE IndexesAreDistinct'
<1>0. /\ IndexesAreDistinct /\ Nothing \notin Row
      /\ keys \in [KeyIds -> Row \cup {Nothing}]
  BY KeysAssumption DEF KeysInv, TypeOK
<1>1. CASE Rearranged
  <2>1. Existing' = Existing
    BY <1>1 DEF Rearranged, Existing
  <2>2. \A k \in Existing : keys'[k].source = keys[k].source /\ keys'[k].uri = keys[k].uri
                            /\ keys'[k].index = keys[k].index
    BY <1>1 DEF Rearranged, Existing
  <2> QED BY <1>0, <2>1, <2>2 DEF IndexesAreDistinct, Distinct, CloneIndex
<1>2. CASE Erased
  <2>1. Existing' \subseteq Existing /\ \A k \in Existing' : keys'[k] = keys[k]
    BY <1>0, <1>2 DEF Erased, Drop, Existing
  <2> QED BY <1>0, <2>1 DEF IndexesAreDistinct, Distinct, CloneIndex
<1>3. CASE Granted
  BY <1>0, <1>3 DEF Granted, IndexesAreDistinct, Distinct, CloneIndex, Existing
<1>4. ASSUME NEW k \in KeyIds, NEW row \in Row, Born(k, row) PROVE IndexesAreDistinct'
  <2>1. keys'[k] = row /\ \A j \in KeyIds \ {k} : keys'[j] = keys[j]
    BY <1>0, <1>4 DEF Born
  <2>2. \A j \in Existing' : j = k \/ j \in Existing \ {k}
    BY <2>1 DEF Existing
  <2>3. row.source = Local => row.index \in {row.uri, CloneIndex(k)} /\ Distinct(k, row.index)
    BY <1>4 DEF Born
  <2> QED BY <1>0, <2>1, <2>2, <2>3 DEF IndexesAreDistinct, Distinct, CloneIndex, Existing
<1>5. ASSUME NEW k \in KeyIds, NEW row \in Row, Rewritten(k, row) PROVE IndexesAreDistinct'
  <2>1. k \in Existing /\ keys'[k] = row /\ \A j \in KeyIds \ {k} : keys'[j] = keys[j]
    BY <1>0, <1>5 DEF Rewritten, Existing
  <2>2. Existing' = Existing
    BY <1>0, <2>1 DEF Existing
  <2>3. row.source = Local => row.index \in {row.uri, CloneIndex(k)} /\ Distinct(k, row.index)
    BY <1>0, <1>5, <2>1 DEF Rewritten, IndexesAreDistinct
  <2> QED BY <1>0, <2>1, <2>2, <2>3 DEF IndexesAreDistinct, Distinct, CloneIndex, Existing
<1> QED BY <1>1, <1>2, <1>3, <1>4, <1>5 DEF Effect

\* Every key is assigned when it is born, every user when it is created or changed.
LEMMA AllModeStep == ASSUME KeysInv, Effect PROVE AllModeSeesEveryKey'
<1>0. /\ AllModeSeesEveryKey /\ Nothing \notin Row
      /\ keys \in [KeyIds -> Row \cup {Nothing}] /\ assigned \subseteq Users \X KeyIds
      /\ users \in [Users -> {"absent", "all", "selected"}]
  BY KeysAssumption DEF KeysInv, TypeOK
<1>1. CASE Rearranged
  <2>1. Existing' = Existing /\ AllUsers' = AllUsers
    BY <1>1 DEF Rearranged, Existing, AllUsers
  <2> QED BY <1>0, <1>1, <2>1 DEF Rearranged, AllModeSeesEveryKey
<1>2. CASE Erased
  <2>1. PICK ks : Drop(ks)
    BY <1>2 DEF Erased
  <2>2. AllUsers' = AllUsers /\ Existing' = Existing \ ks /\ users' = users
    BY <1>0, <1>2, <2>1 DEF Erased, Drop, Existing, AllUsers
  <2>3. AllUsers' \X Existing' \subseteq assigned'
    BY <1>0, <2>1, <2>2 DEF Drop, AllModeSeesEveryKey
  <2>4. ASSUME NEW a \in assigned' PROVE users'[a[1]] # "absent" /\ keys'[a[2]] # Nothing
    BY <1>0, <2>1, <2>2, <2>4 DEF Drop, AllModeSeesEveryKey
  <2> QED BY <2>3, <2>4 DEF AllModeSeesEveryKey
<1>3. CASE Granted
  BY <1>3 DEF Granted
<1>4. ASSUME NEW k \in KeyIds, NEW row \in Row, Born(k, row) PROVE AllModeSeesEveryKey'
  <2>1. keys'[k] # Nothing /\ \A j \in KeyIds \ {k} : keys'[j] = keys[j]
    BY <1>0, <1>4 DEF Born
  <2>2. Existing' = Existing \cup {k} /\ AllUsers' = AllUsers /\ users' = users
        /\ assigned' = assigned \cup (AllUsers \X {k})
    BY <1>4, <2>1 DEF Born, Existing, AllUsers
  <2>3. AllUsers' \X Existing' \subseteq assigned'
    BY <1>0, <2>2 DEF AllModeSeesEveryKey
  <2>4. ASSUME NEW a \in assigned' PROVE users'[a[1]] # "absent" /\ keys'[a[2]] # Nothing
    <3>1. CASE a \in assigned
      <4>1. a[2] \in KeyIds /\ keys[a[2]] # Nothing /\ users[a[1]] # "absent"
        BY <1>0, <3>1 DEF AllModeSeesEveryKey
      <4> QED BY <2>1, <2>2, <4>1
    <3>2. CASE a \in AllUsers \X {k}
      <4>1. a[1] \in AllUsers /\ a[2] = k
        BY <3>2
      <4> QED BY <2>1, <2>2, <4>1 DEF AllUsers
    <3> QED BY <2>2, <3>1, <3>2
  <2> QED BY <2>3, <2>4 DEF AllModeSeesEveryKey
<1>5. ASSUME NEW k \in KeyIds, NEW row \in Row, Rewritten(k, row) PROVE AllModeSeesEveryKey'
  <2>1. k \in Existing /\ keys'[k] # Nothing /\ \A j \in KeyIds \ {k} : keys'[j] = keys[j]
    BY <1>0, <1>5 DEF Rewritten, Existing
  <2>2. Existing' = Existing /\ AllUsers' = AllUsers /\ assigned' = assigned /\ users' = users
    BY <1>5, <2>1 DEF Rewritten, Existing, AllUsers
  <2>3. \A a \in assigned : a[2] \in Existing
    BY <1>0 DEF AllModeSeesEveryKey, Existing
  <2> QED BY <1>0, <2>2, <2>3 DEF AllModeSeesEveryKey, Existing
<1> QED BY <1>1, <1>2, <1>3, <1>4, <1>5 DEF Effect

-----------------------------------------------------------------------------
(* The theorems.                                                             *)

\* The greatest identifier of the rows at the start is given out last.
LEMMA GreatestId ==
  ASSUME NEW S, IsFiniteSet(S), S \subseteq Nat
  PROVE  Max(S \cup {0}) \in S \cup {0} /\ \A k \in S : Max(S \cup {0}) >= k
<1> DEFINE f == [k \in S |-> k]
<1>1. \A k \in S : f[k] = k /\ k \in Int
  OBVIOUS
<1>2. f = [k \in S |-> f[k]]
  OBVIOUS
<1> HIDE DEF f
<1>3. f \in [S -> Int] /\ {f[k] : k \in S} = S
  <2>1. f \in [S -> Int]
    BY <1>1, <1>2
  <2>2. \A x : x \in {f[k] : k \in S} <=> x \in S
    BY <1>1
  <2> QED BY <2>1, <2>2
<1>4. Max({f[k] : k \in S} \cup {0}) \in {f[k] : k \in S} \cup {0}
      /\ \A y \in {f[k] : k \in S} \cup {0} : Max({f[k] : k \in S} \cup {0}) >= y
  BY <1>3, MaxWithZero
<1> QED BY <1>3, <1>4

\* The rows at the start have the invariant.
LEMMA InitKeysInv == Init => KeysInv
<1> SUFFICES ASSUME Init PROVE KeysInv
  OBVIOUS
<1>1. /\ keys = SeedKeys /\ cats = SeedCats /\ assigned = {} /\ work = 0
      /\ users = [u \in Users |-> "absent"] /\ request = [r \in Requests |-> Idle]
      /\ saves = [k \in KeyIds |-> <<>>]
      /\ last = [key |-> Max(Existing \cup {0}), cat |-> Max(ExistingCats \cup {0})]
  BY DEF Init
<1>2. /\ IsFiniteSet(Existing) /\ Existing \subseteq Nat /\ Existing \subseteq KeyIds
      /\ IsFiniteSet(ExistingCats) /\ ExistingCats \subseteq Nat /\ ExistingCats \subseteq CatIds
  <2>1. Existing \in SUBSET KeyIds /\ ExistingCats \in SUBSET CatIds
    BY DEF Existing, ExistingCats
  <2> QED BY <2>1, FS_Subset, KeysAssumption
<1>3. /\ last.key \in KeyIds \cup {0} /\ \A k \in Existing : last.key >= k
      /\ last.cat \in CatIds \cup {0}
  BY <1>1, <1>2, GreatestId
<1>4. TypeOK
  <2>1. last \in [key : KeyIds \cup {0}, cat : CatIds \cup {0}]
    BY <1>1, <1>3
  <2>2. 0 \in 0..MaxWork
    BY KeysAssumption
  <2> QED BY <1>1, <2>1, <2>2, SeedsAssumption DEF TypeOK
<1>5. RequestsHold
  BY <1>1 DEF RequestsHold, Held, Idle
<1>6. IdsAreFresh
  <2>1. ASSUME NEW k \in KeyIds, k > last.key PROVE keys[k] = Nothing
    <3>1. KeyIds \subseteq Nat
      BY KeysAssumption
    <3>2. k \in Nat
      BY <3>1
    <3>3. last.key \in Nat
      BY <1>4, <3>1 DEF TypeOK
    <3> QED BY <1>3, <2>1, <3>2, <3>3 DEF Existing
  <2> QED BY <1>1, <2>1 DEF IdsAreFresh
<1>7. SavesAreBefore /\ OneSavePerRevision
  BY <1>1 DEF SavesAreBefore, OneSavePerRevision, Existing
<1>8. IndexesAreDistinct
  BY <1>1, SeedsAssumption DEF IndexesAreDistinct, Distinct, Existing, CloneIndex
<1>9. AllModeSeesEveryKey
  BY <1>1 DEF AllModeSeesEveryKey, AllUsers
<1> QED BY <1>4, <1>5, <1>6, <1>7, <1>8, <1>9 DEF KeysInv

\* Every step keeps the invariant.
LEMMA KeysInvStep == KeysInv /\ [Next]_vars => KeysInv'
<1> SUFFICES ASSUME KeysInv, [Next]_vars PROVE KeysInv'
  OBVIOUS
<1>1. CASE Next
  <2>1. Effect
    BY <1>1, NextEffects
  <2>2. TypeOK'
    BY <2>1, EffectTypes, TablesStep DEF TypeOK, CatTables
  <2> QED BY <2>1, <2>2, RequestsStep, FreshStep, SavesStep, IndexStep, AllModeStep DEF KeysInv
<1>2. CASE UNCHANGED vars
  <2>1. TypeOK'
    BY <1>2 DEF vars, KeysInv, TypeOK
  <2>2. RequestsHold'
    BY RequestsStep
  <2>3. IdsAreFresh' /\ SavesAreBefore' /\ OneSavePerRevision'
    BY <1>2 DEF vars, KeysInv, IdsAreFresh, SavesAreBefore, OneSavePerRevision, Existing
  <2>4. IndexesAreDistinct'
    BY <1>2 DEF vars, KeysInv, IndexesAreDistinct, Distinct, Existing, CloneIndex
  <2>5. AllModeSeesEveryKey'
    BY <1>2 DEF vars, KeysInv, AllModeSeesEveryKey, AllUsers, Existing
  <2> QED BY <2>1, <2>2, <2>3, <2>4, <2>5 DEF KeysInv
<1> QED BY <1>1, <1>2

\* The inductive invariant holds of every state.
THEOREM KeysInvariant == Spec => []KeysInv
  BY InitKeysInv, KeysInvStep, PTL DEF Spec

\* Type correctness of both tables, the users, the assignments and the history of
\* saves, whatever commands are run.
THEOREM KeysTypes == Spec => []TypeOK
<1>1. KeysInv => TypeOK
  BY DEF KeysInv
<1> QED BY <1>1, KeysInvariant, PTL

\* However creations, imports, clones, deletions and changes of the users
\* interleave, a user of mode all has every key and nobody has a key or an
\* assignment that is gone (AllModeSeesEveryKey).
THEOREM EveryKeyIsGranted == Spec => []AllModeSeesEveryKey
<1>1. KeysInv => AllModeSeesEveryKey
  BY DEF KeysInv
<1> QED BY <1>1, KeysInvariant, PTL

\* Of any number of editors that loaded one revision of a key, at most one is
\* saved (OneSavePerRevision).
THEOREM RevisionsAreSavedOnce == Spec => []OneSavePerRevision
<1>1. KeysInv => OneSavePerRevision
  BY DEF KeysInv
<1> QED BY <1>1, KeysInvariant, PTL

\* The blind index stays that of the secret beside it, through edits, clones,
\* the deprecated routes and imports (IndexTellsTheSecret).
THEOREM IndexesTell == Spec => []IndexTellsTheSecret
<1>1. KeysInv => IndexTellsTheSecret
  BY DEF KeysInv, IndexesAreDistinct, Distinct, IndexTellsTheSecret, CloneIndex
<1> QED BY <1>1, KeysInvariant, PTL

\* Only the transaction of its own request ends a validated order.
LEMMA OrderEndsBySaving ==
  ASSUME KeysInv, [Next]_vars, NEW r \in Requests, In(r, "order"), request'[r] = Idle
  PROVE  SaveOrder(r)
<1>1. request'[r] # request[r]
  BY DEF In, Idle
<1>2. ASSUME NEW t \in Requests, NEW q, Hold(t, q) PROVE t = r
  BY <1>1, <1>2 DEF Hold, KeysInv, RequestsHold
<1>3. ASSUME NEW t \in Requests, End(t) PROVE t = r
  BY <1>2, <1>3 DEF End
<1>4. ~ (UNCHANGED request)
  BY <1>1
<1>5. ~ (UNCHANGED vars)
  BY <1>4 DEF vars
<1>6. ~ Command
  BY <1>4 DEF Command, CreateKey, Delete, DeleteCategory, ReorderCategories, Import, CreateUser,
     DeleteUser, UpdateAssignment
<1>7. PICK t \in Requests : Start(t) \/ Finish(t)
  BY <1>5, <1>6 DEF Next
<1>8. ~ Start(t)
  <2> SUFFICES ASSUME Start(t) PROVE FALSE
    OBVIOUS
  <2>1. In(t, "idle")
    BY DEF Start, Load, LoadLegacy, EnsureForBulk, ReadOrder, ReadCatOrder, ReadRename
  <2>2. \E q : Hold(t, q)
    BY DEF Start, Load, LoadLegacy, EnsureForBulk, ReadOrder, ReadCatOrder, ReadRename
  <2> QED BY <1>2, <2>1, <2>2 DEF In
<1>9. t = r
  <2>1. \E q : Hold(t, q)
    BY <1>7, <1>8 DEF Finish, Plan, SaveEdit, SaveMetadata, Clone, SaveLegacy, SaveBulk, SaveOrder,
       SaveCategory, SaveRename, Fail, End
  <2> QED BY <1>2, <2>1
<1> QED BY <1>7, <1>8, <1>9 DEF Finish, Plan, SaveEdit, SaveMetadata, Clone, SaveLegacy, SaveBulk,
       SaveCategory, SaveRename, Fail, In

\* Keys that are still there when an order is saved stand as it asked, whatever
\* was created and deleted since it was validated (OrderIsTheRequested).
THEOREM OrdersAreKept == Spec => OrderIsTheRequested
<1> DEFINE Asked(r) ==
             LET ids == request[r].ids IN
             \A i, j \in DOMAIN ids : i < j /\ keys[ids[i]] # Nothing /\ keys[ids[j]] # Nothing =>
               keys'[ids[i]].order < keys'[ids[j]].order
           Kept == \A r \in Requests : In(r, "order") /\ request'[r] = Idle => Asked(r)
<1>1. ASSUME KeysInv, [Next]_vars PROVE Kept
  <2> SUFFICES ASSUME NEW r \in Requests, In(r, "order"), request'[r] = Idle PROVE Asked(r)
    OBVIOUS
  <2> DEFINE ids == request[r].ids
  <2>1. keys' = Ordered(ids)
    BY <1>1, OrderEndsBySaving DEF SaveOrder
  <2>2. PICK s \in SUBSET KeyIds : ids \in Orders(s)
    BY <1>1 DEF KeysInv, RequestsHold, Held, In
  <2> HIDE DEF ids
  <2>3. /\ DOMAIN ids = 1..Cardinality(s) /\ \A i \in DOMAIN ids : ids[i] \in KeyIds
        /\ \A i, j \in DOMAIN ids : ids[i] = ids[j] => i = j
    BY <2>2 DEF Orders
  <2>4. ASSUME NEW i \in DOMAIN ids, keys[ids[i]] # Nothing PROVE keys'[ids[i]].order = i
    <3>1. (CHOOSE j \in DOMAIN ids : ids[j] = ids[i]) = i
      BY <2>3
    <3>2. keys[ids[i]] \in Row
      BY <1>1, <2>3, <2>4 DEF KeysInv, TypeOK
    <3>3. keys'[ids[i]] = [keys[ids[i]] EXCEPT !.order = i]
      BY <2>1, <2>3, <2>4, <3>1 DEF Ordered
    <3> QED BY <3>2, <3>3 DEF Row
  <2>5. ASSUME NEW i \in DOMAIN ids, NEW j \in DOMAIN ids, i < j, keys[ids[i]] # Nothing,
               keys[ids[j]] # Nothing
        PROVE  keys'[ids[i]].order < keys'[ids[j]].order
    BY <2>4, <2>5
  <2> QED BY <2>5 DEF ids
<1> HIDE DEF Kept
<1>2. Spec => [][Kept]_vars
  BY <1>1, KeysInvariant, PTL DEF Spec
<1> QED BY <1>2 DEF Kept, OrderIsTheRequested
=============================================================================
