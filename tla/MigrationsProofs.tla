-------------------------- MODULE MigrationsProofs --------------------------
(*****************************************************************************)
(* Proofs about Migrations, for any number of rows, keyrings, batch sizes    *)
(* and starts of the process, each stopped at any statement: what happens to *)
(* profiles and the announcement, and, in the last section, types and the    *)
(* batches of version 12, which skip no row.                                 *)
(*****************************************************************************)
EXTENDS Migrations, FiniteSetTheorems, WellFoundedInduction, TLAPS

\* A keyring in use has been loaded.
RingIsLoaded == ring \in Files \cup {Nothing} /\ (ring # Nothing => Loads(ring))

\* The data of the rows, of the versions and of the announcement.
DataType ==
  /\ recorded \subseteq Versions /\ done \subseteq Versions /\ at \in Nat
  /\ rows \in [Rows -> Row \cup {Nothing}]
  /\ origin \in [urls : [Rows -> Urls \cup {Nothing}], text : Texts]
  /\ announcement \in [legacy : Texts, canonical : Texts]
  /\ RingIsLoaded

\* What a row holds is the profile it was given: as plaintext, in an envelope of
\* its own, or both; after version 12 there is an envelope, and before version
\* 13 there is the plaintext.
Readable(k) ==
  /\ rows[k] # Nothing <=> origin.urls[k] # Nothing
  /\ rows[k] # Nothing =>
       /\ rows[k].url = Nothing => rows[k].secret # Nothing /\ 13 \in done
       /\ rows[k].url # Nothing => rows[k].url = origin.urls[k]
       /\ rows[k].secret # Nothing =>
            rows[k].secret.row = k /\ rows[k].secret.plain = origin.urls[k]
       /\ 12 \in done => rows[k].secret # Nothing

RowsAreReadable == \A k \in Rows : Readable(k)

\* What is shown is what was shown at first: in the canonical column after
\* version 18, in either before it.
TextIsKept ==
  IF 18 \in done THEN announcement = [legacy |-> NoText, canonical |-> origin.text]
  ELSE origin.text = IF announcement.canonical # NoText THEN announcement.canonical
                     ELSE announcement.legacy

\* Where the process is: every version before the present one is recorded, and
\* code runs only for its own version.
PlaceIsKnown ==
  /\ phase # "down" => \A v \in Versions : v < at => v \in recorded
  /\ phase \in {"opened", "baseline"} => at = 0
  /\ phase \in {"pin", "encrypt", "verify"} => at = 12 /\ 12 \notin recorded /\ ring # Nothing
  /\ phase = "suspended" => at = 13
  /\ phase = "restoring" => (at = 10 /\ 10 \in recorded) \/ (at = 13 /\ 13 \in done)
  /\ phase = "ran" => at \in Versions /\ (at = 0 \/ at \in done)
  /\ phase \notin {"down", "suspended", "restoring"} => enforced
  /\ phase = "serving" => at = 20 /\ ring # Nothing /\ EnvelopesKnown

MigrationsInv ==
  /\ DataType
  /\ RowsAreReadable
  /\ TextIsKept
  /\ PlaceIsKnown
  /\ RecordedIsApplied

-----------------------------------------------------------------------------
(* Data.                                                                     *)

\* What a loaded keyring writes.
LEMMA LoadedRing ==
  ASSUME NEW file \in Files, Loads(file), NEW k \in Rows, NEW url \in Urls
  PROVE  /\ Encrypt(file, k, url) \in Envelopes
         /\ Encrypt(file, k, url).row = k /\ Encrypt(file, k, url).plain = url
         /\ Known(file, Encrypt(file, k, url))
         /\ BlindIndex(file, url) \in Materials \X Urls
<1>1. /\ file.active \in DOMAIN file.keys /\ file.activeIndex \in DOMAIN file.indexKeys
      /\ file.active \in EncryptionIds
  BY DEF Loads, Files
<1>2. PICK ids \in SUBSET EncryptionIds : file.keys \in [ids -> Materials]
  BY DEF Files
<1>3. PICK names \in SUBSET IndexIds : file.indexKeys \in [names -> Materials]
  BY DEF Files
<1>4. file.keys[file.active] \in Materials
  BY <1>1, <1>2
<1>5. file.indexKeys[file.activeIndex] \in Materials
  BY <1>1, <1>3
<1> QED BY <1>1, <1>4, <1>5 DEF Encrypt, Envelopes, Known, BlindIndex

\* A step that leaves rows and announcement as they are keeps what they
\* promise, unless it completes version 18, or version 12 without envelopes.
LEMMA DataStays ==
  ASSUME MigrationsInv, UNCHANGED <<rows, announcement, origin>>, done \subseteq done',
         18 \in done' <=> 18 \in done,
         12 \in done' => 12 \in done \/ \A k \in Present : rows[k].secret # Nothing
  PROVE  RowsAreReadable' /\ TextIsKept'
<1>1. TextIsKept'
  BY DEF MigrationsInv, TextIsKept
<1>2. ASSUME NEW k \in Rows PROVE Readable(k)'
  <2>1. Readable(k)
    BY DEF MigrationsInv, RowsAreReadable
  <2>2. 12 \in done' /\ rows[k] # Nothing => rows[k].secret # Nothing
    BY <2>1 DEF Readable, Present
  <2> QED BY <2>1, <2>2 DEF Readable
<1> QED BY <1>1, <1>2 DEF RowsAreReadable

\* The fields of a row.
LEMMA RowFields ==
  ASSUME MigrationsInv, NEW k \in Rows, rows[k] # Nothing
  PROVE  /\ rows[k] \in Row /\ rows[k].url \in Urls \cup {Nothing}
         /\ rows[k].secret \in Envelopes \cup {Nothing}
         /\ rows[k].index \in (Materials \X Urls) \cup {Nothing} /\ rows[k].local \in BOOLEAN
         /\ origin.urls[k] \in Urls /\ Readable(k)
  BY DEF MigrationsInv, DataType, Row, RowsAreReadable, Readable

-----------------------------------------------------------------------------
(* The first state.                                                          *)

\* A row of an old database is readable under the keyring it was written with.
LEMMA AgedRow ==
  ASSUME NEW age \in Versions, NEW k \in Rows, NEW url \in Urls, NEW local \in BOOLEAN,
         NEW file \in Files, Loads(file)
  PROVE  LET row == Aged(age, k, url, local, file) IN
           /\ row \in Row /\ row # Nothing
           /\ row.url = Nothing => row.secret # Nothing /\ age >= 13
           /\ row.url # Nothing => row.url = url
           /\ row.secret # Nothing => row.secret.row = k /\ row.secret.plain = url
           /\ age >= 12 => row.secret # Nothing
           /\ row.index # Nothing => row.index[2] = url
           /\ row.local = local
<1> DEFINE row == Aged(age, k, url, local, file)
           envelope == Encrypt(file, k, url)
           own == BlindIndex(file, url)
<1>1. envelope \in Envelopes /\ envelope.row = k /\ envelope.plain = url
      /\ own \in Materials \X Urls /\ own[2] = url
  BY LoadedRing DEF BlindIndex
<1>2. envelope # Nothing /\ url # Nothing
  BY <1>1, MigrationsAssumption
<1> HIDE DEF envelope, own
<1>3. /\ row.url = IF age < 13 THEN url ELSE Nothing
      /\ row.secret = IF age < 12 THEN Nothing ELSE envelope
      /\ row.index = IF age < 12 \/ ~local THEN Nothing ELSE own
      /\ row.local = local
      /\ row \in Row
  BY <1>1 DEF Aged, Row, envelope, own
<1>4. row # Nothing
  BY <1>3, MigrationsAssumption
<1> HIDE DEF row
<1> USE DEF Versions
<1>5. CASE age < 12
  BY <1>1, <1>2, <1>3, <1>4, <1>5 DEF row
<1>6. CASE ~(age < 12)
  BY <1>1, <1>2, <1>3, <1>4, <1>6 DEF row
<1> QED BY <1>5, <1>6

\* Every database the server may find at first.
LEMMA InitInv == Init => MigrationsInv
<1> SUFFICES ASSUME Init PROVE MigrationsInv
  OBVIOUS
<1> USE MigrationsAssumption
<1> PICK age \in Ages, file \in {f \in Operators \ {Nothing} : Loads(f)}, holds \in SUBSET Rows :
      \E locals \in SUBSET holds, urls \in [Rows -> Urls],
         text \in [legacy : {NoText, "legacy"}, canonical : {NoText, "canonical"}] :
        Found(age, file, holds, locals, urls, text)
  BY DEF Init
<1>1. PICK locals \in SUBSET holds, urls \in [Rows -> Urls],
           text \in [legacy : {NoText, "legacy"}, canonical : {NoText, "canonical"}] :
        Found(age, file, holds, locals, urls, text)
  OBVIOUS
<1>2. age \in Versions /\ age \in Nat /\ file \in Files /\ Loads(file)
  <2>1. Ages \subseteq Versions /\ Operators \subseteq Files \cup {Nothing} /\ Versions \subseteq Nat
    BY DEF Versions
  <2> QED BY <2>1
<1>3. /\ recorded = 1..age /\ done = 1..age
      /\ phase = "down" /\ ring = Nothing /\ at = 0 /\ enforced = TRUE
  BY <1>1 DEF Found
<1>4. /\ rows = [k \in Rows |-> IF k \in holds THEN Aged(age, k, urls[k], k \in locals, file) ELSE Nothing]
      /\ origin.urls = [k \in Rows |-> IF k \in holds THEN urls[k] ELSE Nothing]
      /\ origin = [urls |-> origin.urls, text |-> origin.text]
  BY <1>1 DEF Found
<1>5. /\ announcement = IF age < 18 THEN text ELSE [text EXCEPT !.legacy = NoText]
      /\ origin.text = IF announcement.canonical # NoText THEN announcement.canonical
                       ELSE announcement.legacy
  BY <1>1 DEF Found
<1>6. recorded \subseteq Versions /\ done \subseteq Versions /\ at \in Nat
  BY <1>2, <1>3 DEF Versions
<1>7. ASSUME NEW k \in Rows PROVE Readable(k) /\ rows[k] \in Row \cup {Nothing}
  <2>1. CASE k \in holds
    <3> DEFINE local == k \in locals
    <3>0. local \in BOOLEAN
      OBVIOUS
    <3>1. rows[k] = Aged(age, k, urls[k], local, file) /\ origin.urls[k] = urls[k] /\ urls[k] \in Urls
      BY <1>4, <2>1
    <3>2. (12 \in done => age >= 12) /\ (age >= 13 => 13 \in done)
      BY <1>2, <1>3
    <3> HIDE DEF local
    <3> QED BY <1>2, <3>0, <3>1, <3>2, AgedRow DEF Readable
  <2>2. CASE k \notin holds
    BY <1>4, <2>2 DEF Readable
  <2> QED BY <2>1, <2>2
<1>8. rows \in [Rows -> Row \cup {Nothing}] /\ origin.urls \in [Rows -> Urls \cup {Nothing}]
  BY <1>4, <1>7
<1>9. announcement \in [legacy : Texts, canonical : Texts] /\ TextIsKept
  <2>1. 18 \in done <=> ~(age < 18)
    BY <1>2, <1>3 DEF Versions
  <2>2. CASE age < 18
    BY <1>5, <2>1, <2>2 DEF TextIsKept, Texts, NoText
  <2>3. CASE ~(age < 18)
    BY <1>5, <2>1, <2>3 DEF TextIsKept, Texts, NoText
  <2> QED BY <2>2, <2>3
<1>10. DataType
  <2>1. origin.text \in Texts
    BY <1>5, <1>9 DEF Texts
  <2>2. origin \in [urls : [Rows -> Urls \cup {Nothing}], text : Texts]
    BY <1>4, <1>8, <2>1
  <2> QED BY <1>3, <1>6, <1>8, <1>9, <2>2 DEF DataType, RingIsLoaded
<1>11. RowsAreReadable
  BY <1>7 DEF RowsAreReadable
<1>12. PlaceIsKnown
  BY <1>3 DEF PlaceIsKnown
<1>13. RecordedIsApplied
  <2>1. 13 \in done => 12 \in recorded
    BY <1>2, <1>3
  <2> QED BY <1>3, <2>1 DEF RecordedIsApplied
<1> QED BY <1>9, <1>10, <1>11, <1>12, <1>13 DEF MigrationsInv

-----------------------------------------------------------------------------
(* The steps of a start.                                                     *)

\* Steps that decide where the process goes, and touch no version and no row.
LEMMA GoingStep ==
  ASSUME MigrationsInv,
         \/ \E file \in Operators : Start(file)
         \/ CreateVersionTable \/ Stop \/ Skip \/ Begin \/ RestoreForeignKeys \/ Serve
         \/ RunBaseline \/ PinIndexKey
  PROVE  MigrationsInv'
<1> USE MigrationsAssumption
<1> USE DEF Goto, Process, database, Advance, Pending
<1>1. UNCHANGED <<recorded, done, rows, announcement, origin>>
  BY DEF Start, CreateVersionTable, Stop, Skip, Begin, RestoreForeignKeys, Serve, RunBaseline,
         PinIndexKey
<1>2. RowsAreReadable' /\ TextIsKept' /\ RecordedIsApplied'
  BY <1>1, DataStays DEF MigrationsInv, RecordedIsApplied
<1>3. DataType' /\ PlaceIsKnown'
  <2>1. CASE \E file \in Operators : Start(file)
    BY <1>1, <2>1 DEF Start, MigrationsInv, DataType, RingIsLoaded, PlaceIsKnown, Versions
  <2>2. CASE CreateVersionTable
    BY <1>1, <2>2 DEF CreateVersionTable, MigrationsInv, DataType, RingIsLoaded, PlaceIsKnown,
                      Versions
  <2>3. CASE Stop
    BY <1>1, <2>3 DEF Stop, MigrationsInv, DataType, RingIsLoaded, PlaceIsKnown
  <2>4. CASE Skip
    BY <1>1, <2>4 DEF Skip, MigrationsInv, DataType, RingIsLoaded, PlaceIsKnown, Versions
  <2>5. CASE Begin
    <3>1. Entry[0] = "baseline" /\ Entry[12] = "pin" /\ Entry[13] = "suspended"
      BY DEF Entry
    <3> QED BY <1>1, <2>5, <3>1 DEF Begin, MigrationsInv, DataType, RingIsLoaded, PlaceIsKnown
  <2>6. CASE RestoreForeignKeys
    BY <1>1, <2>6 DEF RestoreForeignKeys, MigrationsInv, DataType, RingIsLoaded, PlaceIsKnown,
                      Versions
  <2>7. CASE Serve
    BY <1>1, <2>7 DEF Serve, MigrationsInv, DataType, RingIsLoaded, PlaceIsKnown, EnvelopesKnown,
                      Present, Known
  <2>8. CASE RunBaseline
    BY <1>1, <2>8 DEF RunBaseline, MigrationsInv, DataType, RingIsLoaded, PlaceIsKnown, Versions
  <2>9. CASE PinIndexKey
    BY <1>1, <2>9 DEF PinIndexKey, MigrationsInv, DataType, RingIsLoaded, PlaceIsKnown
  <2> QED BY <2>1, <2>2, <2>3, <2>4, <2>5, <2>6, <2>7, <2>8, <2>9
<1> QED BY <1>2, <1>3 DEF MigrationsInv

\* Steps that complete or record a version, and leave the rows as they are.
LEMMA RecordingStep ==
  ASSUME MigrationsInv,
         RecordBaseline \/ Record \/ Statements \/ EnsureSchema \/ VerifyEncryption
  PROVE  MigrationsInv'
<1> USE MigrationsAssumption
<1> USE DEF Goto, Process, database, Advance, Pending
<1>1. UNCHANGED <<rows, announcement, origin, ring>>
  BY DEF RecordBaseline, Record, Statements, EnsureSchema, VerifyEncryption
<1>2. /\ 18 \in done' <=> 18 \in done
      /\ 12 \in done' => 12 \in done \/ \A k \in Present : rows[k].secret # Nothing
      /\ done \subseteq done' /\ recorded \subseteq recorded'
  BY DEF RecordBaseline, Record, Statements, EnsureSchema, VerifyEncryption, Verified, Idempotent
<1>3. RowsAreReadable' /\ TextIsKept'
  BY <1>1, <1>2, DataStays
<1>4. DataType' /\ PlaceIsKnown' /\ RecordedIsApplied'
  <2>1. CASE RecordBaseline
    BY <1>1, <2>1 DEF RecordBaseline, MigrationsInv, DataType, RingIsLoaded, PlaceIsKnown,
                      RecordedIsApplied, Versions
  <2>2. CASE Record
    BY <1>1, <2>2 DEF Record, MigrationsInv, DataType, RingIsLoaded, PlaceIsKnown,
                      RecordedIsApplied, Versions
  <2>3. CASE Statements
    <3>1. at \in Versions /\ at \notin {0, 12, 13} /\ done' = done \cup {at}
          /\ recorded' = recorded \cup {at}
      BY <2>3 DEF Statements
    <3>2. RecordedIsApplied'
      BY <3>1 DEF MigrationsInv, RecordedIsApplied
    <3>3. DataType' /\ (\A v \in Versions : v <= at => v \in recorded')
      <4>1. phase = "next" /\ (at' = at \/ at' = at + 1)
        BY <2>3 DEF Statements
      <4>2. \A v \in Versions : v < at => v \in recorded
        BY <4>1 DEF MigrationsInv, PlaceIsKnown
      <4>3. at \in Nat /\ at' \in Nat /\ \A v \in Versions : v <= at => v < at \/ v = at
        BY <3>1, <4>1 DEF Versions
      <4>4. DataType'
        BY <1>1, <3>1, <4>3 DEF MigrationsInv, DataType, RingIsLoaded
      <4> QED BY <3>1, <4>2, <4>3, <4>4
    <3>4. CASE at \in Rebuilds
      <4>1. phase' = "restoring" /\ at' = at /\ at = 10
        BY <2>3, <3>1, <3>4 DEF Statements, Rebuilds
      <4> QED BY <3>1, <3>2, <3>3, <4>1 DEF PlaceIsKnown, Versions
    <3>5. CASE at \notin Rebuilds
      <4>1. phase' = "next" /\ phase = "next" /\ at' = at + 1 /\ enforced' = enforced
        BY <2>3, <3>5 DEF Statements
      <4> QED BY <3>1, <3>2, <3>3, <4>1 DEF MigrationsInv, PlaceIsKnown, Versions
    <3> QED BY <3>4, <3>5
  <2>4. CASE EnsureSchema
    <3>1. at \in Versions /\ at # 13 /\ done' = done \cup {at} /\ recorded' = recorded
      BY <2>4 DEF EnsureSchema, Idempotent
    <3> QED BY <1>1, <2>4, <3>1 DEF EnsureSchema, MigrationsInv, DataType, RingIsLoaded,
                                    PlaceIsKnown, RecordedIsApplied, Versions
  <2>5. CASE VerifyEncryption
    <3>1. at = 12 /\ done' = done \cup {12} /\ recorded' = recorded
      BY <2>5 DEF VerifyEncryption, MigrationsInv, PlaceIsKnown
    <3> QED BY <1>1, <2>5, <3>1 DEF VerifyEncryption, MigrationsInv, DataType, RingIsLoaded,
                                    PlaceIsKnown, RecordedIsApplied, Versions
  <2> QED BY <2>1, <2>2, <2>3, <2>4, <2>5
<1> QED BY <1>3, <1>4 DEF MigrationsInv

\* A second run of version 18 finds the legacy column empty and keeps what the
\* first one wrote.
LEMMA PromoteStep ==
  ASSUME MigrationsInv, PromoteAnnouncement
  PROVE  MigrationsInv'
<1> USE DEF Goto, Process
<1>1. at = 18 /\ done' = done \cup {18} /\ announcement' = Promote(announcement)
      /\ UNCHANGED <<rows, origin, ring, recorded, at, enforced>> /\ phase' = "ran"
  BY DEF PromoteAnnouncement
<1>2. announcement \in [legacy : Texts, canonical : Texts]
  BY DEF MigrationsInv, DataType
<1>3. announcement' = [legacy |-> NoText, canonical |-> origin.text]
      /\ announcement' \in [legacy : Texts, canonical : Texts]
  <2>1. Promote(announcement).legacy = NoText /\ Promote(announcement).canonical \in Texts
        /\ Promote(announcement) = [legacy |-> NoText, canonical |-> Promote(announcement).canonical]
    BY <1>2 DEF Promote, Texts
  <2>2. Promote(announcement).canonical = origin.text
    <3>1. CASE 18 \in done
      BY <1>2, <3>1 DEF Promote, MigrationsInv, TextIsKept
    <3>2. CASE 18 \notin done
      BY <1>2, <3>2 DEF Promote, MigrationsInv, TextIsKept
    <3> QED BY <3>1, <3>2
  <2> QED BY <1>1, <2>1, <2>2 DEF Texts
<1>4. TextIsKept'
  BY <1>1, <1>3 DEF TextIsKept
<1>5. RowsAreReadable'
  BY <1>1 DEF MigrationsInv, RowsAreReadable, Readable
<1>6. DataType' /\ PlaceIsKnown' /\ RecordedIsApplied'
  BY <1>1, <1>3 DEF MigrationsInv, DataType, RingIsLoaded, PlaceIsKnown, RecordedIsApplied, Versions,
       PromoteAnnouncement, Pending
<1> QED BY <1>4, <1>5, <1>6 DEF MigrationsInv

\* A row that is encrypted keeps its plaintext, and an envelope it had.
LEMMA ProtectedRow ==
  ASSUME MigrationsInv, NEW k \in Rows, rows[k] # Nothing, ring # Nothing, 13 \notin done
  PROVE  /\ Protected(k) \in Row /\ Protected(k) # Nothing
         /\ Protected(k).url = rows[k].url
         /\ Protected(k).secret # Nothing
         /\ Protected(k).secret.row = k /\ Protected(k).secret.plain = origin.urls[k]
<1> USE MigrationsAssumption
<1>1. ring \in Files /\ Loads(ring)
  BY DEF MigrationsInv, DataType, RingIsLoaded
<1>2. rows[k].url \in Urls /\ rows[k].url = origin.urls[k]
  BY RowFields DEF Readable
<1> DEFINE secret == IF rows[k].secret = Nothing THEN Encrypt(ring, k, rows[k].url)
                     ELSE rows[k].secret
           index == IF rows[k].index = Nothing /\ rows[k].local THEN BlindIndex(ring, rows[k].url)
                    ELSE rows[k].index
<1>3. secret \in Envelopes /\ secret.row = k /\ secret.plain = origin.urls[k]
  <2>1. CASE rows[k].secret = Nothing
    BY <1>1, <1>2, <2>1, LoadedRing
  <2>2. CASE rows[k].secret # Nothing
    BY <2>2, RowFields DEF Readable
  <2> QED BY <2>1, <2>2
<1>4. index \in (Materials \X Urls) \cup {Nothing}
  BY <1>1, <1>2, RowFields, LoadedRing
<1>5. Protected(k) = [rows[k] EXCEPT !.secret = secret, !.index = index]
  BY DEF Protected
<1> HIDE DEF secret, index
<1>6. Protected(k) \in Row /\ Protected(k).url = rows[k].url /\ Protected(k).secret = secret
  <2>1. rows[k] \in Row
    BY DEF MigrationsInv, DataType
  <2>2. Protected(k) \in Row
    BY <1>3, <1>4, <1>5, <2>1 DEF Row
  <2>3. Protected(k).url = rows[k].url /\ Protected(k).secret = secret
    BY <1>5, <2>1 DEF Row
  <2> QED BY <2>2, <2>3
<1> QED BY <1>3, <1>6

\* A batch changes nothing but the rows, and adds to those.
LEMMA EncryptStep ==
  ASSUME MigrationsInv, EncryptBatch
  PROVE  MigrationsInv'
<1> USE DEF Goto
<1>1. /\ phase = "encrypt" /\ phase' \in {"encrypt", "verify"} /\ at = 12 /\ ring # Nothing
      /\ 12 \notin recorded
      /\ UNCHANGED <<recorded, done, announcement, ring, at, enforced, origin>>
  BY DEF EncryptBatch, MigrationsInv, PlaceIsKnown
<1>2. 13 \notin done
  BY <1>1 DEF MigrationsInv, RecordedIsApplied
<1>3. \A k \in Rows : rows[k] = Nothing => k \notin NextBatch
  BY DEF NextBatch, Waiting, Present
<1>4. rows' = rows \/ rows' = [k \in Rows |-> IF k \in NextBatch THEN Protected(k) ELSE rows[k]]
  BY DEF EncryptBatch
<1>5. ASSUME NEW k \in Rows PROVE Readable(k)' /\ rows'[k] \in Row \cup {Nothing}
  <2>1. Readable(k) /\ rows[k] \in Row \cup {Nothing}
    BY DEF MigrationsInv, DataType, RowsAreReadable
  <2>2. rows'[k] = rows[k] \/ (rows[k] # Nothing /\ rows'[k] = Protected(k))
    BY <1>3, <1>4
  <2>3. CASE rows'[k] = rows[k]
    BY <1>1, <2>1, <2>3 DEF Readable
  <2>4. CASE rows[k] # Nothing /\ rows'[k] = Protected(k)
    <3>1. /\ rows'[k] \in Row /\ rows'[k] # Nothing /\ rows'[k].url = rows[k].url
          /\ rows'[k].secret # Nothing
          /\ rows'[k].secret.row = k /\ rows'[k].secret.plain = origin.urls[k]
      BY <1>1, <1>2, <2>4, ProtectedRow
    <3> QED BY <1>1, <2>1, <2>4, <3>1 DEF Readable
  <2> QED BY <2>2, <2>3, <2>4
<1>6. rows' \in [Rows -> Row \cup {Nothing}]
  BY <1>4, <1>5 DEF MigrationsInv, DataType
<1>7. DataType' /\ RowsAreReadable'
  BY <1>1, <1>5, <1>6 DEF MigrationsInv, DataType, RingIsLoaded, RowsAreReadable
<1>8. TextIsKept' /\ PlaceIsKnown' /\ RecordedIsApplied'
  BY <1>1 DEF MigrationsInv, TextIsKept, PlaceIsKnown, RecordedIsApplied
<1> QED BY <1>7, <1>8 DEF MigrationsInv

\* The plaintext goes when version 12 is recorded, so every row has its
\* envelope.
LEMMA RebuildStep ==
  ASSUME MigrationsInv, Rebuild
  PROVE  MigrationsInv'
<1> USE MigrationsAssumption
<1> USE DEF Goto, Process
<1>1. /\ phase' = "restoring" /\ at = 13 /\ 12 \in recorded /\ 12 \in done
      /\ done' = done \cup {13}
      /\ rows' = [k \in Rows |-> IF rows[k] = Nothing THEN Nothing
                                 ELSE [rows[k] EXCEPT !.url = Nothing]]
      /\ UNCHANGED <<recorded, announcement, ring, at, origin>>
      /\ \A v \in Versions : v < at => v \in recorded
  BY DEF Rebuild, MigrationsInv, PlaceIsKnown, RecordedIsApplied, Versions
<1>2. ASSUME NEW k \in Rows PROVE Readable(k)' /\ rows'[k] \in Row \cup {Nothing}
  <2>1. CASE rows[k] = Nothing
    <3>1. Readable(k) /\ rows'[k] = Nothing
      BY <1>1, <2>1 DEF MigrationsInv, RowsAreReadable
    <3> QED BY <1>1, <2>1, <3>1 DEF Readable
  <2>2. CASE rows[k] # Nothing
    <3>1. Readable(k) /\ rows[k] \in Row
      BY <2>2 DEF MigrationsInv, DataType, RowsAreReadable
    <3>2. rows'[k] = [rows[k] EXCEPT !.url = Nothing]
      BY <1>1, <2>2
    <3>3. rows'[k] \in Row /\ rows'[k].url = Nothing /\ rows'[k].secret = rows[k].secret
      BY <3>1, <3>2 DEF Row
    <3> QED BY <1>1, <2>2, <3>1, <3>3 DEF Readable
  <2> QED BY <2>1, <2>2
<1>3. rows' \in [Rows -> Row \cup {Nothing}]
  BY <1>1, <1>2
<1>4. DataType' /\ RowsAreReadable' /\ TextIsKept' /\ RecordedIsApplied'
  <2>1. DataType'
    BY <1>1, <1>3 DEF MigrationsInv, DataType, RingIsLoaded, Versions
  <2>2. RowsAreReadable'
    BY <1>2 DEF RowsAreReadable
  <2>3. TextIsKept' /\ RecordedIsApplied'
    BY <1>1 DEF MigrationsInv, TextIsKept, RecordedIsApplied
  <2> QED BY <2>1, <2>2, <2>3
<1>5. PlaceIsKnown'
  BY <1>1 DEF PlaceIsKnown
<1> QED BY <1>4, <1>5 DEF MigrationsInv

\* A profile created at work has an envelope under the keyring in use, which
\* knows its identifier.
LEMMA CreateStep ==
  ASSUME MigrationsInv, NEW k \in Rows, NEW url \in Urls, NEW local \in BOOLEAN,
         CreateKey(k, url, local)
  PROVE  MigrationsInv'
<1> USE MigrationsAssumption
<1> DEFINE row == [url |-> Nothing, secret |-> Encrypt(ring, k, url), local |-> local,
                   index |-> IF local THEN BlindIndex(ring, url) ELSE Nothing]
<1>1. /\ phase = "serving" /\ rows[k] = Nothing /\ rows' = [rows EXCEPT ![k] = row]
      /\ origin' = [origin EXCEPT !.urls[k] = url]
      /\ UNCHANGED <<recorded, done, announcement, phase, ring, at, enforced>>
  BY DEF CreateKey
<1>2. ring \in Files /\ Loads(ring) /\ at = 20 /\ EnvelopesKnown
      /\ \A v \in Versions : v < at => v \in recorded
  BY <1>1 DEF MigrationsInv, PlaceIsKnown, DataType, RingIsLoaded
<1>3. 13 \in recorded /\ 13 \in done
  BY <1>2 DEF MigrationsInv, RecordedIsApplied, Versions
<1>4. /\ row \in Row /\ row # Nothing /\ row.url = Nothing /\ row.secret \in Envelopes
      /\ row.secret.row = k /\ row.secret.plain = url /\ Known(ring, row.secret)
  <2>1. /\ Encrypt(ring, k, url) \in Envelopes
        /\ Encrypt(ring, k, url).row = k /\ Encrypt(ring, k, url).plain = url
        /\ Known(ring, Encrypt(ring, k, url))
        /\ BlindIndex(ring, url) \in Materials \X Urls
    BY <1>2, LoadedRing
  <2>2. row \in Row
    BY <2>1 DEF Row
  <2> QED BY <2>1, <2>2
<1> HIDE DEF row
<1>5. /\ rows'[k] = row /\ origin.urls \in [Rows -> Urls \cup {Nothing}]
      /\ \A j \in Rows : j # k => rows'[j] = rows[j]
  BY <1>1 DEF MigrationsInv, DataType
<1>6. origin'.urls = [origin.urls EXCEPT ![k] = url] /\ origin'.text = origin.text
      /\ origin' \in [urls : [Rows -> Urls \cup {Nothing}], text : Texts]
  BY <1>1 DEF MigrationsInv, DataType
<1>7. origin'.urls[k] = url /\ \A j \in Rows : j # k => origin'.urls[j] = origin.urls[j]
  BY <1>5, <1>6
<1>8. RowsAreReadable'
  <2>1. Readable(k)'
    BY <1>1, <1>3, <1>4, <1>5, <1>7 DEF Readable
  <2>2. ASSUME NEW j \in Rows, j # k PROVE Readable(j)'
    <3>1. Readable(j)
      BY DEF MigrationsInv, RowsAreReadable
    <3> QED BY <1>1, <1>5, <1>7, <2>2, <3>1 DEF Readable
  <2> QED BY <2>1, <2>2 DEF RowsAreReadable
<1>9. DataType'
  BY <1>1, <1>4, <1>6 DEF MigrationsInv, DataType, RingIsLoaded
<1>10. TextIsKept' /\ RecordedIsApplied'
  BY <1>1, <1>6 DEF MigrationsInv, TextIsKept, RecordedIsApplied
<1>11. PlaceIsKnown'
  <2>1. EnvelopesKnown'
    <3>1. ASSUME NEW j \in Rows, rows'[j] # Nothing
          PROVE  rows'[j].secret # Nothing /\ Known(ring, rows'[j].secret)
      BY <1>2, <1>4, <1>5, <3>1 DEF EnvelopesKnown, Present
    <3> QED BY <1>1, <3>1 DEF EnvelopesKnown, Present, Known
  <2> QED BY <1>1, <2>1 DEF MigrationsInv, PlaceIsKnown
<1> QED BY <1>8, <1>9, <1>10, <1>11 DEF MigrationsInv

-----------------------------------------------------------------------------
(* The specification.                                                        *)

\* Every step, and every stop between two of them, keeps the invariant.
LEMMA NextInv == MigrationsInv /\ [Next]_vars => MigrationsInv'
<1> SUFFICES ASSUME MigrationsInv, [Next]_vars PROVE MigrationsInv'
  OBVIOUS
<1>1. CASE Next
  BY <1>1, GoingStep, RecordingStep, PromoteStep, EncryptStep, RebuildStep, CreateStep DEF Next
<1>2. CASE UNCHANGED vars
  BY <1>2 DEF vars, database, MigrationsInv, DataType, RingIsLoaded, RowsAreReadable, Readable,
       TextIsKept, PlaceIsKnown, RecordedIsApplied, EnvelopesKnown, Present, Known
<1> QED BY <1>1, <1>2

\* The inductive invariant holds of every state.
THEOREM MigrationsInvariant == Spec => []MigrationsInv
  BY InitInv, NextInv, PTL DEF Spec

\* Wherever the starts are stopped and whatever keyring each of them has, every
\* profile stays readable, as plaintext or in an envelope of its own row, and
\* the announcement is shown after its migration (NothingIsLost).
THEOREM ProfilesSurvive == Spec => []NothingIsLost
<1>1. MigrationsInv => NothingIsLost
  BY DEF MigrationsInv, RowsAreReadable, Readable, TextIsKept, NothingIsLost
<1> QED BY <1>1, MigrationsInvariant, PTL

\* A recorded version has its effect, and the plaintext is dropped only after
\* the encryption is recorded (RecordedIsApplied).
THEOREM RecordsAreTrue == Spec => []RecordedIsApplied
<1>1. MigrationsInv => RecordedIsApplied
  BY DEF MigrationsInv
<1> QED BY <1>1, MigrationsInvariant, PTL

\* The server works only with every migration recorded, foreign keys enforced
\* and a keyring that knows every envelope (ServingIsReady).
THEOREM ServerIsReady == Spec => []ServingIsReady
<1>1. MigrationsInv => ServingIsReady
  <2> SUFFICES ASSUME MigrationsInv, phase = "serving" PROVE ServingIsReady
    BY DEF ServingIsReady
  <2>1. enforced /\ at = 20 /\ EnvelopesKnown /\ \A v \in Versions : v < at => v \in recorded
    BY DEF MigrationsInv, PlaceIsKnown
  <2>2. \A v \in Versions : v < at
    BY <2>1 DEF Versions
  <2>3. recorded = Versions
    BY <2>1, <2>2 DEF MigrationsInv, DataType
  <2> QED BY <2>1, <2>3 DEF ServingIsReady, EnvelopesKnown
<1> QED BY <1>1, MigrationsInvariant, PTL

-----------------------------------------------------------------------------
(* Types, and the batches of version 12.                                     *)

\* The library's order on the natural numbers, as a set of pairs.
Below == {ss \in Nat \X Nat : ss[1] < ss[2]}

LEMMA BelowIsWellFounded == IsWellFoundedOn(Below, Nat)
  BY ONLY NatLessThanWellFounded, SMT DEF OpToRel, Below

\* A set of numbers has a least one.
LEMMA LeastNumber ==
  ASSUME NEW S, S \subseteq Nat, S # {}
  PROVE  \E n \in S : \A m \in S : n <= m
<1>1. PICK n \in S : \A m \in S : ~ (<<m, n>> \in Below)
  BY WFMin, BelowIsWellFounded
<1>2. ASSUME NEW m \in S PROVE n <= m
  <2>1. m \in Nat /\ n \in Nat /\ <<m, n>> \in Nat \X Nat
    OBVIOUS
  <2>2. ~ (m < n)
    BY <1>1, <2>1 DEF Below
  <2> QED BY <2>1, <2>2
<1> QED BY <1>2

\* The members of a set of numbers up to one of them, counted.
UpTo(S, x) == {j \in S : j <= x}

LEMMA CountsGrow ==
  ASSUME NEW S, S \subseteq Nat, IsFiniteSet(S), NEW x \in S, NEW y \in S
  PROVE  /\ Cardinality(UpTo(S, x)) \in Nat /\ Cardinality(UpTo(S, x)) <= Cardinality(S)
         /\ x <= y => Cardinality(UpTo(S, x)) <= Cardinality(UpTo(S, y))
         /\ x < y => Cardinality(UpTo(S, x)) < Cardinality(UpTo(S, y))
<1>1. /\ UpTo(S, x) \subseteq S /\ UpTo(S, y) \subseteq S /\ x \in Nat /\ y \in Nat
      /\ x <= y => UpTo(S, x) \subseteq UpTo(S, y)
  <2>1. x \in Nat /\ y \in Nat /\ \A j \in S : j \in Nat
    OBVIOUS
  <2>2. \A j \in S : j <= x /\ x <= y => j <= y
    BY <2>1
  <2> QED BY <2>1, <2>2 DEF UpTo
<1>2. IsFiniteSet(UpTo(S, x)) /\ IsFiniteSet(UpTo(S, y)) /\ Cardinality(UpTo(S, x)) <= Cardinality(S)
  BY <1>1, FS_Subset
<1>3. Cardinality(UpTo(S, x)) \in Nat /\ Cardinality(UpTo(S, y)) \in Nat
  BY <1>2, FS_CardinalityType
<1>4. ASSUME x <= y PROVE Cardinality(UpTo(S, x)) <= Cardinality(UpTo(S, y))
  BY <1>1, <1>2, <1>4, FS_Subset
<1>5. ASSUME x < y PROVE Cardinality(UpTo(S, x)) < Cardinality(UpTo(S, y))
  <2>1. y \in UpTo(S, y) /\ y \notin UpTo(S, x) /\ UpTo(S, x) \subseteq UpTo(S, y)
    BY <1>1, <1>5 DEF UpTo
  <2>2. Cardinality(UpTo(S, x)) # Cardinality(UpTo(S, y))
    BY <1>2, <2>1, FS_Subset
  <2>3. Cardinality(UpTo(S, x)) <= Cardinality(UpTo(S, y))
    BY <1>2, <2>1, FS_Subset
  <2> QED BY <1>3, <2>2, <2>3
<1> QED BY <1>2, <1>3, <1>4, <1>5

\* A finite set of numbers has a first member, up to which there is one, and a last.
LEMMA EndsAreMembers ==
  ASSUME NEW S, S \subseteq Nat, IsFiniteSet(S), S # {}
  PROVE  /\ \E x \in S : Cardinality(UpTo(S, x)) = 1
         /\ Max(S) \in S /\ \A y \in S : y <= Max(S)
<1>1. PICK first \in S : \A y \in S : first <= y
  BY LeastNumber
<1>2. UpTo(S, first) = {first}
  <2>1. \A y \in S : y <= first => y = first
    BY <1>1
  <2>2. first <= first
    OBVIOUS
  <2> QED BY <2>1, <2>2 DEF UpTo
<1>3. Cardinality({first}) = 1
  BY FS_Singleton
<1> DEFINE count(x) == Cardinality(UpTo(S, x))
           Left == {Cardinality(S) - count(x) : x \in S}
<1>4. Cardinality(S) \in Nat
  BY FS_CardinalityType
<1>5. \A x \in S : count(x) \in Nat /\ count(x) <= Cardinality(S)
  BY CountsGrow
<1>6. \A x, y \in S : x < y => count(x) < count(y)
  BY CountsGrow
<1> HIDE DEF count
<1>7. Left \subseteq Nat /\ Left # {}
  BY <1>4, <1>5
<1>8. PICK least \in Left : \A n \in Left : least <= n
  BY <1>7, LeastNumber
<1>9. PICK last \in S : least = Cardinality(S) - count(last)
  OBVIOUS
<1>10. \A y \in S : count(y) <= count(last)
  BY <1>4, <1>5, <1>8, <1>9
<1>11. \A y \in S : y <= last
  BY <1>5, <1>6, <1>10
<1>12. \E x \in S : \A y \in S : x >= y
  BY <1>11
<1>13. Max(S) \in S /\ \A y \in S : Max(S) >= y
  BY <1>12 DEF Max
<1> QED BY <1>2, <1>3, <1>13

\* A batch is the first of the rows that wait, and goes on where it ended.
LEMMA BatchesAdvance ==
  ASSUME Waiting # {}
  PROVE  /\ NextBatch \subseteq Waiting /\ NextBatch \subseteq Rows
         /\ Max(NextBatch) \in NextBatch
         /\ \A k \in Waiting : k <= Max(NextBatch) => k \in NextBatch
<1> DEFINE W == Waiting
<1>1. W \subseteq Rows
  BY DEF Waiting, Present
<1>2. W \subseteq Nat /\ IsFiniteSet(W) /\ W # {}
  BY <1>1, MigrationsAssumption, FS_Subset
<1>3. NextBatch = {k \in W : Cardinality(UpTo(W, k)) <= Batch}
  BY DEF NextBatch, UpTo
<1> HIDE DEF W
<1>4. Batch \in Nat \ {0}
  BY MigrationsAssumption
<1>5. \E x \in W : Cardinality(UpTo(W, x)) = 1
  BY <1>2, EndsAreMembers
<1>6. NextBatch \subseteq W /\ NextBatch # {}
  BY <1>3, <1>4, <1>5
<1>7. NextBatch \subseteq Nat /\ IsFiniteSet(NextBatch)
  BY <1>2, <1>6, FS_Subset
<1>8. Max(NextBatch) \in NextBatch
  BY <1>6, <1>7, EndsAreMembers
<1>9. ASSUME NEW k \in W, k <= Max(NextBatch) PROVE k \in NextBatch
  <2>1. Max(NextBatch) \in W /\ Cardinality(UpTo(W, Max(NextBatch))) <= Batch
    BY <1>3, <1>8
  <2>2. /\ Cardinality(UpTo(W, k)) <= Cardinality(UpTo(W, Max(NextBatch)))
        /\ Cardinality(UpTo(W, k)) \in Nat
    BY <1>2, <1>9, <2>1, CountsGrow
  <2>3. Cardinality(UpTo(W, Max(NextBatch))) \in Nat
    BY <1>2, <2>1, CountsGrow
  <2> QED BY <1>3, <1>4, <2>1, <2>2, <2>3
<1> QED BY <1>1, <1>6, <1>8, <1>9 DEF W

Phases == {"down", "opened", "next", "baseline", "pin", "encrypt", "verify", "suspended", "restoring",
           "ran", "check", "serving"}
PlacesAreTyped ==
  /\ versioned \in BOOLEAN /\ parts \subseteq Parts /\ pinned \in IndexIds \cup {Nothing}
  /\ phase \in Phases /\ at \in 0..20 /\ after \in Rows \cup {0} /\ had \in BOOLEAN /\ enforced \in BOOLEAN

\* What the batches have passed is protected.
PassIsComplete ==
  /\ phase = "encrypt" => \A k \in Present : k <= after => ~Unprotected(k)
  /\ phase = "verify" => \A k \in Present : ~Unprotected(k)

LEMMA TypesInitially == Init => PlacesAreTyped /\ PassIsComplete
<1> SUFFICES ASSUME NEW age \in Ages, NEW file \in {f \in Operators \ {Nothing} : Loads(f)},
                    NEW holds \in SUBSET Rows, NEW locals \in SUBSET holds,
                    NEW urls \in [Rows -> Urls],
                    NEW text \in [legacy : {NoText, "legacy"}, canonical : {NoText, "canonical"}],
                    Found(age, file, holds, locals, urls, text)
             PROVE  PlacesAreTyped /\ PassIsComplete
  BY DEF Init
<1>1. /\ phase = "down" /\ at = 0 /\ after = 0 /\ had = FALSE /\ enforced = TRUE
      /\ versioned = (age > 0) /\ parts \in {Parts, {}, {"tables"}}
      /\ pinned \in {Nothing, file.activeIndex}
  BY DEF Found
<1>2. file \in Files
  BY MigrationsAssumption
<1>3. file.activeIndex \in IndexIds
  BY <1>2 DEF Files
<1>4. versioned \in BOOLEAN /\ had \in BOOLEAN /\ enforced \in BOOLEAN
  <2>1. (age > 0) = TRUE \/ (age > 0) = FALSE
    OBVIOUS
  <2>2. versioned \in BOOLEAN
    BY <1>1, <2>1, Zenon
  <2> QED BY <1>1, <2>2, Zenon
<1>5. parts \subseteq Parts /\ phase \in Phases /\ at \in 0..20 /\ after \in Rows \cup {0}
  BY <1>1 DEF Phases, Parts
<1> QED BY <1>1, <1>3, <1>4, <1>5 DEF PlacesAreTyped, PassIsComplete

\* The number of a version that is passed is at most 19.
LEMMA PlacesStep ==
  ASSUME MigrationsInv, PlacesAreTyped, Next
  PROVE  PlacesAreTyped'
<1> USE DEF PlacesAreTyped, Phases
<1>0. at \in Nat /\ recorded \subseteq 0..19
  BY DEF MigrationsInv, DataType, Versions
<1>1. ASSUME NEW file \in Operators, Start(file) PROVE PlacesAreTyped'
  BY <1>1 DEF Start, Goto, database
<1>2. CASE CreateVersionTable \/ Stop
  BY <1>2 DEF CreateVersionTable, Stop, Goto, database, Process
<1>3. CASE Skip
  BY <1>0, <1>3 DEF Skip, Advance, Goto, database
<1>4. CASE RecordBaseline
  BY <1>4 DEF RecordBaseline, Pending, Advance, Goto
<1>5. CASE Begin
  <2>1. Entry[at] \in {"baseline", "pin", "suspended"}
    BY <1>5 DEF Begin, Entry
  <2> QED BY <1>5, <2>1 DEF Begin, Goto, database
<1>6. CASE RunBaseline
  BY <1>6 DEF RunBaseline, Goto, Process, Parts
<1>7. CASE Statements
  <2>1. at \in 0..19
    BY <1>7 DEF Statements, Pending, Versions
  <2>2. UNCHANGED <<versioned, parts, pinned, after, had>>
    BY <1>7 DEF Statements
  <2>3. CASE at \in Rebuilds
    <3>1. phase' = "restoring" /\ enforced' = FALSE /\ at' = at
      BY <1>7, <2>3 DEF Statements, Goto
    <3> QED BY <2>2, <3>1
  <2>4. CASE at \notin Rebuilds
    <3>1. phase' = "next" /\ enforced' = enforced /\ at' = at + 1
      BY <1>7, <2>4 DEF Statements, Advance, Goto
    <3> QED BY <2>1, <2>2, <3>1
  <2> QED BY <2>3, <2>4
<1>8. CASE EnsureSchema \/ PromoteAnnouncement
  BY <1>8 DEF EnsureSchema, PromoteAnnouncement, Goto, Process
<1>9. CASE PinIndexKey
  <2>1. ring \in Files
    BY <1>9 DEF PinIndexKey, MigrationsInv, PlaceIsKnown, DataType, RingIsLoaded
  <2>2. ring.activeIndex \in IndexIds
    BY <2>1 DEF Files
  <2> QED BY <1>9, <2>2 DEF PinIndexKey, Goto
<1>10. CASE EncryptBatch
  <2>1. CASE Waiting = {}
    BY <1>10, <2>1 DEF EncryptBatch, Goto
  <2>2. CASE Waiting # {}
    <3>1. after' = Max(NextBatch) /\ phase' = phase
          /\ UNCHANGED <<versioned, parts, pinned, at, had, enforced>>
      BY <1>10, <2>2 DEF EncryptBatch
    <3>2. NextBatch \subseteq Rows /\ Max(NextBatch) \in NextBatch
      BY <2>2, BatchesAdvance
    <3> QED BY <3>1, <3>2
  <2> QED BY <2>1, <2>2
<1>11. CASE VerifyEncryption \/ Rebuild
  BY <1>11 DEF VerifyEncryption, Rebuild, Goto, Process
<1>12. CASE RestoreForeignKeys
  BY <1>12 DEF RestoreForeignKeys, Advance, Goto, database
<1>13. CASE Record
  <2>1. at \in 0..19
    BY <1>13 DEF Record, MigrationsInv, PlaceIsKnown, Versions
  <2> QED BY <1>13, <2>1 DEF Record, Advance, Goto
<1>14. CASE Serve
  BY <1>14 DEF Serve, Goto, database, Process
<1>15. ASSUME NEW k \in Rows, NEW url \in Urls, NEW local \in BOOLEAN, CreateKey(k, url, local)
      PROVE  PlacesAreTyped'
  BY <1>15 DEF CreateKey
<1> QED BY <1>1, <1>2, <1>3, <1>4, <1>5, <1>6, <1>7, <1>8, <1>9, <1>10, <1>11, <1>12, <1>13, <1>14,
           <1>15 DEF Next

\* What is encrypted is protected: by an envelope, and a local profile by an index.
LEMMA EncryptedIsProtected ==
  ASSUME MigrationsInv, phase = "encrypt", NEW k \in Present, NEW row, row = Protected(k)
  PROVE  row.secret # Nothing /\ (row.local => row.index # Nothing)
<1>1. k \in Rows /\ rows[k] # Nothing /\ ring \in Files /\ Loads(ring) /\ 12 \notin recorded
  BY DEF Present, MigrationsInv, PlaceIsKnown, DataType, RingIsLoaded
<1>2. 13 \notin done
  BY <1>1 DEF MigrationsInv, RecordedIsApplied
<1>3. /\ rows[k] \in Row /\ rows[k].url \in Urls \cup {Nothing} /\ origin.urls[k] \in Urls
      /\ Readable(k) /\ rows[k].local \in BOOLEAN
  BY <1>1, RowFields
<1>4. rows[k].url \in Urls
  BY <1>1, <1>2, <1>3 DEF Readable
<1>5. Encrypt(ring, k, rows[k].url) \in Envelopes /\ BlindIndex(ring, rows[k].url) \in Materials \X Urls
  BY <1>1, <1>4, LoadedRing
<1>6. Encrypt(ring, k, rows[k].url) # Nothing /\ BlindIndex(ring, rows[k].url) # Nothing
  BY <1>5, MigrationsAssumption
<1> DEFINE envelope == Encrypt(ring, k, rows[k].url)
           own == BlindIndex(ring, rows[k].url)
<1>7. /\ row.secret = IF rows[k].secret = Nothing THEN envelope ELSE rows[k].secret
      /\ row.index = IF rows[k].index = Nothing /\ rows[k].local THEN own ELSE rows[k].index
      /\ row.local = rows[k].local
  BY <1>3 DEF Protected, Row
<1> HIDE DEF envelope, own
<1> QED BY <1>6, <1>7 DEF envelope, own

LEMMA PassStep ==
  ASSUME MigrationsInv, PlacesAreTyped, PassIsComplete, Next
  PROVE  PassIsComplete'
<1>1. CASE EncryptBatch /\ Waiting = {}
  <2>1. phase = "encrypt" /\ phase' = "verify" /\ rows' = rows
    BY <1>1 DEF EncryptBatch, Goto
  <2>2. ASSUME NEW k \in Present PROVE ~Unprotected(k)
    <3>1. k \in Nat /\ after \in Nat
      BY MigrationsAssumption DEF Present, PlacesAreTyped
    <3>2. k <= after \/ k > after
      BY <3>1
    <3> QED BY <1>1, <2>1, <3>2 DEF PassIsComplete, Waiting
  <2> QED BY <2>1, <2>2 DEF PassIsComplete, Present, Unprotected
<1>2. CASE EncryptBatch /\ Waiting # {}
  <2>1. /\ phase = "encrypt" /\ phase' = phase /\ after' = Max(NextBatch)
        /\ rows' = [k \in Rows |-> IF k \in NextBatch THEN Protected(k) ELSE rows[k]]
    BY <1>2 DEF EncryptBatch
  <2>2. /\ NextBatch \subseteq Waiting
        /\ \A k \in Waiting : k <= Max(NextBatch) => k \in NextBatch
    BY <1>2, BatchesAdvance
  <2>3. ASSUME NEW k \in Present', k <= after' PROVE ~Unprotected(k)'
    <3>1. k \in Rows /\ rows'[k] # Nothing
      BY DEF Present
    <3>2. CASE k \in NextBatch
      <4>1. rows'[k] = Protected(k) /\ k \in Present
        BY <2>1, <2>2, <3>1, <3>2 DEF Waiting
      <4>2. rows'[k].secret # Nothing /\ (rows'[k].local => rows'[k].index # Nothing)
        BY <2>1, <4>1, EncryptedIsProtected
      <4> QED BY <4>2 DEF Unprotected
    <3>3. CASE k \notin NextBatch
      <4>1. rows'[k] = rows[k] /\ k \in Present
        BY <2>1, <3>1, <3>3 DEF Present
      <4>2. k \notin Waiting
        BY <2>1, <2>2, <2>3, <3>3
      <4>3. k \in Nat /\ after \in Nat
        BY <3>1, MigrationsAssumption DEF PlacesAreTyped
      <4>4. k <= after \/ k > after
        BY <4>3
      <4>5. ~Unprotected(k)
        BY <2>1, <4>1, <4>2, <4>4 DEF PassIsComplete, Waiting
      <4> QED BY <4>1, <4>5 DEF Unprotected
    <3> QED BY <3>2, <3>3
  <2> QED BY <2>1, <2>3 DEF PassIsComplete
<1>3. CASE PinIndexKey
  <2>1. phase' = "encrypt" /\ after' = 0
    BY <1>3 DEF PinIndexKey, Goto
  <2>2. \A k \in Rows : ~(k <= 0)
    BY MigrationsAssumption
  <2> QED BY <2>1, <2>2 DEF PassIsComplete, Present
<1>4. CASE ~EncryptBatch /\ ~PinIndexKey
  <2>1. Entry[at] \in {"baseline", "pin", "suspended"} \/ ~Begin
    BY DEF Begin, Entry
  <2>2. phase' \notin {"encrypt", "verify"}
    BY <1>4, <2>1 DEF Next, Start, CreateVersionTable, Stop, Skip, RecordBaseline, Begin,
         RunBaseline, Statements, EnsureSchema, PromoteAnnouncement, VerifyEncryption, Rebuild,
         RestoreForeignKeys, Record, Serve, CreateKey, Advance, Goto
  <2> QED BY <2>2 DEF PassIsComplete
<1> QED BY <1>1, <1>2, <1>3, <1>4

\* The URLs of the administrator's profiles, which version 10 makes unique and no profile created
\* before version 12 takes twice; and an index is of the profile's own URL.
UrlsAreIndexed ==
  /\ \A k \in Present : rows[k].index # Nothing => rows[k].index[2] = origin.urls[k]
  /\ 10 \in recorded /\ 12 \notin recorded =>
       \A j, k \in Present : rows[j].local /\ rows[k].local /\ origin.urls[j] = origin.urls[k] => j = k
  /\ phase = "ran" => at # 10

LEMMA UrlsInitially == Init => UrlsAreIndexed
<1> SUFFICES ASSUME NEW age \in Ages, NEW file \in {f \in Operators \ {Nothing} : Loads(f)},
                    NEW holds \in SUBSET Rows, NEW locals \in SUBSET holds,
                    NEW urls \in [Rows -> Urls],
                    NEW text \in [legacy : {NoText, "legacy"}, canonical : {NoText, "canonical"}],
                    Found(age, file, holds, locals, urls, text)
             PROVE  UrlsAreIndexed
  BY DEF Init
<1>1. /\ rows = [k \in Rows |-> IF k \in holds THEN Aged(age, k, urls[k], k \in locals, file) ELSE Nothing]
      /\ origin.urls = [k \in Rows |-> IF k \in holds THEN urls[k] ELSE Nothing]
      /\ recorded = 1..age /\ phase = "down"
      /\ age >= 10 => \A j, k \in locals : urls[j] = urls[k] => j = k
  BY DEF Found
<1>2. age \in Versions /\ age \in Nat /\ file \in Files /\ Loads(file)
  BY MigrationsAssumption DEF Versions
<1>3. ASSUME NEW k \in Present
      PROVE  /\ rows[k].index # Nothing => rows[k].index[2] = origin.urls[k]
             /\ rows[k].local <=> k \in locals
             /\ origin.urls[k] = urls[k]
  <2>1. k \in Rows /\ k \in holds
    BY <1>1 DEF Present
  <2> DEFINE local == k \in locals
  <2>2. local \in BOOLEAN
    OBVIOUS
  <2>3. rows[k] = Aged(age, k, urls[k], local, file) /\ origin.urls[k] = urls[k] /\ urls[k] \in Urls
    BY <1>1, <2>1
  <2> HIDE DEF local
  <2>4. (rows[k].index # Nothing => rows[k].index[2] = urls[k]) /\ rows[k].local = local
    BY <1>2, <2>1, <2>2, <2>3, AgedRow
  <2> QED BY <2>3, <2>4 DEF local
<1>4. 10 \in recorded => age >= 10
  BY <1>1, <1>2
<1>5. ASSUME NEW j \in Present, NEW k \in Present, 10 \in recorded, rows[j].local, rows[k].local,
             origin.urls[j] = origin.urls[k]
      PROVE  j = k
  <2>1. j \in locals /\ k \in locals /\ urls[j] = urls[k]
    BY <1>3, <1>5
  <2> QED BY <1>1, <1>4, <1>5, <2>1
<1>6. phase # "ran"
  BY <1>1
<1> QED BY <1>3, <1>5, <1>6 DEF UrlsAreIndexed

\* A batch gives a row the index of its own plaintext.
LEMMA ProtectedIndex ==
  ASSUME MigrationsInv, UrlsAreIndexed, phase = "encrypt", NEW k \in Present, NEW row,
         row = Protected(k)
  PROVE  (row.index # Nothing => row.index[2] = origin.urls[k]) /\ row.local = rows[k].local
<1>1. k \in Rows /\ rows[k] # Nothing /\ 12 \notin recorded
  BY DEF Present, MigrationsInv, PlaceIsKnown
<1>2. 13 \notin done
  BY <1>1 DEF MigrationsInv, RecordedIsApplied
<1>3. rows[k] \in Row /\ Readable(k) /\ rows[k].url \in Urls \cup {Nothing}
  BY <1>1, RowFields
<1>4. rows[k].url = origin.urls[k]
  BY <1>1, <1>2, <1>3 DEF Readable
<1> DEFINE own == BlindIndex(ring, rows[k].url)
<1>5. own[2] = rows[k].url
  BY DEF BlindIndex
<1>6. /\ row.index = IF rows[k].index = Nothing /\ rows[k].local THEN own ELSE rows[k].index
      /\ row.local = rows[k].local
  BY <1>3 DEF Protected, Row
<1> HIDE DEF own
<1> QED BY <1>4, <1>5, <1>6 DEF UrlsAreIndexed

\* Only version 10 records itself, in the transaction that creates the unique index.
LEMMA RecordStep ==
  ASSUME MigrationsInv, UrlsAreIndexed, Next
  PROVE  /\ recorded \subseteq recorded' /\ (phase = "ran" => at # 10)'
         /\ 10 \in recorded' => 10 \in recorded \/ LocalUrlsDiffer
<1> USE DEF Goto, Process, database, Advance, Pending
<1>1. ASSUME NEW file \in Operators, Start(file)
      PROVE  recorded' = recorded /\ phase' # "ran"
  BY <1>1 DEF Start
<1>2. CASE CreateVersionTable \/ Stop \/ Skip \/ Serve
  BY <1>2 DEF CreateVersionTable, Stop, Skip, Serve
<1>3. CASE RecordBaseline \/ Record
  BY <1>3 DEF RecordBaseline, Record, UrlsAreIndexed
<1>4. CASE Begin
  <2>1. Entry[at] \in {"baseline", "pin", "suspended"}
    BY <1>4 DEF Begin, Entry
  <2> QED BY <1>4, <2>1 DEF Begin
<1>5. CASE RunBaseline
  BY <1>5 DEF RunBaseline, MigrationsInv, PlaceIsKnown
<1>6. CASE Statements
  <2>1. recorded' = recorded \cup {at} /\ (at = 10 => LocalUrlsDiffer) /\ phase = "next"
    BY <1>6 DEF Statements
  <2>2. phase' # "ran"
    BY <1>6, <2>1 DEF Statements
  <2> QED BY <2>1, <2>2
<1>7. CASE EnsureSchema \/ PromoteAnnouncement
  BY <1>7 DEF EnsureSchema, PromoteAnnouncement, Idempotent
<1>8. CASE PinIndexKey \/ EncryptBatch
  BY <1>8 DEF PinIndexKey, EncryptBatch
<1>9. CASE VerifyEncryption \/ Rebuild
  BY <1>9 DEF VerifyEncryption, Rebuild, MigrationsInv, PlaceIsKnown
<1>10. CASE RestoreForeignKeys
  BY <1>10 DEF RestoreForeignKeys
<1>11. ASSUME NEW k \in Rows, NEW url \in Urls, NEW local \in BOOLEAN, CreateKey(k, url, local)
       PROVE  recorded' = recorded /\ phase' # "ran"
  BY <1>11 DEF CreateKey
<1> QED BY <1>1, <1>2, <1>3, <1>4, <1>5, <1>6, <1>7, <1>8, <1>9, <1>10, <1>11 DEF Next

LEMMA UrlsStep ==
  ASSUME MigrationsInv, UrlsAreIndexed, Next
  PROVE  UrlsAreIndexed'
<1>1. /\ recorded \subseteq recorded' /\ (phase = "ran" => at # 10)'
      /\ 10 \in recorded' => 10 \in recorded \/ LocalUrlsDiffer
  BY RecordStep
<1>2. ASSUME NEW j \in Present, NEW k \in Present, LocalUrlsDiffer \/ 10 \in recorded,
             12 \notin recorded, rows[j].local, rows[k].local, origin.urls[j] = origin.urls[k]
      PROVE  j = k
  <2>1. CASE 10 \in recorded
    BY <1>2, <2>1 DEF UrlsAreIndexed
  <2>2. CASE LocalUrlsDiffer
    <3>1. 13 \notin done
      BY <1>2 DEF MigrationsInv, RecordedIsApplied
    <3>2. Readable(j) /\ Readable(k) /\ rows[j] # Nothing /\ rows[k] # Nothing
      BY DEF MigrationsInv, RowsAreReadable, Present
    <3>3. rows[j].url = origin.urls[j] /\ rows[k].url = origin.urls[k]
      BY <3>1, <3>2 DEF Readable
    <3> QED BY <1>2, <2>2, <3>3 DEF LocalUrlsDiffer
  <2> QED BY <1>2, <2>1, <2>2
<1>3. ASSUME UNCHANGED origin, Present' = Present,
             \A k \in Present : /\ rows'[k].local = rows[k].local
                                /\ rows'[k].index # Nothing => rows'[k].index[2] = origin.urls[k]
      PROVE  UrlsAreIndexed'
  BY <1>1, <1>2, <1>3 DEF UrlsAreIndexed
<1>4. CASE UNCHANGED <<rows, origin>>
  BY <1>3, <1>4 DEF UrlsAreIndexed, Present
<1>5. CASE EncryptBatch
  <2>1. /\ phase = "encrypt" /\ origin' = origin
        /\ rows' = rows \/ rows' = [k \in Rows |-> IF k \in NextBatch THEN Protected(k) ELSE rows[k]]
    BY <1>5 DEF EncryptBatch
  <2>2. NextBatch \subseteq Present
    BY DEF NextBatch, Waiting
  <2>3. ASSUME NEW k \in Present, k \in NextBatch
        PROVE  /\ Protected(k) # Nothing /\ Protected(k).local = rows[k].local
               /\ Protected(k).index # Nothing => Protected(k).index[2] = origin.urls[k]
    <3>1. k \in Rows /\ rows[k] # Nothing /\ ring # Nothing /\ 12 \notin recorded
      BY <2>1 DEF Present, MigrationsInv, PlaceIsKnown
    <3>2. 13 \notin done
      BY <3>1 DEF MigrationsInv, RecordedIsApplied
    <3>3. Protected(k) # Nothing
      BY <3>1, <3>2, ProtectedRow
    <3> DEFINE row == Protected(k)
    <3>4. (row.index # Nothing => row.index[2] = origin.urls[k]) /\ row.local = rows[k].local
      BY <2>1, ProtectedIndex
    <3> QED BY <3>3, <3>4
  <2>4. CASE rows' = rows
    BY <1>4, <2>1, <2>4
  <2>5. CASE rows' = [k \in Rows |-> IF k \in NextBatch THEN Protected(k) ELSE rows[k]]
    <3>1. ASSUME NEW k \in Rows PROVE rows'[k] # Nothing <=> rows[k] # Nothing
      BY <2>2, <2>3, <2>5 DEF Present
    <3>2. Present' = Present
      BY <3>1 DEF Present
    <3>3. ASSUME NEW k \in Present
          PROVE  /\ rows'[k].local = rows[k].local
                 /\ rows'[k].index # Nothing => rows'[k].index[2] = origin.urls[k]
      <4>1. k \in Rows
        BY DEF Present
      <4>2. CASE k \in NextBatch
        BY <2>3, <2>5, <4>1, <4>2
      <4>3. CASE k \notin NextBatch
        BY <2>5, <4>1, <4>3 DEF UrlsAreIndexed
      <4> QED BY <4>2, <4>3
    <3> QED BY <1>3, <2>1, <3>2, <3>3
  <2> QED BY <2>1, <2>4, <2>5
<1>6. CASE Rebuild
  <2>1. /\ origin' = origin
        /\ rows' = [k \in Rows |-> IF rows[k] = Nothing THEN Nothing
                                   ELSE [rows[k] EXCEPT !.url = Nothing]]
    BY <1>6 DEF Rebuild, Process
  <2>2. ASSUME NEW k \in Rows, rows[k] # Nothing
        PROVE  rows'[k] # Nothing /\ rows'[k].local = rows[k].local /\ rows'[k].index = rows[k].index
    <3>1. rows[k] \in Row /\ rows'[k] = [rows[k] EXCEPT !.url = Nothing]
      BY <2>1, <2>2, RowFields
    <3>2. rows'[k] \in Row /\ rows'[k].local = rows[k].local /\ rows'[k].index = rows[k].index
      BY <3>1 DEF Row
    <3> QED BY <3>2, MigrationsAssumption
  <2>3. Present' = Present
    BY <2>1, <2>2 DEF Present
  <2>4. \A k \in Present : /\ rows'[k].local = rows[k].local
                           /\ rows'[k].index # Nothing => rows'[k].index[2] = origin.urls[k]
    BY <2>2 DEF Present, UrlsAreIndexed
  <2> QED BY <1>3, <2>1, <2>3, <2>4
<1>7. ASSUME NEW k \in Rows, NEW url \in Urls, NEW local \in BOOLEAN, CreateKey(k, url, local)
      PROVE  UrlsAreIndexed'
  <2> DEFINE own == BlindIndex(ring, url)
             row == [url |-> Nothing, secret |-> Encrypt(ring, k, url), local |-> local,
                     index |-> IF local THEN own ELSE Nothing]
  <2>1. phase = "serving" /\ rows' = [rows EXCEPT ![k] = row]
        /\ origin' = [origin EXCEPT !.urls[k] = url]
    BY <1>7 DEF CreateKey
  <2>2. own[2] = url
    BY DEF BlindIndex
  <2> HIDE DEF own
  <2>3. row.index # Nothing => row.index[2] = url
    BY <2>2
  <2> HIDE DEF row
  <2>4. 12 \in recorded
    BY <2>1 DEF MigrationsInv, PlaceIsKnown, Versions
  <2>5. /\ rows'[k] = row /\ \A j \in Rows : j # k => rows'[j] = rows[j]
        /\ origin'.urls[k] = url /\ \A j \in Rows : j # k => origin'.urls[j] = origin.urls[j]
    BY <2>1 DEF MigrationsInv, DataType
  <2>6. ASSUME NEW j \in Present', rows'[j].index # Nothing
        PROVE  rows'[j].index[2] = origin'.urls[j]
    <3>1. j \in Rows /\ rows'[j] # Nothing
      BY DEF Present
    <3>2. CASE j = k
      BY <2>3, <2>5, <2>6, <3>2
    <3>3. CASE j # k
      <4>1. rows'[j] = rows[j] /\ origin'.urls[j] = origin.urls[j] /\ j \in Present
        BY <2>5, <3>1, <3>3 DEF Present
      <4> QED BY <2>6, <4>1 DEF UrlsAreIndexed
    <3> QED BY <3>2, <3>3
  <2>7. 12 \in recorded'
    BY <1>1, <2>4
  <2> QED BY <1>1, <2>6, <2>7 DEF UrlsAreIndexed
<1>8. CASE \E file \in Operators : Start(file)
  BY <1>4, <1>8 DEF Start, database
<1> QED BY <1>4, <1>5, <1>6, <1>7, <1>8 DEF Next, CreateVersionTable, Stop, Skip, RecordBaseline, Begin,
         RunBaseline, Statements, EnsureSchema, PromoteAnnouncement, PinIndexKey, VerifyEncryption,
         RestoreForeignKeys, Record, Serve, database, Process

TypedInv == MigrationsInv /\ PlacesAreTyped /\ PassIsComplete /\ UrlsAreIndexed

LEMMA TypedInvariant == Spec => []TypedInv
<1>1. Init => TypedInv
  BY InitInv, TypesInitially, UrlsInitially DEF TypedInv
<1>2. TypedInv /\ [Next]_vars => TypedInv'
  <2> SUFFICES ASSUME TypedInv, [Next]_vars PROVE TypedInv'
    OBVIOUS
  <2>1. MigrationsInv'
    BY NextInv DEF TypedInv
  <2>2. CASE Next
    BY <2>1, <2>2, PlacesStep, PassStep, UrlsStep DEF TypedInv
  <2>3. CASE UNCHANGED vars
    BY <2>1, <2>3 DEF TypedInv, PlacesAreTyped, PassIsComplete, UrlsAreIndexed, Present,
                      Unprotected, vars, database
  <2> QED BY <2>2, <2>3
<1> QED BY <1>1, <1>2, PTL DEF Spec

\* Type correctness of the database, the process and the position of a start.
THEOREM MigrationsTypes == Spec => []TypeOK
<1>1. TypedInv => TypeOK
  BY DEF TypedInv, MigrationsInv, DataType, PlacesAreTyped, Phases, TypeOK
<1> QED BY <1>1, TypedInvariant, PTL

\* However large a batch is, wherever earlier starts were stopped and whatever keyring they had, the
\* batches of version 12 (loadVlessKeyMigrationBatch, read by migrateVlessKeysData after the last
\* id of the batch before) skip no row, and its verification passes wherever every envelope opens
\* with the keyring of this start (EncryptionCompletes).
THEOREM NoRowIsSkipped == Spec => []EncryptionCompletes
<1>1. TypedInv => EncryptionCompletes
  <2> SUFFICES ASSUME TypedInv PROVE EncryptionCompletes
    OBVIOUS
  <2>1. ASSUME phase = "verify", \A k \in Present : Decrypts(ring, k, rows[k].secret)
        PROVE  Verified
    <3>1. \A k \in Present : ~Unprotected(k)
      BY <2>1 DEF TypedInv, PassIsComplete
    <3>2. at = 12 /\ 12 \notin recorded /\ \A v \in Versions : v < at => v \in recorded
      BY <2>1 DEF TypedInv, MigrationsInv, PlaceIsKnown
    <3>3. 10 \in recorded
      BY <3>2 DEF Versions
    <3>4. ASSUME NEW j \in Present, NEW k \in Present, rows[j].local, rows[k].local,
                 rows[j].index = rows[k].index
          PROVE  j = k
      <4>1. rows[j].index # Nothing /\ rows[k].index # Nothing
        BY <3>1, <3>4 DEF Unprotected
      <4>2. origin.urls[j] = origin.urls[k]
        BY <3>4, <4>1 DEF TypedInv, UrlsAreIndexed
      <4> QED BY <3>2, <3>3, <3>4, <4>2 DEF TypedInv, UrlsAreIndexed
    <3> QED BY <2>1, <3>1, <3>4 DEF Verified, Unprotected
  <2> QED BY <2>1 DEF TypedInv, PassIsComplete, EncryptionCompletes
<1> QED BY <1>1, TypedInvariant, PTL
=============================================================================
