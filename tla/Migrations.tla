------------------------------ MODULE Migrations ------------------------------
(*****************************************************************************)
(* The start of the server on its database: the schema migrations, of which  *)
(* one encrypts every profile and the next drops the plaintext, and the      *)
(* verification before the first request (internal/storage).  The process    *)
(* stops at any statement, and is started again with the keyring of then.    *)
(*                                                                           *)
(* A migration of statements is one transaction with its record.  A          *)
(* migration of Go code commits on its own and is recorded by a statement    *)
(* that follows, so a stop in between runs it again.                         *)
(*****************************************************************************)
EXTENDS Keyring, Naturals, FiniteSetsExt

CONSTANTS
  Rows, Urls,
  Operators,      \* keyring files the operator may start the server with; Nothing is none
  Ages,           \* versions a database may have at first; 0 has no version table
  Batch,          \* rows encrypted in one transaction (100 in the code)
  MaxStarts       \* bound: starts of the process

VARIABLES
  versioned,      \* schema_migrations exists
  recorded,       \* its rows
  parts,          \* what the baseline has put in place
  done,           \* the migrations whose effect is committed
  rows,           \* vless_keys with vless_key_secrets
  announcement,   \* the legacy and the canonical column
  pinned,         \* encryption_metadata: the identifier of the blind index key
  phase, ring, had, at, after,   \* the process
  enforced,       \* PRAGMA foreign_keys of the migration's connection
  starts,
  origin          \* history: the URLs, and the announcement the database showed

database == <<versioned, recorded, parts, done, rows, announcement, pinned>>
vars == <<database, phase, ring, had, at, after, enforced, starts, origin>>

Versions == 0..19
Parts == {"tables", "columns", "rows"}
\* Migrations of Go code beside the baseline, the encryption and the rebuild.
Idempotent == {15, 16, 17, 18, 19}
Rebuilds == {10, 13}
NoText == ""

Texts == {NoText, "legacy", "canonical"}
Envelopes == [key : EncryptionIds, material : Materials, row : Rows, plain : Urls]
Row == [url : Urls \cup {Nothing}, secret : Envelopes \cup {Nothing},
        index : (Materials \X Urls) \cup {Nothing}, local : BOOLEAN]

ASSUME MigrationsAssumption ==
  /\ Rows \subseteq Nat \ {0} /\ IsFiniteSet(Rows) /\ Ages \subseteq Versions
  /\ Batch \in Nat \ {0} /\ MaxStarts \in Nat
  /\ Operators \subseteq Files \cup {Nothing}
  /\ Nothing \notin Files \cup Urls \cup Envelopes \cup Row \cup (Materials \X Urls)

Present == {k \in Rows : rows[k] # Nothing}

\* A row as it stands in a database of an age, under the first keyring that loads.  The profile of
\* a source has no index.
Aged(age, k, url, local, file) ==
  [url |-> IF age < 13 THEN url ELSE Nothing,
   secret |-> IF age < 12 THEN Nothing ELSE Encrypt(file, k, url),
   index |-> IF age < 12 \/ ~local THEN Nothing ELSE BlindIndex(file, url), local |-> local]

\* A database of an age as the first start finds it: of its profiles those in locals are the
\* administrator's, whose URLs version 10 makes unique, and the others belong to sources.
Found(age, file, holds, locals, urls, text) ==
  /\ age >= 10 => \A j, k \in locals : urls[j] = urls[k] => j = k
  /\ versioned = (age > 0) /\ recorded = 1..age /\ done = 1..age
  /\ parts \in (IF age > 0 THEN {Parts} ELSE IF holds = {} THEN {{}} ELSE {{"tables"}})
  /\ rows = [k \in Rows |-> IF k \in holds THEN Aged(age, k, urls[k], k \in locals, file) ELSE Nothing]
  /\ announcement = IF age < 18 THEN text ELSE [text EXCEPT !.legacy = NoText]
  /\ pinned = IF age < 12 THEN Nothing ELSE file.activeIndex
  /\ phase = "down" /\ ring = Nothing /\ had = FALSE /\ at = 0 /\ after = 0
  /\ enforced = TRUE /\ starts = 0
  /\ origin = [urls |-> [k \in Rows |-> IF k \in holds THEN urls[k] ELSE Nothing],
               text |-> IF announcement.canonical # NoText THEN announcement.canonical
                        ELSE announcement.legacy]

Init ==
  \E age \in Ages, file \in {f \in Operators \ {Nothing} : Loads(f)}, holds \in SUBSET Rows :
  \E locals \in SUBSET holds, urls \in [Rows -> Urls], text \in [legacy : {NoText, "legacy"}, canonical : {NoText, "canonical"}] :
    Found(age, file, holds, locals, urls, text)

TypeOK ==
  /\ versioned \in BOOLEAN /\ recorded \subseteq Versions /\ done \subseteq Versions /\ parts \subseteq Parts
  /\ rows \in [Rows -> Row \cup {Nothing}]
  /\ announcement \in [legacy : Texts, canonical : Texts]
  /\ pinned \in IndexIds \cup {Nothing}
  /\ phase \in {"down", "opened", "next", "baseline", "pin", "encrypt", "verify", "suspended", "restoring",
                "ran", "check", "serving"}
  /\ at \in 0..20 /\ after \in Rows \cup {0} /\ had \in BOOLEAN /\ enforced \in BOOLEAN

-----------------------------------------------------------------------------
Goto(p) == phase' = p
Process == <<ring, had, at, after, enforced, starts, origin>>

\* configuration.Load refuses a keyring that does not load; the version table is looked for first.
Start(file) ==
  /\ phase = "down" /\ starts < MaxStarts
  /\ file # Nothing => Loads(file)
  /\ Goto("opened") /\ ring' = file /\ had' = versioned /\ at' = 0 /\ after' = 0 /\ enforced' = TRUE
  /\ starts' = starts + 1
  /\ UNCHANGED <<database, origin>>

CreateVersionTable ==
  /\ phase = "opened" /\ Goto("next") /\ versioned' = TRUE
  /\ UNCHANGED <<recorded, parts, done, rows, announcement, pinned>> /\ UNCHANGED Process

\* An error ends the process; so does a crash.  The transaction open is rolled back.
Stop ==
  /\ phase # "down" /\ Goto("down")
  /\ UNCHANGED <<database, ring, had, at, after, enforced, starts, origin>>

Advance == Goto("next") /\ at' = at + 1
Pending == phase = "next" /\ at \in Versions \ recorded

Skip ==
  /\ phase = "next" /\ at \in recorded /\ Advance
  /\ UNCHANGED <<database, ring, had, after, enforced, starts, origin>>

RecordBaseline ==
  /\ Pending /\ at = 0 /\ had /\ recorded' = recorded \cup {0} /\ Advance
  /\ UNCHANGED <<versioned, parts, done, rows, announcement, pinned, ring, had, after, enforced, starts, origin>>

\* Where the code of a migration begins.  The encryption needs a keyring; the rebuild suspends
\* foreign keys on its connection.
Entry == [v \in {0, 12, 13} |-> CASE v = 0 -> "baseline" [] v = 12 -> "pin" [] v = 13 -> "suspended"]

\* Mutant of Begin: the record is written before the migration.
BeginRecorded ==
  /\ Pending /\ at \in {0, 12, 13} /\ ~(at = 0 /\ had) /\ (at = 12 => ring # Nothing)
  /\ Goto(Entry[at]) /\ enforced' = (at # 13) /\ recorded' = recorded \cup {at}
  /\ UNCHANGED <<versioned, parts, done, rows, announcement, pinned, ring, had, at, after, starts, origin>>
Begin ==
  /\ Pending /\ at \in {0, 12, 13} /\ ~(at = 0 /\ had) /\ (at = 12 => ring # Nothing)
  /\ Goto(Entry[at]) /\ enforced' = (at # 13)
  /\ UNCHANGED <<database, ring, had, at, after, starts, origin>>

\* applyBaselineSchema: statements of their own, in this order.
RunBaseline ==
  /\ phase = "baseline"
  /\ parts' = parts \cup (IF "tables" \notin parts THEN {"tables"}
                          ELSE IF "columns" \notin parts THEN {"columns"} ELSE {"rows"})
  /\ IF parts' = Parts THEN Goto("ran") ELSE UNCHANGED phase
  /\ UNCHANGED <<versioned, recorded, done, rows, announcement, pinned>> /\ UNCHANGED Process

\* A statement on a table or a column that is not there fails.
Needs(v) == IF v < 3 THEN {} ELSE IF v = 3 THEN {"tables"} ELSE {"tables", "columns"}

\* Version 10 fails on two profiles of the administrator with one URL (idx_vless_keys_local_url).
LocalUrlsDiffer ==
  \A j, k \in Present : rows[j].local /\ rows[k].local /\ rows[j].url = rows[k].url => j = k

Statements ==
  /\ Pending /\ at \notin {0, 12, 13} \cup Idempotent /\ Needs(at) \subseteq parts
  /\ at = 10 => LocalUrlsDiffer
  /\ done' = done \cup {at} /\ recorded' = recorded \cup {at}
  /\ IF at \in Rebuilds THEN Goto("restoring") /\ enforced' = FALSE /\ UNCHANGED at
     ELSE Advance /\ UNCHANGED enforced
  /\ UNCHANGED <<versioned, parts, rows, announcement, pinned, ring, had, after, starts, origin>>

\* ensureColumn and the rebuild of background_jobs look before they change.
EnsureSchema ==
  /\ Pending /\ at \in Idempotent \ {18} /\ Needs(at) \subseteq parts
  /\ done' = done \cup {at} /\ Goto("ran")
  /\ UNCHANGED <<versioned, recorded, parts, rows, announcement, pinned>> /\ UNCHANGED Process

\* Mutant of Promote: a crash before the record finds an empty legacy value and promotes it.
PromoteAlways(text) == [legacy |-> NoText, canonical |-> text.legacy]
Promote(text) ==
  [legacy |-> NoText,
   canonical |-> IF text.legacy # NoText /\ text.canonical = NoText THEN text.legacy ELSE text.canonical]

PromoteAnnouncement ==
  /\ Pending /\ at = 18
  /\ announcement' = Promote(announcement) /\ done' = done \cup {18} /\ Goto("ran")
  /\ UNCHANGED <<versioned, recorded, parts, rows, pinned>> /\ UNCHANGED Process

-----------------------------------------------------------------------------
(* Version 12: every profile gets an envelope and every local one an index.  *)

\* recordBlindIndexKeyID: the first identifier stays.
PinIndexKey ==
  /\ phase = "pin" /\ pinned \in {Nothing, ring.activeIndex}
  /\ pinned' = ring.activeIndex /\ Goto("encrypt") /\ after' = 0
  /\ UNCHANGED <<versioned, recorded, parts, done, rows, announcement, ring, had, at, enforced, starts, origin>>

Unprotected(k) == rows[k].secret = Nothing \/ (rows[k].local /\ rows[k].index = Nothing)
Waiting == {k \in Present : k > after /\ Unprotected(k)}
\* Mutant of NextBatch: the rows that wait are not read in the order of their identifiers.
UnorderedBatch == {k \in Waiting : Cardinality({j \in Waiting : j >= k}) <= Batch}
NextBatch == {k \in Waiting : Cardinality({j \in Waiting : j <= k}) <= Batch}

Protected(k) ==
  [rows[k] EXCEPT !.secret = IF @ = Nothing THEN Encrypt(ring, k, rows[k].url) ELSE @,
                  !.index = IF @ = Nothing /\ rows[k].local THEN BlindIndex(ring, rows[k].url) ELSE @]

EncryptBatch ==
  /\ phase = "encrypt"
  /\ IF Waiting = {} THEN Goto("verify") /\ UNCHANGED <<rows, after>>
     ELSE /\ rows' = [k \in Rows |-> IF k \in NextBatch THEN Protected(k) ELSE rows[k]]
          /\ after' = Max(NextBatch) /\ UNCHANGED phase
  /\ UNCHANGED <<versioned, recorded, parts, done, announcement, pinned, ring, had, at, enforced, starts, origin>>

Verified ==
  /\ \A k \in Present : rows[k].secret # Nothing /\ Decrypts(ring, k, rows[k].secret)
  /\ \A k \in Present : rows[k].local =>
       rows[k].index # Nothing /\ \A j \in Present \ {k} : rows[j].local => rows[j].index # rows[k].index

VerifyEncryption ==
  /\ phase = "verify" /\ Verified /\ done' = done \cup {12} /\ Goto("ran")
  /\ UNCHANGED <<versioned, recorded, parts, rows, announcement, pinned>> /\ UNCHANGED Process

-----------------------------------------------------------------------------
(* Version 13: the table without its url column, foreign keys suspended.     *)

Rebuild ==
  /\ phase = "suspended"
  /\ rows' = [k \in Rows |-> IF rows[k] = Nothing THEN Nothing ELSE [rows[k] EXCEPT !.url = Nothing]]
  /\ done' = done \cup {13} /\ Goto("restoring")
  /\ UNCHANGED <<versioned, recorded, parts, announcement, pinned>> /\ UNCHANGED Process

\* Version 10 has its record in the transaction, version 13 has not.
RestoreForeignKeys ==
  /\ phase = "restoring" /\ enforced' = TRUE
  /\ IF at = 10 THEN Advance ELSE Goto("ran") /\ UNCHANGED at
  /\ UNCHANGED <<database, ring, had, after, starts, origin>>

Record ==
  /\ phase = "ran" /\ recorded' = recorded \cup {at} /\ Advance
  /\ UNCHANGED <<versioned, parts, done, rows, announcement, pinned, ring, had, after, enforced, starts, origin>>

-----------------------------------------------------------------------------
(* VerifyStartupEnvelopesAndInvariants, and the server at work.              *)

\* Mutant of EnvelopesKnown: only the count of the secrets is compared.
SecretsThere == \A k \in Present : rows[k].secret # Nothing
EnvelopesKnown == \A k \in Present : rows[k].secret # Nothing /\ Known(ring, rows[k].secret)

Serve ==
  /\ phase = "next" /\ at = 20
  /\ ring # Nothing /\ EnvelopesKnown
  /\ Goto("serving")
  /\ UNCHANGED database /\ UNCHANGED Process

\* A profile created while serving, by the administrator or from a source, under the active key of
\* this keyring; an index of the administrator's profiles refuses a second one.
CreateKey(k, url, local) ==
  /\ phase = "serving" /\ rows[k] = Nothing
  /\ local => \A j \in Present : rows[j].local => rows[j].index # BlindIndex(ring, url)
  /\ rows' = [rows EXCEPT ![k] = [url |-> Nothing, secret |-> Encrypt(ring, k, url), local |-> local,
                                  index |-> IF local THEN BlindIndex(ring, url) ELSE Nothing]]
  /\ origin' = [origin EXCEPT !.urls[k] = url]
  /\ UNCHANGED <<versioned, recorded, parts, done, announcement, pinned, phase, ring, had, at, after, enforced, starts>>

Next ==
  \/ \E file \in Operators : Start(file)
  \/ CreateVersionTable \/ Stop \/ Skip \/ RecordBaseline \/ Begin \/ RunBaseline \/ Statements
  \/ EnsureSchema \/ PromoteAnnouncement \/ PinIndexKey \/ EncryptBatch \/ VerifyEncryption
  \/ Rebuild \/ RestoreForeignKeys \/ Record \/ Serve
  \/ \E k \in Rows, url \in Urls, local \in BOOLEAN : CreateKey(k, url, local)

Spec == Init /\ [][Next]_vars

-----------------------------------------------------------------------------
(* Properties.                                                               *)

\* At no statement is a profile without a readable form: its plaintext is there, or an envelope of
\* its own row that holds it; and the announcement that was shown is shown after its migration.
NothingIsLost ==
  /\ \A k \in Rows : origin.urls[k] # Nothing =>
       /\ rows[k] # Nothing
       /\ rows[k].url = Nothing => rows[k].secret # Nothing
       /\ rows[k].secret # Nothing => rows[k].secret.row = k /\ rows[k].secret.plain = origin.urls[k]
  /\ 18 \in done => announcement = [legacy |-> NoText, canonical |-> origin.text]

\* A version that is recorded has its effect in the schema, wherever the starts before stopped; the
\* plaintext goes only after every envelope has been opened (MigrateWithKeyring).
RecordedIsApplied ==
  /\ recorded \ {0} \subseteq done
  /\ 13 \in done => 12 \in recorded

\* The batches of version 12 leave behind them no profile without an envelope and no profile of the
\* administrator without an index, wherever the starts before stopped (loadVlessKeyMigrationBatch,
\* read after the last row of the batch before); so its verification, which would fail at every
\* start that follows, fails only where an envelope of an earlier start needs another keyring.
EncryptionCompletes ==
  /\ phase = "encrypt" => \A k \in Present : k <= after => ~Unprotected(k)
  /\ phase = "verify" =>
       /\ \A k \in Present : ~Unprotected(k)
       /\ (\A k \in Present : Decrypts(ring, k, rows[k].secret)) => Verified

\* The server takes requests only with the identifier of every envelope in its keyring, with every
\* migration recorded and with foreign keys enforced, whatever keyring each earlier start had.
ServingIsReady ==
  phase = "serving" =>
    /\ enforced /\ recorded = Versions
    /\ \A k \in Present : Known(ring, rows[k].secret)

\* migrations.go, where version 0 is recorded without being run: "Already-versioned databases were
\* bootstrapped before version 0 existed."
RecordedBaselineIsWhole == 0 \in recorded => parts = Parts
=============================================================================
