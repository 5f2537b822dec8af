# SubShare: formal models

TLA+ models of the SubShare server (`src/cmd/server`, `src/internal`), the TLC
configurations that check them on small instances, and TLAPS proofs for every
value of the constants. `PROJECT.json` ties each definition to the source lines
it translates, and lists the runs, the hazards and the findings.

    tlc -workers 2 -config MCBackup.cfg MCBackup      # one run
    tlapm BackupProofs.tla                            # the proofs of one module

## 1. The system

SubShare is one Go process over one SQLite database (WAL, at most four
connections, 5 s busy timeout). It keeps users with a subscription each, and
proxy profiles ("keys"), some local and some imported from external sources;
clients fetch `/sub/<id>` and get the keys assigned to that user. An
administration API changes all of it. Work that takes long is done by detached
goroutines that record themselves in `background_jobs`.

| component | state | operations | what is hard | what makes it correct |
|---|---|---|---|---|
| Source synchronisation (`source_fetch_ownership.go`, `job_workers.go`) | `external_subscription_sources`, the keys of a source, the lease table and sequence under `App.mu` | begin a fetch, announce, fetch, import, publish a failure, release | overlapping jobs for one source, edits and deletions during a fetch, restarts | only the newest fetch decides what a source shows; no "syncing" is stranded |
| Background jobs (`job_commands.go`, `job_tracking.go`, `jobs.go`) | `background_jobs`, `source_sync_runs` | queue, retry, run, finish, recover; the health batch | tracking writes may fail, goroutines die with the process | records are true; everything queued ends |
| Source administration (`source_*_command.go`, `source_import_*.go`) | source rows | create, update, delete, preview, import a choice | read-modify-write over two statements; a feed fetched twice | a PUT keeps what it does not name; an import is what was chosen |
| Key reconciliation (`internal/sources/sync.go`, `internal/storage/source_keys.go`) | `vless_keys` of a source, `user_keys` | repair, match, update, insert, remove, in one transaction | unique indexes, historical duplicates, feed order, partial feeds | one row per profile; local metadata survives; refreshing settles |
| Feeds (`internal/sources`) | none | fetch, decode, parse, deduplicate | many forms of a body, one profile written in several ways | one key per profile, whatever ways it is written |
| Profile codecs (`internal/profiles`) | none | parse, validate, canonical link, fingerprint | parameters that are aliases, defaults, order, credentials in two places | the stored link keeps the identity of the profile |
| Key administration (`internal/keymanagement`, `internal/httpapi`, `internal/storage`) | `vless_keys`, `vless_key_secrets` | create, update by revision, clone, bulk, the deprecated routes | two editors over two tables, clones, deprecated writers without a revision | one save per revision; the index tells the secret |
| Categories and ordering (`key_category_repository.go`, `key_order_repository.go`, `category_store.go`) | `key_categories`, `sort_order` | upsert, rename, delete, reorder | validated outside the transaction that writes | the order is the one that was asked for |
| Subscription columns (`subscription_patch*.go`, `subscription_replacement_*.go`, `user_settings_command.go`) | the subscription columns of `users` | PATCH (read, compute, conditional write, retry), PUT, settings, delete | concurrent writers, time zones, lost results | a PATCH is atomic; columns stay consistent |
| Users and assignment (`user_creation.go`, `user_assignment_command.go`) | `users`, `user_keys` | create, delete, assign | mode "all" against new keys | every user of mode "all" has every key |
| Activation (`activation_redemption.go`) | `users.activation_used_at` | redeem | two redemptions, lost results | one person per code |
| Devices (`device_registration*.go`) | `user_devices` | register, limit, delete | two devices at the last place | a device is added only while there is room |
| Delivery (`subscription_delivery.go`, `internal/delivery`) | reads, and the device | access, rule, device, render | several reads, each its own snapshot | nobody is served whose subscription was never open |
| Response rules and templates (`response_*.go`) | `response_rules`, `subscription_templates` | match, create, update, delete | validated reference against deletion | a structured answer is in the format its rule names |
| Administrators (`handlers_admins.go`, `admin_credentials.go`, `auth.go`) | `admins` | create, update, delete, log in, bootstrap | count-then-write, slow hashing between read and write | an owner remains; the chosen password is accepted; one bootstrap |
| Sessions and tokens (`handlers_auth.go`, `api_tokens.go`) | `admin_sessions`, `api_tokens` | log in, log out, revoke, expire | a login racing a password change | a session rests on the present password |
| Keyring (`internal/security/profilestorage`) | keyring file, `encryption_metadata` | load, encrypt, decrypt, index | another keyring at the next start | nothing is written that cannot be opened |
| Migrations and startup (`internal/storage/migrations*.go`, `startup.go`) | `schema_migrations`, every table | baseline, versions, encryption, rebuild, verify | a stop between any two statements | a recorded version is applied; nothing is lost; the server works only when ready |
| Rate limiting (`internal/middleware`) | attempts per peer in memory | allow, clean up, evict | window and table limits | at most `limit` attempts per window and peer |
| Backup (`backup.go`, `backup_publication.go`) | the files `BACKUP_PATH`, `.tmp`, `.previous` | export, verify, preserve, publish | a stop or failure between two file operations | a verified artifact is kept and gets renewed |
| Pages, settings, Happ routing, frontend, scripts | - | - | text, presentation | out of scope, see section 8 |

Components meet in the database (every command is one or several statements),
in `App.mu` (the lease table and source status), and in `background_jobs`
(commands queue, goroutines finish, start-up recovers). A feed becomes keys in
`Feeds`, is imported under a lease in `SourceSync`, changes the rows of its
source in `Reconcile`, and takes its place among all keys and users in `Keys`;
`Delivery` is what a client sees of one subscription.

## 2. Modules

| module | models | proofs |
|---|---|---|
| `NewestFetch` | what a source promises: only its newest fetch speaks | |
| `SourceSync` | jobs, leases, imports, source commands, crash and recovery | `SourcesProofs` |
| `Reconcile` | one refresh as a pure operator over the stored rows and the feed; administrators' changes in between | `JobsProofs` |
| `HealthBatch` | dispatcher, semaphore, mutex, goroutines and summary of a health batch | `JobsProofs` |
| `Backup` | the backup goroutine and its three files | `BackupProofs` |
| `Admins` | owners' requests, logins with hash migration, sessions, bootstrap | `AdminsProofs` |
| `SubscriptionRow` | the columns and the pure effect of a patch | |
| `AtomicPatch` | what a PATCH promises: at once, or not at all | |
| `SubscriptionPatch` | the handlers with their reads, conditional writes and retries | `SubscriptionPatchProofs` |
| `Delivery` | one subscription: activation, requests, devices, rules, templates, administrators | `DeliveryProofs` |
| `Keys` | keys, secrets, categories, order, entitlements of users | `KeysProofs` |
| `Keyring` | keyring files, envelopes, blind indexes | |
| `Migrations` | every start of the server on a database of any age | `MigrationsProofs` |
| `Profiles` | the six codecs: parse, canonical link, fingerprint | `SourcesProofs` |
| `Feeds` | a body, its items and keys; preview and import of a choice | `SourcesProofs` |

`SourceSync` refines `NewestFetch`, and `SubscriptionPatch` refines `AtomicPatch`
(`ImplementsPromise`, checked by TLC and proved). Both members of that second
pair extend `SubscriptionRow`; `Migrations` extends `Keyring`, `Feeds` extends
`Profiles`. An `MC*` module only adds symmetry, seeds and inputs.

Common rules. One SQL statement, or one transaction, is one step, because SQLite
has one writer and a statement reads one snapshot. A system call on a file is
one step. Values that nothing tells apart (labels, URLs, passwords, texts) are
model values. Crashes drop goroutines and memory and keep the database and
files. Operators marked "Variant for the checks" or "Mutant" are the plausible
bugs that `PROJECT.json` "mutants" puts in place of the definition after them;
no specification uses them.

### SourceSync

`Worker(j)` is `runQueuedSourceSync`, one action per statement or lock region:
`MarkRunning`, `StartRun`, `ReadSource`, `BeginFetch`, `CheckSyncing` and
`WriteSyncing` (the check and the UPDATE of `markSourceFetchStatus`, both under
`App.mu`, which edits and deletions do not take), `Fetch`, `SyncResult` (the
guarded import transaction, which may also be refused by SQLite),
`CheckError`/`WriteError`, `FinishJob`, `FinishRun`, `Release`. Commands:
`QueueSync`, `RetryJob`, `CreateSource`, `ReadForEdit`/`EditSource` (a PUT reads
before it writes), `DeleteSource`. `Crash` loses the goroutines, the lease table
and the sequence; `Restart` is `recoverInterruptedJobs` with three statements
that may fail singly. `began`, `newest` and `committed` are history variables
that no guard of the code reads. Raw and normalised HWID values are compared as
equality of inputs; categories and the `enabled` flag are left out.

### Reconcile

The transaction is the operator `Refreshed(table, last, feed, partial)`: repair
of duplicates (`Repaired`), then `upsertParsedKey` for every link of the feed
(`Progress`, a recursive function of the number of links done), with every look-up in the table as it was at the start (the indexes built by
`newSyncState`/`indexExistingKeys`) and every write checked against the unique
indexes as they are at that moment, then `removeUnmatched`. The properties
quantify over every feed at every reachable table, so they speak of the next
refresh whatever it is. Feeds are what the parser's deduplication lets through.

### HealthBatch

The dispatcher loop blocks on the semaphore, each goroutine probes, locks,
stores, unlocks and reports; the result channel has room for all, so sending
never blocks and is part of `Report`. `SavePanics` is a panic in the persister:
recovered above a plain `Unlock`. Deleted rows, unreadable keys and failed
statements are outcomes of the steps, those that write the job itself included
(`job_tracking.go` ignores their errors): `BatchEnds` then says that the
goroutine has returned, and the row is left to the recovery of the next start.

### Backup

`Attempt` is one call per step from `performBackup` to `publishSQLiteBackup`.
Every call may fail (`MaxFaults`) and the process may stop between any two
(`MaxCrashes`). A file is a version of the database and whether the integrity
check accepts it; `Export` and `Copied` are the start and end of `VACUUM INTO`.

### Admins

An owner's request is authorised, reads its session again, reads its target,
sets a password, deletes the target's other sessions, counts owners and writes a
role in separate statements; a login reads the hash, verifies it, swaps it only
if it is still stored (the migration of a legacy hash) and inserts its session;
`ensureBootstrapOwner` holds the write lock from `BEGIN IMMEDIATE`. Sessions
expire, are logged out, and go with their account. A password is numbered by
when it was set, so `hash`, `chosen` and the `verified` of a session can be
compared; `late` marks a session whose login overlapped a change, `missed` an
account whose deletion of sessions failed. The session guard's two reads (the
session and its account) are taken together. A session id is used again only
when no request carries it. An unknown role name is refused before it reaches
the table and is not an input. Usernames stand for ids.

### SubscriptionPatch

`Receive`, `Load` (read, apply, validate), `Store` (the conditional UPDATE, or
the next attempt) and `Fail` are one PATCH; `replaceUserSubscription`,
`updateUserSettings` and `deleteUser` are the single statements beside it. A
date without a zone is a local hour and a zone a distance from UTC, so what a
request means depends on the stored zone. "Paused" behaves as "active" for these
columns; name, URLs, extra status and refresh hours have no dependency on each
other and stand as one column, `note`. `Store` may report failure after the
statement took effect, as `RowsAffected` and the connection can.

### Delivery

`Handle(r)` is a request in the order of its statements: access columns
(`CheckAccess`), the row again with the settings (`LoadContext`), the rules
(`ListRules`, which disables a rule whose JSON cannot be decoded and fails),
the device (`UpdateDevice`, `CountDevices`, `InsertDevice`: one transaction that
takes the write lock, `writer`, with its first UPDATE), and then the page, the
details, or the body and its template. `Redeem(d)` is the read and the claim of
an activation code; a claim may commit while its result is lost. `Administer`
changes status, dates, limit, devices, rules (validated by one statement, written
by another: `SaveRuleBegin`, `SaveRule`, which inserts a row or updates one and
may fail) and templates; `Pass` is time. A template is changed and deleted without
a look at the rules: the foreign key sets the template of a rule that used it to
NULL (`WithoutTemplate`), refuses a rule whose template has gone since it was
validated (`Refers`), and a request that already holds the rule finds no template
(`loadTemplate`, whose errors the handler ignores). A device
is an id and a spelling of it. Conditions of a rule are classes of clients it
matches. `entitled` is history: the requests during which the subscription was
open. Rows of metrics are not written here. Whether a body is well formed is
`sound`/`torn`; its text is not modelled.

### Keys

One transaction is one action, and what a command reads before it is an action
of its own whose result the request carries: `Load`/`Plan`/`SaveEdit` (or
`SaveMetadata`, or `Clone`), `LoadLegacy`/`SaveLegacy`, `EnsureForBulk`/
`SaveBulk`, `ReadOrder`/`SaveOrder`, `ReadCatOrder`/`SaveCategory`,
`ReadRename`/`SaveRename`; `Fail` is a request whose transaction finds another
revision, a lost row or a taken index. `CreateKey`, `Delete`, `DeleteCategory`,
`ReorderCategories`, `Import` and the commands on users are transactions alone.
A key row holds its secret (`uri`) and blind index, so the two tables
`vless_keys` and `vless_key_secrets` change together where one transaction
writes both. `saves` is history: the revision each save of a key started from.
`Import` is the effect of a synchronisation on one key of a source, with the
place `NextSortOrder` gives it; the matching of a whole feed is `Reconcile`.

### Keyring and Migrations

A keyring file maps identifiers to material and names the active ones; an
envelope carries the identifier, not the material, and is bound to its row.
AES-GCM and HMAC are ideal: an envelope opens with its material and row alone,
and equal indexes mean equal material and URI. `Migrations` is one start:
`Start(file)` with a keyring of the operator's choice, `CreateVersionTable`,
each version as `Skip`, `RecordBaseline`, `Begin` and its code, or `Statements`
(one transaction with its record), and `Serve` after the verification. `Stop` is
possible at every statement. The baseline is several statements; version 12 pins
the index key, encrypts `Batch` rows at a time and verifies; version 13 rebuilds
the table without the plaintext while foreign keys are suspended; 15 to 19 are Go
code that looks before it changes and is recorded afterwards. `origin` is history:
what the database held. A profile belongs to the administrator, and has an index,
or to a source, and has none (`local`); version 10 refuses two of the
administrator's with one URL. The random index of a clone is not told apart.
Versions whose statements only add tables or columns
stand as what later ones need of them (`Needs`).

### Profiles and Feeds

A link is what the URI grammar splits it into: scheme, host, name, parts of the
user information, form, port items, parameters in their order. `Parse` is what
the adapter of the protocol makes of it (with its aliases, defaults, refusals and
warnings), `Canonical` the link it writes and `Fingerprint` the material its HMAC
is computed from. What the code does to text (case, trimming, numbers,
durations, host names, pins) is given by conversion functions over a small
vocabulary. `Feeds` takes a body through Base64, lines or JSON, items and keys,
with duplicates by fingerprint; `Preview` shows it, `Update` is the provider
publishing another body, and `Import` fetches again and takes the chosen
references (`Again` is the next administrator). Lines and elements are read by
one recursion (`Collected`); a request answered with an error is `Failed`, the
empty result, as a result that is none has at least one key. The extra material
of a fingerprint is a set of lines, each with its place among the values of its
name (`Extras`), and the canonical query is a stable sort: every field and every
parameter has a place, and `InOrder` writes the places by rank. What the proofs
need of the conversions and the names is assumed and evaluated by TLC: normal
forms are stable (`Converts`), written flags, numbers and durations read as
themselves (`ConversionsAssumption`), a name is known in lower case and is a
spelling of one parameter (`NamesAssumption`). `Presentations(link)` are other ways to write one profile (aliases,
case, order, name, places of a credential), `Changes(link)` are links that differ
in what a client does: the properties demand that the first are duplicates and
the second are not, the second in any feed that has only lists of such changes. Whether `profileconfig` accepts an Xray document is a boolean
of the document.

## 3. Runs

| run | properties | instance, and why it is enough |
|---|---|---|
| `source_sync` | types, `SyncingIsAttended`, `RecordsTellTheTruth`, `OwnerIsNewest`, `RecoveryIsComplete`, `EndedJobsStay`, `ImplementsPromise` | one source, three jobs, two URLs, one edit, crash and failed statement (1.2 million states): a third job is what an older and a newer lease can be confused over after a release or restart; sources share only the sequence, and the theorems cover any number of them |
| `source_sync_live` | `JobsEnd`, `SyncingEnds` | two jobs, an edit, a crash: the second job takes the lease away from the first |
| `backup` | types, `OnlyVerifiedIsPublished`, `AttemptKeepsThePrior`, `ChangesReachABackup` | three versions (old, published, newer), two crashes, three faults: both renames of one attempt and one of the next can fail |
| `admins` | types, `AcceptsTheChosenPassword`, `SessionsEndWithThePassword`, `BootstrapOnlyWhenEmpty` | two accounts, one request, one login, two sessions, two starts, one change of a password (1.5 million states): a login spans the change, a session of another browser is open; both starts see the empty table |
| `reconcile` | `OneRowPerProfile`, `LocalMetadataSurvives`, `RefreshSettles` | two historical rows (one duplicate group), three profiles, two labels, feeds of two links, two refreshes and one change: a link can be renamed, moved, swapped and listed twice |
| `health_batch` | `SummaryTellsTheTruth`, `BatchEnds` | three keys of every kind over two slots, a crash (390 000 states): the dispatcher waits for a slot, the mutex is contended |
| `subscription_patch` | types, `RowStaysConsistent`, `ConflictMeansContention`, `ImplementsPromise` | two requests with two attempts each (five in the code), one statement beside them, two hours, two zones: both requests race and a third party changes the row under them |
| `delivery` | `AnswersAreSound`, `RedeemedOnce`, `DevicesWithinLimit` | two requests with different devices, two redeemers, limits 0 (none) and 1, one template, one rule, one edit, the passing of time (4.2 million states): both devices compete for the only place, and every read of a request can be followed by the edit, which may be the change or deletion of the template under its rule |
| `keys` | `AllModeSeesEveryKey`, `OneSavePerRevision`, `IndexTellsTheSecret`, `OrderIsTheRequested` | two local keys at the start and room for a third, three categories, one source, one user, two requests, three commands (650 000 states): two editors hold one revision, and a key comes or goes between the reads and the transaction of either |
| `migrations` | `NothingIsLost`, `RecordedIsApplied`, `ServingIsReady`, `EncryptionCompletes` | two rows of the administrator or of a source, batches of one, databases of versions 0 (with and without tables), 2, 11, 12 and 17, no keyring, the first, a rotated and a wrong one, three starts (1.9 million states): a start stops between the two batches and the next comes with each keyring |
| `feeds` | `OneKeyPerProfile`, `StoredLinkKeepsIdentity`, `SelectionIsExact` | 9 300 bodies: every link of the vocabulary (each protocol, up to three parameters) beside its presentations and changes, every pair of lines and of documents, with and without Base64, a body above `MaxItems`; one update of the provider, choices of up to two items in any order |
| `admins_last_owner` | `OwnerRemains` | two owners and two requests; TLC finds the counterexample (section 4) |

The type invariants of `HealthBatch`, `Reconcile`, `Delivery`, `Keys` and
`Migrations` hold in the same instances and are not among the listed runs; they
are proved (`BatchTypes`, `ReconcileTypes`, `KeysTypes`, `MigrationsTypes` and, for
`Delivery`, as a part of `DeliveryInv`).

Every bound is a constant: `MaxEdits`, `MaxCrashes`, `MaxFaults`, `MaxWrites`,
`MaxChanges`, `MaxRefreshes`, `MaxHistory`, `MaxFeed`, `MaxPasswords`, `MaxWork`
(commands of `Keys`), `MaxStarts`, `MaxItems`, `MaxUpdates`, the choices `Picks`
tried of a preview, and the sets of the instance. Symmetry is used for ids
and opaque values only, and only in runs without liveness properties.
`CHECK_DEADLOCK FALSE` stands where the system stops: a batch that ended, a
bounded number of refreshes or starts, requests that are all answered.

**Fairness.** Weak fairness of each goroutine (Go's scheduler is preemptive and
no goroutine waits for an event outside the model without a deadline: a fetch
has 20 s, a probe its own) and of the restart (`docker-compose.yml` has `restart:
unless-stopped`). Commands, edits, crashes and faults are never fair. Steps that wait
for `App.mu` or `persistenceMu` need only weak fairness because each holder
releases it after one more step and the goroutines that compete are finitely
many, except where a panic leaves the mutex locked; `BatchEnds` says so.

## 4. Findings

* `admins_last_owner`: "Prevent changing role of the last owner" is a count and
  a later write; two owners who demote or delete each other both pass, and no
  request can create an owner again.

**Known divergences.** Each of these has a configuration of its own that is not
among the listed runs; TLC prints the behaviour.

| command | what a comment promises, and what happens |
|---|---|
| `tlc -config MCSourceEdit.cfg MCSourceSync` | a PUT that leaves the HWID value out "retains the secret", but it writes back the value it read, over one that another PUT stored since |
| `tlc -config MCBackupArtifact.cfg MCBackup` | "recoverable prior artifact": after a stop between the two renames the next attempt removes `.previous`, the only artifact at that moment besides its own candidate; if its rename then fails, the candidate is removed too. One attempt alone is safe (`AttemptKeepsThePrior`) |
| `tlc -config MCReconcileConflict.cfg MCReconcile` | a row keeps the reference it was created with while its profile follows the label; after `[x:P1]`, `[x:P2]`, `[x:P2, y:P1]` the feed `[x:P1]` gives the first row a fingerprint that the second, not yet removed, still holds, and every refresh from it fails |
| `tlc -config MCHealthPanic.cfg MCHealthBatch` | a panic in the persister leaves `persistenceMu` locked, and the batch never ends instead of reporting a failed check |
| `tlc -config MCKeysImport.cfg MCKeys` | "above every other key in the category": `external_source_id != ?` is not true of a local key, whose column is NULL, so the place of an import is computed as if local keys were not there |
| `tlc -config MCTemplateInUse.cfg MCDelivery` | "template is used by a response rule" (`response_deletion_http.go:37`): `deleteTemplate` asks only whether the template is a system one, and the foreign key is ON DELETE SET NULL, so the delete succeeds and the rules that used the template lose it; a client they match gets the unmodified document of their format (`AnswersAreSound`) |
| `tlc -config MCMigrationsBaseline.cfg MCMigrations` | a stop between the creation of `schema_migrations` (`migrations.go:510`) and the end of the baseline: the next start finds the version table and records the baseline as applied |

More behaviours that are worth knowing; they contradict no comment:

* A link that matches by fingerprint may take a row that an earlier link of the
  same feed claimed by its label (`matchExisting` asks only the label match for an
  unclaimed row). With the row x:P1 the feed `[x:P2, y:P1]` loses P2 until the next
  refresh, which adds it; `RefreshSettles` shows it ends there.
* A TUIC link that repeats a parameter which carried a credential changes its
  fingerprint when it is stored in canonical form: `canonicalQuery` leaves out the
  first occurrence (`uri.go:400`), and the second becomes the only one.
  `StoredLinkKeepsIdentity` names this exception (`RepeatsCredential`).
* The user information of a TUIC link is ignored without a warning when UUID and
  password are both parameters.
* `handlers_admins.go:117` and `:249` read the session again and ignore its
  absence; the actor is then account 0, and the rules about one's own account do
  not apply.
* A login that read the hash before a change of the password and inserts its
  session after it keeps that session: the change has deleted what was there, and
  `apiLogin` does not look at the hash again. `SessionsEndWithThePassword` leaves
  such sessions out (`late`), and those whose deletion failed (`missed`);
  `tlc -config MCAdminsSession.cfg MCAdmins` shows the login.
* Deleting the category with the empty name together with its keys deletes every
  key without a category (`categories.go:99`, `key_category_repository.go:300`).
* The identifier of the blind index key is compared with the keyring only during
  version 12; a later start with another index key is accepted.

## 5. What is proved

For every value of the constants that satisfies the `ASSUME`s (bounds are
naturals, "nobody" and NULL values are not ordinary values, `Attempts` positive,
tables of `Keys` and `Migrations` finite):

* **SourceSync**: `SyncTypes`, `OnlyTheNewestOwns`, `EndedJobsAreFinal`,
  `NewestFetchWins` (refinement of `NewestFetch`). The invariant `IInv` is
  needed because neither ownership nor the promise is inductive: numbers in use
  are positive, issued and held once (`LeasesIssued`); a worker between the
  check and the UPDATE of a status holds `App.mu` and still owns the source
  (`CriticalSection`); an owner that may still publish has not been published
  (`OwnerUnpublished`), and what is shown was begun (`ShownBegan`); jobs have
  sources and rows have inputs; a job is open while it is served; nothing of
  the process survives it (`DownIsIdle`).
* **SourceSync, records**: `RecordsAreTheTruth`,
  `NoSyncingIsStranded`, `RecoveryEndsEverything`. `RecordsInv` adds to `IInv`
  that every claim of success is backed by a commit (`ClaimsAreTrue`) and that,
  while no statement has failed, a worker that has passed `FinishJob` or `FinishRun`
  has recorded its outcome (`OutcomeIsRecorded`).
* **Backup**: `BackupTypes`, `PublishedIsVerified`, `PriorIsKept`. `BackupInv`
  says at which path the artifact an attempt found is at each step
  (`PriorIsKnown`), that its export is verified before publication
  (`ExportIsVerified`) and no older than what it found (`ExportIsFresh`).
* **Admins**: `AdminsTypes`, `ChosenPasswordIsAccepted`, `OldSessionsEnd`,
  `OneBootstrap`. `AdminsInv` adds what the stage of a request says of its
  change (`RequestsAreSound`), that an unused id has no password
  (`UnusedIsUnset`), and that a start which found the table empty still holds the
  lock over an empty table (`EmptyIsLocked`).
* **SubscriptionPatch**: `PatchTypes`, `RowIsConsistent`,
  `OnlyContentionConflicts`, `PatchesAreAtomic` (refinement of `AtomicPatch`).
  `PatchInv` adds what a request knows (`Knows`): its snapshot is a row on which
  the patch was accepted, each earlier attempt met a change of the row, and so
  did this one if the row is no longer the snapshot. The refinement maps a
  waiting request to the patch it asks and its end to the answer; `Store` with an
  unchanged row is the moment of `Apply`, everything else stutters or refuses.
* **Delivery**: `DeliveryTypes`, `AnswersAreEntitled`, `CodesAreRedeemedOnce`,
  `DevicesFitTheLimit`. `DeliveryInv` adds that a request past its access check
  was entitled (`AdmittedWhileOpen`), what its stage says of its handler and rule
  (`RequestsAreSound`), that a registration between count and insert holds the
  write lock and still has room (`RegistrationsHoldTheLock`), that the devices
  are finitely many, and that a link given or loaded is the row's
  (`LinkIsGivenOnce`, `LoadedHasALink`). Deleting a template keeps the rules rules
  (`EmptiedRule`): their format stays, so the check of the answer still applies.
* **Keys**: `KeysTypes`, `EveryKeyIsGranted`, `RevisionsAreSavedOnce`, `IndexesTell`,
  `OrdersAreKept`. Twenty actions have one of five effects on the key table
  (`Effect`: rows rearranged, erased, born, rewritten, or only grants changed), and
  each part of `KeysInv` is shown for the five effects. Its parts beside the
  properties: types, what a request holds (`RequestsHold`), that the identifier
  to be given out next has no row and no history (`IdsAreFresh`, without which a
  new key could inherit saves), that saves started before the present revision
  (`SavesAreBefore`), and that indexes of local keys differ (`IndexesAreDistinct`).
  `OrdersAreKept` shows that only the saving of its own request ends an order
  (`OrderEndsBySaving`). Maxima of finite sets, which the tables' orders and
  identifiers are made of, have lemmas of their own (`GreatestValue`).
* **Migrations**: `ProfilesSurvive`, `RecordsAreTrue`, `ServerIsReady`,
  `MigrationsTypes`, `NoRowIsSkipped`. `MigrationsInv` says what form a row has by the versions done
  (`RowsAreReadable`), where the text of the announcement is (`TextIsKept`), and
  what has been recorded at each place of the start (`PlaceIsKnown`). For the last
  two theorems `TypedInv` adds the position within a start and `PassIsComplete`:
  every row up to the last id of the batches read has its envelope and, if local,
  its index; and `UrlsAreIndexed`: an index is of the profile's own URL, and the
  administrator's URLs differ from the record of version 10 to that of version 12,
  since only the transaction that creates the unique index writes the former and
  no profile is created before the latter. So the verification finds nothing to
  refuse but an envelope that the keyring of this start does not open. A batch ends at its greatest row, so that what is to be shown is that
  no waiting row up to that one is outside of it: a row has fewer rows up to it
  than a greater one has (`CountsGrow`).

* **HealthBatch**: `BatchTypes`, `SummaryIsTrue`, `ConcurrencyIsLimited`.
  `BatchInv` says where each target is by its place before or after the
  dispatcher's cursor (`TargetsAreTaken`), that the semaphore holds a token for
  each goroutine that has not reported (`SlotsAreCounted`), that who stores holds
  the mutex (`WriterHoldsTheMutex`), and that every counter of the summary is the
  number of targets with that outcome (`SummaryIsTheCount`), so that at the end
  the sum over the targets is all of them.
* **Reconcile**: `ReconcileTypes`, `ProfilesAreUnique`, `MetadataIsKept`,
  `SyncSettles`. `RowsInv` says of the rows between refreshes that references
  differ and that no row is referred to by the profile of a row without a
  fingerprint, unless it has that profile too (`UnmarkedIsUnrivalled`). Within a refresh, every link keeps `KeptState`: no
  matched row loses its reference, name or users, and no two rows a reference or
  fingerprint; that is carried along a feed of any length by taking the first
  link after which it would not hold. `History` says which link a row was
  written by last, `Pass` what a whole feed leaves, and `Settled` that no row shows
  a link it will be taken from again: one refresh settles the rows, and after that
  the same feed matches every row to the link it shows.
* **Feeds and Profiles**: `FeedsInvariant`, `KeysAreOnePerProfile`,
  `ChosenIsImported`, `StoredLinksAreRead`. `FeedsInv` says that a preview is the
  result of one body and an import takes references of that preview from a body.
  That a result has one key per identity is `Sound`, which every entry keeps, for
  bodies of any length by well-founded induction over their lines; a reference
  holds the text, so it names the same key in whatever feed. Two presentations
  have one fingerprint since a permutation of the parameters that keeps those of
  one name in order, with any spelling of the names, moves the fields and the
  extra lines onto themselves (`KeptMoved`); a change leaves another number of
  lines, or other values, under some name (`ChangesHaveOtherFingerprints`). A
  canonical link is accepted (`CanonicalIsAccepted`) because each reading is read
  as itself (`ReadingsSettle`), the first occurrence of a name in it is the field
  and the later ones are what was kept (`QueriesAreWritten`), and its places are
  those of the original in the same order, so writing it again yields the same
  (`QueriesSettle`, `CanonicalSettles`). A TUIC link that repeats a credential, and
  a read-only profile, are excepted as in the property.

TLC checked each of these invariants, or the properties they imply, before they
were proved.

Only model-checked: liveness (`JobsEnd`, `SyncingEnds`, `ChangesReachABackup`,
`BatchEnds`), which needs fairness and ENABLED. Every other property of a
passing run is a theorem. The recursions over a feed are recursive functions on
intervals whose equations are proved from the least number at which they could
fail (`CollectionExists`), since the library's induction theorems cannot be
instantiated. Text stays atomic in the proofs too: that `strconv` and `time` write
what they read is an assumption about the conversions, checked on the vocabulary.

## 6. Plan

Done, in this order: source synchronisation as the part with the most
interleaving, backup, administrators, reconciliation, the health batch, the
subscription columns; then sessions, delivery with activation and devices, keys
with entitlements and categories, keyring and migrations, profiles and feeds;
the proofs of `Admins`, `Delivery`, `Migrations`, `Keys` and of the records
of `SourceSync`; and those of `HealthBatch`, `Reconcile`, `Profiles` and `Feeds`.

Left: API tokens as a second way past the guard of `Admins`; the health check a
request runs itself, with its tracked job; `profileconfig`, of which `Feeds` knows
only whether it accepts a document. Next theorem:
that a refresh without a conflict of references never fails
(`NoFingerprintConflict` holds for feeds whose labels do not move).

## 7. Files

`MC<Module>.tla` and `MC<Name>.cfg` are the instances, `<Module>Proofs.tla` the
proofs. Proof modules extend the model and `TLAPS` and contain no model of their
own. Two hold the proofs of several modules: `JobsProofs` those of `HealthBatch`
and `Reconcile`, `SourcesProofs` those of `Profiles`, `Feeds` and `SourceSync`.

## 8. Not modelled, and why

* Rendering of client formats, pages and documents is text layout; the answer of
  `Delivery` is whether there is one and of which format.
* `profileconfig` drafts (structured configurations) are a value in `Keys` and a
  boolean in `Feeds`. Separators inside a value, limits on bytes, and the field
  observations of TUIC are text.
* Whether a fingerprint key is available, or rotated: `Reconcile` and `Feeds`
  assume the active one.
* Password hashing is cryptography: a hash is the password it encodes. AES-GCM
  and HMAC are ideal.
* SSRF and proxy policy is configuration. The rate limiter is sequential code
  under one mutex. Panel settings are single-statement upserts. Environment
  parsing happens once, before anything else.
* Happ routing and link encryption call an external service. The frontend is a
  client of the API. Audit events, notifications and metrics of requests change
  nothing that the models read. Remote services (feeds, probes) appear as answers
  that arrive, fail or time out.
