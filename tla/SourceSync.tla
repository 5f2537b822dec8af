---------------------------- MODULE SourceSync ----------------------------
(***************************************************************************)
(* Synchronisation of external subscription sources: the background jobs   *)
(* that fetch a source and reconcile its keys, the leases that decide which *)
(* fetch may speak for a source, the job and run records they keep, and the *)
(* administrator's commands that change a source under them.                *)
(*                                                                         *)
(* A job is served by one goroutine; any number of jobs may serve the same *)
(* source.  The lease table and its sequence live in memory under App.mu;  *)
(* everything else is in SQLite, where one statement, and one transaction,  *)
(* is one step.  A fetch is numbered by the order it begins in (began,      *)
(* newest, committed are history variables: no code reads them).            *)
(***************************************************************************)
EXTENDS Naturals

CONSTANTS
    Sources,        \* ids of external_subscription_sources (AUTOINCREMENT: never reused)
    Jobs,           \* ids of background_jobs of kind source_sync
    Editors,        \* concurrent PUT requests for a source
    Urls, Secrets,  \* source URLs; effective HWID headers
    NoInput,        \* the inputs of a row that does not exist
    NoJob,          \* nobody
    MaxEdits,       \* bound on committed source edits
    MaxCrashes,     \* bound on crashes of the process
    MaxFaults       \* bound on failed SQLite statements outside the import transaction

ASSUME BoundsAssumption == MaxEdits \in Nat /\ MaxCrashes \in Nat /\ MaxFaults \in Nat
ASSUME NobodyAssumption == NoJob \notin Jobs

Inputs == [url : Urls, secret : Secrets]

ASSUME NoInputAssumption == NoInput \notin Inputs

VARIABLES
    input,      \* [Sources -> Inputs]: source_url and the hwid_* columns
    status,     \* [Sources -> STRING]: import_status, or that the row does not exist
    shown,      \* [Sources -> record]: the fetch that the stored keys come from
    jobStatus,  \* [Jobs -> STRING]: background_jobs.status
    jobSource,  \* [Jobs -> Sources]: background_jobs.target_id
    runStatus,  \* [Jobs -> STRING]: the job's row of source_sync_runs
    owner,      \* [Sources -> Nat]: App.sourceFetchOwners, 0 when there is no entry
    sequence,   \* Nat: App.sourceFetchSequence
    mu,         \* who holds App.mu across two statements
    pc,         \* [Jobs -> STRING]: where the job's goroutine is
    seen,       \* [Jobs -> Inputs]: the row it read, and so the inputs of its lease
    lease,      \* [Jobs -> Nat]: its lease's sequence, 0 before it has one
    editor,     \* [Editors -> record]: what a PUT read before it writes
    up,         \* the process runs
    began,      \* [Jobs -> Nat]: its fetch's number among the source's fetches
    newest,     \* [Sources -> Nat]: number of fetches of the source that began
    committed,  \* jobs whose import transaction committed
    edits, crashes, faults

dbVars == <<input, status, shown, jobStatus, jobSource, runStatus>>
workerVars == <<pc, seen, lease, began>>
memVars == <<owner, sequence, mu>>
historyVars == <<newest, committed>>
boundVars == <<edits, crashes, faults>>
vars == <<dbVars, workerVars, memVars, editor, up, historyVars, boundVars>>

Stored == {"ok", "syncing", "error"}
Statuses == Stored \cup {"absent", "deleted"}
JobStatuses == {"none", "queued", "running", "succeeded", "failed"}
Terminal == {"succeeded", "failed"}
RunStatuses == {"none", "running", "succeeded", "failed"}

\* The goroutine's progress; "announcing" and "publishing" hold App.mu.
Leased == {"leased", "announcing", "fetching", "fetched", "reporting", "publishing",
           "settling", "closing", "releasing"}
Busy == Leased \cup {"queued", "marked", "opened", "located", "lost", "lostClosing"}
Places == Busy \cup {"idle", "done", "dead"}

NoEdit == [source |-> NoJob, secret |-> NoJob, retain |-> FALSE]

Live(s) == status[s] \in Stored

TypeOK ==
    /\ input \in [Sources -> Inputs \cup {NoInput}]
    /\ status \in [Sources -> Statuses]
    /\ shown \in [Sources -> [fetch : Nat, input : Inputs \cup {NoInput}]]
    /\ jobStatus \in [Jobs -> JobStatuses]
    /\ jobSource \in [Jobs -> Sources]
    /\ runStatus \in [Jobs -> RunStatuses]
    /\ owner \in [Sources -> Nat]
    /\ sequence \in Nat
    /\ mu \in Jobs \cup {NoJob}
    /\ pc \in [Jobs -> Places]
    /\ seen \in [Jobs -> Inputs \cup {NoInput}]
    /\ lease \in [Jobs -> Nat]
    /\ editor \in [Editors -> {NoEdit} \cup [source : Sources, secret : Secrets, retain : BOOLEAN]]
    /\ up \in BOOLEAN
    /\ began \in [Jobs -> Nat]
    /\ newest \in [Sources -> Nat]
    /\ committed \subseteq Jobs
    /\ edits \in Nat /\ crashes \in Nat /\ faults \in Nat

Init ==
    /\ input = [s \in Sources |-> NoInput]
    /\ status = [s \in Sources |-> "absent"]
    /\ shown = [s \in Sources |-> [fetch |-> 0, input |-> NoInput]]
    /\ jobStatus = [j \in Jobs |-> "none"]
    /\ jobSource \in [Jobs -> Sources]
    /\ runStatus = [j \in Jobs |-> "none"]
    /\ owner = [s \in Sources |-> 0]
    /\ sequence = 0
    /\ mu = NoJob
    /\ pc = [j \in Jobs |-> "idle"]
    /\ seen = [j \in Jobs |-> NoInput]
    /\ lease = [j \in Jobs |-> 0]
    /\ editor = [e \in Editors |-> NoEdit]
    /\ up = TRUE
    /\ began = [j \in Jobs |-> 0]
    /\ newest = [s \in Sources |-> 0]
    /\ committed = {}
    /\ edits = 0 /\ crashes = 0 /\ faults = 0

-----------------------------------------------------------------------------
(* The lease table.  lease[j] is at least 1 once the worker is leased, so a  *)
(* missing entry (0) is owned by no one.                                     *)

Owned(j) == owner[jobSource[j]] = lease[j]

\* Variant for the checks: a result is accepted whatever the row says now.
AnyInput(j) == TRUE

\* The lease's inputs against the row's.
InputMatches(j) == seen[j] = input[jobSource[j]]

\* A statement whose failure the code tolerates: it has its effect or not.
Try(ok) ==
    /\ ok \/ faults < MaxFaults
    /\ faults' = IF ok THEN faults ELSE faults + 1

Goto(j, place) == pc' = [pc EXCEPT ![j] = place]

-----------------------------------------------------------------------------
(* Queueing.  The row is written before its goroutine starts, and a job id   *)
(* of 0 (the INSERT failed) starts nothing.                                  *)

Queue(j, s) ==
    /\ jobStatus' = [jobStatus EXCEPT ![j] = "queued"]
    /\ jobSource' = [jobSource EXCEPT ![j] = s]
    /\ Goto(j, "queued")
    /\ UNCHANGED <<input, status, shown, runStatus, seen, lease, began, memVars, editor, up,
                   historyVars, boundVars>>

QueueSync(j) ==
    /\ up /\ jobStatus[j] = "none"
    /\ Live(jobSource[j])
    /\ Queue(j, jobSource[j])

\* A retry copies the target of a failed job and does not look the source up.
RetryJob(j, old) ==
    /\ up /\ jobStatus[j] = "none"
    /\ jobStatus[old] = "failed"
    /\ Queue(j, jobSource[old])

-----------------------------------------------------------------------------
(* The worker, runQueuedSourceSync, step by step.                            *)

MarkRunning(j) ==
    /\ pc[j] = "queued"
    /\ \E ok \in BOOLEAN :
        /\ Try(ok)
        /\ jobStatus' = IF ok /\ jobStatus[j] = "queued"
                        THEN [jobStatus EXCEPT ![j] = "running"] ELSE jobStatus
    /\ Goto(j, "marked")
    /\ UNCHANGED <<input, status, shown, jobSource, runStatus, seen, lease, began, memVars, editor,
                   up, historyVars, edits, crashes>>

\* Variant for the checks: a run opened with a status of another table.
StartRunQueued(j) ==
    /\ pc[j] = "marked"
    /\ runStatus' = [runStatus EXCEPT ![j] = "queued"]
    /\ Goto(j, "opened")
    /\ UNCHANGED <<input, status, shown, jobStatus, jobSource, seen, lease, began, memVars, editor,
                   up, historyVars, boundVars>>

\* The foreign key refuses a run of a deleted source; then there is no run id.
StartRun(j) ==
    /\ pc[j] = "marked"
    /\ \E ok \in BOOLEAN :
        /\ Try(ok)
        /\ runStatus' = IF ok /\ Live(jobSource[j])
                        THEN [runStatus EXCEPT ![j] = "running"] ELSE runStatus
    /\ Goto(j, "opened")
    /\ UNCHANGED <<input, status, shown, jobStatus, jobSource, seen, lease, began, memVars, editor,
                   up, historyVars, edits, crashes>>

\* The source row is read before the lease is taken.
ReadSource(j) ==
    /\ pc[j] = "opened"
    /\ \E ok \in BOOLEAN :
        /\ Try(ok)
        /\ IF ok /\ Live(jobSource[j])
           THEN /\ seen' = [seen EXCEPT ![j] = input[jobSource[j]]]
                /\ Goto(j, "located")
           ELSE /\ Goto(j, "lost")
                /\ UNCHANGED seen
    /\ UNCHANGED <<dbVars, lease, began, memVars, editor, up, historyVars, edits, crashes>>

\* Variant for the checks: numbers taken from the table, which forgets released
\* owners, come back.
PerSourceSequence(s) == owner[s] + 1

\* One sequence for all sources and never reset while the process runs.
NextSequence(s) == sequence + 1

BeginFetch(j) ==
    /\ pc[j] = "located"
    /\ mu = NoJob
    /\ sequence' = NextSequence(jobSource[j])
    /\ owner' = [owner EXCEPT ![jobSource[j]] = sequence']
    /\ lease' = [lease EXCEPT ![j] = sequence']
    /\ newest' = [newest EXCEPT ![jobSource[j]] = @ + 1]
    /\ began' = [began EXCEPT ![j] = newest[jobSource[j]] + 1]
    /\ Goto(j, "leased")
    /\ UNCHANGED <<dbVars, mu, seen, editor, up, committed, boundVars>>

\* Variant for the checks: an invalidated owner just leaves.
ResetNothing(s) == UNCHANGED status

\* Only a lingering "syncing" is ended: a completed state is kept.
ResetInvalidated(s) ==
    status' = IF status[s] = "syncing" THEN [status EXCEPT ![s] = "error"] ELSE status

\* markSourceFetchStatus up to its conditional UPDATE.  The mutex keeps other
\* workers out until that statement, but edits and deletions do not take it.
CheckStatus(j, from, locked, next) ==
    /\ pc[j] = from
    /\ mu = NoJob
    /\ \E ok \in BOOLEAN :
        /\ Try(ok)
        /\ \/ /\ Owned(j) /\ ok /\ Live(jobSource[j]) /\ InputMatches(j)
              /\ mu' = j
              /\ Goto(j, locked)
              /\ UNCHANGED status
           \/ /\ Owned(j) /\ ok /\ Live(jobSource[j]) /\ ~InputMatches(j)
              /\ ResetInvalidated(jobSource[j])
              /\ Goto(j, next)
              /\ UNCHANGED mu
           \/ /\ ~(Owned(j) /\ ok /\ Live(jobSource[j]))
              /\ Goto(j, next)
              /\ UNCHANGED <<status, mu>>
    /\ UNCHANGED <<input, shown, jobStatus, jobSource, runStatus, seen, lease, began, owner,
                   sequence, editor, up, historyVars, edits, crashes>>

\* The UPDATE compares the inputs again; a failure report that finds them
\* changed falls back to the reset, a "syncing" report does not.
WriteStatus(j, locked, value, next) ==
    /\ pc[j] = locked
    /\ \E ok \in BOOLEAN :
        /\ Try(ok)
        /\ IF ok /\ Live(jobSource[j]) /\ InputMatches(j)
           THEN status' = [status EXCEPT ![jobSource[j]] = value]
           ELSE IF ok /\ value = "error" THEN ResetInvalidated(jobSource[j])
           ELSE UNCHANGED status
    /\ mu' = NoJob
    /\ Goto(j, next)
    /\ UNCHANGED <<input, shown, jobStatus, jobSource, runStatus, seen, lease, began, owner,
                   sequence, editor, up, historyVars, edits, crashes>>

CheckSyncing(j) == CheckStatus(j, "leased", "announcing", "fetching")
WriteSyncing(j) == WriteStatus(j, "announcing", "syncing", "fetching")
CheckError(j) == CheckStatus(j, "reporting", "publishing", "settling")
WriteError(j) == WriteStatus(j, "publishing", "error", "settling")

\* The HTTP exchange holds nothing; it succeeds, fails or times out.
Fetch(j) ==
    /\ pc[j] = "fetching"
    /\ \E place \in {"fetched", "reporting"} : Goto(j, place)
    /\ UNCHANGED <<dbVars, seen, lease, began, memVars, editor, up, historyVars, boundVars>>

\* syncOwnedSourceResult: one transaction under App.mu reads the row, writes the
\* keys and the status "ok".  A snapshot overtaken by any other writer cannot
\* commit, so the transaction may fail at any time.
Commit(j) ==
    /\ Owned(j) /\ Live(jobSource[j]) /\ InputMatches(j)
    /\ shown' = [shown EXCEPT ![jobSource[j]] = [fetch |-> began[j], input |-> seen[j]]]
    /\ status' = [status EXCEPT ![jobSource[j]] = "ok"]
    /\ committed' = committed \cup {j}
    /\ Goto(j, "settling")

Reject(j) ==
    /\ Goto(j, "reporting")
    /\ UNCHANGED <<shown, status, committed>>

SyncResult(j) ==
    /\ pc[j] = "fetched"
    /\ mu = NoJob
    /\ Commit(j) \/ Reject(j)
    /\ UNCHANGED <<input, jobStatus, jobSource, runStatus, seen, lease, began, memVars, editor, up,
                   newest, boundVars>>

\* Variant for the checks: the error of the work is forgotten.
OutcomeIgnoresError(j) == "succeeded"

\* What the worker reports: its import committed or it met an error.
Outcome(j) == IF j \in committed THEN "succeeded" ELSE "failed"

FinishJob(j) ==
    /\ pc[j] \in {"settling", "lost"}
    /\ \E ok \in BOOLEAN :
        /\ Try(ok)
        /\ jobStatus' = IF ok THEN [jobStatus EXCEPT ![j] = Outcome(j)] ELSE jobStatus
    /\ Goto(j, IF pc[j] = "lost" THEN "lostClosing" ELSE "closing")
    /\ UNCHANGED <<input, status, shown, jobSource, runStatus, seen, lease, began, memVars, editor,
                   up, historyVars, edits, crashes>>

\* A run that was never inserted, or that its source's deletion removed, is
\* not written.
FinishRun(j) ==
    /\ pc[j] \in {"closing", "lostClosing"}
    /\ \E ok \in BOOLEAN :
        /\ Try(ok)
        /\ runStatus' = IF ok /\ runStatus[j] # "none"
                        THEN [runStatus EXCEPT ![j] = Outcome(j)] ELSE runStatus
    /\ Goto(j, IF pc[j] = "closing" THEN "releasing" ELSE "done")
    /\ UNCHANGED <<input, status, shown, jobStatus, jobSource, seen, lease, began, memVars, editor,
                   up, historyVars, edits, crashes>>

\* The deferred releaseSourceFetch.
Release(j) ==
    /\ pc[j] = "releasing"
    /\ mu = NoJob
    /\ owner' = IF Owned(j) THEN [owner EXCEPT ![jobSource[j]] = 0] ELSE owner
    /\ Goto(j, "done")
    /\ seen' = [seen EXCEPT ![j] = NoInput]
    /\ lease' = [lease EXCEPT ![j] = 0]
    /\ began' = [began EXCEPT ![j] = 0]
    /\ UNCHANGED <<dbVars, sequence, mu, editor, up, historyVars, boundVars>>

Worker(j) ==
    \/ MarkRunning(j) \/ StartRun(j) \/ ReadSource(j) \/ BeginFetch(j)
    \/ CheckSyncing(j) \/ WriteSyncing(j) \/ Fetch(j) \/ SyncResult(j)
    \/ CheckError(j) \/ WriteError(j)
    \/ FinishJob(j) \/ FinishRun(j) \/ Release(j)

-----------------------------------------------------------------------------
(* The administrator's commands, none of which takes App.mu.                 *)

UrlFree(s, url) == \A t \in Sources \ {s} : Live(t) => input[t].url # url

\* The first import and the row commit in one transaction.
CreateSource(s) ==
    /\ up /\ status[s] = "absent"
    /\ \E i \in Inputs :
        /\ UrlFree(s, i.url)
        /\ input' = [input EXCEPT ![s] = i]
        /\ shown' = [shown EXCEPT ![s] = [fetch |-> newest[s], input |-> i]]
    /\ status' = [status EXCEPT ![s] = "ok"]
    /\ UNCHANGED <<jobStatus, jobSource, runStatus, workerVars, memVars, editor, up, historyVars,
                   boundVars>>

\* A PUT reads the row first; a request without an HWID value retains the one
\* it read.
ReadForEdit(e) ==
    /\ up /\ editor[e] = NoEdit /\ edits < MaxEdits
    /\ \E s \in Sources, retain \in BOOLEAN :
        /\ Live(s)
        /\ editor' = [editor EXCEPT ![e] = [source |-> s, secret |-> input[s].secret,
                                            retain |-> retain]]
    /\ edits' = edits + 1
    /\ UNCHANGED <<dbVars, workerVars, memVars, up, historyVars, crashes, faults>>

\* The settings transaction: unconditional, refused when the row is gone or
\* another source has the URL.
EditSource(e) ==
    /\ up /\ editor[e] # NoEdit
    /\ LET s == editor[e].source IN
        \E i \in Inputs :
            /\ editor[e].retain => i.secret = editor[e].secret
            /\ input' = IF Live(s) /\ UrlFree(s, i.url) THEN [input EXCEPT ![s] = i] ELSE input
    /\ editor' = [editor EXCEPT ![e] = NoEdit]
    /\ UNCHANGED <<status, shown, jobStatus, jobSource, runStatus, workerVars, memVars, up,
                   historyVars, boundVars>>

\* The runs go with their source (ON DELETE CASCADE); the jobs stay.
DeleteSource(s) ==
    /\ up /\ Live(s)
    /\ status' = [status EXCEPT ![s] = "deleted"]
    /\ runStatus' = [j \in Jobs |-> IF jobSource[j] = s THEN "none" ELSE runStatus[j]]
    /\ UNCHANGED <<input, shown, jobStatus, jobSource, workerVars, memVars, editor, up,
                   historyVars, boundVars>>

-----------------------------------------------------------------------------
(* The process stops at any step; the next start recovers the database.      *)

Crash ==
    /\ up /\ crashes < MaxCrashes
    /\ crashes' = crashes + 1
    /\ up' = FALSE
    /\ pc' = [j \in Jobs |-> IF pc[j] \in Busy THEN "dead" ELSE pc[j]]
    /\ owner' = [s \in Sources |-> 0]
    /\ sequence' = 0
    /\ mu' = NoJob
    /\ editor' = [e \in Editors |-> NoEdit]
    /\ seen' = [j \in Jobs |-> NoInput]
    /\ lease' = [j \in Jobs |-> 0]
    /\ began' = [j \in Jobs |-> 0]
    /\ UNCHANGED <<dbVars, historyVars, edits, faults>>

\* Variants for the checks: recovery forgets the jobs that never started, or
\* rewrites every job.
RecoverRunningOnly ==
    jobStatus' = [j \in Jobs |-> IF jobStatus[j] = "running" THEN "failed" ELSE jobStatus[j]]
RecoverEveryJob ==
    jobStatus' = [j \in Jobs |-> IF jobStatus[j] # "none" THEN "failed" ELSE "none"]

\* recoverInterruptedJobs: three statements, each of which may fail alone.
RecoverJobs ==
    jobStatus' = [j \in Jobs |-> IF jobStatus[j] \in {"queued", "running"} THEN "failed"
                                 ELSE jobStatus[j]]
RecoverRuns ==
    runStatus' = [j \in Jobs |-> IF runStatus[j] = "running" THEN "failed" ELSE runStatus[j]]
RecoverSources ==
    status' = [s \in Sources |-> IF status[s] = "syncing" THEN "error" ELSE status[s]]

Restart ==
    /\ ~up
    /\ up' = TRUE
    /\ \/ RecoverJobs /\ RecoverRuns /\ RecoverSources /\ UNCHANGED faults
       \/ /\ Try(FALSE)
          /\ RecoverJobs \/ UNCHANGED jobStatus
          /\ RecoverRuns \/ UNCHANGED runStatus
          /\ RecoverSources \/ UNCHANGED status
    /\ UNCHANGED <<input, shown, jobSource, workerVars, memVars, editor, historyVars, edits,
                   crashes>>

-----------------------------------------------------------------------------

\* Nothing has to happen while no goroutine runs.
Quiet ==
    /\ up /\ \A j \in Jobs : pc[j] \notin Busy
    /\ UNCHANGED vars

Next ==
    \/ \E j \in Jobs : QueueSync(j) \/ Worker(j)
    \/ \E j, old \in Jobs : RetryJob(j, old)
    \/ \E s \in Sources : CreateSource(s) \/ DeleteSource(s)
    \/ \E e \in Editors : ReadForEdit(e) \/ EditSource(e)
    \/ Crash
    \/ Restart
    \/ Quiet

Spec == Init /\ [][Next]_vars

\* Go schedules every runnable goroutine, the fetch has a deadline, and the
\* container is restarted unless it is stopped.
FairSpec == Spec /\ (\A j \in Jobs : WF_vars(Worker(j))) /\ WF_vars(Restart)

-----------------------------------------------------------------------------
(* Properties                                                                *)

\* A source shows "syncing" only while the worker that owns its lease is still
\* going to end that status: no order of overlapping fetches, edits, retries
\* and restarts strands it (markSourceFetchStatus, resetInvalidatedSourceFetch-
\* Locked, releaseSourceFetch).  A failed status write is tolerated by the code
\* and excluded here.
SyncingIsAttended ==
    up /\ faults = 0 => \A s \in Sources : status[s] = "syncing" =>
        \E j \in Jobs :
            /\ jobSource[j] = s /\ Owned(j)
            /\ pc[j] \in {"leased", "announcing", "fetching", "fetched", "reporting", "publishing"}

\* The records never claim more than happened: a job or run is "succeeded" only
\* when its import committed, whatever failed or crashed in between; and when
\* no tracking write failed, a served job and its run say exactly what happened.
RecordsTellTheTruth ==
    \A j \in Jobs :
        /\ jobStatus[j] = "succeeded" => j \in committed
        /\ runStatus[j] = "succeeded" => j \in committed
        /\ pc[j] = "done" /\ faults = 0 =>
            /\ jobStatus[j] = IF j \in committed THEN "succeeded" ELSE "failed"
            /\ runStatus[j] \in {"none", jobStatus[j]}

\* A live owner of a source's lease holds the newest fetch of that source: the
\* table never gives a source back to an older worker, neither after a release
\* nor after the sequence restarts from zero with the process.
OwnerIsNewest ==
    \A j \in Jobs : pc[j] \in Leased /\ Owned(j) => began[j] = newest[jobSource[j]]

\* A job that has ended keeps its outcome: recovery, a retry and the remaining
\* steps of any goroutine leave it alone.
EndedJobsStay ==
    [][\A j \in Jobs : jobStatus[j] \in Terminal => jobStatus'[j] = jobStatus[j]]_vars

\* After the first step of a start no record is left "queued" or "running"
\* by the process that died, unless a recovery statement failed.
RecoveryIsComplete ==
    up /\ faults = 0 => \A j \in Jobs :
        pc[j] = "dead" => jobStatus[j] \in Terminal /\ runStatus[j] # "running"

\* Every queued job ends, and every "syncing" source leaves that status, unless
\* a tracking write failed.
JobsEnd ==
    \A j \in Jobs : (jobStatus[j] = "queued") ~> (jobStatus[j] \in Terminal \/ faults > 0)
SyncingEnds ==
    \A s \in Sources : (status[s] = "syncing") ~> (status[s] # "syncing" \/ faults > 0)

\* The abstract promise of a source: only the newest fetch speaks for it.
Promise == INSTANCE NewestFetch
ImplementsPromise == Promise!Spec

\* "Clear wins over replacement; absent, null and whitespace retain the secret."
\* (source_update_policy.go): a PUT without an HWID value leaves the stored one.
RetainKeepsSecret ==
    [][\A e \in Editors :
        editor[e] # NoEdit /\ editor'[e] = NoEdit /\ up' =>
            \A s \in {t \in Sources : t = editor[e].source} :
                editor[e].retain => input'[s].secret = input[s].secret]_vars
=============================================================================
