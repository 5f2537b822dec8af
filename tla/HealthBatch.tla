---------------------------- MODULE HealthBatch ----------------------------
(***************************************************************************)
(* The background job that probes every key: a dispatcher that starts one   *)
(* goroutine per enabled key as semaphore slots come free, the goroutines   *)
(* that probe concurrently and store their results one at a time, and the   *)
(* summary and status the job ends with.                                    *)
(*                                                                         *)
(* Targets are numbered in the order ListHealthCheckTargets returns them.   *)
(***************************************************************************)
EXTENDS Naturals, FiniteSets

CONSTANTS
    Size,               \* number of targets
    Concurrency,        \* keyHealthCheckConcurrency
    Nobody,
    MaxCrashes          \* bound on stops of the process

ASSUME SizeAssumption == Size \in Nat /\ Concurrency \in Nat \ {0} /\ MaxCrashes \in Nat

Targets == 1..Size

ASSUME NobodyAssumption == Nobody \notin Targets

VARIABLES
    kind,       \* [Targets -> STRING]: what the listing says of the key
    present,    \* keys whose row still exists
    check,      \* [Targets -> STRING]: vless_keys.check_status
    failures,   \* [Targets -> Nat]: vless_keys.health_failure_count
    job,        \* background_jobs.status; "down" while the process is, before recovery
    cursor,     \* the dispatcher's next target, 0 before it starts, Ended after
    pc,         \* [Targets -> STRING]: the target's goroutine
    outcome,    \* [Targets -> STRING]: what the probe or the skip came to
    persisted,  \* [Targets -> STRING]: how storing it went
    slots,      \* Nat: tokens in the semaphore channel
    mu,         \* who holds persistenceMu
    summary,    \* background_jobs.result_counts_json
    crashes

rowVars == <<kind, present, check, failures>>
vars == <<rowVars, job, cursor, pc, outcome, persisted, slots, mu, summary, crashes>>

Kinds == {"real", "disabled", "informational", "unreadable"}
Statuses == {"up", "down", "unsupported_check"}
Outcomes == {"none", "disabled", "informational", "unreadable", "failed"} \cup Statuses
Terminal == {"succeeded", "succeeded_with_warnings", "failed"}
Running == {"probing", "waiting", "saving", "reporting"}
Ended == Size + 2

Summaries == [checked : 0..Size, healthy : 0..Size, unhealthy : 0..Size, checkFailed : 0..Size,
              skippedDisabled : 0..Size, skippedUnsupported : 0..Size, persistedOK : 0..Size,
              persistFailed : 0..Size]
NoSummary == [checked |-> 0, healthy |-> 0, unhealthy |-> 0, checkFailed |-> 0, skippedDisabled |-> 0,
              skippedUnsupported |-> 0, persistedOK |-> 0, persistFailed |-> 0]

TypeOK ==
    /\ kind \in [Targets -> Kinds]
    /\ present \subseteq Targets
    /\ check \in [Targets -> Statuses \cup {"unknown"}]
    /\ failures \in [Targets -> Nat]
    /\ job \in {"queued", "running", "down"} \cup Terminal
    /\ cursor \in 0..Ended
    /\ pc \in [Targets -> Running \cup {"idle", "done"}]
    /\ outcome \in [Targets -> Outcomes]
    /\ persisted \in [Targets -> {"none", "ok", "failed"}]
    /\ slots \in 0..Concurrency
    /\ mu \in Targets \cup {Nobody}
    /\ summary \in Summaries
    /\ crashes \in 0..MaxCrashes

Init ==
    /\ kind \in [Targets -> Kinds]
    /\ present = Targets
    /\ check = [t \in Targets |-> "unknown"]
    /\ failures = [t \in Targets |-> 0]
    /\ job = "queued"
    /\ cursor = 0
    /\ pc = [t \in Targets |-> "idle"]
    /\ outcome = [t \in Targets |-> "none"]
    /\ persisted = [t \in Targets |-> "none"]
    /\ slots = 0
    /\ mu = Nobody
    /\ summary = NoSummary
    /\ crashes = 0

-----------------------------------------------------------------------------
(* The dispatcher.                                                           *)

\* The statements that write the job are not checked for errors: one that
\* fails leaves the row as it is.  The listing of the targets may fail; nothing
\* is probed then.
Begin ==
    /\ cursor = 0
    /\ \/ cursor' = 1 /\ job' \in {job, "running"}
       \/ cursor' = Ended /\ job' \in {job, "running", "failed"}
    /\ UNCHANGED <<rowVars, pc, outcome, persisted, slots, mu, summary, crashes>>

Reached(t) == cursor = t

\* skipTarget
Skip(t) ==
    /\ Reached(t)
    /\ kind[t] # "real"
    /\ outcome' = [outcome EXCEPT ![t] = kind[t]]
    /\ cursor' = cursor + 1
    /\ UNCHANGED <<rowVars, job, pc, persisted, slots, mu, summary, crashes>>

\* The dispatcher itself waits for a slot.
Dispatch(t) ==
    /\ Reached(t)
    /\ kind[t] = "real"
    /\ slots < Concurrency
    /\ slots' = slots + 1
    /\ pc' = [pc EXCEPT ![t] = "probing"]
    /\ cursor' = cursor + 1
    /\ UNCHANGED <<rowVars, job, outcome, persisted, mu, summary, crashes>>

Counted(S) == Cardinality({t \in Targets : outcome[t] \in S})

keyHealthCheckJobStatus(counts) ==
    IF counts.checkFailed > 0 \/ counts.persistFailed > 0 THEN "succeeded_with_warnings"
    ELSE "succeeded"

\* Variant for the checks: a failed probe counts as checked only when stored.
CountStored ==
    [checked |-> Cardinality({t \in Targets : pc[t] = "done" /\ persisted[t] # "none"}),
     healthy |-> Counted({"up"}), unhealthy |-> Counted({"down"}),
     checkFailed |-> Counted({"failed", "unreadable"}),
     skippedDisabled |-> Counted({"disabled"}),
     skippedUnsupported |-> Counted({"informational", "unsupported_check"}),
     persistedOK |-> Cardinality({t \in Targets : persisted[t] = "ok"}),
     persistFailed |-> Cardinality({t \in Targets : persisted[t] = "failed"})]

\* skipTarget's counts and record's, over the results channel.  The probe of
\* runQueuedKeyHealthCheck answers with one of Statuses; record would count any
\* other answer among the failed.
Count ==
    [checked |-> Cardinality({t \in Targets : pc[t] = "done"}),
     healthy |-> Counted({"up"}), unhealthy |-> Counted({"down"}),
     checkFailed |-> Counted({"failed", "unreadable"}),
     skippedDisabled |-> Counted({"disabled"}),
     skippedUnsupported |-> Counted({"informational", "unsupported_check"}),
     persistedOK |-> Cardinality({t \in Targets : persisted[t] = "ok"}),
     persistFailed |-> Cardinality({t \in Targets : persisted[t] = "failed"})]

\* waitGroup.Wait, the tally, and the job's UPDATE, which may fail.
Finish ==
    /\ cursor = Size + 1
    /\ \A t \in Targets : pc[t] \notin Running
    /\ \/ summary' = Count /\ job' = keyHealthCheckJobStatus(summary')
       \/ UNCHANGED <<summary, job>>
    /\ cursor' = Ended
    /\ UNCHANGED <<rowVars, pc, outcome, persisted, slots, mu, crashes>>

Dispatcher == Begin \/ (\E t \in Targets : Skip(t) \/ Dispatch(t)) \/ Finish

-----------------------------------------------------------------------------
(* A target's goroutine, checkKeyHealthTarget.                               *)

\* The probe answers, or it panics and the panic is recovered.
Probe(t) ==
    /\ pc[t] = "probing"
    /\ \/ \E status \in Statuses :
            /\ outcome' = [outcome EXCEPT ![t] = status]
            /\ pc' = [pc EXCEPT ![t] = "waiting"]
       \/ /\ outcome' = [outcome EXCEPT ![t] = "failed"]
          /\ pc' = [pc EXCEPT ![t] = "reporting"]
    /\ UNCHANGED <<rowVars, job, cursor, persisted, slots, mu, summary, crashes>>

Lock(t) ==
    /\ pc[t] = "waiting"
    /\ mu = Nobody
    /\ mu' = t
    /\ pc' = [pc EXCEPT ![t] = "saving"]
    /\ UNCHANGED <<rowVars, job, cursor, outcome, persisted, slots, summary, crashes>>

\* SaveHealthCheckResult's UPDATE.
Store(t) ==
    /\ check' = [check EXCEPT ![t] = outcome[t]]
    /\ failures' = [failures EXCEPT ![t] = CASE outcome[t] = "up" -> 0
                                             [] outcome[t] = "down" -> @ + 1
                                             [] OTHER -> @]

\* A deleted key is an error, as is a statement that fails.
Save(t) ==
    /\ pc[t] = "saving"
    /\ \/ /\ t \in present
          /\ Store(t)
          /\ persisted' = [persisted EXCEPT ![t] = "ok"]
       \/ /\ persisted' = [persisted EXCEPT ![t] = "failed"]
          /\ UNCHANGED <<check, failures>>
    /\ mu' = Nobody
    /\ pc' = [pc EXCEPT ![t] = "reporting"]
    /\ UNCHANGED <<kind, present, job, cursor, outcome, slots, summary, crashes>>

\* A panic while storing is recovered above the Unlock, which is not deferred:
\* the mutex stays locked.
SavePanics(t) ==
    /\ pc[t] = "saving"
    /\ \/ t \in present /\ Store(t)
       \/ UNCHANGED <<check, failures>>
    /\ outcome' = [outcome EXCEPT ![t] = "failed"]
    /\ pc' = [pc EXCEPT ![t] = "reporting"]
    /\ UNCHANGED <<kind, present, job, cursor, persisted, slots, mu, summary, crashes>>

\* Variant for the checks: a failed check keeps its slot.
ReleaseUnlessFailed(t) == slots' = IF outcome[t] = "failed" THEN slots ELSE slots - 1

ReleaseSlot(t) == slots' = slots - 1

\* The result is sent (the channel has room for all), the slot released.
Report(t) ==
    /\ pc[t] = "reporting"
    /\ ReleaseSlot(t)
    /\ pc' = [pc EXCEPT ![t] = "done"]
    /\ UNCHANGED <<rowVars, job, cursor, outcome, persisted, mu, summary, crashes>>

Check(t) == Probe(t) \/ Lock(t) \/ Save(t) \/ SavePanics(t) \/ Report(t)

-----------------------------------------------------------------------------

\* An administrator deletes a key while the batch runs.
DeleteKey(t) ==
    /\ t \in present
    /\ present' = present \ {t}
    /\ UNCHANGED <<kind, check, failures, job, cursor, pc, outcome, persisted, slots, mu, summary,
                   crashes>>

\* The process stops before the row of its job is closed.
Crash ==
    /\ job \in {"queued", "running"} /\ crashes < MaxCrashes
    /\ crashes' = crashes + 1
    /\ job' = "down" /\ cursor' = Ended
    /\ pc' = [t \in Targets |-> "idle"]
    /\ outcome' = [t \in Targets |-> "none"]
    /\ persisted' = [t \in Targets |-> "none"]
    /\ slots' = 0 /\ mu' = Nobody
    /\ UNCHANGED <<rowVars, summary>>

\* recoverInterruptedJobs; when its statement fails, the next start tries again.
Recover ==
    /\ job = "down"
    /\ job' = "failed"
    /\ UNCHANGED <<rowVars, cursor, pc, outcome, persisted, slots, mu, summary, crashes>>

Next ==
    \/ Dispatcher
    \/ \E t \in Targets : Check(t) \/ DeleteKey(t)
    \/ Crash \/ Recover

Spec == Init /\ [][Next]_vars

\* Go schedules every runnable goroutine, a probe has a deadline, and the
\* container is restarted unless it is stopped.
FairSpec ==
    Spec /\ WF_vars(Dispatcher) /\ (\A t \in Targets : WF_vars(Check(t))) /\ WF_vars(Recover)

-----------------------------------------------------------------------------
(* Properties                                                                *)

\* A batch that ends with plain success stored the result of every enabled key:
\* no probe that failed or panicked, unreadable key, deleted row or failed
\* write hides behind it.  And the summary accounts for every target exactly once,
\* whatever the order the goroutines ended in: it was skipped or checked, and what
\* was checked either failed or was stored or failed to be stored.
SummaryTellsTheTruth ==
  /\ job = "succeeded" =>
        \A t \in Targets : kind[t] # "disabled" /\ kind[t] # "informational" =>
            kind[t] = "real" /\ persisted[t] = "ok" /\ check[t] = outcome[t]
  /\ job \in {"succeeded", "succeeded_with_warnings"} =>
        LET unread == Cardinality({t \in Targets : kind[t] = "unreadable"})
            quiet == Cardinality({t \in Targets : kind[t] = "informational"})
        IN  /\ Size = summary.checked + summary.skippedDisabled + quiet + unread
            /\ summary.checked = summary.persistedOK + summary.persistFailed
                                 + summary.checkFailed - unread
            /\ summary.persistedOK + summary.persistFailed
                 = summary.healthy + summary.unhealthy + summary.skippedUnsupported - quiet

\* The mutex was left locked by a panic.
MutexLost == mu # Nobody /\ pc[mu] # "saving"

\* The batch is over, but the statement that closes its row failed.
Unwritten == cursor = Ended /\ job \in {"queued", "running"}

\* Every batch ends: dispatcher, semaphore, mutex and goroutines never wait for
\* each other for ever, unless a panic left the mutex locked; and its row is
\* closed, by the batch or by the next start, unless that statement failed.
BatchEnds == (job = "queued") ~> (job \in Terminal \/ Unwritten \/ MutexLost)

\* "A panic in the checker or persister is reported as a failed check"
\* (checkKeyHealthTarget): after a recovered panic the batch still ends, and a
\* summary it stores has that check among the failed ones.
PanicIsReported ==
    \A t \in Targets :
        (outcome[t] = "failed") ~>
            (cursor = Ended /\ (job \in Terminal \ {"failed"} => summary.checkFailed > 0))
=============================================================================
