----------------------------- MODULE JobsProofs -----------------------------
(****************************************************************************)
(* Proofs about what the two kinds of background job do, once the job table  *)
(* of SourceSync has let them run: HealthBatch, the batch of key checks, and *)
(* Reconcile, the writing of a fetched feed.                                 *)
(*                                                                          *)
(* HealthBatch: for any number of targets of any kinds, any number of slots, *)
(* and any panics, deletions and stops.  The inductive invariant says what   *)
(* each target's place in the batch tells of its result, and that the        *)
(* semaphore and the mutex are where the goroutines are.                     *)
(*                                                                          *)
(* Reconcile: for any stored rows, any profiles and labels, and feeds of any *)
(* length.  The inductive invariant is about the rows between refreshes;     *)
(* within a refresh, KeptState is what every link of the feed preserves.     *)
(****************************************************************************)
EXTENDS HealthBatch, Reconcile,
        FiniteSetTheorems, SequenceTheorems, WellFoundedInduction, TLAPS

\* The tokens in the semaphore are the goroutines that have not reported.
SlotsAreCounted ==
  /\ slots = Cardinality({t \in Targets : pc[t] \in Running})
  /\ slots <= Concurrency

\* Who stores a result holds the mutex.
WriterHoldsTheMutex == \A t \in Targets : pc[t] = "saving" => mu = t

\* A process that is not running the batch has no goroutine of it.
OnlyABatchRuns ==
  /\ cursor = 0 => job = "queued" /\ \A t \in Targets : pc[t] = "idle"
  /\ job \in {"down"} \cup Terminal => cursor = Ended
  /\ cursor = Ended => \A t \in Targets : pc[t] \notin Running

\* The dispatcher has not touched a target it has not reached, and has skipped or
\* started each one before its cursor.
TargetsAreTaken ==
  /\ \A t \in Targets : t >= cursor => pc[t] = "idle" /\ outcome[t] = "none" /\ persisted[t] = "none"
  /\ cursor # Ended \/ job \in {"succeeded", "succeeded_with_warnings"} =>
       \A t \in Targets : t < cursor =>
         IF kind[t] = "real" THEN pc[t] # "idle"
         ELSE pc[t] = "idle" /\ outcome[t] = kind[t] /\ persisted[t] = "none"

\* What a goroutine has done by each of its steps.
ProgressIsRecorded ==
  \A t \in Targets :
    /\ pc[t] # "idle" => kind[t] = "real"
    /\ pc[t] = "probing" => outcome[t] = "none" /\ persisted[t] = "none"
    /\ pc[t] \in {"waiting", "saving"} => outcome[t] \in Statuses /\ persisted[t] = "none"
    /\ pc[t] \in {"reporting", "done"} =>
         \/ outcome[t] \in Statuses /\ persisted[t] \in {"ok", "failed"}
         \/ outcome[t] = "failed" /\ persisted[t] = "none"
    /\ persisted[t] = "ok" => pc[t] \in {"reporting", "done"} /\ check[t] = outcome[t]

\* The summary of a batch that ended is the count of its results.
SummaryIsTheCount ==
  job \in {"succeeded", "succeeded_with_warnings"} =>
    /\ \A t \in Targets : pc[t] \notin Running
    /\ summary = Count
    /\ job = keyHealthCheckJobStatus(summary)

BatchInv ==
  /\ TypeOK
  /\ SlotsAreCounted
  /\ WriterHoldsTheMutex
  /\ OnlyABatchRuns
  /\ TargetsAreTaken
  /\ ProgressIsRecorded
  /\ SummaryIsTheCount

-----------------------------------------------------------------------------
(* Counting targets.                                                         *)

\* There are as many targets as the batch has places.
LEMMA TargetsAreFinite == IsFiniteSet(Targets) /\ Cardinality(Targets) = Size
<1>1. Size \in Int /\ 1 \in Int /\ (1 > Size => Size = 0)
  BY SizeAssumption
<1> QED
  BY <1>1, FS_Interval DEF Targets

\* Any set of targets has a count of at most Size.
LEMMA CountIsBounded ==
  ASSUME NEW S, S \subseteq Targets
  PROVE  IsFiniteSet(S) /\ Cardinality(S) \in 0..Size
<1>1. IsFiniteSet(S) /\ Cardinality(S) <= Size
  BY TargetsAreFinite, FS_Subset
<1> QED
  BY <1>1, FS_CardinalityType, SizeAssumption

\* Two sets of targets without a common one are counted apart.
LEMMA PartsAddUp ==
  ASSUME NEW A, NEW B, A \subseteq Targets, B \subseteq Targets, A \cap B = {}
  PROVE  Cardinality(A \cup B) = Cardinality(A) + Cardinality(B)
<1>1. IsFiniteSet(A) /\ IsFiniteSet(B)
  BY CountIsBounded
<1>2. Cardinality(A \cup B) = Cardinality(A) + Cardinality(B) - Cardinality(A \cap B)
  BY <1>1, FS_Union
<1>3. Cardinality(A \cap B) = 0 /\ Cardinality(A) \in Nat /\ Cardinality(B) \in Nat
  BY <1>1, FS_EmptySet, FS_CardinalityType
<1> QED
  BY <1>2, <1>3

\* The counts of the results fit the summary's type.
LEMMA CountFits == Count \in Summaries
<1>1. \A S : Counted(S) \in 0..Size
  BY CountIsBounded DEF Counted
<1>2. Cardinality({t \in Targets : pc[t] = "done"}) \in 0..Size
  BY CountIsBounded
<1>3. /\ Cardinality({t \in Targets : persisted[t] = "ok"}) \in 0..Size
      /\ Cardinality({t \in Targets : persisted[t] = "failed"}) \in 0..Size
  BY CountIsBounded
<1> QED
  BY <1>1, <1>2, <1>3 DEF Count, Summaries

-----------------------------------------------------------------------------
(* The invariant is inductive.                                               *)

\* A queued batch has done nothing.
LEMMA BatchInit == Init => BatchInv
<1> SUFFICES ASSUME Init PROVE BatchInv
  OBVIOUS
<1>1. /\ kind \in [Targets -> Kinds] /\ present = Targets /\ job = "queued" /\ cursor = 0 /\ slots = 0
      /\ mu = Nobody /\ summary = NoSummary /\ crashes = 0 /\ Ended # 0
      /\ check = [t \in Targets |-> "unknown"] /\ failures = [t \in Targets |-> 0]
      /\ pc = [t \in Targets |-> "idle"] /\ outcome = [t \in Targets |-> "none"]
      /\ persisted = [t \in Targets |-> "none"]
  BY SizeAssumption DEF Init, Ended
<1>2. NoSummary \in Summaries
  BY SizeAssumption DEF NoSummary, Summaries
<1>3. TypeOK
  BY <1>1, <1>2, SizeAssumption DEF TypeOK, Outcomes, Ended
<1>4. {t \in Targets : pc[t] \in Running} = {}
  BY <1>1 DEF Running
<1>5. SlotsAreCounted
  BY <1>1, <1>4, FS_EmptySet, SizeAssumption DEF SlotsAreCounted
<1>6. WriterHoldsTheMutex /\ OnlyABatchRuns /\ TargetsAreTaken /\ ProgressIsRecorded /\ SummaryIsTheCount
  BY <1>1, SizeAssumption DEF WriterHoldsTheMutex, OnlyABatchRuns, TargetsAreTaken, ProgressIsRecorded,
     SummaryIsTheCount, Terminal, Targets
<1> QED
  BY <1>3, <1>5, <1>6 DEF BatchInv

\* A goroutine that runs has a token in the semaphore.
LEMMA RunningHasASlot ==
  ASSUME TypeOK, SlotsAreCounted, NEW t \in Targets, pc[t] \in Running
  PROVE  slots \in Nat \ {0} /\ slots - 1 \in 0..Concurrency
<1> DEFINE R == {u \in Targets : pc[u] \in Running}
<1>1. IsFiniteSet(R) /\ R # {}
  BY CountIsBounded
<1>2. Cardinality(R) # 0
  BY <1>1, FS_EmptySet
<1> QED
  BY <1>2, SizeAssumption DEF SlotsAreCounted, TypeOK

\* Types of the next state.
LEMMA BatchTyped == BatchInv /\ [Next]_vars => TypeOK'
<1> SUFFICES ASSUME BatchInv, [Next]_vars PROVE TypeOK'
  OBVIOUS
<1>0. TypeOK /\ SlotsAreCounted /\ ProgressIsRecorded
  BY DEF BatchInv
<1> USE SizeAssumption
<1>1. CASE Begin
  BY <1>0, <1>1 DEF TypeOK, Begin, rowVars, Terminal, Ended
<1>2. ASSUME NEW t \in Targets, Skip(t) PROVE TypeOK'
  BY <1>0, <1>2 DEF TypeOK, Skip, Reached, rowVars, Outcomes, Kinds, Targets, Ended
<1>3. ASSUME NEW t \in Targets, Dispatch(t) PROVE TypeOK'
  BY <1>0, <1>3 DEF TypeOK, Dispatch, Reached, rowVars, Running, Targets, Ended
<1>4. CASE Finish
  <2>1. summary' \in Summaries
    BY <1>0, <1>4, CountFits DEF Finish, TypeOK
  <2>2. job' = job \/ job' \in Terminal
    BY <1>0, <1>4 DEF Finish, keyHealthCheckJobStatus, Terminal
  <2> QED
    BY <1>0, <1>4, <2>1, <2>2 DEF TypeOK, Finish, rowVars, Ended
<1>5. ASSUME NEW t \in Targets, Probe(t) PROVE TypeOK'
  BY <1>0, <1>5 DEF TypeOK, Probe, rowVars, Running, Outcomes
<1>6. ASSUME NEW t \in Targets, Lock(t) PROVE TypeOK'
  BY <1>0, <1>6 DEF TypeOK, Lock, rowVars, Running
<1>7. ASSUME NEW t \in Targets, Save(t) PROVE TypeOK'
  <2>1. outcome[t] \in Statuses
    BY <1>0, <1>7 DEF Save, ProgressIsRecorded
  <2>2. check' \in [Targets -> Statuses \cup {"unknown"}]
    BY <1>0, <1>7, <2>1 DEF TypeOK, Save, Store
  <2>3. failures' \in [Targets -> Nat]
    BY <1>0, <1>7 DEF TypeOK, Save, Store
  <2>4. persisted' \in [Targets -> {"none", "ok", "failed"}]
    BY <1>0, <1>7 DEF TypeOK, Save
  <2> QED
    BY <1>0, <1>7, <2>2, <2>3, <2>4 DEF TypeOK, Save, Running
<1>8. ASSUME NEW t \in Targets, SavePanics(t) PROVE TypeOK'
  <2>1. outcome[t] \in Statuses
    BY <1>0, <1>8 DEF SavePanics, ProgressIsRecorded
  <2>2. check' \in [Targets -> Statuses \cup {"unknown"}]
    BY <1>0, <1>8, <2>1 DEF TypeOK, SavePanics, Store
  <2>3. failures' \in [Targets -> Nat]
    BY <1>0, <1>8 DEF TypeOK, SavePanics, Store
  <2> QED
    BY <1>0, <1>8, <2>2, <2>3 DEF TypeOK, SavePanics, Running, Outcomes
<1>9. ASSUME NEW t \in Targets, Report(t) PROVE TypeOK'
  <2>1. slots' \in 0..Concurrency
    BY <1>0, <1>9, RunningHasASlot DEF Report, ReleaseSlot, Running
  <2> QED
    BY <1>0, <1>9, <2>1 DEF TypeOK, Report, rowVars, Running
<1>10. ASSUME NEW t \in Targets, DeleteKey(t) PROVE TypeOK'
  BY <1>0, <1>10 DEF TypeOK, DeleteKey
<1>11. CASE Crash
  BY <1>0, <1>11 DEF TypeOK, Crash, rowVars, Outcomes, Ended
<1>12. CASE Recover
  BY <1>0, <1>12 DEF TypeOK, Recover, rowVars, Terminal
<1>13. CASE UNCHANGED vars
  BY <1>0, <1>13 DEF TypeOK, vars, rowVars
<1> QED
  BY <1>1, <1>2, <1>3, <1>4, <1>5, <1>6, <1>7, <1>8, <1>9, <1>10, <1>11, <1>12, <1>13
     DEF Next, Dispatcher, Check

\* The semaphore follows the goroutines: a dispatch takes a token, a report gives
\* it back, and no other step starts or ends one.
LEMMA SlotsFollow == BatchInv /\ [Next]_vars => SlotsAreCounted'
<1> SUFFICES ASSUME BatchInv, [Next]_vars PROVE SlotsAreCounted'
  OBVIOUS
<1> DEFINE R == {t \in Targets : pc[t] \in Running}
<1>0. /\ pc \in [Targets -> Running \cup {"idle", "done"}] /\ slots \in Nat /\ Concurrency \in Nat
      /\ slots = Cardinality(R) /\ slots <= Concurrency /\ IsFiniteSet(R)
      /\ TargetsAreTaken /\ TypeOK /\ SlotsAreCounted
  BY CountIsBounded, SizeAssumption DEF BatchInv, TypeOK, SlotsAreCounted
<1>1. ASSUME UNCHANGED <<pc, slots>> PROVE SlotsAreCounted'
  BY <1>0, <1>1 DEF SlotsAreCounted
<1>2. ASSUME NEW t \in Targets, Dispatch(t) PROVE SlotsAreCounted'
  <2>1. pc[t] = "idle" /\ pc' = [pc EXCEPT ![t] = "probing"] /\ slots' = slots + 1 /\ slots < Concurrency
    BY <1>0, <1>2 DEF Dispatch, Reached, TargetsAreTaken, TypeOK, Targets
  <2>2. R' = R \cup {t} /\ t \notin R
    BY <1>0, <2>1 DEF Running
  <2>3. Cardinality(R \cup {t}) = Cardinality(R) + 1
    BY <1>0, <2>2, FS_AddElement
  <2> QED
    BY <1>0, <2>1, <2>2, <2>3 DEF SlotsAreCounted
<1>3. ASSUME NEW t \in Targets, Report(t) PROVE SlotsAreCounted'
  <2>1. pc[t] = "reporting" /\ pc' = [pc EXCEPT ![t] = "done"] /\ slots' = slots - 1
    BY <1>3 DEF Report, ReleaseSlot
  <2>2. R' = R \ {t} /\ t \in R
    BY <1>0, <2>1 DEF Running
  <2>3. Cardinality(R \ {t}) = Cardinality(R) - 1
    BY <1>0, <2>2, FS_RemoveElement
  <2>4. slots \in Nat \ {0}
    BY <1>0, <2>1, RunningHasASlot DEF Running
  <2>5. Cardinality(R') = slots'
    BY <1>0, <2>1, <2>2, <2>3
  <2>6. slots' <= Concurrency
    BY <1>0, <2>1, <2>4
  <2> QED
    BY <2>5, <2>6 DEF SlotsAreCounted
<1>4. ASSUME NEW t \in Targets, Probe(t) \/ Lock(t) \/ Save(t) \/ SavePanics(t) PROVE SlotsAreCounted'
  <2>1. pc[t] \in Running /\ slots' = slots
        /\ \E step \in Running : pc' = [pc EXCEPT ![t] = step]
    BY <1>4 DEF Probe, Lock, Save, SavePanics, Running
  <2>2. R' = R
    BY <1>0, <2>1 DEF Running
  <2> QED
    BY <1>0, <2>1, <2>2 DEF SlotsAreCounted
<1>5. CASE Crash
  <2>1. slots' = 0 /\ R' = {}
    BY <1>5 DEF Crash, Running
  <2> QED
    BY <1>0, <2>1, FS_EmptySet DEF SlotsAreCounted
<1> QED
  <2>1. ASSUME NEW t \in Targets, Skip(t) \/ DeleteKey(t) PROVE SlotsAreCounted'
    BY <1>1, <2>1 DEF Skip, DeleteKey
  <2>2. CASE Begin \/ Finish \/ Recover
    BY <1>1, <2>2 DEF Begin, Finish, Recover
  <2>3. CASE UNCHANGED vars
    BY <1>1, <2>3 DEF vars
  <2> QED
    BY <1>2, <1>3, <1>4, <1>5, <2>1, <2>2, <2>3 DEF Next, Dispatcher, Check

\* One goroutine at a time stores a result, and it holds the mutex.
LEMMA MutexFollows == BatchInv /\ [Next]_vars => WriterHoldsTheMutex'
<1> SUFFICES ASSUME BatchInv, [Next]_vars PROVE WriterHoldsTheMutex'
  OBVIOUS
<1>0. TypeOK /\ WriterHoldsTheMutex
  BY DEF BatchInv
<1> USE DEF WriterHoldsTheMutex
<1>1. ASSUME NEW t \in Targets, Dispatch(t) \/ Probe(t) \/ Report(t) PROVE WriterHoldsTheMutex'
  BY <1>0, <1>1 DEF Dispatch, Probe, Report, TypeOK
<1>2. ASSUME NEW t \in Targets, Lock(t) PROVE WriterHoldsTheMutex'
  BY <1>0, <1>2, NobodyAssumption DEF Lock, TypeOK
<1>3. ASSUME NEW t \in Targets, Save(t) PROVE WriterHoldsTheMutex'
  BY <1>0, <1>3 DEF Save, TypeOK
<1>4. ASSUME NEW t \in Targets, SavePanics(t) PROVE WriterHoldsTheMutex'
  BY <1>0, <1>4 DEF SavePanics, TypeOK
<1>5. CASE Crash
  BY <1>5 DEF Crash
<1>6. ASSUME NEW t \in Targets, Skip(t) \/ DeleteKey(t) PROVE WriterHoldsTheMutex'
  BY <1>0, <1>6 DEF Skip, DeleteKey
<1>7. CASE Begin \/ Finish \/ Recover
  BY <1>0, <1>7 DEF Begin, Finish, Recover
<1>8. CASE UNCHANGED vars
  BY <1>0, <1>8 DEF vars
<1> QED
  BY <1>1, <1>2, <1>3, <1>4, <1>5, <1>6, <1>7, <1>8 DEF Next, Dispatcher, Check

\* The goroutines of a batch live no longer than the batch.
LEMMA BatchFollows == BatchInv /\ [Next]_vars => OnlyABatchRuns'
<1> SUFFICES ASSUME BatchInv, [Next]_vars PROVE OnlyABatchRuns'
  OBVIOUS
<1>0. TypeOK /\ OnlyABatchRuns /\ TargetsAreTaken
  BY DEF BatchInv
<1>e. Ended = Size + 2 /\ Size \in Nat /\ cursor \in Nat
  BY <1>0, SizeAssumption DEF Ended, TypeOK
<1> USE DEF OnlyABatchRuns
<1>1. CASE Begin
  <2>1. \A t \in Targets : pc'[t] = "idle"
    BY <1>0, <1>1 DEF Begin
  <2> QED
    BY <1>0, <1>e, <1>1, <2>1 DEF Begin, Running, Terminal
<1>2. ASSUME NEW t \in Targets, Skip(t) \/ Dispatch(t) PROVE OnlyABatchRuns'
  <2>1. t \in 1..Size /\ cursor = t /\ cursor' = t + 1 /\ job' = job
    BY <1>2 DEF Skip, Dispatch, Reached, Targets
  <2>2. cursor # Ended /\ cursor' # Ended /\ cursor' # 0
    BY <1>e, <2>1
  <2> QED
    BY <1>0, <2>1, <2>2
<1>3. CASE Finish
  BY <1>e, <1>3 DEF Finish
<1>4. ASSUME NEW t \in Targets, Check(t) PROVE OnlyABatchRuns'
  <2>1. pc[t] \in Running /\ UNCHANGED <<job, cursor>>
    BY <1>4 DEF Check, Probe, Lock, Save, SavePanics, Report, Running
  <2>2. cursor # 0 /\ cursor # Ended
    BY <1>0, <2>1 DEF Running
  <2> QED
    BY <1>0, <2>1, <2>2
<1>5. ASSUME NEW t \in Targets, DeleteKey(t) PROVE OnlyABatchRuns'
  BY <1>0, <1>5 DEF DeleteKey
<1>6. CASE Crash
  BY <1>e, <1>6 DEF Crash, Running
<1>7. CASE Recover
  BY <1>0, <1>e, <1>7 DEF Recover
<1>8. CASE UNCHANGED vars
  BY <1>0, <1>8 DEF vars
<1> QED
  BY <1>1, <1>2, <1>3, <1>4, <1>5, <1>6, <1>7, <1>8 DEF Next, Dispatcher

\* Targets are taken in order, each of them once, as the listing says of it.
LEMMA DispatchFollows == BatchInv /\ [Next]_vars => TargetsAreTaken'
<1> SUFFICES ASSUME BatchInv, [Next]_vars PROVE TargetsAreTaken'
  OBVIOUS
<1>0. TypeOK /\ TargetsAreTaken /\ OnlyABatchRuns /\ ProgressIsRecorded /\ Targets \subseteq Nat
      /\ cursor \in Nat
  BY SizeAssumption DEF BatchInv, TypeOK, Targets
<1>1. CASE Begin
  <2>1. \A t \in Targets : pc[t] = "idle" /\ outcome[t] = "none" /\ persisted[t] = "none" /\ ~(t < 1)
    BY <1>0, <1>1, SizeAssumption DEF Begin, OnlyABatchRuns, TargetsAreTaken, Targets
  <2> QED
    <3>1. job' \in {"queued", "running", "failed"} /\ UNCHANGED <<pc, outcome, persisted>>
          /\ (cursor' = 1 \/ cursor' = Ended) /\ Ended' = Ended
      BY <1>0, <1>1 DEF Begin, OnlyABatchRuns, Ended
    <3> QED
      BY <2>1, <3>1 DEF TargetsAreTaken
<1>2. ASSUME NEW t \in Targets, Skip(t) PROVE TargetsAreTaken'
  <2>1. /\ cursor = t /\ cursor # Ended /\ kind[t] # "real" /\ cursor' = cursor + 1
        /\ outcome' = [outcome EXCEPT ![t] = kind[t]] /\ UNCHANGED <<kind, job, pc, persisted>>
    BY <1>2, SizeAssumption DEF Skip, Reached, rowVars, Targets, Ended
  <2>2. pc[t] = "idle" /\ persisted[t] = "none"
    BY <1>0, <2>1 DEF TargetsAreTaken
  <2>3. \A u \in Targets : /\ u >= cursor' => u >= cursor /\ u # t
                           /\ u < cursor' => u < cursor \/ u = t
    BY <1>0, <2>1
  <2> QED
    BY <1>0, <2>1, <2>2, <2>3 DEF TypeOK, TargetsAreTaken
<1>3. ASSUME NEW t \in Targets, Dispatch(t) PROVE TargetsAreTaken'
  <2>1. /\ cursor = t /\ cursor # Ended /\ kind[t] = "real" /\ cursor' = cursor + 1
        /\ pc' = [pc EXCEPT ![t] = "probing"] /\ UNCHANGED <<kind, job, outcome, persisted>>
    BY <1>3, SizeAssumption DEF Dispatch, Reached, rowVars, Targets, Ended
  <2>2. \A u \in Targets : /\ u >= cursor' => u >= cursor /\ u # t
                           /\ u < cursor' => u < cursor \/ u = t
    BY <1>0, <2>1
  <2> QED
    BY <1>0, <2>1, <2>2 DEF TypeOK, TargetsAreTaken
<1>4. CASE Finish
  <2>1. /\ cursor # Ended /\ cursor' = Ended /\ UNCHANGED <<kind, pc, outcome, persisted>>
        /\ \A t \in Targets : t < cursor /\ ~(t >= cursor')
    BY <1>4, SizeAssumption DEF Finish, rowVars, Targets, Ended
  <2> QED
    BY <1>0, <2>1 DEF TargetsAreTaken
<1>5. ASSUME NEW t \in Targets, Check(t) PROVE TargetsAreTaken'
  <2>1. /\ pc[t] # "idle" /\ pc'[t] # "idle" /\ kind[t] = "real"
        /\ \A u \in Targets : u # t => pc'[u] = pc[u] /\ outcome'[u] = outcome[u] /\ persisted'[u] = persisted[u]
        /\ UNCHANGED <<kind, job, cursor>>
    BY <1>0, <1>5 DEF Check, Probe, Lock, Save, SavePanics, Report, TypeOK, rowVars, ProgressIsRecorded
  <2> QED
    BY <1>0, <2>1 DEF TargetsAreTaken
<1>6. ASSUME NEW t \in Targets, DeleteKey(t) PROVE TargetsAreTaken'
  BY <1>0, <1>6 DEF DeleteKey, TargetsAreTaken
<1>7. CASE Crash
  <2>1. cursor' = Ended /\ job' = "down"
        /\ \A t \in Targets : pc'[t] = "idle" /\ outcome'[t] = "none" /\ persisted'[t] = "none"
    BY <1>7 DEF Crash
  <2>2. Ended' = Ended
    BY DEF Ended
  <2> QED
    BY <2>1, <2>2 DEF TargetsAreTaken
<1>8. CASE Recover
  BY <1>0, <1>8 DEF Recover, rowVars, TargetsAreTaken, OnlyABatchRuns
<1>9. CASE UNCHANGED vars
  BY <1>0, <1>9 DEF vars, rowVars, TargetsAreTaken
<1> QED
  BY <1>1, <1>2, <1>3, <1>4, <1>5, <1>6, <1>7, <1>8, <1>9 DEF Next, Dispatcher

\* Each step of a goroutine leaves what the next one counts on.
LEMMA ProgressFollows == BatchInv /\ [Next]_vars => ProgressIsRecorded'
<1> SUFFICES ASSUME BatchInv, [Next]_vars PROVE ProgressIsRecorded'
  OBVIOUS
<1>0. TypeOK /\ TargetsAreTaken /\ ProgressIsRecorded
  BY DEF BatchInv
<1> USE DEF ProgressIsRecorded
<1>1. CASE Begin \/ Finish \/ Recover
  BY <1>0, <1>1 DEF Begin, Finish, Recover, rowVars
<1>2. ASSUME NEW t \in Targets, Skip(t) PROVE ProgressIsRecorded'
  <2>1. pc[t] = "idle" /\ persisted[t] = "none"
    BY <1>0, <1>2 DEF Skip, Reached, TargetsAreTaken, TypeOK, Targets
  <2> QED
    BY <1>0, <1>2, <2>1 DEF Skip, TypeOK, rowVars
<1>3. ASSUME NEW t \in Targets, Dispatch(t) PROVE ProgressIsRecorded'
  <2>1. outcome[t] = "none" /\ persisted[t] = "none"
    BY <1>0, <1>3 DEF Dispatch, Reached, TargetsAreTaken, TypeOK, Targets
  <2> QED
    BY <1>0, <1>3, <2>1 DEF Dispatch, Reached, TypeOK, rowVars
<1>4. ASSUME NEW t \in Targets, Probe(t) PROVE ProgressIsRecorded'
  BY <1>0, <1>4 DEF Probe, TypeOK, rowVars
<1>5. ASSUME NEW t \in Targets, Lock(t) PROVE ProgressIsRecorded'
  BY <1>0, <1>5 DEF Lock, TypeOK, rowVars
<1>6. ASSUME NEW t \in Targets, Save(t) PROVE ProgressIsRecorded'
  <2>1. /\ pc[t] = "saving" /\ pc' = [pc EXCEPT ![t] = "reporting"] /\ UNCHANGED <<kind, outcome>>
        /\ \/ /\ check' = [check EXCEPT ![t] = outcome[t]]
              /\ persisted' = [persisted EXCEPT ![t] = "ok"]
           \/ persisted' = [persisted EXCEPT ![t] = "failed"] /\ check' = check
    BY <1>6 DEF Save, Store
  <2> QED
    BY <1>0, <2>1 DEF TypeOK
<1>7. ASSUME NEW t \in Targets, SavePanics(t) PROVE ProgressIsRecorded'
  <2>1. /\ pc[t] = "saving" /\ pc' = [pc EXCEPT ![t] = "reporting"] /\ UNCHANGED <<kind, persisted>>
        /\ outcome' = [outcome EXCEPT ![t] = "failed"]
        /\ (check' = [check EXCEPT ![t] = outcome[t]] \/ check' = check)
    BY <1>7 DEF SavePanics, Store
  <2> QED
    BY <1>0, <2>1 DEF TypeOK
<1>8. ASSUME NEW t \in Targets, Report(t) PROVE ProgressIsRecorded'
  BY <1>0, <1>8 DEF Report, TypeOK, rowVars
<1>9. ASSUME NEW t \in Targets, DeleteKey(t) PROVE ProgressIsRecorded'
  BY <1>0, <1>9 DEF DeleteKey
<1>10. CASE Crash
  BY <1>10 DEF Crash, rowVars
<1>11. CASE UNCHANGED vars
  BY <1>0, <1>11 DEF vars, rowVars
<1> QED
  BY <1>1, <1>2, <1>3, <1>4, <1>5, <1>6, <1>7, <1>8, <1>9, <1>10, <1>11 DEF Next, Dispatcher, Check

\* Nothing changes what an ended batch has counted.
LEMMA SummaryFollows == BatchInv /\ [Next]_vars => SummaryIsTheCount'
<1> SUFFICES ASSUME BatchInv, [Next]_vars, job' \in {"succeeded", "succeeded_with_warnings"}
             PROVE  /\ \A t \in Targets : pc'[t] \notin Running
                    /\ summary' = Count'
                    /\ job' = keyHealthCheckJobStatus(summary')
  BY DEF SummaryIsTheCount, keyHealthCheckJobStatus
<1>0. SummaryIsTheCount /\ OnlyABatchRuns
  BY DEF BatchInv
<1>e. job \in {"succeeded", "succeeded_with_warnings"} => cursor = Size + 2
  BY <1>0 DEF OnlyABatchRuns, Terminal, Ended
<1>1. CASE Finish
  <2>1. Count' = Count
    BY <1>1 DEF Finish, Count, Counted
  <2>2. job' # job
    BY <1>e, <1>1, SizeAssumption DEF Finish
  <2> QED
    BY <1>1, <2>1, <2>2 DEF Finish
<1>2. CASE UNCHANGED <<job, pc, outcome, persisted, summary>>
  <2>1. Count' = Count
    BY <1>2 DEF Count, Counted
  <2> QED
    BY <1>0, <1>2, <2>1 DEF SummaryIsTheCount
<1>3. CASE job' # job
  BY <1>1, <1>3 DEF Next, Dispatcher, Check, Begin, Skip, Dispatch, Probe, Lock, Save, SavePanics, Report,
     DeleteKey, Crash, Recover, vars
<1>4. ASSUME NEW t \in Targets, Skip(t) \/ Dispatch(t), job' = job PROVE FALSE
  BY <1>e, <1>4, SizeAssumption DEF Skip, Dispatch, Reached, Targets
<1>5. ASSUME NEW t \in Targets, Check(t), job' = job PROVE FALSE
  BY <1>0, <1>5 DEF Check, Probe, Lock, Save, SavePanics, Report, SummaryIsTheCount, Running
<1>6. ASSUME NEW t \in Targets, DeleteKey(t) PROVE UNCHANGED <<job, pc, outcome, persisted, summary>>
  BY <1>6 DEF DeleteKey
<1>7. CASE UNCHANGED vars
  BY <1>2, <1>7 DEF vars
<1> QED
  BY <1>1, <1>2, <1>3, <1>4, <1>5, <1>6, <1>7 DEF Next, Dispatcher, Begin, Crash, Recover

-----------------------------------------------------------------------------
(* Theorems.                                                                 *)

\* The inductive invariant holds in every behaviour of the batch.
THEOREM BatchInvariant == Spec => []BatchInv
<1>1. BatchInv /\ [Next]_vars => BatchInv'
  BY BatchTyped, SlotsFollow, MutexFollows, BatchFollows, DispatchFollows, ProgressFollows, SummaryFollows
     DEF BatchInv
<1> QED
  BY BatchInit, <1>1, PTL DEF Spec

\* Type correctness of the rows, of the goroutines and of the summary.
THEOREM BatchTypes == Spec => []TypeOK
<1>1. BatchInv => TypeOK
  BY DEF BatchInv
<1> QED
  BY BatchInvariant, <1>1, PTL

\* What an ended batch came to: every target was skipped for its kind, or done.
LEMMA EndedTargets ==
  ASSUME BatchInv, job \in {"succeeded", "succeeded_with_warnings"}, NEW t \in Targets
  PROVE  /\ kind[t] \in Kinds
         /\ kind[t] # "real" => pc[t] = "idle" /\ outcome[t] = kind[t] /\ persisted[t] = "none"
         /\ kind[t] = "real" =>
              /\ pc[t] = "done"
              /\ \/ outcome[t] \in Statuses /\ persisted[t] \in {"ok", "failed"}
                 \/ outcome[t] = "failed" /\ persisted[t] = "none"
         /\ persisted[t] = "ok" => check[t] = outcome[t]
<1>1. t < cursor
  BY SizeAssumption DEF BatchInv, OnlyABatchRuns, Targets, Terminal, Ended
<1>2. kind[t] \in Kinds /\ pc[t] \in Running \cup {"idle", "done"} /\ pc[t] \notin Running
  BY DEF BatchInv, TypeOK, SummaryIsTheCount
<1>3. IF kind[t] = "real" THEN pc[t] = "done"
      ELSE pc[t] = "idle" /\ outcome[t] = kind[t] /\ persisted[t] = "none"
  BY <1>1, <1>2 DEF BatchInv, TargetsAreTaken
<1> QED
  BY <1>2, <1>3 DEF BatchInv, ProgressIsRecorded

\* Nothing that did not go well is counted as nothing.
LEMMA NothingIsHidden ==
  ASSUME BatchInv, job = "succeeded", NEW t \in Targets,
         kind[t] # "disabled", kind[t] # "informational"
  PROVE  kind[t] = "real" /\ persisted[t] = "ok" /\ check[t] = outcome[t]
<1> DEFINE Failed == {u \in Targets : outcome[u] \in {"failed", "unreadable"}}
           Unstored == {u \in Targets : persisted[u] = "failed"}
<1>1. summary = Count /\ ~ (summary.checkFailed > 0 \/ summary.persistFailed > 0)
  BY DEF BatchInv, SummaryIsTheCount, keyHealthCheckJobStatus
<1>2. summary.checkFailed = Cardinality(Failed) /\ summary.persistFailed = Cardinality(Unstored)
  BY <1>1 DEF Count, Counted
<1>3. /\ IsFiniteSet(Failed) /\ IsFiniteSet(Unstored)
      /\ Cardinality(Failed) \in Nat /\ Cardinality(Unstored) \in Nat
  BY CountIsBounded, FS_CardinalityType
<1>4. Cardinality(Failed) = 0 /\ Cardinality(Unstored) = 0
  BY <1>1, <1>2, <1>3
<1>5. Failed = {} /\ Unstored = {}
  BY <1>3, <1>4, FS_EmptySet
<1>6. outcome[t] \notin {"failed", "unreadable"} /\ persisted[t] # "failed"
  BY <1>5
<1> QED
  BY <1>6, EndedTargets DEF Kinds

\* Every target is counted once among the skipped or the checked, every checked one
\* once among the failed and the stored or refused, and these once by their status.
LEMMA EverythingIsCounted ==
  ASSUME BatchInv, job \in {"succeeded", "succeeded_with_warnings"}
  PROVE  LET unread == Cardinality({t \in Targets : kind[t] = "unreadable"})
             quiet == Cardinality({t \in Targets : kind[t] = "informational"})
         IN  /\ Size = summary.checked + summary.skippedDisabled + quiet + unread
             /\ summary.checked = summary.persistedOK + summary.persistFailed
                                  + summary.checkFailed - unread
             /\ summary.persistedOK + summary.persistFailed
                  = summary.healthy + summary.unhealthy + summary.skippedUnsupported - quiet
<1> DEFINE Kind(k) == {t \in Targets : kind[t] = k}
           Outcome(o) == {t \in Targets : outcome[t] = o}
           Done == {t \in Targets : pc[t] = "done"}
           Kept(p) == {t \in Targets : persisted[t] = p}
<1>1. /\ summary.checked = Cardinality(Done)
      /\ summary.persistedOK = Cardinality(Kept("ok"))
      /\ summary.persistFailed = Cardinality(Kept("failed"))
  BY DEF BatchInv, SummaryIsTheCount, Count
<1>2. /\ summary.healthy = Cardinality(Outcome("up"))
      /\ summary.unhealthy = Cardinality(Outcome("down"))
      /\ summary.skippedDisabled = Cardinality(Kind("disabled"))
      /\ summary.checkFailed = Cardinality(Outcome("failed") \cup Kind("unreadable"))
      /\ summary.skippedUnsupported = Cardinality(Outcome("unsupported_check") \cup Kind("informational"))
  <2>1. /\ {t \in Targets : outcome[t] \in {"up"}} = Outcome("up")
        /\ {t \in Targets : outcome[t] \in {"down"}} = Outcome("down")
    OBVIOUS
  <2>2. {t \in Targets : outcome[t] \in {"disabled"}} = Kind("disabled")
    BY EndedTargets DEF Kinds, Statuses
  <2>3. {t \in Targets : outcome[t] \in {"failed", "unreadable"}} = Outcome("failed") \cup Kind("unreadable")
    BY EndedTargets DEF Kinds, Statuses
  <2>4. {t \in Targets : outcome[t] \in {"informational", "unsupported_check"}}
          = Outcome("unsupported_check") \cup Kind("informational")
    BY EndedTargets DEF Kinds, Statuses
  <2>5. summary = Count
    BY DEF BatchInv, SummaryIsTheCount
  <2>6. summary.healthy = Cardinality(Outcome("up")) /\ summary.unhealthy = Cardinality(Outcome("down"))
    BY <2>1, <2>5 DEF Count, Counted
  <2>7. summary.skippedDisabled = Cardinality(Kind("disabled"))
    BY <2>2, <2>5 DEF Count, Counted
  <2>8. summary.checkFailed = Cardinality(Outcome("failed") \cup Kind("unreadable"))
    BY <2>3, <2>5 DEF Count, Counted
  <2>9. summary.skippedUnsupported = Cardinality(Outcome("unsupported_check") \cup Kind("informational"))
    BY <2>4, <2>5 DEF Count, Counted
  <2> QED
    BY <2>6, <2>7, <2>8, <2>9
<1>3. Size = Cardinality(Done) + Cardinality(Kind("disabled")) + Cardinality(Kind("informational"))
               + Cardinality(Kind("unreadable"))
  <2>1. Targets = ((Done \cup Kind("disabled")) \cup Kind("informational")) \cup Kind("unreadable")
    BY EndedTargets DEF Kinds
  <2>2. Cardinality(Done \cup Kind("disabled")) = Cardinality(Done) + Cardinality(Kind("disabled"))
    <3>1. Done \cap Kind("disabled") = {}
      BY EndedTargets
    <3> QED
      BY <3>1, PartsAddUp
  <2>3. Cardinality((Done \cup Kind("disabled")) \cup Kind("informational"))
          = Cardinality(Done \cup Kind("disabled")) + Cardinality(Kind("informational"))
    <3>1. (Done \cup Kind("disabled")) \cap Kind("informational") = {}
      BY EndedTargets
    <3> QED
      BY <3>1, PartsAddUp
  <2>4. Cardinality(Targets)
          = Cardinality((Done \cup Kind("disabled")) \cup Kind("informational"))
              + Cardinality(Kind("unreadable"))
    <3>1. ((Done \cup Kind("disabled")) \cup Kind("informational")) \cap Kind("unreadable") = {}
      BY EndedTargets
    <3> QED
      BY <2>1, <3>1, PartsAddUp
  <2> QED
    BY <2>2, <2>3, <2>4, TargetsAreFinite
<1>4. Cardinality(Done) = Cardinality(Kept("ok")) + Cardinality(Kept("failed")) + Cardinality(Outcome("failed"))
  <2>1. Done = (Kept("ok") \cup Kept("failed")) \cup Outcome("failed")
    BY EndedTargets DEF Kinds, Statuses
  <2>2. Kept("ok") \cap Kept("failed") = {}
    OBVIOUS
  <2>3. (Kept("ok") \cup Kept("failed")) \cap Outcome("failed") = {}
    BY EndedTargets DEF Kinds, Statuses
  <2>4. Cardinality(Kept("ok") \cup Kept("failed")) = Cardinality(Kept("ok")) + Cardinality(Kept("failed"))
    BY <2>2, PartsAddUp
  <2>5. Cardinality((Kept("ok") \cup Kept("failed")) \cup Outcome("failed"))
          = Cardinality(Kept("ok") \cup Kept("failed")) + Cardinality(Outcome("failed"))
    BY <2>3, PartsAddUp
  <2> QED
    BY <2>1, <2>4, <2>5
<1>5. Cardinality(Kept("ok")) + Cardinality(Kept("failed"))
        = Cardinality(Outcome("up")) + Cardinality(Outcome("down")) + Cardinality(Outcome("unsupported_check"))
  <2>1. Kept("ok") \cup Kept("failed") = (Outcome("up") \cup Outcome("down")) \cup Outcome("unsupported_check")
    BY EndedTargets DEF Kinds, Statuses
  <2>2. Kept("ok") \cap Kept("failed") = {}
    OBVIOUS
  <2>3. Cardinality(Kept("ok") \cup Kept("failed")) = Cardinality(Kept("ok")) + Cardinality(Kept("failed"))
    BY <2>2, PartsAddUp
  <2>4. Outcome("up") \cap Outcome("down") = {} /\ (Outcome("up") \cup Outcome("down")) \cap Outcome("unsupported_check") = {}
    OBVIOUS
  <2>5. Cardinality(Outcome("up") \cup Outcome("down")) = Cardinality(Outcome("up")) + Cardinality(Outcome("down"))
    BY <2>4, PartsAddUp
  <2>6. Cardinality((Outcome("up") \cup Outcome("down")) \cup Outcome("unsupported_check"))
          = Cardinality(Outcome("up") \cup Outcome("down")) + Cardinality(Outcome("unsupported_check"))
    BY <2>4, PartsAddUp
  <2> QED
    BY <2>1, <2>3, <2>5, <2>6
<1>6. Cardinality(Outcome("failed") \cup Kind("unreadable"))
        = Cardinality(Outcome("failed")) + Cardinality(Kind("unreadable"))
  <2>1. Outcome("failed") \cap Kind("unreadable") = {}
    BY EndedTargets
  <2> QED
    BY <2>1, PartsAddUp
<1>7. Cardinality(Outcome("unsupported_check") \cup Kind("informational"))
        = Cardinality(Outcome("unsupported_check")) + Cardinality(Kind("informational"))
  <2>1. Outcome("unsupported_check") \cap Kind("informational") = {}
    BY EndedTargets
  <2> QED
    BY <2>1, PartsAddUp
<1>8. \A S \in SUBSET Targets : Cardinality(S) \in Nat
  BY CountIsBounded
<1>9. /\ \A k : Kind(k) \in SUBSET Targets /\ Outcome(k) \in SUBSET Targets /\ Kept(k) \in SUBSET Targets
      /\ Done \in SUBSET Targets
  OBVIOUS
<1>10. /\ \A k : Cardinality(Kind(k)) \in Nat /\ Cardinality(Outcome(k)) \in Nat /\ Cardinality(Kept(k)) \in Nat
       /\ Cardinality(Done) \in Nat
  BY <1>8, <1>9
<1> HIDE DEF Kind, Outcome, Done, Kept
<1>11. /\ Size = summary.checked + summary.skippedDisabled + Cardinality(Kind("informational"))
                  + Cardinality(Kind("unreadable"))
       /\ summary.checked = summary.persistedOK + summary.persistFailed
                              + summary.checkFailed - Cardinality(Kind("unreadable"))
       /\ summary.persistedOK + summary.persistFailed
            = summary.healthy + summary.unhealthy + summary.skippedUnsupported
                - Cardinality(Kind("informational"))
  BY <1>1, <1>2, <1>3, <1>4, <1>5, <1>6, <1>7, <1>10
<1> QED
  BY <1>11 DEF Kind

\* For any targets and any order of the goroutines: plain success hides nothing, and
\* the summary accounts for every target exactly once (keyHealthCheckSummary).
THEOREM SummaryIsTrue == Spec => []SummaryTellsTheTruth
<1>1. BatchInv => SummaryTellsTheTruth
  <2> SUFFICES ASSUME BatchInv PROVE SummaryTellsTheTruth
    OBVIOUS
  <2> QED
    BY NothingIsHidden, EverythingIsCounted DEF SummaryTellsTheTruth
<1> QED
  BY BatchInvariant, <1>1, PTL

\* At most one result is being stored at a time, and never more than Concurrency
\* goroutines are at work (keyHealthCheckConcurrency, persistenceMu).
BatchIsLimited ==
  /\ \A t, u \in Targets : pc[t] = "saving" /\ pc[u] = "saving" => t = u
  /\ Cardinality({t \in Targets : pc[t] \in Running}) <= Concurrency

\* However many goroutines were started, panicked or ended: the semaphore limits
\* those at work, and the mutex those that store.
THEOREM ConcurrencyIsLimited == Spec => []BatchIsLimited
<1>1. BatchInv => BatchIsLimited
  BY DEF BatchInv, SlotsAreCounted, WriterHoldsTheMutex, BatchIsLimited
<1> QED
  BY BatchInvariant, <1>1, PTL

-----------------------------------------------------------------------------
(* Reconcile.                                                                *)

\* What a stored table is: rows under ids that were given out.
Stored(table, last) ==
  /\ last \in Nat /\ DOMAIN table \subseteq 1..last
  /\ \A id \in DOMAIN table : table[id] \in Row

\* No two rows of one profile.
OneRow(table) ==
  \A i, j \in DOMAIN table : table[i].url.profile = table[j].url.profile => i = j

\* While a row of an earlier version has no fingerprint, no row that was created with
\* its profile shows another one: the repair would have merged the two before.
UnmarkedIsUnrivalled(table) ==
  \A u, r \in DOMAIN table :
    /\ ~ table[u].marked
    /\ table[r].ref.profile = table[u].url.profile
    => table[r].url.profile = table[u].url.profile

RowsInv == RowsTyped /\ RefsUnique(rows) /\ UnmarkedIsUnrivalled(rows)

-----------------------------------------------------------------------------
(* Data: least numbers.                                                      *)

Before == {ss \in Nat \X Nat : ss[1] < ss[2]}

\* The library's order on the natural numbers, as a set of pairs.
LEMMA BeforeIsWellFounded == IsWellFoundedOn(Before, Nat)
  BY ONLY NatLessThanWellFounded, SMT DEF OpToRel, Before

\* Min is a member of the set, and no other one is smaller.
LEMMA MinIsLeast ==
  ASSUME NEW S, S \subseteq Nat, S # {}
  PROVE  Min(S) \in S /\ \A m \in S : Min(S) <= m
<1>1. PICK n \in S : \A m \in S : ~ (<<m, n>> \in Before)
  BY WFMin, BeforeIsWellFounded
<1>2. ASSUME NEW m \in S PROVE n <= m
  <2>1. m \in Nat /\ n \in Nat /\ <<m, n>> \in Nat \X Nat
    OBVIOUS
  <2>2. ~ (m < n)
    BY <1>1, <2>1 DEF Before
  <2> QED BY <2>1, <2>2
<1> QED BY <1>2 DEF Min

-----------------------------------------------------------------------------
(* The repair of historical duplicates.                                      *)

\* The rows of one profile are a group, the same from each of them.
LEMMA GroupsAreShared ==
  ASSUME NEW table, NEW id \in DOMAIN table
  PROVE  /\ id \in SameProfile(table, id) /\ SameProfile(table, id) \subseteq DOMAIN table
         /\ \A j \in SameProfile(table, id) :
              table[j].url.profile = table[id].url.profile /\ SameProfile(table, j) = SameProfile(table, id)
  BY DEF SameProfile

\* A group has one survivor, a row of it.
LEMMA SurvivorIsOfTheGroup ==
  ASSUME NEW table, DOMAIN table \subseteq Nat, NEW id \in DOMAIN table
  PROVE  /\ duplicateSurvivor(table, id) \in SameProfile(table, id)
         /\ \A j \in SameProfile(table, id) : duplicateSurvivor(table, j) = duplicateSurvivor(table, id)
<1> DEFINE group == SameProfile(table, id)
           marked == {j \in group : table[j].marked}
<1>1. id \in group /\ group \subseteq Nat /\ marked \subseteq group
  BY GroupsAreShared
<1>2. duplicateSurvivor(table, id) = Min(IF marked # {} THEN marked ELSE group)
  BY DEF duplicateSurvivor
<1>3. Min(IF marked # {} THEN marked ELSE group) \in group
  <2>1. CASE marked # {}
    BY <1>1, <2>1, MinIsLeast
  <2>2. CASE marked = {}
    BY <1>1, <2>2, MinIsLeast
  <2> QED BY <2>1, <2>2
<1>4. ASSUME NEW j \in group PROVE duplicateSurvivor(table, j) = duplicateSurvivor(table, id)
  <2>1. SameProfile(table, j) = SameProfile(table, id)
    BY <1>4, GroupsAreShared
  <2> QED BY <2>1 DEF duplicateSurvivor
<1> QED BY <1>2, <1>3, <1>4

\* The repair keeps every row as it was found or with the group's fingerprint, one row
\* for each profile, and in that row the assignments and a name of the whole group.
LEMMA RepairedRows ==
  ASSUME NEW table, NEW last, Stored(table, last)
  PROVE  /\ Stored(Repaired(table), last)
         /\ DOMAIN Repaired(table) \subseteq DOMAIN table
         /\ \A s \in DOMAIN Repaired(table) :
              /\ Repaired(table)[s].ref = table[s].ref /\ Repaired(table)[s].url = table[s].url
              /\ ~ Repaired(table)[s].marked => ~ table[s].marked /\ SameProfile(table, s) = {s}
         /\ OneRow(Repaired(table))
         /\ \A id \in DOMAIN table : \E s \in DOMAIN Repaired(table) :
              /\ s \in SameProfile(table, id)
              /\ table[id].users \subseteq Repaired(table)[s].users
              /\ table[id].name # Unnamed => Repaired(table)[s].name # Unnamed
<1> DEFINE Survivors == {duplicateSurvivor(table, j) : j \in DOMAIN table}
           Row0(s) == IF SameProfile(table, s) = {s} THEN table[s]
                      ELSE [table[s] EXCEPT !.marked = TRUE,
                                            !.name = inheritClientDisplayName(table, s),
                                            !.users = MergeUserAssignments(table, s)]
<1>1. Repaired(table) = [s \in Survivors |-> Row0(s)]
  BY DEF Repaired
<1>2. DOMAIN table \subseteq Nat /\ \A id \in DOMAIN table : table[id] \in Row
  BY DEF Stored
<1>3. Survivors \subseteq DOMAIN table
  BY <1>2, SurvivorIsOfTheGroup, GroupsAreShared
<1>4. ASSUME NEW s \in DOMAIN table
      PROVE  /\ inheritClientDisplayName(table, s) \in Names \cup {Unnamed}
             /\ \A j \in SameProfile(table, s) :
                  table[j].name # Unnamed => inheritClientDisplayName(table, s) # Unnamed
  <2> DEFINE named == {j \in SameProfile(table, s) : table[j].name # Unnamed}
  <2>1. named \subseteq Nat /\ named \subseteq DOMAIN table
    BY <1>2, GroupsAreShared
  <2>2. named # {} => Min(named) \in named
    BY <2>1, MinIsLeast
  <2>3. inheritClientDisplayName(table, s)
          = IF table[s].name # Unnamed \/ named = {} THEN table[s].name ELSE table[Min(named)].name
    BY DEF inheritClientDisplayName
  <2>4. \A j \in DOMAIN table : table[j].name \in Names \cup {Unnamed}
    BY <1>2 DEF Row
  <2> HIDE DEF named
  <2>5. inheritClientDisplayName(table, s) \in Names \cup {Unnamed}
    BY <2>1, <2>2, <2>3, <2>4
  <2>6. named # {} => inheritClientDisplayName(table, s) # Unnamed
    BY <2>2, <2>3 DEF named
  <2> QED BY <2>5, <2>6 DEF named
<1>5. ASSUME NEW s \in DOMAIN table
      PROVE  /\ MergeUserAssignments(table, s) \in SUBSET (Users \cup AllUsers)
             /\ \A j \in SameProfile(table, s) : table[j].users \subseteq MergeUserAssignments(table, s)
  BY <1>2, GroupsAreShared DEF MergeUserAssignments, Row
<1>6. ASSUME NEW s \in DOMAIN table
      PROVE  /\ Row0(s) \in Row /\ Row0(s).ref = table[s].ref /\ Row0(s).url = table[s].url
             /\ ~ Row0(s).marked => ~ table[s].marked /\ SameProfile(table, s) = {s}
             /\ \A j \in SameProfile(table, s) :
                  /\ table[j].users \subseteq Row0(s).users
                  /\ table[j].name # Unnamed => Row0(s).name # Unnamed
  <2>1. table[s] \in Row
    BY <1>2
  <2>2. CASE SameProfile(table, s) = {s}
    BY <2>1, <2>2
  <2>3. CASE SameProfile(table, s) # {s}
    <3> DEFINE n == inheritClientDisplayName(table, s)
               u == MergeUserAssignments(table, s)
    <3>1. n \in Names \cup {Unnamed} /\ u \in SUBSET (Users \cup AllUsers)
      BY <1>4, <1>5
    <3>2. /\ \A j \in SameProfile(table, s) : table[j].users \subseteq u
          /\ \A j \in SameProfile(table, s) : table[j].name # Unnamed => n # Unnamed
      BY <1>4, <1>5
    <3>3. Row0(s) = [table[s] EXCEPT !.marked = TRUE, !.name = n, !.users = u]
      BY <2>3
    <3> HIDE DEF n, u
    <3>4. /\ Row0(s) \in Row /\ Row0(s).ref = table[s].ref /\ Row0(s).url = table[s].url
          /\ Row0(s).marked /\ Row0(s).users = u /\ Row0(s).name = n
      BY <2>1, <3>1, <3>3 DEF Row
    <3> QED BY <3>2, <3>4
  <2> QED BY <2>2, <2>3
<1>7. ASSUME NEW i \in Survivors, NEW j \in Survivors, table[i].url.profile = table[j].url.profile
      PROVE  i = j
  <2>1. PICK a \in DOMAIN table : i = duplicateSurvivor(table, a)
    OBVIOUS
  <2>2. PICK b \in DOMAIN table : j = duplicateSurvivor(table, b)
    OBVIOUS
  <2>3. i \in SameProfile(table, a) /\ j \in SameProfile(table, b)
    BY <1>2, <2>1, <2>2, SurvivorIsOfTheGroup
  <2>4. duplicateSurvivor(table, i) = i /\ duplicateSurvivor(table, j) = j
    BY <1>2, <2>1, <2>2, <2>3, SurvivorIsOfTheGroup
  <2>5. i \in DOMAIN table /\ j \in SameProfile(table, i)
    BY <1>3, <1>7 DEF SameProfile
  <2>6. duplicateSurvivor(table, j) = duplicateSurvivor(table, i)
    BY <1>2, <2>5, SurvivorIsOfTheGroup
  <2> QED BY <2>4, <2>6
<1>8. ASSUME NEW id \in DOMAIN table
      PROVE  LET s == duplicateSurvivor(table, id)
             IN  s \in Survivors /\ s \in SameProfile(table, id) /\ id \in SameProfile(table, s)
  BY <1>2, SurvivorIsOfTheGroup, GroupsAreShared
<1> HIDE DEF Survivors, Row0
<1>9. DOMAIN Repaired(table) = Survivors /\ \A s \in Survivors : Repaired(table)[s] = Row0(s)
  BY <1>1
<1>10. Stored(Repaired(table), last)
  BY <1>3, <1>6, <1>9 DEF Stored
<1>11. OneRow(Repaired(table))
  BY <1>3, <1>6, <1>7, <1>9 DEF OneRow
<1>12. \A s \in Survivors :
         /\ Repaired(table)[s].ref = table[s].ref /\ Repaired(table)[s].url = table[s].url
         /\ ~ Repaired(table)[s].marked => ~ table[s].marked /\ SameProfile(table, s) = {s}
  BY <1>3, <1>6, <1>9
<1>13. ASSUME NEW id \in DOMAIN table
       PROVE  \E s \in Survivors :
                /\ s \in SameProfile(table, id)
                /\ table[id].users \subseteq Repaired(table)[s].users
                /\ table[id].name # Unnamed => Repaired(table)[s].name # Unnamed
  BY <1>3, <1>6, <1>8, <1>9
<1> QED BY <1>3, <1>9, <1>10, <1>11, <1>12, <1>13
-----------------------------------------------------------------------------
(* One link of the feed.                                                     *)

\* What holds of the state of a refresh that has not failed: the rows it found are
\* there, untouched or written, every other one is new; whatever has a fingerprint has
\* its own, and whatever has none is as it was found, and unrivalled.
KeptState(old, last, state) ==
  /\ state = [table |-> state.table, left |-> state.left, next |-> state.next, failed |-> state.failed]
  /\ state.left \subseteq DOMAIN old /\ DOMAIN old \subseteq DOMAIN state.table
  /\ state.next \in Nat /\ last < state.next /\ DOMAIN state.table \subseteq 1..(state.next - 1)
  /\ \A id \in DOMAIN state.table : state.table[id] \in Row
  /\ \A id \in state.left : state.table[id] = old[id]
  /\ \A id \in DOMAIN old :
       /\ state.table[id].ref = old[id].ref
       /\ state.table[id].name = old[id].name /\ state.table[id].users = old[id].users
  /\ RefsUnique(state.table) /\ FingerprintsUnique(state.table)
  /\ \A u \in DOMAIN state.table : ~ state.table[u].marked =>
       /\ u \in DOMAIN old /\ state.table[u] = old[u]
       /\ \A r \in DOMAIN state.table : r # u =>
            /\ state.table[r].url.profile # state.table[u].url.profile
            /\ state.table[r].ref.profile # state.table[u].url.profile

\* A link leaves no stored row of its profile unclaimed.
Claims(old, link, state, new) ==
  /\ new.left \subseteq state.left
  /\ \A j \in DOMAIN old : old[j].url.profile = link.profile => j \notin new.left

\* A table that the repair left.
Clean(old, last) ==
  Stored(old, last) /\ OneRow(old) /\ RefsUnique(old) /\ UnmarkedIsUnrivalled(old)

\* A row that a link matches is a stored one, and no other row without a fingerprint
\* shows the profile of the link.
LEMMA MatchIsUnrivalled ==
  ASSUME NEW old, NEW last, Clean(old, last), NEW left, NEW feed, NEW link \in Links,
         NEW id \in matchExisting(old, left, feed, link)
  PROVE  /\ id \in DOMAIN old
         /\ \A u \in DOMAIN old : ~ old[u].marked /\ u # id => old[u].url.profile # link.profile
<1> DEFINE referred == {i \in DOMAIN old : old[i].ref = link}
           identical == {i \in DOMAIN old : old[i].url.profile = link.profile}
<1>1. matchExisting(old, left, feed, link)
        = IF referred # {} THEN referred
          ELSE IF identical # {} THEN identical ELSE Labelled(old, feed, link) \cap left
  BY DEF matchExisting
<1>2. Labelled(old, feed, link) \subseteq DOMAIN old
  BY DEF Labelled
<1>3. CASE referred # {}
  <2>1. id \in DOMAIN old /\ old[id].ref = link
    BY <1>1, <1>3
  <2> QED BY <2>1 DEF Clean, OneRow, UnmarkedIsUnrivalled
<1>4. CASE referred = {} /\ identical # {}
  <2>1. id \in DOMAIN old /\ old[id].url.profile = link.profile
    BY <1>1, <1>4
  <2> QED BY <2>1 DEF Clean, OneRow
<1>5. CASE referred = {} /\ identical = {}
  BY <1>1, <1>2, <1>5
<1> QED BY <1>3, <1>4, <1>5

\* What a link writes into a row.
LEMMA WrittenRow ==
  ASSUME NEW table, NEW id \in DOMAIN table, table[id] \in Row, NEW link \in Links
  PROVE  /\ DOMAIN Written(table, id, link) = DOMAIN table
         /\ \A j \in DOMAIN table : j # id => Written(table, id, link)[j] = table[j]
         /\ Written(table, id, link)[id] \in Row
         /\ Written(table, id, link)[id].ref = table[id].ref
         /\ Written(table, id, link)[id].name = table[id].name
         /\ Written(table, id, link)[id].users = table[id].users
         /\ Written(table, id, link)[id].url = link /\ Written(table, id, link)[id].marked
<1>1. Written(table, id, link)[id] = [table[id] EXCEPT !.url = link, !.marked = TRUE]
  BY DEF Written
<1>2. /\ DOMAIN Written(table, id, link) = DOMAIN table
      /\ \A j \in DOMAIN table : j # id => Written(table, id, link)[j] = table[j]
  BY DEF Written
<1> QED BY <1>1, <1>2 DEF Row

\* A link that matches a row.
LEMMA MatchedKept ==
  ASSUME NEW old, NEW last, Clean(old, last), NEW feed, NEW link \in Links, NEW state,
         KeptState(old, last, state), NEW id \in matchExisting(old, state.left, feed, link),
         ~ writeMatched(state, id, link).failed, ~ state.failed
  PROVE  /\ KeptState(old, last, writeMatched(state, id, link))
         /\ Claims(old, link, state, writeMatched(state, id, link))
<1> DEFINE table == Written(state.table, id, link)
           new == writeMatched(state, id, link)
<1>1. /\ id \in DOMAIN old
      /\ \A u \in DOMAIN old : ~ old[u].marked /\ u # id => old[u].url.profile # link.profile
  BY MatchIsUnrivalled
<1>2. state = [table |-> state.table, left |-> state.left, next |-> state.next, failed |-> state.failed]
  BY DEF KeptState
<1>3. id \in DOMAIN state.table /\ state.table[id] \in Row
  BY <1>1 DEF KeptState
<1>4. /\ DOMAIN table = DOMAIN state.table
      /\ \A j \in DOMAIN state.table : j # id => table[j] = state.table[j]
      /\ table[id] \in Row /\ table[id].ref = state.table[id].ref /\ table[id].name = state.table[id].name
      /\ table[id].users = state.table[id].users /\ table[id].url = link /\ table[id].marked
  BY <1>3, WrittenRow
<1>5. new = IF FingerprintsUnique(table) THEN [state EXCEPT !.table = table, !.left = state.left \ {id}]
            ELSE [state EXCEPT !.failed = TRUE]
  BY DEF writeMatched
<1> HIDE DEF table, new
<1>6. /\ FingerprintsUnique(table) /\ new.table = table /\ new.left = state.left \ {id}
      /\ new.next = state.next /\ new.failed = state.failed
      /\ new = [table |-> new.table, left |-> new.left, next |-> new.next, failed |-> new.failed]
  <2>1. ~ new.failed
    BY DEF new
  <2>2. FingerprintsUnique(table)
    BY <1>2, <1>5, <2>1
  <2>3. new = [state EXCEPT !.table = table, !.left = state.left \ {id}]
    BY <1>5, <2>2
  <2> QED BY <1>2, <2>2, <2>3
<1>7. /\ new.left \subseteq DOMAIN old /\ DOMAIN old \subseteq DOMAIN new.table
      /\ new.next \in Nat /\ last < new.next /\ DOMAIN new.table \subseteq 1..(new.next - 1)
      /\ \A j \in DOMAIN new.table : new.table[j] \in Row
  BY <1>4, <1>6 DEF KeptState
<1>8. /\ \A j \in new.left : new.table[j] = old[j]
      /\ \A j \in DOMAIN old :
           /\ new.table[j].ref = old[j].ref
           /\ new.table[j].name = old[j].name /\ new.table[j].users = old[j].users
  BY <1>1, <1>4, <1>6 DEF KeptState
<1>9. ASSUME NEW u \in DOMAIN new.table, ~ new.table[u].marked
      PROVE  /\ u \in DOMAIN old /\ new.table[u] = old[u]
             /\ \A r \in DOMAIN new.table : r # u =>
                  /\ new.table[r].url.profile # new.table[u].url.profile
                  /\ new.table[r].ref.profile # new.table[u].url.profile
  <2>1. u # id /\ u \in DOMAIN state.table /\ new.table[u] = state.table[u] /\ ~ state.table[u].marked
    BY <1>4, <1>6, <1>9
  <2>2. u \in DOMAIN old /\ state.table[u] = old[u]
    BY <2>1 DEF KeptState
  <2>3. \A r \in DOMAIN state.table : r # u =>
          /\ state.table[r].url.profile # state.table[u].url.profile
          /\ state.table[r].ref.profile # state.table[u].url.profile
    BY <2>1 DEF KeptState
  <2>4. link.profile # new.table[u].url.profile
    BY <1>1, <2>1, <2>2
  <2>5. ASSUME NEW r \in DOMAIN new.table, r # u
        PROVE  /\ new.table[r].url.profile # new.table[u].url.profile
               /\ new.table[r].ref.profile # new.table[u].url.profile
    <3>1. CASE r = id
      BY <1>4, <1>6, <2>1, <2>3, <2>4, <2>5, <3>1
    <3>2. CASE r # id
      BY <1>4, <1>6, <2>1, <2>3, <2>5, <3>2
    <3> QED BY <3>1, <3>2
  <2> QED BY <2>1, <2>2, <2>5
<1>10. KeptState(old, last, new)
  <2>1. RefsUnique(new.table)
    BY <1>4, <1>6 DEF KeptState, RefsUnique
  <2> QED BY <1>6, <1>7, <1>8, <1>9, <2>1 DEF KeptState
<1>11. ASSUME NEW j \in DOMAIN old, old[j].url.profile = link.profile, j \in new.left PROVE FALSE
  <2>1. j # id /\ j \in DOMAIN table /\ table[j] = old[j]
    BY <1>4, <1>6, <1>7, <1>8, <1>11
  <2>2. old[j].marked
    BY <1>1, <1>11, <2>1
  <2>3. table[j].marked /\ table[id].marked /\ table[j].url.profile = table[id].url.profile
        /\ id \in DOMAIN table
    BY <1>3, <1>4, <1>11, <2>1, <2>2
  <2> QED BY <1>6, <2>1, <2>3 DEF FingerprintsUnique
<1>12. Claims(old, link, state, new)
  BY <1>6, <1>11 DEF Claims
<1> QED BY <1>10, <1>12 DEF new

\* The table with a new row.
LEMMA AddedRow ==
  ASSUME NEW state, NEW link \in Links, state.next \notin DOMAIN state.table
  PROVE  /\ DOMAIN Added(state, link) = DOMAIN state.table \cup {state.next}
         /\ \A id \in DOMAIN state.table : Added(state, link)[id] = state.table[id]
         /\ Added(state, link)[state.next] \in Row
         /\ Added(state, link)[state.next].ref = link /\ Added(state, link)[state.next].url = link
         /\ Added(state, link)[state.next].marked
<1> DEFINE row == [ref |-> link, url |-> link, marked |-> TRUE, name |-> Unnamed, users |-> AllUsers]
<1>1. Added(state, link) = [id \in DOMAIN state.table \cup {state.next} |->
                              IF id = state.next THEN row ELSE state.table[id]]
  BY DEF Added
<1>2. row \in Row /\ row.ref = link /\ row.url = link /\ row.marked
  BY DEF Row
<1> HIDE DEF row
<1> QED BY <1>1, <1>2

\* A link that matches none.
LEMMA InsertedKept ==
  ASSUME NEW old, NEW last, Clean(old, last), NEW feed, NEW link \in Links, NEW state,
         KeptState(old, last, state), matchExisting(old, state.left, feed, link) = {}
  PROVE  /\ KeptState(old, last, insertNew(state, link))
         /\ Claims(old, link, state, insertNew(state, link))
<1> DEFINE table == Added(state, link)
           new == insertNew(state, link)
<1>1. \A j \in DOMAIN old : old[j].url.profile # link.profile
  BY DEF matchExisting
<1>2. state = [table |-> state.table, left |-> state.left, next |-> state.next, failed |-> state.failed]
  BY DEF KeptState
<1>3. state.next \in Nat /\ last < state.next /\ DOMAIN state.table \subseteq 1..(state.next - 1) /\ last \in Nat
  BY DEF KeptState, Clean, Stored
<1>4. state.next \notin DOMAIN state.table
  BY <1>3
<1>5. /\ DOMAIN table = DOMAIN state.table \cup {state.next}
      /\ \A id \in DOMAIN state.table : table[id] = state.table[id]
      /\ table[state.next] \in Row
      /\ table[state.next].ref = link /\ table[state.next].url = link /\ table[state.next].marked
  BY <1>4, AddedRow
<1>6. new = IF RefsUnique(table) /\ FingerprintsUnique(table)
            THEN [state EXCEPT !.table = table, !.next = state.next + 1] ELSE state
  BY DEF insertNew
<1> HIDE DEF table, new
<1>7. CASE new = state
  <2>1. Claims(old, link, state, state)
    BY <1>1 DEF Claims, KeptState
  <2> QED BY <1>7, <2>1 DEF new
<1>8. ASSUME RefsUnique(table), FingerprintsUnique(table), new = [state EXCEPT !.table = table, !.next = state.next + 1]
      PROVE  KeptState(old, last, new) /\ Claims(old, link, state, new)
  <2>1. /\ new.table = table /\ new.left = state.left /\ new.next = state.next + 1
        /\ new = [table |-> new.table, left |-> new.left, next |-> new.next, failed |-> new.failed]
    BY <1>2, <1>8
  <2>2. DOMAIN new.table \subseteq 1..(new.next - 1) /\ new.next \in Nat /\ last < new.next
    BY <1>3, <1>5, <2>1
  <2>3. /\ new.left \subseteq DOMAIN old /\ DOMAIN old \subseteq DOMAIN new.table
        /\ \A j \in DOMAIN new.table : new.table[j] \in Row
    BY <1>5, <2>1 DEF KeptState
  <2>4. /\ \A j \in new.left : new.table[j] = old[j]
        /\ \A j \in DOMAIN old :
             /\ new.table[j].ref = old[j].ref
             /\ new.table[j].name = old[j].name /\ new.table[j].users = old[j].users
    BY <1>5, <2>1 DEF KeptState
  <2>5. ASSUME NEW u \in DOMAIN new.table, ~ new.table[u].marked
        PROVE  /\ u \in DOMAIN old /\ new.table[u] = old[u]
               /\ \A r \in DOMAIN new.table : r # u =>
                    /\ new.table[r].url.profile # new.table[u].url.profile
                    /\ new.table[r].ref.profile # new.table[u].url.profile
    <3>1. u # state.next /\ u \in DOMAIN state.table /\ new.table[u] = state.table[u] /\ ~ state.table[u].marked
      BY <1>5, <2>1, <2>5
    <3>2. u \in DOMAIN old /\ state.table[u] = old[u]
      BY <3>1 DEF KeptState
    <3>3. \A r \in DOMAIN state.table : r # u =>
            /\ state.table[r].url.profile # state.table[u].url.profile
            /\ state.table[r].ref.profile # state.table[u].url.profile
      BY <3>1 DEF KeptState
    <3>4. link.profile # new.table[u].url.profile
      BY <1>1, <3>1, <3>2
    <3>5. ASSUME NEW r \in DOMAIN new.table, r # u
          PROVE  /\ new.table[r].url.profile # new.table[u].url.profile
                 /\ new.table[r].ref.profile # new.table[u].url.profile
      <4>1. CASE r = state.next
        BY <1>5, <2>1, <3>4, <4>1
      <4>2. CASE r # state.next
        BY <1>5, <2>1, <3>1, <3>3, <3>5, <4>2
      <4> QED BY <4>1, <4>2
    <3> QED BY <3>1, <3>2, <3>5
  <2>6. KeptState(old, last, new)
    BY <1>8, <2>1, <2>2, <2>3, <2>4, <2>5 DEF KeptState
  <2>7. Claims(old, link, state, new)
    BY <1>1, <2>1 DEF Claims, KeptState
  <2> QED BY <2>6, <2>7
<1> QED BY <1>6, <1>7, <1>8 DEF new

\* A refresh that has failed stays failed.
LEMMA FailureStays ==
  ASSUME NEW old, NEW feed, NEW state, NEW link, ~ upsertParsedKey(old, feed, state, link).failed
  PROVE  ~ state.failed
  BY DEF upsertParsedKey

\* One link: unless it fails, the state is kept, and the rows of its profile are claimed.
LEMMA LinkKept ==
  ASSUME NEW old, NEW last, Clean(old, last), NEW feed, NEW link \in Links, NEW state,
         ~ upsertParsedKey(old, feed, state, link).failed, KeptState(old, last, state)
  PROVE  /\ KeptState(old, last, upsertParsedKey(old, feed, state, link))
         /\ Claims(old, link, state, upsertParsedKey(old, feed, state, link))
<1> DEFINE matched == matchExisting(old, state.left, feed, link)
<1>1. ~ state.failed
  BY FailureStays
<1>2. CASE matched = {}
  <2>1. upsertParsedKey(old, feed, state, link) = insertNew(state, link)
    BY <1>1, <1>2 DEF upsertParsedKey
  <2>2. KeptState(old, last, insertNew(state, link)) /\ Claims(old, link, state, insertNew(state, link))
    BY <1>2, InsertedKept
  <2> QED BY <2>1, <2>2
<1>3. CASE matched # {}
  <2>1. matched \subseteq DOMAIN old /\ DOMAIN old \subseteq Nat
    <3>1. matched \subseteq DOMAIN old
      BY MatchIsUnrivalled
    <3> QED BY <3>1 DEF Clean, Stored
  <2>2. PICK id \in matched : id = Min(matched)
    BY <1>3, <2>1, MinIsLeast
  <2>3. upsertParsedKey(old, feed, state, link) = writeMatched(state, id, link)
    BY <1>1, <1>3, <2>2 DEF upsertParsedKey
  <2>4. ~ writeMatched(state, id, link).failed
    BY <2>3
  <2>5. /\ KeptState(old, last, writeMatched(state, id, link))
        /\ Claims(old, link, state, writeMatched(state, id, link))
    BY <1>1, <2>4, MatchedKept
  <2> QED BY <2>3, <2>5
<1> QED BY <1>2, <1>3

-----------------------------------------------------------------------------
(* The whole feed.                                                           *)

\* A function that agrees with the recursion up to a place of the feed.
Follows(g, old, feed, start, n) ==
  g = [m \in 0..n |-> IF m = 0 THEN start ELSE upsertParsedKey(old, feed, g[m - 1], feed[m])]

\* The recursion has a solution up to every place.
LEMMA ProgressExists ==
  ASSUME NEW old, NEW feed, NEW start, NEW n \in Nat
  PROVE  \E g : Follows(g, old, feed, start, n)
<1> DEFINE Bad == {m \in Nat : ~ \E g : Follows(g, old, feed, start, m)}
<1>1. SUFFICES ASSUME Bad # {} PROVE FALSE
  OBVIOUS
<1>2. Min(Bad) \in Bad /\ \A m \in Bad : Min(Bad) <= m
  BY <1>1, MinIsLeast
<1>3. PICK b \in Bad : \A m \in Bad : b <= m
  BY <1>2
<1>4. b \in Nat /\ ~ \E g : Follows(g, old, feed, start, b)
  OBVIOUS
<1>5. CASE b = 0
  <2> DEFINE g == [m \in 0..0 |-> start]
  <2>1. Follows(g, old, feed, start, 0)
    BY DEF Follows
  <2> QED BY <1>4, <1>5, <2>1
<1>6. CASE b # 0
  <2>1. b - 1 \in Nat /\ b - 1 \notin Bad
    BY <1>3, <1>4, <1>6
  <2>2. PICK f : Follows(f, old, feed, start, b - 1)
    BY <2>1
  <2> DEFINE g == [m \in 0..b |-> IF m = b THEN upsertParsedKey(old, feed, f[b - 1], feed[b]) ELSE f[m]]
  <2>3. \A m \in 0..(b - 1) : g[m] = f[m]
    BY <1>4
  <2>4. \A m \in 0..(b - 1) : f[m] = IF m = 0 THEN start ELSE upsertParsedKey(old, feed, f[m - 1], feed[m])
    BY <2>2 DEF Follows
  <2>5. \A m \in 0..b : g[m] = IF m = 0 THEN start ELSE upsertParsedKey(old, feed, g[m - 1], feed[m])
    <3>1. ASSUME NEW m \in 0..b
          PROVE  g[m] = IF m = 0 THEN start ELSE upsertParsedKey(old, feed, g[m - 1], feed[m])
      <4>1. CASE m = b
        <5>1. g[m] = upsertParsedKey(old, feed, f[b - 1], feed[b])
          BY <4>1
        <5>2. m - 1 \in 0..(b - 1)
          BY <1>4, <1>6, <4>1
        <5> QED BY <1>6, <2>3, <4>1, <5>1, <5>2
      <4>2. CASE m # b
        <5>1. m \in 0..(b - 1) /\ (m # 0 => m - 1 \in 0..(b - 1))
          BY <1>4, <4>2
        <5>2. g[m] = f[m] /\ (m # 0 => g[m - 1] = f[m - 1])
          BY <2>3, <5>1
        <5> HIDE DEF g
        <5> QED BY <2>4, <5>1, <5>2
      <4> QED BY <4>1, <4>2
    <3> QED BY <3>1
  <2>6. g = [m \in 0..b |-> g[m]]
    OBVIOUS
  <2> HIDE DEF g
  <2>7. Follows(g, old, feed, start, b)
    BY <2>5, <2>6 DEF Follows
  <2> QED BY <1>4, <2>7
<1> QED BY <1>5, <1>6

\* The equations of Progress.
LEMMA ProgressEquations ==
  ASSUME NEW old, NEW feed, NEW start, Len(feed) \in Nat
  PROVE  /\ Progress(old, feed, start)[0] = start
         /\ \A n \in 1..Len(feed) :
              Progress(old, feed, start)[n]
                = upsertParsedKey(old, feed, Progress(old, feed, start)[n - 1], feed[n])
<1> DEFINE P == Progress(old, feed, start)
<1>1. PICK g : Follows(g, old, feed, start, Len(feed))
  BY ProgressExists
<1>2. P = CHOOSE h : Follows(h, old, feed, start, Len(feed))
  BY DEF Progress, Follows
<1>3. Follows(P, old, feed, start, Len(feed))
  BY <1>1, <1>2
<1> HIDE DEF P
<1>4. P[0] = start
  BY <1>3 DEF Follows
<1>5. ASSUME NEW n \in 1..Len(feed) PROVE P[n] = upsertParsedKey(old, feed, P[n - 1], feed[n])
  <2>1. n \in 0..Len(feed) /\ n # 0
    OBVIOUS
  <2> QED BY <1>3, <2>1 DEF Follows
<1> QED BY <1>4, <1>5 DEF P

\* A feed is a sequence of links, no two of one profile.
LEMMA FeedsAreSequences ==
  ASSUME NEW feed \in Feeds
  PROVE  /\ Len(feed) \in Nat /\ DOMAIN feed = 1..Len(feed)
         /\ \A n \in 1..Len(feed) : feed[n] \in Links
<1>1. PICK n \in 1..MaxFeed : feed \in [1..n -> Links]
  BY DEF Feeds
<1>2. n \in Nat
  BY <1>1, ReconcileBounds
<1>3. feed \in Seq(Links)
  BY <1>1, <1>2, IsASeq
<1> QED BY <1>3, LenProperties, ElementOfSeq

\* How far a refresh has come after n links: unless it has failed, the state is kept
\* and no stored row of a profile listed so far is unclaimed.
ClaimedSoFar(old, last, feed, after, n) ==
  ~ after[n].failed =>
    /\ KeptState(old, last, after[n])
    /\ \A m \in 1..n : \A j \in DOMAIN old : old[j].url.profile = feed[m].profile => j \notin after[n].left

\* The whole feed, by its least prefix for which this would not hold.
LEMMA FeedKept ==
  ASSUME NEW old, NEW last, Clean(old, last), NEW feed \in Feeds, NEW start, KeptState(old, last, start),
         NEW n \in 0..Len(feed)
  PROVE  ClaimedSoFar(old, last, feed, Progress(old, feed, start), n)
<1> DEFINE P == Progress(old, feed, start)
           Bad == {m \in 0..Len(feed) : ~ ClaimedSoFar(old, last, feed, P, m)}
<1>1. Len(feed) \in Nat /\ \A m \in 1..Len(feed) : feed[m] \in Links
  BY FeedsAreSequences
<1>2. P[0] = start /\ \A m \in 1..Len(feed) : P[m] = upsertParsedKey(old, feed, P[m - 1], feed[m])
  BY <1>1, ProgressEquations
<1> HIDE DEF P
<1>3. SUFFICES ASSUME Bad # {} PROVE FALSE
  BY DEF P
<1>4. PICK b \in Bad : \A m \in Bad : b <= m
  <2>1. Bad \subseteq Nat
    BY <1>1
  <2> QED BY <1>3, <2>1, MinIsLeast
<1>5. b \in 0..Len(feed) /\ ~ ClaimedSoFar(old, last, feed, P, b)
  OBVIOUS
<1>6. CASE b = 0
  <2>1. KeptState(old, last, P[0]) /\ 1..0 = {}
    BY <1>2
  <2>2. ClaimedSoFar(old, last, feed, P, 0)
    BY <2>1 DEF ClaimedSoFar
  <2> QED BY <1>5, <1>6, <2>2
<1>7. CASE b # 0
  <2>1. b \in 1..Len(feed) /\ b - 1 \in 0..Len(feed) /\ b - 1 \notin Bad
    BY <1>1, <1>4, <1>5, <1>7
  <2>2. ClaimedSoFar(old, last, feed, P, b - 1)
    BY <2>1
  <2> DEFINE before == P[b - 1]
             link == feed[b]
  <2>3. P[b] = upsertParsedKey(old, feed, before, link) /\ link \in Links
    BY <1>1, <1>2, <2>1
  <2>4. SUFFICES ASSUME ~ P[b].failed
                 PROVE  /\ KeptState(old, last, P[b])
                        /\ \A m \in 1..b : \A j \in DOMAIN old :
                             old[j].url.profile = feed[m].profile => j \notin P[b].left
    BY <1>5 DEF ClaimedSoFar
  <2> HIDE DEF before, link, Bad
  <2>5. ~ upsertParsedKey(old, feed, before, link).failed
    BY <2>3, <2>4
  <2>6. ~ before.failed
    BY <2>5, FailureStays
  <2>7. /\ KeptState(old, last, before)
        /\ \A m \in 1..(b - 1) : \A j \in DOMAIN old : old[j].url.profile = feed[m].profile => j \notin before.left
    BY <2>2, <2>6 DEF ClaimedSoFar, before
  <2>8. KeptState(old, last, P[b]) /\ Claims(old, link, before, P[b])
    <3>1. /\ KeptState(old, last, upsertParsedKey(old, feed, before, link))
          /\ Claims(old, link, before, upsertParsedKey(old, feed, before, link))
      BY <2>3, <2>5, <2>7, LinkKept
    <3> QED BY <2>3, <3>1
  <2>9. ASSUME NEW m \in 1..b, NEW j \in DOMAIN old, old[j].url.profile = feed[m].profile
        PROVE  j \notin P[b].left
    <3>1. CASE m = b
      BY <2>8, <2>9, <3>1 DEF Claims, link
    <3>2. CASE m # b
      <4>1. m \in 1..(b - 1)
        BY <1>1, <2>1, <3>2
      <4> QED BY <2>7, <2>8, <2>9, <4>1 DEF Claims
    <3> QED BY <3>1, <3>2
  <2> QED BY <2>8, <2>9
<1> QED BY <1>6, <1>7

-----------------------------------------------------------------------------
(* A refresh.                                                                *)

\* The repaired table of a stored one is clean.
LEMMA RepairedIsClean ==
  ASSUME NEW table, NEW last, Stored(table, last), RefsUnique(table), UnmarkedIsUnrivalled(table)
  PROVE  Clean(Repaired(table), last)
<1> DEFINE old == Repaired(table)
<1>1. /\ Stored(old, last) /\ OneRow(old) /\ DOMAIN old \subseteq DOMAIN table
      /\ \A s \in DOMAIN old : /\ old[s].ref = table[s].ref /\ old[s].url = table[s].url
                               /\ ~ old[s].marked => ~ table[s].marked
  BY RepairedRows
<1> HIDE DEF old
<1>2. RefsUnique(old) /\ UnmarkedIsUnrivalled(old)
  BY <1>1 DEF RefsUnique, UnmarkedIsUnrivalled
<1> QED BY <1>1, <1>2 DEF Clean, old

\* A refresh begins with every row unclaimed.
LEMMA StartIsKept ==
  ASSUME NEW old, NEW last, Clean(old, last)
  PROVE  KeptState(old, last, [table |-> old, left |-> DOMAIN old, next |-> last + 1, failed |-> FALSE])
<1>1. /\ last \in Nat /\ DOMAIN old \subseteq 1..last /\ \A id \in DOMAIN old : old[id] \in Row
      /\ last + 1 \in Nat /\ last < last + 1 /\ (last + 1) - 1 = last
  BY DEF Clean, Stored
<1>2. RefsUnique(old) /\ FingerprintsUnique(old)
  BY DEF Clean, OneRow, FingerprintsUnique
<1>3. ASSUME NEW u \in DOMAIN old, ~ old[u].marked, NEW r \in DOMAIN old, r # u
      PROVE  old[r].url.profile # old[u].url.profile /\ old[r].ref.profile # old[u].url.profile
  BY <1>3 DEF Clean, OneRow, UnmarkedIsUnrivalled
<1> DEFINE state == [table |-> old, left |-> DOMAIN old, next |-> last + 1, failed |-> FALSE]
<1>4. /\ state.table = old /\ state.left = DOMAIN old /\ state.next = last + 1
      /\ state = [table |-> state.table, left |-> state.left, next |-> state.next, failed |-> state.failed]
  OBVIOUS
<1> HIDE DEF state
<1>5. KeptState(old, last, state)
  BY <1>1, <1>2, <1>3, <1>4 DEF KeptState
<1> QED BY <1>5 DEF state

\* The rows that a refresh leaves of its last state.
Remaining(state, partial) ==
  Restrict(state.table, DOMAIN state.table \ removeUnmatched(state.table, state.left, partial))

\* What a refresh leaves: all as it was when it fails, otherwise a kept state without
\* the rows that are removed.
Leaves(table, last, feed, partial, after) ==
  /\ after.failed => after.table = table /\ after.last = last
  /\ ~ after.failed =>
       \E state :
         /\ KeptState(Repaired(table), last, state)
         /\ \A m \in 1..Len(feed) : \A j \in DOMAIN Repaired(table) :
              Repaired(table)[j].url.profile = feed[m].profile => j \notin state.left
         /\ after.table = Remaining(state, partial)
         /\ after.last = state.next - 1

\* Every refresh has that outcome.
LEMMA RefreshOutcome ==
  ASSUME NEW table, NEW last, Stored(table, last), RefsUnique(table), UnmarkedIsUnrivalled(table),
         NEW feed \in Feeds, NEW partial \in BOOLEAN
  PROVE  Leaves(table, last, feed, partial, Refreshed(table, last, feed, partial))
<1> DEFINE old == Repaired(table)
           start == [table |-> old, left |-> DOMAIN old, next |-> last + 1, failed |-> FALSE]
           end == Progress(old, feed, start)[Len(feed)]
           gone == removeUnmatched(end.table, end.left, partial)
           after == Refreshed(table, last, feed, partial)
<1>1. Clean(old, last)
  BY RepairedIsClean
<1>2. KeptState(old, last, start)
  BY <1>1, StartIsKept
<1>3. Len(feed) \in 0..Len(feed)
  BY FeedsAreSequences
<1>4. after = IF end.failed THEN [table |-> table, last |-> last, failed |-> TRUE]
              ELSE [table |-> Restrict(end.table, DOMAIN end.table \ gone),
                    last |-> end.next - 1, failed |-> FALSE]
  BY DEF Refreshed
<1> HIDE DEF old, start
<1>5. ClaimedSoFar(old, last, feed, Progress(old, feed, start), Len(feed))
  BY <1>1, <1>2, <1>3, FeedKept
<1> HIDE DEF after
<1>6. CASE end.failed
  BY <1>4, <1>6 DEF after, Leaves
<1>7. CASE ~ end.failed
  <2>1. ~ after.failed /\ after.table = Restrict(end.table, DOMAIN end.table \ gone) /\ after.last = end.next - 1
    BY <1>4, <1>7
  <2>2. /\ KeptState(old, last, end)
        /\ \A m \in 1..Len(feed) : \A j \in DOMAIN old : old[j].url.profile = feed[m].profile => j \notin end.left
    BY <1>5, <1>7 DEF ClaimedSoFar
  <2> HIDE DEF end
  <2> QED BY <2>1, <2>2 DEF old, after, Leaves, Remaining
<1> QED BY <1>6, <1>7

\* A table that a refresh leaves is a stored one again, and every refresh that does
\* not fail leaves one row for each profile.
LEMMA RefreshedRows ==
  ASSUME NEW table, NEW last, Stored(table, last), RefsUnique(table), UnmarkedIsUnrivalled(table),
         NEW feed \in Feeds, NEW partial \in BOOLEAN
  PROVE  LET after == Refreshed(table, last, feed, partial)
         IN  /\ Stored(after.table, after.last)
             /\ RefsUnique(after.table) /\ UnmarkedIsUnrivalled(after.table)
             /\ ~ after.failed => OneRow(after.table)
<1> DEFINE after == Refreshed(table, last, feed, partial)
<1>1. Leaves(table, last, feed, partial, after)
  BY RefreshOutcome
<1> HIDE DEF after
<1>2. CASE after.failed
  BY <1>1, <1>2 DEF after, Leaves
<1>3. CASE ~ after.failed
  <2>1. PICK state :
          /\ KeptState(Repaired(table), last, state)
          /\ after.table = Remaining(state, partial)
          /\ after.last = state.next - 1
    BY <1>1, <1>3 DEF Leaves
  <2>2. /\ DOMAIN after.table \subseteq DOMAIN state.table
        /\ \A id \in DOMAIN after.table : after.table[id] = state.table[id]
    BY <2>1 DEF Remaining, Restrict
  <2>3. /\ state.next \in Nat /\ last < state.next /\ last \in Nat
        /\ DOMAIN state.table \subseteq 1..(state.next - 1)
        /\ \A id \in DOMAIN state.table : state.table[id] \in Row
    BY <2>1 DEF KeptState, Stored
  <2>4. /\ FingerprintsUnique(state.table)
        /\ \A u \in DOMAIN state.table : ~ state.table[u].marked =>
             \A r \in DOMAIN state.table : r # u =>
               /\ state.table[r].url.profile # state.table[u].url.profile
               /\ state.table[r].ref.profile # state.table[u].url.profile
    BY <2>1 DEF KeptState
  <2>5. Stored(after.table, after.last)
    <3>1. after.last = state.next - 1 /\ after.last \in Nat
      BY <2>1, <2>3
    <3> QED BY <2>2, <2>3, <3>1 DEF Stored
  <2>6. RefsUnique(after.table) /\ UnmarkedIsUnrivalled(after.table)
    <3>0. RefsUnique(after.table)
      BY <2>1, <2>2 DEF KeptState, RefsUnique
    <3>1. ASSUME NEW u \in DOMAIN after.table, NEW r \in DOMAIN after.table, ~ after.table[u].marked,
                 after.table[r].ref.profile = after.table[u].url.profile
          PROVE  after.table[r].url.profile = after.table[u].url.profile
      BY <2>2, <2>4, <3>1
    <3> QED BY <3>0, <3>1 DEF UnmarkedIsUnrivalled
  <2>7. OneRow(after.table)
    <3>1. ASSUME NEW i \in DOMAIN after.table, NEW j \in DOMAIN after.table,
                 after.table[i].url.profile = after.table[j].url.profile
          PROVE  i = j
      <4>1. CASE after.table[i].marked /\ after.table[j].marked
        BY <2>2, <2>4, <3>1, <4>1 DEF FingerprintsUnique
      <4>2. CASE ~ after.table[i].marked
        BY <2>2, <2>4, <3>1, <4>2
      <4>3. CASE ~ after.table[j].marked
        BY <2>2, <2>4, <3>1, <4>3
      <4> QED BY <4>1, <4>2, <4>3
    <3> QED BY <3>1 DEF OneRow
  <2> QED BY <2>5, <2>6, <2>7 DEF after
<1> QED BY <1>2, <1>3

\* Through a refresh the users and the name of every row survive in a row of its
\* profile, unless a complete feed does not list that profile.
LEMMA RefreshedMetadata ==
  ASSUME NEW table, NEW last, Stored(table, last), RefsUnique(table), UnmarkedIsUnrivalled(table),
         NEW feed \in Feeds, NEW partial \in BOOLEAN, NEW id \in DOMAIN table
  PROVE  LET after == Refreshed(table, last, feed, partial)
         IN  \/ \E j \in SameProfile(table, id) \cap DOMAIN after.table :
                 /\ table[id].users \subseteq after.table[j].users
                 /\ table[id].name # Unnamed => after.table[j].name # Unnamed
             \/ /\ ~ partial
                /\ table[id].url.profile \notin {feed[n].profile : n \in DOMAIN feed}
<1> DEFINE after == Refreshed(table, last, feed, partial)
           old == Repaired(table)
<1>1. Leaves(table, last, feed, partial, after)
  BY RefreshOutcome
<1> HIDE DEF after
<1>2. CASE after.failed
  BY <1>1, <1>2, GroupsAreShared DEF after, Leaves
<1>3. CASE ~ after.failed
  <2>1. PICK s \in DOMAIN old :
          /\ s \in SameProfile(table, id) /\ old[s].url = table[s].url
          /\ table[id].users \subseteq old[s].users
          /\ table[id].name # Unnamed => old[s].name # Unnamed
    BY RepairedRows
  <2> HIDE DEF old
  <2>2. PICK state :
          /\ KeptState(old, last, state)
          /\ \A m \in 1..Len(feed) : \A j \in DOMAIN old :
               old[j].url.profile = feed[m].profile => j \notin state.left
          /\ after.table = Remaining(state, partial)
    BY <1>1, <1>3 DEF Leaves, old
  <2>3. s \in DOMAIN state.table /\ state.table[s].users = old[s].users /\ state.table[s].name = old[s].name
    BY <2>2 DEF KeptState
  <2>4. old[s].url.profile = table[id].url.profile
    BY <2>1, GroupsAreShared
  <2>5. CASE s \in removeUnmatched(state.table, state.left, partial)
    <3>1. ~ partial /\ s \in state.left
      BY <2>5 DEF removeUnmatched
    <3>2. DOMAIN feed = 1..Len(feed)
      BY FeedsAreSequences
    <3>3. table[id].url.profile \notin {feed[n].profile : n \in DOMAIN feed}
      BY <2>2, <2>4, <3>1, <3>2
    <3> QED BY <3>1, <3>3
  <2>6. CASE s \notin removeUnmatched(state.table, state.left, partial)
    <3>1. s \in DOMAIN after.table /\ after.table[s] = state.table[s]
      BY <2>2, <2>3, <2>6 DEF Remaining, Restrict
    <3>2. /\ table[id].users \subseteq after.table[s].users
          /\ table[id].name # Unnamed => after.table[s].name # Unnamed
      BY <2>1, <2>3, <3>1
    <3> QED BY <2>1, <3>1, <3>2 DEF after
  <2> QED BY <2>5, <2>6
<1> QED BY <1>2, <1>3

-----------------------------------------------------------------------------
(* Refreshing again.                                                         *)

\* The row that the nth link is written into, or that is added for it.
RowFor(old, feed, state, n) ==
  LET matched == matchExisting(old, state.left, feed, feed[n])
  IN  IF matched # {} THEN Min(matched) ELSE state.next

\* After n links, whose rows are w[1], ..., w[n]: a row is unclaimed or shows the last
\* link that it was given, and an added row refers to the one link it was added for.
History(old, feed, w, state, n) ==
  /\ \A m \in 1..n : w[m] \in DOMAIN state.table
  /\ \A r \in DOMAIN state.table :
       \/ r \in state.left /\ \A m \in 1..n : w[m] # r
       \/ /\ r \notin state.left
          /\ \E m \in 1..n : /\ w[m] = r /\ \A k \in 1..n : m < k => w[k] # r
                             /\ state.table[r].url = feed[m] /\ state.table[r].marked
  /\ \A r \in DOMAIN state.table : r \notin DOMAIN old =>
       \E m \in 1..n : /\ w[m] = r /\ \A k \in 1..n : w[k] = r => k = m
                       /\ state.table[r].ref = feed[m] /\ state.table[r].url = feed[m]

\* The profiles of a feed are different.
LEMMA FeedIsInjective ==
  ASSUME NEW feed \in Feeds, NEW i \in 1..Len(feed), NEW j \in 1..Len(feed),
         feed[i].profile = feed[j].profile
  PROVE  i = j
  BY FeedsAreSequences DEF Feeds

\* A link that matches a row extends the history.
LEMMA MatchedHistory ==
  ASSUME NEW old, NEW last, Clean(old, last), NEW feed \in Feeds, NEW n \in 1..Len(feed), NEW w, NEW state,
         KeptState(old, last, state), History(old, feed, w, state, n - 1),
         w[n] = RowFor(old, feed, state, n), w[n] \in matchExisting(old, state.left, feed, feed[n]),
         ~ writeMatched(state, w[n], feed[n]).failed, ~ state.failed
  PROVE  History(old, feed, w, writeMatched(state, w[n], feed[n]), n)
<1> DEFINE link == feed[n]
           id == w[n]
           table == Written(state.table, id, link)
           new == writeMatched(state, id, link)
<1>1. Len(feed) \in Nat /\ link \in Links
  BY FeedsAreSequences
<1>2. /\ id \in DOMAIN old /\ DOMAIN old \subseteq DOMAIN state.table /\ state.table[id] \in Row
      /\ state = [table |-> state.table, left |-> state.left, next |-> state.next, failed |-> state.failed]
  BY <1>1, MatchIsUnrivalled DEF KeptState
<1>3. /\ DOMAIN table = DOMAIN state.table
      /\ \A j \in DOMAIN state.table : j # id => table[j] = state.table[j]
      /\ table[id].ref = state.table[id].ref /\ table[id].url = link /\ table[id].marked
  BY <1>1, <1>2, WrittenRow
<1>4. new.table = table /\ new.left = state.left \ {id}
  <2>1. new = IF FingerprintsUnique(table) THEN [state EXCEPT !.table = table, !.left = state.left \ {id}]
              ELSE [state EXCEPT !.failed = TRUE]
    BY DEF writeMatched
  <2>2. ~ new.failed
    OBVIOUS
  <2> HIDE DEF new, table
  <2> QED BY <1>2, <2>1, <2>2
<1> HIDE DEF new, table, id, link
<1>5. \A m \in 1..n : m \in 1..(n - 1) \/ m = n
  BY <1>1
<1>6. \A m \in 1..(n - 1) : m \in 1..n /\ m < n
  BY <1>1
<1>7. n \in 1..n /\ n \in Nat
  BY <1>1
<1>8. \A m \in 1..n : w[m] \in DOMAIN new.table
  BY <1>2, <1>3, <1>4, <1>5 DEF History, id
<1>9. ASSUME NEW r \in DOMAIN new.table
      PROVE  \/ r \in new.left /\ \A m \in 1..n : w[m] # r
             \/ /\ r \notin new.left
                /\ \E m \in 1..n : /\ w[m] = r /\ \A k \in 1..n : m < k => w[k] # r
                                   /\ new.table[r].url = feed[m] /\ new.table[r].marked
  <2>1. CASE r = id
    <3>1. w[n] = r /\ \A k \in 1..n : ~ (n < k)
      BY <1>1, <2>1 DEF id
    <3>2. r \notin new.left /\ new.table[r].url = feed[n] /\ new.table[r].marked
      BY <1>3, <1>4, <2>1 DEF link
    <3> QED BY <1>7, <3>1, <3>2
  <2>2. CASE r # id /\ r \in state.left
    <3>1. \A m \in 1..(n - 1) : w[m] # r
      BY <1>3, <1>4, <2>2 DEF History
    <3> QED BY <1>4, <1>5, <2>2, <3>1 DEF id
  <2>3. CASE r # id /\ r \notin state.left
    <3>1. PICK m \in 1..(n - 1) : /\ w[m] = r /\ \A k \in 1..(n - 1) : m < k => w[k] # r
                                  /\ state.table[r].url = feed[m] /\ state.table[r].marked
      BY <1>3, <1>4, <2>3 DEF History
    <3>2. m \in 1..n /\ \A k \in 1..n : m < k => w[k] # r
      BY <1>5, <1>6, <2>3, <3>1 DEF id
    <3>3. new.table[r].url = feed[m] /\ new.table[r].marked /\ r \notin new.left
      BY <1>3, <1>4, <2>3, <3>1
    <3> QED BY <3>1, <3>2, <3>3
  <2> QED BY <2>1, <2>2, <2>3
<1>10. ASSUME NEW r \in DOMAIN new.table, r \notin DOMAIN old
       PROVE  \E m \in 1..n : /\ w[m] = r /\ \A k \in 1..n : w[k] = r => k = m
                              /\ new.table[r].ref = feed[m] /\ new.table[r].url = feed[m]
  <2>1. r # id /\ r \in DOMAIN state.table /\ new.table[r] = state.table[r]
    BY <1>2, <1>3, <1>4, <1>10
  <2>2. PICK m \in 1..(n - 1) : /\ w[m] = r /\ \A k \in 1..(n - 1) : w[k] = r => k = m
                                /\ state.table[r].ref = feed[m] /\ state.table[r].url = feed[m]
    BY <1>10, <2>1 DEF History
  <2>3. m \in 1..n /\ \A k \in 1..n : w[k] = r => k = m
    BY <1>5, <1>6, <2>1, <2>2 DEF id
  <2> QED BY <2>1, <2>2, <2>3
<1> QED BY <1>8, <1>9, <1>10 DEF History, new, id, link

\* A link that matches none is always added: no row refers to it or shows its profile.
LEMMA InsertedHistory ==
  ASSUME NEW old, NEW last, Clean(old, last), NEW feed \in Feeds, NEW n \in 1..Len(feed), NEW w, NEW state,
         KeptState(old, last, state), History(old, feed, w, state, n - 1),
         w[n] = state.next, matchExisting(old, state.left, feed, feed[n]) = {}
  PROVE  /\ History(old, feed, w, insertNew(state, feed[n]), n)
         /\ w[n] \notin DOMAIN old
<1> DEFINE link == feed[n]
           id == w[n]
           table == Added(state, link)
           new == insertNew(state, link)
<1>1. Len(feed) \in Nat /\ link \in Links
  BY FeedsAreSequences
<1>2. /\ DOMAIN old \subseteq DOMAIN state.table
      /\ state = [table |-> state.table, left |-> state.left, next |-> state.next, failed |-> state.failed]
  BY DEF KeptState
<1>3. id \notin DOMAIN state.table /\ id \notin state.left /\ id = state.next
  <2>1. state.next \in Nat /\ DOMAIN state.table \subseteq 1..(state.next - 1) /\ state.left \subseteq DOMAIN old
    BY DEF KeptState
  <2> QED BY <1>2, <2>1
<1>4. /\ DOMAIN table = DOMAIN state.table \cup {id}
      /\ \A j \in DOMAIN state.table : table[j] = state.table[j]
      /\ table[id].ref = link /\ table[id].url = link /\ table[id].marked
  <2>1. state.next \notin DOMAIN state.table
    BY <1>3
  <2> HIDE DEF id, table
  <2>2. /\ DOMAIN table = DOMAIN state.table \cup {state.next}
        /\ \A j \in DOMAIN state.table : table[j] = state.table[j]
        /\ table[state.next].ref = link /\ table[state.next].url = link /\ table[state.next].marked
    BY <1>1, <2>1, AddedRow DEF table
  <2> QED BY <1>3, <2>2
<1>5. \A j \in DOMAIN old : old[j].ref # link /\ old[j].url.profile # link.profile
  BY DEF matchExisting
<1>6. \A m \in 1..(n - 1) : m \in 1..n /\ m < n /\ m \in 1..Len(feed) /\ m # n
  BY <1>1
<1>7. \A m \in 1..(n - 1) : feed[m].profile # link.profile /\ feed[m] # link
  BY <1>6, FeedIsInjective
<1> HIDE DEF new, table, id, link
<1>8. ASSUME NEW r \in DOMAIN state.table
      PROVE  state.table[r].ref # link /\ state.table[r].url.profile # link.profile
  <2>1. state.table[r].ref # link
    <3>1. CASE r \in DOMAIN old
      BY <1>5, <3>1 DEF KeptState
    <3>2. CASE r \notin DOMAIN old
      BY <1>7, <3>2 DEF History
    <3> QED BY <3>1, <3>2
  <2>2. state.table[r].url.profile # link.profile
    <3>1. CASE r \in state.left
      <4>1. r \in DOMAIN old /\ state.table[r] = old[r]
        BY <3>1 DEF KeptState
      <4> QED BY <1>5, <4>1
    <3>2. CASE r \notin state.left
      BY <1>7, <3>2 DEF History
    <3> QED BY <3>1, <3>2
  <2> QED BY <2>1, <2>2
<1>9. RefsUnique(table) /\ FingerprintsUnique(table)
  <2>1. RefsUnique(table)
    <3>1. RefsUnique(state.table)
      BY DEF KeptState
    <3> QED BY <1>4, <1>8, <3>1 DEF RefsUnique
  <2>2. FingerprintsUnique(table)
    <3>1. FingerprintsUnique(state.table)
      BY DEF KeptState
    <3> QED BY <1>4, <1>8, <3>1 DEF FingerprintsUnique
  <2> QED BY <2>1, <2>2
<1>10. new.table = table /\ new.left = state.left
  <2>1. new = [state EXCEPT !.table = table, !.next = state.next + 1]
    BY <1>9 DEF new, table, insertNew
  <2> QED BY <1>2, <2>1
<1>11. \A m \in 1..n : m \in 1..(n - 1) \/ m = n
  BY <1>1
<1>12. n \in 1..n /\ n \in Nat
  BY <1>1
<1>13. \A m \in 1..(n - 1) : w[m] \in DOMAIN state.table /\ w[m] # id
  BY <1>3 DEF History
<1>14. \A m \in 1..n : w[m] \in DOMAIN new.table
  BY <1>4, <1>10, <1>11, <1>13 DEF id
<1>15. ASSUME NEW r \in DOMAIN new.table
       PROVE  \/ r \in new.left /\ \A m \in 1..n : w[m] # r
              \/ /\ r \notin new.left
                 /\ \E m \in 1..n : /\ w[m] = r /\ \A k \in 1..n : m < k => w[k] # r
                                    /\ new.table[r].url = feed[m] /\ new.table[r].marked
  <2>1. CASE r = id
    <3>1. w[n] = r /\ \A k \in 1..n : ~ (n < k)
      BY <1>1, <2>1 DEF id
    <3>2. r \notin new.left /\ new.table[r].url = feed[n] /\ new.table[r].marked
      BY <1>3, <1>4, <1>10, <2>1 DEF link
    <3> QED BY <1>12, <3>1, <3>2
  <2>2. CASE r # id /\ r \in state.left
    <3>1. \A m \in 1..(n - 1) : w[m] # r
      BY <1>4, <1>10, <2>2 DEF History
    <3> QED BY <1>10, <1>11, <2>2, <3>1 DEF id
  <2>3. CASE r # id /\ r \notin state.left
    <3>1. PICK m \in 1..(n - 1) : /\ w[m] = r /\ \A k \in 1..(n - 1) : m < k => w[k] # r
                                  /\ state.table[r].url = feed[m] /\ state.table[r].marked
      BY <1>4, <1>10, <2>3 DEF History
    <3>2. m \in 1..n /\ \A k \in 1..n : m < k => w[k] # r
      BY <1>6, <1>11, <2>3, <3>1 DEF id
    <3>3. new.table[r].url = feed[m] /\ new.table[r].marked /\ r \notin new.left
      BY <1>4, <1>10, <2>3, <3>1
    <3> QED BY <3>1, <3>2, <3>3
  <2> QED BY <2>1, <2>2, <2>3
<1>16. ASSUME NEW r \in DOMAIN new.table, r \notin DOMAIN old
       PROVE  \E m \in 1..n : /\ w[m] = r /\ \A k \in 1..n : w[k] = r => k = m
                              /\ new.table[r].ref = feed[m] /\ new.table[r].url = feed[m]
  <2>1. CASE r = id
    <3>1. w[n] = r /\ \A k \in 1..n : w[k] = r => k = n
      BY <1>11, <1>13, <2>1 DEF id
    <3>2. new.table[r].ref = feed[n] /\ new.table[r].url = feed[n]
      BY <1>4, <1>10, <2>1 DEF link
    <3> QED BY <1>12, <3>1, <3>2
  <2>2. CASE r # id
    <3>1. r \in DOMAIN state.table /\ new.table[r] = state.table[r]
      BY <1>4, <1>10, <2>2
    <3>2. PICK m \in 1..(n - 1) : /\ w[m] = r /\ \A k \in 1..(n - 1) : w[k] = r => k = m
                                  /\ state.table[r].ref = feed[m] /\ state.table[r].url = feed[m]
      BY <1>16, <3>1 DEF History
    <3>3. m \in 1..n /\ \A k \in 1..n : w[k] = r => k = m
      BY <1>6, <1>11, <2>2, <3>2 DEF id
    <3> QED BY <3>1, <3>2, <3>3
  <2> QED BY <2>1, <2>2
<1>17. History(old, feed, w, new, n)
  BY <1>14, <1>15, <1>16 DEF History
<1> QED BY <1>2, <1>3, <1>17 DEF new, id, link

\* The row of each link of a feed, given the states of the refresh.
RowsOf(old, feed, after) == [m \in 1..Len(feed) |-> RowFor(old, feed, after[m - 1], m)]

\* The whole feed, by its least prefix without a history.
LEMMA FeedHistory ==
  ASSUME NEW old, NEW last, Clean(old, last), NEW feed \in Feeds, NEW start, KeptState(old, last, start),
         start.table = old, start.left = DOMAIN old, NEW n \in 0..Len(feed),
         ~ Progress(old, feed, start)[n].failed
  PROVE  History(old, feed, RowsOf(old, feed, Progress(old, feed, start)), Progress(old, feed, start)[n], n)
<1> DEFINE P == Progress(old, feed, start)
           w == RowsOf(old, feed, P)
           Bad == {m \in 0..Len(feed) : ~ P[m].failed /\ ~ History(old, feed, w, P[m], m)}
<1>1. Len(feed) \in Nat /\ \A m \in 1..Len(feed) : feed[m] \in Links
  BY FeedsAreSequences
<1>2. P[0] = start /\ \A m \in 1..Len(feed) : P[m] = upsertParsedKey(old, feed, P[m - 1], feed[m])
  BY <1>1, ProgressEquations
<1>3. \A m \in 0..Len(feed) : ClaimedSoFar(old, last, feed, P, m)
  BY FeedKept
<1>4. \A m \in 1..Len(feed) : w[m] = RowFor(old, feed, P[m - 1], m)
  BY DEF RowsOf
<1> HIDE DEF P, w
<1>5. SUFFICES ASSUME Bad # {} PROVE FALSE
  BY DEF P, w
<1>6. PICK b \in Bad : \A m \in Bad : b <= m
  <2>1. Bad \subseteq Nat
    BY <1>1
  <2> QED BY <1>5, <2>1, MinIsLeast
<1>7. b \in 0..Len(feed) /\ ~ P[b].failed /\ ~ History(old, feed, w, P[b], b)
  OBVIOUS
<1>8. CASE b = 0
  <2>1. 1..0 = {}
    OBVIOUS
  <2>2. History(old, feed, w, start, 0)
    BY <2>1 DEF History
  <2> QED BY <1>2, <1>7, <1>8, <2>2
<1>9. CASE b # 0
  <2>1. b \in 1..Len(feed) /\ b - 1 \in 0..Len(feed) /\ b - 1 \notin Bad
    BY <1>1, <1>6, <1>7, <1>9
  <2> DEFINE before == P[b - 1]
             link == feed[b]
             matched == matchExisting(old, before.left, feed, link)
  <2>2. P[b] = upsertParsedKey(old, feed, before, link) /\ link \in Links /\ w[b] = RowFor(old, feed, before, b)
    BY <1>1, <1>2, <1>4, <2>1
  <2>3. ~ before.failed
    <3> HIDE DEF before, link
    <3> QED BY <1>7, <2>2, FailureStays
  <2>4. History(old, feed, w, before, b - 1)
    BY <2>1, <2>3
  <2>5. KeptState(old, last, before)
    <3>1. ClaimedSoFar(old, last, feed, P, b - 1)
      BY <1>3, <2>1
    <3> QED BY <2>3, <3>1 DEF ClaimedSoFar
  <2> HIDE DEF before, Bad
  <2>6. CASE matched = {}
    <3>1. P[b] = insertNew(before, link) /\ w[b] = before.next
      BY <2>2, <2>3, <2>6 DEF upsertParsedKey, RowFor
    <3>2. w[b] = before.next /\ matchExisting(old, before.left, feed, feed[b]) = {}
      BY <2>6, <3>1
    <3>3. History(old, feed, w, insertNew(before, feed[b]), b)
      BY <2>1, <2>4, <2>5, <3>2, InsertedHistory
    <3> QED BY <1>7, <3>1, <3>3
  <2>7. CASE matched # {}
    <3>1. matched \subseteq DOMAIN old /\ DOMAIN old \subseteq Nat
      <4>1. matched \subseteq DOMAIN old
        BY <2>2, MatchIsUnrivalled
      <4> QED BY <4>1 DEF Clean, Stored
    <3>2. Min(matched) \in matched
      BY <2>7, <3>1, MinIsLeast
    <3>3. w[b] = Min(matched) /\ P[b] = writeMatched(before, Min(matched), link)
      BY <2>2, <2>3, <2>7 DEF upsertParsedKey, RowFor
    <3>4. w[b] \in matchExisting(old, before.left, feed, feed[b]) /\ P[b] = writeMatched(before, w[b], feed[b])
      BY <3>2, <3>3
    <3>5. ~ writeMatched(before, w[b], feed[b]).failed
      BY <1>7, <3>4
    <3>6. History(old, feed, w, writeMatched(before, w[b], feed[b]), b)
      BY <2>1, <2>2, <2>3, <2>4, <2>5, <3>4, <3>5, MatchedHistory
    <3> QED BY <1>7, <3>4, <3>6
  <2> QED BY <2>6, <2>7
<1> QED BY <1>8, <1>9

\* How the nth link came to its row: by the reference, otherwise by the profile,
\* otherwise by the label while no link had claimed the row, otherwise it was added.
Matches(old, feed, w, n) ==
  LET referred == {id \in DOMAIN old : old[id].ref = feed[n]}
      identical == {id \in DOMAIN old : old[id].url.profile = feed[n].profile}
  IN  \/ w[n] \in referred
      \/ referred = {} /\ w[n] \in identical
      \/ /\ referred = {} /\ identical = {} /\ w[n] \in Labelled(old, feed, feed[n])
         /\ \A m \in 1..(n - 1) : w[m] # w[n]
      \/ referred = {} /\ identical = {} /\ w[n] \notin DOMAIN old

\* A refresh that did not fail, by the rows of its links and its last state.
Pass(old, last, feed, w, state) ==
  /\ KeptState(old, last, state)
  /\ History(old, feed, w, state, Len(feed))
  /\ \A n \in 1..Len(feed) : Matches(old, feed, w, n)
  /\ \A n \in 1..Len(feed) : \A j \in DOMAIN old :
       old[j].url.profile = feed[n].profile => j \notin state.left

\* Failure at a prefix is failure of the whole.
LEMMA FailureLasts ==
  ASSUME NEW old, NEW feed \in Feeds, NEW start, ~ Progress(old, feed, start)[Len(feed)].failed,
         NEW n \in 0..Len(feed)
  PROVE  ~ Progress(old, feed, start)[n].failed
<1> DEFINE P == Progress(old, feed, start)
           Bad == {m \in Nat : m <= Len(feed) /\ P[Len(feed) - m].failed}
<1>1. Len(feed) \in Nat
  BY FeedsAreSequences
<1>2. \A m \in 1..Len(feed) : P[m] = upsertParsedKey(old, feed, P[m - 1], feed[m])
  BY <1>1, ProgressEquations
<1> HIDE DEF P
<1>3. SUFFICES ASSUME Bad # {} PROVE FALSE
  <2>1. Len(feed) - n \in Nat /\ Len(feed) - n <= Len(feed) /\ Len(feed) - (Len(feed) - n) = n
    BY <1>1
  <2> QED BY <2>1 DEF P
<1>4. PICK b \in Bad : \A m \in Bad : b <= m
  BY <1>3, MinIsLeast
<1>5. b \in Nat /\ b <= Len(feed) /\ P[Len(feed) - b].failed
  OBVIOUS
<1>6. b # 0
  BY <1>1, <1>5 DEF P
<1>7. /\ b - 1 \in Nat /\ b - 1 \notin Bad /\ Len(feed) - b + 1 \in 1..Len(feed)
      /\ Len(feed) - (b - 1) = Len(feed) - b + 1 /\ (Len(feed) - b + 1) - 1 = Len(feed) - b
  BY <1>1, <1>4, <1>5, <1>6
<1>8. ~ P[Len(feed) - b + 1].failed
  BY <1>1, <1>5, <1>7
<1>9. P[Len(feed) - b + 1] = upsertParsedKey(old, feed, P[Len(feed) - b], feed[Len(feed) - b + 1])
  BY <1>2, <1>7
<1>10. ~ P[Len(feed) - b].failed
  <2> DEFINE link == feed[Len(feed) - b + 1]
             state == P[Len(feed) - b]
  <2>1. ~ upsertParsedKey(old, feed, state, link).failed
    BY <1>8, <1>9
  <2> HIDE DEF link, state
  <2>2. ~ state.failed
    BY <2>1, FailureStays
  <2> QED BY <2>2 DEF state
<1> QED BY <1>5, <1>10

\* A refresh that did not fail is a pass over the repaired rows.
LEMMA RefreshIsAPass ==
  ASSUME NEW table, NEW last, Clean(Repaired(table), last), NEW feed \in Feeds, NEW partial \in BOOLEAN,
         ~ Refreshed(table, last, feed, partial).failed
  PROVE  \E w, state :
           /\ Pass(Repaired(table), last, feed, w, state)
           /\ Refreshed(table, last, feed, partial).table = Remaining(state, partial)
           /\ Refreshed(table, last, feed, partial).last = state.next - 1
<1> DEFINE old == Repaired(table)
           start == [table |-> old, left |-> DOMAIN old, next |-> last + 1, failed |-> FALSE]
           P == Progress(old, feed, start)
           w == RowsOf(old, feed, P)
           end == P[Len(feed)]
           after == Refreshed(table, last, feed, partial)
<1>1. KeptState(old, last, start) /\ start.table = old /\ start.left = DOMAIN old
  BY StartIsKept
<1>2. Len(feed) \in Nat /\ Len(feed) \in 0..Len(feed) /\ \A m \in 1..Len(feed) : feed[m] \in Links
  BY FeedsAreSequences
<1>3. after = IF end.failed THEN [table |-> table, last |-> last, failed |-> TRUE]
              ELSE [table |-> Remaining(end, partial), last |-> end.next - 1, failed |-> FALSE]
  BY DEF Refreshed, Remaining
<1> HIDE DEF old, start, after
<1>4. ~ end.failed /\ after.table = Remaining(end, partial) /\ after.last = end.next - 1
  <2>1. ~ after.failed
    BY DEF after
  <2> HIDE DEF end
  <2> QED BY <1>3, <2>1
<1>5. Clean(old, last)
  BY DEF old
<1>6. ASSUME NEW n \in 0..Len(feed)
      PROVE  ~ P[n].failed /\ ClaimedSoFar(old, last, feed, P, n) /\ History(old, feed, w, P[n], n)
  <2>1. ~ P[n].failed
    BY <1>4, FailureLasts
  <2> QED BY <1>1, <1>5, <2>1, FeedKept, FeedHistory
<1>7. ASSUME NEW n \in 1..Len(feed) PROVE Matches(old, feed, w, n)
  <2> DEFINE left == P[n - 1].left
             matched == matchExisting(old, left, feed, feed[n])
             referred == {id \in DOMAIN old : old[id].ref = feed[n]}
             identical == {id \in DOMAIN old : old[id].url.profile = feed[n].profile}
  <2>1. n - 1 \in 0..Len(feed)
    BY <1>2
  <2>2. KeptState(old, last, P[n - 1]) /\ History(old, feed, w, P[n - 1], n - 1)
    BY <1>6, <2>1 DEF ClaimedSoFar
  <2>3. w[n] = IF matched # {} THEN Min(matched) ELSE P[n - 1].next
    BY DEF RowsOf, RowFor
  <2>4. matched = IF referred # {} THEN referred
                  ELSE IF identical # {} THEN identical ELSE Labelled(old, feed, feed[n]) \cap left
    BY DEF matchExisting
  <2>5. matched # {} => w[n] \in matched
    <3>1. Labelled(old, feed, feed[n]) \subseteq DOMAIN old
      BY DEF Labelled
    <3>2. DOMAIN old \subseteq Nat
      BY <1>5 DEF Clean, Stored
    <3>3. matched \subseteq Nat
      BY <2>4, <3>1, <3>2
    <3> HIDE DEF matched
    <3> QED BY <2>3, <3>3, MinIsLeast
  <2> HIDE DEF P, w, matched
  <2>6. ASSUME w[n] \in left, w[n] \in DOMAIN old PROVE \A m \in 1..(n - 1) : w[m] # w[n]
    BY <2>2, <2>6 DEF KeptState, History
  <2>7. P[n - 1].next \notin DOMAIN old
    <3>1. last \in Nat /\ DOMAIN old \subseteq 1..last
      BY <1>5 DEF Clean, Stored
    <3>2. P[n - 1].next \in Nat /\ last < P[n - 1].next
      BY <2>2 DEF KeptState
    <3> QED BY <3>1, <3>2
  <2>8. CASE referred # {}
    BY <2>4, <2>5, <2>8 DEF Matches
  <2>9. CASE referred = {} /\ identical # {}
    BY <2>4, <2>5, <2>9 DEF Matches
  <2>10. CASE referred = {} /\ identical = {} /\ matched # {}
    <3>1. w[n] \in Labelled(old, feed, feed[n]) /\ w[n] \in left
      BY <2>4, <2>5, <2>10
    <3>2. w[n] \in DOMAIN old
      BY <3>1 DEF Labelled
    <3>3. \A m \in 1..(n - 1) : w[m] # w[n]
      BY <2>6, <3>1, <3>2
    <3> QED BY <2>10, <3>1, <3>3 DEF Matches
  <2>11. CASE referred = {} /\ identical = {} /\ matched = {}
    BY <2>3, <2>7, <2>11 DEF Matches
  <2> QED BY <2>8, <2>9, <2>10, <2>11
<1>8. Pass(old, last, feed, w, end)
  <2>1. ~ P[Len(feed)].failed /\ ClaimedSoFar(old, last, feed, P, Len(feed)) /\ History(old, feed, w, end, Len(feed))
    BY <1>2, <1>6
  <2> QED BY <1>7, <2>1 DEF Pass, ClaimedSoFar
<1> HIDE DEF w, end
<1> QED BY <1>4, <1>8 DEF old, after

\* The rows that a refresh from this feed has gone through: one that shows a listed
\* profile shows its link, and one that refers to a link shows that link or a later one.
Settled(table, feed) ==
  \A r \in DOMAIN table : \A n \in 1..Len(feed) :
    /\ table[r].url.profile = feed[n].profile => table[r].url = feed[n]
    /\ table[r].ref = feed[n] => \E m \in 1..Len(feed) : n <= m /\ table[r].url = feed[m]

\* In the last state of a pass a row shows the last link that it was given.
LEMMA PassSettles ==
  ASSUME NEW old, NEW last, Clean(old, last), NEW feed \in Feeds, NEW w, NEW state,
         Pass(old, last, feed, w, state)
  PROVE  Settled(state.table, feed)
<1>1. Len(feed) \in Nat /\ \A n \in 1..Len(feed) : n \in Nat
  BY FeedsAreSequences
<1>2. KeptState(old, last, state) /\ History(old, feed, w, state, Len(feed))
  BY DEF Pass
<1>3. ASSUME NEW r \in DOMAIN state.table, NEW n \in 1..Len(feed),
             state.table[r].url.profile = feed[n].profile
      PROVE  state.table[r].url = feed[n]
  <2>1. CASE r \in state.left
    <3>1. r \in DOMAIN old /\ state.table[r] = old[r]
      BY <1>2, <2>1 DEF KeptState
    <3> QED BY <1>3, <2>1, <3>1 DEF Pass
  <2>2. CASE r \notin state.left
    <3>1. PICK m \in 1..Len(feed) : state.table[r].url = feed[m]
      BY <1>2, <2>2 DEF History
    <3>2. m = n
      BY <1>3, <3>1, FeedIsInjective
    <3> QED BY <3>1, <3>2
  <2> QED BY <2>1, <2>2
<1>4. ASSUME NEW r \in DOMAIN state.table, NEW n \in 1..Len(feed), state.table[r].ref = feed[n]
      PROVE  \E m \in 1..Len(feed) : n <= m /\ state.table[r].url = feed[m]
  <2>1. CASE r \in DOMAIN old
    <3>1. old[r].ref = feed[n]
      BY <1>2, <1>4, <2>1 DEF KeptState
    <3>2. w[n] = r
      <4>1. Matches(old, feed, w, n) /\ RefsUnique(old)
        BY DEF Pass, Clean
      <4>2. w[n] \in DOMAIN old /\ old[w[n]].ref = feed[n]
        BY <2>1, <3>1, <4>1 DEF Matches
      <4> QED BY <2>1, <3>1, <4>1, <4>2 DEF RefsUnique
    <3>3. r \notin state.left
      BY <1>2, <3>2 DEF History
    <3>4. PICK m \in 1..Len(feed) : /\ w[m] = r /\ \A k \in 1..Len(feed) : m < k => w[k] # r
                                    /\ state.table[r].url = feed[m]
      BY <1>2, <3>3 DEF History
    <3>5. n <= m
      BY <1>1, <3>2, <3>4
    <3> QED BY <3>4, <3>5
  <2>2. CASE r \notin DOMAIN old
    <3>1. PICK m \in 1..Len(feed) : state.table[r].ref = feed[m] /\ state.table[r].url = feed[m]
      BY <1>2, <2>2 DEF History
    <3>2. m = n
      BY <1>4, <3>1, FeedIsInjective
    <3> QED BY <1>1, <3>1, <3>2
  <2> QED BY <2>1, <2>2
<1> QED BY <1>3, <1>4 DEF Settled

\* A pass over settled rows leaves each link where the next pass finds it by its
\* reference or by its profile.
LEMMA PassIsFinal ==
  ASSUME NEW old, NEW last, Clean(old, last), NEW feed \in Feeds, Settled(old, feed), NEW w, NEW state,
         Pass(old, last, feed, w, state), NEW n \in 1..Len(feed)
  PROVE  /\ w[n] \in DOMAIN state.table /\ w[n] \notin state.left
         /\ \/ state.table[w[n]].ref = feed[n]
            \/ /\ state.table[w[n]].url.profile = feed[n].profile
               /\ \A q \in DOMAIN state.table : state.table[q].ref # feed[n]
<1> DEFINE r == w[n]
           link == feed[n]
<1>1. Len(feed) \in Nat /\ \A m \in 1..Len(feed) : m \in Nat
  BY FeedsAreSequences
<1>2. /\ KeptState(old, last, state) /\ History(old, feed, w, state, Len(feed))
      /\ \A m \in 1..Len(feed) : Matches(old, feed, w, m)
  BY DEF Pass
<1>3. r \in DOMAIN state.table /\ r \notin state.left
  BY <1>2 DEF History
<1>4. CASE \E q \in DOMAIN old : old[q].ref = link
  <2>1. r \in DOMAIN old /\ old[r].ref = link
    BY <1>2, <1>4 DEF Matches
  <2>2. state.table[r].ref = link
    BY <1>2, <2>1 DEF KeptState
  <2> QED BY <1>3, <2>2
<1>5. CASE r \notin DOMAIN old
  <2>1. PICK m \in 1..Len(feed) : /\ w[m] = r /\ \A k \in 1..Len(feed) : w[k] = r => k = m
                                  /\ state.table[r].ref = feed[m]
    BY <1>2, <1>3, <1>5 DEF History
  <2>2. n = m
    BY <2>1
  <2> QED BY <1>3, <2>1, <2>2
<1>6. CASE r \in DOMAIN old /\ ~ \E q \in DOMAIN old : old[q].ref = link
  <2>1. \A q \in DOMAIN state.table : state.table[q].ref # link
    <3>1. ASSUME NEW q \in DOMAIN state.table, state.table[q].ref = link PROVE FALSE
      <4>1. q \notin DOMAIN old
        BY <1>2, <1>6, <3>1 DEF KeptState
      <4>2. PICK m \in 1..Len(feed) : w[m] = q /\ state.table[q].ref = feed[m]
        BY <1>2, <4>1 DEF History
      <4>3. m = n
        BY <3>1, <4>2, FeedIsInjective
      <4> QED BY <1>6, <4>1, <4>2, <4>3
    <3> QED BY <3>1
  <2>2. PICK final \in 1..Len(feed) : /\ w[final] = r /\ \A k \in 1..Len(feed) : final < k => w[k] # r
                                      /\ state.table[r].url = feed[final]
    BY <1>2, <1>3 DEF History
  <2>3. n <= final
    BY <1>1, <2>2
  <2>4. ASSUME NEW m \in 1..Len(feed), w[m] = r, n < m PROVE FALSE
    <3>1. \/ old[r].ref = feed[m]
          \/ old[r].url.profile = feed[m].profile
          \/ \A k \in 1..(m - 1) : w[k] # r
      BY <1>2, <1>6, <2>4 DEF Matches
    <3>2. n \in 1..(m - 1)
      BY <1>1, <2>4
    <3>3. PICK k \in 1..Len(feed) : m <= k /\ old[r].url = feed[k]
      BY <1>1, <1>6, <2>4, <3>1, <3>2 DEF Settled
    <3>4. k # n
      BY <1>1, <2>4, <3>3
    <3>5. old[r].url.profile # link.profile
      BY <3>3, <3>4, FeedIsInjective
    <3>6. r \in Labelled(old, feed, link)
      BY <1>2, <1>6, <3>5 DEF Matches
    <3> DEFINE listed == {i \in DOMAIN feed : feed[i].label = link.label}
    <3>7. old[r].url.label = link.label /\ Cardinality(listed) = 1
      BY <3>6 DEF Labelled
    <3>8. n \in listed /\ k \in listed
      BY <3>3, <3>7, FeedsAreSequences
    <3>9. \A a, b \in listed : a = b
      <4>1. DOMAIN feed = 1..Len(feed)
        BY FeedsAreSequences
      <4>2. IsFiniteSet(listed)
        <5>1. IsFiniteSet(1..Len(feed))
          BY <1>1, FS_Interval
        <5>2. listed \subseteq 1..Len(feed)
          BY <4>1
        <5> QED BY <5>1, <5>2, FS_Subset
      <4> HIDE DEF listed
      <4>3. \E x : listed = {x}
        BY <3>7, <4>2, FS_Singleton
      <4> QED BY <4>3
    <3> QED BY <3>4, <3>8, <3>9
  <2>5. n = final
    BY <1>1, <2>2, <2>3, <2>4
  <2>6. state.table[r].url = link
    BY <2>2, <2>5
  <2> HIDE DEF link
  <2>7. state.table[r].url.profile = link.profile
    BY <2>6
  <2> QED BY <1>3, <2>1, <2>7 DEF link
<1> QED BY <1>4, <1>5, <1>6

\* Rows without duplicates are not repaired.
LEMMA NothingToRepair ==
  ASSUME NEW table, DOMAIN table \subseteq Nat, OneRow(table), table = [id \in DOMAIN table |-> table[id]]
  PROVE  Repaired(table) = table
<1>1. ASSUME NEW id \in DOMAIN table
      PROVE  SameProfile(table, id) = {id} /\ duplicateSurvivor(table, id) = id
  <2>1. SameProfile(table, id) = {id}
    BY DEF SameProfile, OneRow
  <2>2. duplicateSurvivor(table, id) \in SameProfile(table, id)
    BY SurvivorIsOfTheGroup
  <2> QED BY <2>1, <2>2
<1>2. {duplicateSurvivor(table, j) : j \in DOMAIN table} = DOMAIN table
  BY <1>1
<1>3. Repaired(table) = [id \in DOMAIN table |-> table[id]]
  BY <1>1, <1>2 DEF Repaired
<1> QED BY <1>3

\* Two passes after each other, the first over settled rows: the second changes no row
\* that the first left, adds none and finds none to remove.
LEMMA PassRepeats ==
  ASSUME NEW old, NEW last, Clean(old, last), NEW feed \in Feeds, Settled(old, feed), NEW partial \in BOOLEAN,
         NEW w, NEW state, Pass(old, last, feed, w, state),
         NEW last2, Clean(Remaining(state, partial), last2),
         NEW w2, NEW state2, Pass(Remaining(state, partial), last2, feed, w2, state2)
  PROVE  Remaining(state2, partial) = Remaining(state, partial)
<1> DEFINE table == Remaining(state, partial)
           gone == removeUnmatched(state.table, state.left, partial)
           gone2 == removeUnmatched(state2.table, state2.left, partial)
<1>1. /\ DOMAIN table = DOMAIN state.table \ gone
      /\ \A r \in DOMAIN table : r \in DOMAIN state.table /\ table[r] = state.table[r]
      /\ table = [r \in DOMAIN table |-> table[r]]
  BY DEF Remaining, Restrict
<1>2. gone \subseteq state.left /\ (~ partial => gone = state.left)
  BY DEF removeUnmatched
<1>3. /\ KeptState(old, last, state) /\ History(old, feed, w, state, Len(feed))
      /\ KeptState(table, last2, state2) /\ History(table, feed, w2, state2, Len(feed))
      /\ \A n \in 1..Len(feed) : Matches(table, feed, w2, n)
  <2>1. Pass(table, last2, feed, w2, state2)
    OBVIOUS
  <2> HIDE DEF table
  <2> QED BY <2>1 DEF Pass
<1>4. RefsUnique(table) /\ OneRow(table) /\ \A r \in DOMAIN table : table[r] \in Row
  BY DEF Clean, Stored
<1> HIDE DEF table, gone, gone2
<1>5. ASSUME NEW n \in 1..Len(feed) PROVE w[n] \in DOMAIN table /\ w2[n] = w[n]
  <2>1. /\ w[n] \in DOMAIN state.table /\ w[n] \notin state.left
        /\ \/ state.table[w[n]].ref = feed[n]
           \/ /\ state.table[w[n]].url.profile = feed[n].profile
              /\ \A q \in DOMAIN state.table : state.table[q].ref # feed[n]
    BY PassIsFinal
  <2>2. w[n] \in DOMAIN table
    BY <1>1, <1>2, <2>1
  <2>3. CASE table[w[n]].ref = feed[n]
    <3>1. w2[n] \in DOMAIN table /\ table[w2[n]].ref = feed[n]
      BY <1>3, <2>2, <2>3 DEF Matches
    <3> QED BY <1>4, <2>2, <2>3, <3>1 DEF RefsUnique
  <2>4. CASE table[w[n]].ref # feed[n]
    <3>1. table[w[n]].url.profile = feed[n].profile /\ \A q \in DOMAIN table : table[q].ref # feed[n]
      BY <1>1, <2>1, <2>2, <2>4
    <3>2. w2[n] \in DOMAIN table /\ table[w2[n]].url.profile = feed[n].profile
      BY <1>3, <2>2, <3>1 DEF Matches
    <3> QED BY <1>4, <2>2, <3>1, <3>2 DEF OneRow
  <2> QED BY <2>2, <2>3, <2>4
<1>6. DOMAIN state2.table = DOMAIN table
  <2>1. DOMAIN table \subseteq DOMAIN state2.table
    BY <1>3 DEF KeptState
  <2>2. ASSUME NEW r \in DOMAIN state2.table, r \notin DOMAIN table PROVE FALSE
    <3>1. PICK m \in 1..Len(feed) : w2[m] = r
      BY <1>3, <2>2 DEF History
    <3> QED BY <1>5, <2>2, <3>1
  <2> QED BY <2>1, <2>2
<1>7. ASSUME NEW r \in DOMAIN table PROVE state2.table[r] = table[r]
  <2>1. CASE r \in state2.left
    BY <1>3, <2>1 DEF KeptState
  <2>2. CASE r \notin state2.left
    <3>1. PICK m \in 1..Len(feed) : /\ w2[m] = r /\ \A k \in 1..Len(feed) : m < k => w2[k] # r
                                    /\ state2.table[r].url = feed[m] /\ state2.table[r].marked
      BY <1>3, <1>6, <2>2 DEF History
    <3>2. w[m] = r /\ r \in DOMAIN state.table
      BY <1>1, <1>5, <3>1
    <3>3. PICK k \in 1..Len(feed) : /\ w[k] = r /\ \A j \in 1..Len(feed) : k < j => w[j] # r
                                    /\ state.table[r].url = feed[k] /\ state.table[r].marked
      BY <1>3, <3>2 DEF History
    <3>4. k = m
      <4>1. Len(feed) \in Nat /\ w2[k] = r
        BY <1>5, <3>3, FeedsAreSequences
      <4>2. ~ (m < k) /\ ~ (k < m)
        BY <3>1, <3>2, <3>3, <4>1
      <4> QED BY <4>1, <4>2
    <3>5. state2.table[r].url = table[r].url /\ table[r].marked
      BY <1>1, <3>1, <3>3, <3>4
    <3>6. /\ state2.table[r].ref = table[r].ref /\ state2.table[r].name = table[r].name
          /\ state2.table[r].users = table[r].users
      BY <1>3 DEF KeptState
    <3>7. state2.table[r] \in Row /\ table[r] \in Row
      BY <1>3, <1>4, <1>6 DEF KeptState
    <3> QED BY <3>1, <3>5, <3>6, <3>7 DEF Row
  <2> QED BY <2>1, <2>2
<1>8. gone2 = {}
  <2>1. CASE partial
    BY <2>1 DEF gone2, removeUnmatched
  <2>2. CASE ~ partial
    <3>1. ASSUME NEW r \in state2.left PROVE FALSE
      <4>1. r \in DOMAIN table /\ r \in DOMAIN state2.table
        BY <1>3, <1>6 DEF KeptState
      <4>2. \A m \in 1..Len(feed) : w2[m] # r
        BY <1>3, <4>1 DEF History
      <4>3. r \in DOMAIN state.table /\ r \notin state.left
        BY <1>1, <1>2, <2>2, <4>1
      <4>4. PICK m \in 1..Len(feed) : w[m] = r
        BY <1>3, <4>3 DEF History
      <4> QED BY <1>5, <4>2, <4>4
    <3> QED BY <2>2, <3>1 DEF gone2, removeUnmatched
  <2> QED BY <2>1, <2>2
<1>9. Remaining(state2, partial) = [r \in DOMAIN table |-> table[r]]
  BY <1>6, <1>7, <1>8 DEF Remaining, Restrict, gone2
<1> QED BY <1>1, <1>9 DEF table

\* A third refresh from one feed changes nothing that the second one left.
LEMMA RefreshesSettle ==
  ASSUME NEW table, NEW last, Stored(table, last), RefsUnique(table), UnmarkedIsUnrivalled(table),
         NEW feed \in Feeds, NEW partial \in BOOLEAN
  PROVE  LET one == Refreshed(table, last, feed, partial)
             two == Refreshed(one.table, one.last, feed, partial)
             three == Refreshed(two.table, two.last, feed, partial)
         IN  three.table = two.table
<1> DEFINE one == Refreshed(table, last, feed, partial)
           two == Refreshed(one.table, one.last, feed, partial)
           three == Refreshed(two.table, two.last, feed, partial)
<1>1. /\ Stored(one.table, one.last) /\ RefsUnique(one.table) /\ UnmarkedIsUnrivalled(one.table)
      /\ ~ one.failed => OneRow(one.table)
      /\ one.failed => one.table = table /\ one.last = last
  BY RefreshedRows, RefreshOutcome DEF Leaves
<1> HIDE DEF one
<1>2. /\ Stored(two.table, two.last) /\ RefsUnique(two.table) /\ UnmarkedIsUnrivalled(two.table)
      /\ ~ two.failed => OneRow(two.table)
      /\ two.failed => two.table = one.table /\ two.last = one.last
  BY <1>1, RefreshedRows, RefreshOutcome DEF Leaves
<1> HIDE DEF two
<1>3. three.failed => three.table = two.table
  BY <1>2, RefreshOutcome DEF Leaves
<1>4. CASE two.failed
  <2>1. three = two
    BY <1>2, <1>4 DEF two
  <2> QED BY <1>2, <1>4, <2>1 DEF two, one
<1>5. CASE ~ two.failed /\ ~ three.failed
  <2>1. ~ one.failed
    <3>1. ASSUME one.failed PROVE two = one
      BY <1>1, <3>1 DEF one, two
    <3> QED BY <1>5, <3>1
  <2>2. Clean(Repaired(table), last)
    BY RepairedIsClean
  <2>3. PICK w1, s1 :
          /\ Pass(Repaired(table), last, feed, w1, s1)
          /\ one.table = Remaining(s1, partial)
    BY <2>1, <2>2, RefreshIsAPass DEF one
  <2>4. Settled(one.table, feed) /\ one.table = [id \in DOMAIN one.table |-> one.table[id]]
    <3>1. Settled(s1.table, feed)
      BY <2>2, <2>3, PassSettles
    <3>2. \A r \in DOMAIN one.table : r \in DOMAIN s1.table /\ one.table[r] = s1.table[r]
      BY <2>3 DEF Remaining, Restrict
    <3> QED BY <2>3, <3>1, <3>2 DEF Settled, Remaining, Restrict
  <2>5. Clean(one.table, one.last) /\ Repaired(one.table) = one.table
    <3>1. Clean(one.table, one.last) /\ DOMAIN one.table \subseteq Nat
      BY <1>1, <2>1 DEF Clean, Stored
    <3> QED BY <1>1, <2>1, <2>4, <3>1, NothingToRepair
  <2>6. PICK w2, s2 :
          /\ Pass(one.table, one.last, feed, w2, s2)
          /\ two.table = Remaining(s2, partial)
    <3>1. Clean(Repaired(one.table), one.last)
      BY <2>5
    <3>2. \E w2, s2 :
          /\ Pass(Repaired(one.table), one.last, feed, w2, s2)
          /\ two.table = Remaining(s2, partial)
      BY <1>5, <3>1, RefreshIsAPass DEF two
    <3> QED BY <2>5, <3>2
  <2>7. Clean(two.table, two.last) /\ Repaired(two.table) = two.table
    <3>1. Clean(two.table, two.last) /\ DOMAIN two.table \subseteq Nat
      BY <1>2, <1>5 DEF Clean, Stored
    <3>2. two.table = [id \in DOMAIN two.table |-> two.table[id]]
      BY <2>6 DEF Remaining, Restrict
    <3> QED BY <1>2, <1>5, <3>1, <3>2, NothingToRepair
  <2>8. PICK w3, s3 :
          /\ Pass(two.table, two.last, feed, w3, s3)
          /\ three.table = Remaining(s3, partial)
    <3>1. Clean(Repaired(two.table), two.last)
      BY <2>7
    <3>2. \E w3, s3 :
          /\ Pass(Repaired(two.table), two.last, feed, w3, s3)
          /\ three.table = Remaining(s3, partial)
      BY <1>5, <3>1, RefreshIsAPass
    <3> QED BY <2>7, <3>2
  <2> HIDE DEF three
  <2>9. three.table = two.table
    <3>1. Clean(Remaining(s2, partial), two.last) /\ Pass(Remaining(s2, partial), two.last, feed, w3, s3)
      BY <2>6, <2>7, <2>8
    <3>2. Remaining(s3, partial) = Remaining(s2, partial)
      BY <2>4, <2>5, <2>6, <3>1, PassRepeats
    <3> QED BY <2>6, <2>8, <3>2
  <2> QED BY <2>9 DEF three, two, one
<1> QED BY <1>3, <1>4, <1>5 DEF three, two, one

-----------------------------------------------------------------------------
(* The steps.                                                                *)

\* What a change that touches only names and users leaves.
LEMMA LocalChange ==
  ASSUME NEW table, NEW last, Stored(table, last), RefsUnique(table), UnmarkedIsUnrivalled(table), NEW new,
         DOMAIN new \subseteq DOMAIN table,
         \A id \in DOMAIN new :
           /\ new[id] \in Row /\ new[id].ref = table[id].ref /\ new[id].url = table[id].url
           /\ new[id].marked = table[id].marked
  PROVE  Stored(new, last) /\ RefsUnique(new) /\ UnmarkedIsUnrivalled(new)
<1>1. Stored(new, last)
  BY DEF Stored
<1>2. RefsUnique(new) /\ UnmarkedIsUnrivalled(new)
  BY DEF RefsUnique, UnmarkedIsUnrivalled
<1> QED BY <1>1, <1>2

\* Whatever an earlier version left.
LEMMA InitRows == ReconcileInit => RowsInv
<1> SUFFICES ASSUME ReconcileInit PROVE RowsInv
  OBVIOUS
<1>1. PICK n \in 0..MaxHistory :
        /\ rows \in [1..n -> {row \in Row : row.ref = row.url /\ AllUsers \subseteq row.users}]
        /\ lastId = n
  BY DEF ReconcileInit
<1>2. lastId \in Nat /\ DOMAIN rows \subseteq 1..lastId /\ \A id \in DOMAIN rows : rows[id] \in Row
  BY <1>1, ReconcileBounds
<1>3. refreshes \in 0..MaxRefreshes /\ changes \in 0..MaxChanges
  BY ReconcileBounds DEF ReconcileInit
<1>4. \A id \in DOMAIN rows : rows[id].ref = rows[id].url
  BY <1>1
<1>5. RefsUnique(rows) /\ UnmarkedIsUnrivalled(rows)
  BY <1>4 DEF ReconcileInit, UnmarkedIsUnrivalled
<1> QED BY <1>2, <1>3, <1>5 DEF RowsInv, RowsTyped

\* One proof step for each action.
LEMMA NextRows == RowsInv /\ [ReconcileNext]_reconcileVars => RowsInv'
<1> SUFFICES ASSUME RowsInv, [ReconcileNext]_reconcileVars PROVE RowsInv'
  OBVIOUS
<1>1. /\ Stored(rows, lastId) /\ RefsUnique(rows) /\ UnmarkedIsUnrivalled(rows)
      /\ refreshes \in 0..MaxRefreshes /\ changes \in 0..MaxChanges
      /\ MaxRefreshes \in Nat /\ MaxChanges \in Nat
  BY ReconcileBounds DEF RowsInv, RowsTyped, Stored
<1>2. SUFFICES /\ Stored(rows', lastId') /\ RefsUnique(rows') /\ UnmarkedIsUnrivalled(rows')
               /\ refreshes' \in 0..MaxRefreshes /\ changes' \in 0..MaxChanges
  BY DEF RowsInv, RowsTyped, Stored, RefsUnique, UnmarkedIsUnrivalled
<1>3. CASE Sync
  <2>1. PICK feed \in Feeds, partial \in BOOLEAN :
          /\ rows' = Refreshed(rows, lastId, feed, partial).table
          /\ lastId' = Refreshed(rows, lastId, feed, partial).last
    BY <1>3 DEF Sync
  <2>2. /\ Stored(Refreshed(rows, lastId, feed, partial).table, Refreshed(rows, lastId, feed, partial).last)
        /\ RefsUnique(Refreshed(rows, lastId, feed, partial).table)
        /\ UnmarkedIsUnrivalled(Refreshed(rows, lastId, feed, partial).table)
    BY <1>1, RefreshedRows
  <2>3. refreshes' \in 0..MaxRefreshes /\ changes' \in 0..MaxChanges
    BY <1>1, <1>3 DEF Sync
  <2> QED BY <2>1, <2>2, <2>3
<1>4. CASE UpdateSourceOwnedMetadata
  <2>1. PICK id \in DOMAIN rows, name \in Names \cup {Unnamed} : rows' = [rows EXCEPT ![id].name = name]
    BY <1>4 DEF UpdateSourceOwnedMetadata
  <2>2. /\ DOMAIN rows' = DOMAIN rows /\ rows'[id] = [rows[id] EXCEPT !.name = name]
        /\ \A j \in DOMAIN rows : j # id => rows'[j] = rows[j]
    BY <2>1
  <2>3. \A j \in DOMAIN rows : rows[j] \in Row
    BY <1>1 DEF Stored
  <2>4. \A j \in DOMAIN rows' : /\ rows'[j] \in Row /\ rows'[j].ref = rows[j].ref
                                /\ rows'[j].url = rows[j].url /\ rows'[j].marked = rows[j].marked
    BY <2>2, <2>3 DEF Row
  <2>5. Stored(rows', lastId) /\ RefsUnique(rows') /\ UnmarkedIsUnrivalled(rows')
    BY <1>1, <2>2, <2>4, LocalChange
  <2>6. lastId' = lastId /\ refreshes' \in 0..MaxRefreshes /\ changes' \in 0..MaxChanges
    BY <1>1, <1>4 DEF UpdateSourceOwnedMetadata
  <2> QED BY <2>5, <2>6
<1>5. CASE UpdateUserKeyAssignment
  <2>1. PICK user \in Users, ids \in SUBSET DOMAIN rows :
          rows' = [id \in DOMAIN rows |->
                     [rows[id] EXCEPT !.users = IF id \in ids THEN @ \cup {user} ELSE @ \ {user}]]
    BY <1>5 DEF UpdateUserKeyAssignment
  <2> DEFINE users(id) == IF id \in ids THEN rows[id].users \cup {user} ELSE rows[id].users \ {user}
  <2>2. DOMAIN rows' = DOMAIN rows /\ \A j \in DOMAIN rows : rows'[j] = [rows[j] EXCEPT !.users = users(j)]
    BY <2>1
  <2>3. \A j \in DOMAIN rows : rows[j] \in Row
    BY <1>1 DEF Stored
  <2>4. \A j \in DOMAIN rows : users(j) \in SUBSET (Users \cup AllUsers)
    BY <2>3 DEF Row
  <2> HIDE DEF users
  <2>5. \A j \in DOMAIN rows' : /\ rows'[j] \in Row /\ rows'[j].ref = rows[j].ref
                                /\ rows'[j].url = rows[j].url /\ rows'[j].marked = rows[j].marked
    BY <2>2, <2>3, <2>4 DEF Row
  <2>6. Stored(rows', lastId) /\ RefsUnique(rows') /\ UnmarkedIsUnrivalled(rows')
    BY <1>1, <2>2, <2>5, LocalChange
  <2>7. lastId' = lastId /\ refreshes' \in 0..MaxRefreshes /\ changes' \in 0..MaxChanges
    BY <1>1, <1>5 DEF UpdateUserKeyAssignment
  <2> QED BY <2>6, <2>7
<1>6. CASE BulkDeleteKeys
  <2>1. PICK ids \in SUBSET DOMAIN rows : rows' = Restrict(rows, DOMAIN rows \ ids)
    BY <1>6 DEF BulkDeleteKeys
  <2>2. DOMAIN rows' \subseteq DOMAIN rows /\ \A j \in DOMAIN rows' : rows'[j] = rows[j] /\ rows'[j] \in Row
    BY <1>1, <2>1 DEF Restrict, Stored
  <2>3. Stored(rows', lastId) /\ RefsUnique(rows') /\ UnmarkedIsUnrivalled(rows')
    BY <1>1, <2>2, LocalChange
  <2>4. lastId' = lastId /\ refreshes' \in 0..MaxRefreshes /\ changes' \in 0..MaxChanges
    BY <1>1, <1>6 DEF BulkDeleteKeys
  <2> QED BY <2>3, <2>4
<1>7. CASE UNCHANGED reconcileVars
  BY <1>1, <1>7 DEF reconcileVars
<1> QED BY <1>3, <1>4, <1>5, <1>6, <1>7 DEF ReconcileNext

\* The stored rows are rows under ids that were given out, and while one of an earlier
\* version has no fingerprint, no row created with its profile shows another one.
THEOREM RowsInvariant == ReconcileSpec => []RowsInv
<1>1. ReconcileInit => RowsInv
  BY InitRows
<1>2. RowsInv /\ [ReconcileNext]_reconcileVars => RowsInv'
  BY NextRows
<1> QED BY <1>1, <1>2, PTL DEF ReconcileSpec

\* The type invariant of the stored rows: every refresh, of any feed, leaves rows under
\* ids that were given out (sync.go).
THEOREM ReconcileTypes == ReconcileSpec => []RowsTyped
<1>1. RowsInv => RowsTyped
  BY DEF RowsInv
<1> QED BY <1>1, RowsInvariant, PTL

\* Whatever rows are stored and whatever a feed lists, in whatever order, a refresh that
\* does not fail leaves one row for each profile.
THEOREM ProfilesAreUnique == ReconcileSpec => []OneRowPerProfile
<1>1. RowsInv => OneRowPerProfile
  <2> SUFFICES ASSUME RowsInv, NEW feed \in Feeds, NEW partial \in BOOLEAN,
                      ~ Refreshed(rows, lastId, feed, partial).failed
               PROVE  OneRow(Refreshed(rows, lastId, feed, partial).table)
    BY DEF OneRowPerProfile, OneRow
  <2>1. Stored(rows, lastId) /\ RefsUnique(rows) /\ UnmarkedIsUnrivalled(rows)
    BY DEF RowsInv, RowsTyped, Stored
  <2> QED BY <2>1, RefreshedRows
<1> QED BY <1>1, RowsInvariant, PTL

\* A refresh keeps each row's users and name in a row of its profile, unless the feed is
\* complete and no longer lists the profile; one that fails keeps every row.
THEOREM MetadataIsKept == ReconcileSpec => []LocalMetadataSurvives
<1>1. RowsInv => LocalMetadataSurvives
  <2>1. ASSUME RowsInv PROVE Stored(rows, lastId) /\ RefsUnique(rows) /\ UnmarkedIsUnrivalled(rows)
    BY <2>1 DEF RowsInv, RowsTyped, Stored
  <2>2. ASSUME RowsInv, NEW feed \in Feeds, NEW partial \in BOOLEAN, NEW id \in DOMAIN rows
        PROVE  LET after == Refreshed(rows, lastId, feed, partial)
               IN  \/ \E j \in SameProfile(rows, id) \cap DOMAIN after.table :
                       /\ rows[id].users \subseteq after.table[j].users
                       /\ rows[id].name # Unnamed => after.table[j].name # Unnamed
                   \/ /\ ~ partial
                      /\ rows[id].url.profile \notin {feed[n].profile : n \in DOMAIN feed}
    BY <2>1, <2>2, RefreshedMetadata
  <2> QED BY <2>2 DEF LocalMetadataSurvives
<1> QED BY <1>1, RowsInvariant, PTL

\* Refreshing from one feed settles, whatever the rows were and in whatever order the
\* feed lists its links: the third refresh changes nothing that the second one left.
THEOREM SyncSettles == ReconcileSpec => []RefreshSettles
<1>1. RowsInv => RefreshSettles
  <2>1. ASSUME RowsInv PROVE Stored(rows, lastId) /\ RefsUnique(rows) /\ UnmarkedIsUnrivalled(rows)
    BY <2>1 DEF RowsInv, RowsTyped, Stored
  <2> QED BY <2>1, RefreshesSettle DEF RefreshSettles
<1> QED BY <1>1, RowsInvariant, PTL
=============================================================================
