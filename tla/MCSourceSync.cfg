\* Safety: three overlapping jobs on one source, an edit, a crash and a failed
\* statement in any order.
CONSTANTS
    Sources = {s1}
    Jobs = {j1, j2, j3}
    Editors = {e1}
    Urls = {u1, u2}
    Secrets = {h1}
    NoInput = NoInput
    NoJob = NoJob
    MaxEdits = 1
    MaxCrashes = 1
    MaxFaults = 1
SPECIFICATION Spec
SYMMETRY Symmetry
INVARIANTS
    TypeOK
    SyncingIsAttended
    RecordsTellTheTruth
    OwnerIsNewest
    RecoveryIsComplete
PROPERTIES
    EndedJobsStay
    ImplementsPromise
