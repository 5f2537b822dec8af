\* Liveness: two jobs, an edit, a crash, no failed
\* tracking statement.
CONSTANTS
    Sources = {s1}
    Jobs = {j1, j2}
    Editors = {e1}
    Urls = {u1, u2}
    Secrets = {h1}
    NoInput = NoInput
    NoJob = NoJob
    MaxEdits = 1
    MaxCrashes = 1
    MaxFaults = 0
SPECIFICATION FairSpec
PROPERTIES
    JobsEnd
    SyncingEnds
