\* Three targets of every kind, two slots, a crash, panics, deletions.
CONSTANTS
    Size = 3
    Concurrency = 2
    Nobody = Nobody
    MaxCrashes = 1
SPECIFICATION FairSpec
INVARIANTS
    SummaryTellsTheTruth
PROPERTIES
    BatchEnds
CHECK_DEADLOCK FALSE
