\* Two targets; storing a result may panic.
CONSTANTS
    Size = 2
    Concurrency = 2
    Nobody = Nobody
    MaxCrashes = 0
SPECIFICATION FairSpec
PROPERTIES
    PanicIsReported
CHECK_DEADLOCK FALSE
