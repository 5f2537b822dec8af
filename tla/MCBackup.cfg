\* Three versions, two crashes and three failed calls in any order.
CONSTANTS
    MaxWrites = 2
    MaxCrashes = 2
    MaxFaults = 3
SPECIFICATION FairSpec
INVARIANTS
    TypeOK
    OnlyVerifiedIsPublished
    AttemptKeepsThePrior
PROPERTIES
    ChangesReachABackup
