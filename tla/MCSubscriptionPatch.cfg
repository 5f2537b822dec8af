\* Two overlapping requests, two attempts each, one other statement.
CONSTANTS
    Requests = {q1, q2}
    Patches <- SomePatches
    Gone = Gone
    Attempts = 2
    MaxChanges = 1
    Hours = {1, 2}
    Zones <- SomeZones
    Texts = {t1}
    Null = Null
    Unset = Unset
SPECIFICATION Spec
SYMMETRY Symmetry
INVARIANTS
    TypeOK
    RowStaysConsistent
    ConflictMeansContention
PROPERTIES
    ImplementsPromise
CHECK_DEADLOCK FALSE
