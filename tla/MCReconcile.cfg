\* Up to two rows of an earlier version, feeds of up to two links, two
\* refreshes with a change between them.
CONSTANTS
    Profiles = {p1, p2, p3}
    Labels = {x, y}
    Names = {d1}
    Unnamed = Unnamed
    Users = {u1}
    AllUsers = {u2}
    MaxFeed = 2
    MaxHistory = 2
    MaxRefreshes = 2
    MaxChanges = 1
SPECIFICATION ReconcileSpec
SYMMETRY Symmetry
INVARIANTS
    OneRowPerProfile
    LocalMetadataSurvives
    RefreshSettles
CHECK_DEADLOCK FALSE
