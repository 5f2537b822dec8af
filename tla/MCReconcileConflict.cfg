\* A link that comes back while another row shows its profile.
CONSTANTS
    Profiles = {p1, p2, p3}
    Labels = {x, y}
    Names = {}
    Unnamed = Unnamed
    Users = {}
    AllUsers = {u2}
    MaxFeed = 2
    MaxHistory = 0
    MaxRefreshes = 4
    MaxChanges = 0
SPECIFICATION ReconcileSpec
SYMMETRY Symmetry
INVARIANTS
    NoFingerprintConflict
CHECK_DEADLOCK FALSE
