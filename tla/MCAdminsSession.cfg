\* One login, one change of a password and two sessions: the login reads the old
\* hash before the change and opens its session after it.
CONSTANTS
    Admins = {a1, a2}
    Requests = {r1}
    Logins = {l1}
    Sessions = {s1, s2}
    Starters = {}
    MaxPasswords = 1
    Nothing = Nothing
SPECIFICATION Spec
CHECK_DEADLOCK FALSE
SYMMETRY Symmetry
INVARIANTS
    SessionsRestOnThePassword
