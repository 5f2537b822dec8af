\* Two owners change each other at the same time.  Nobody signs in here, so the
\* system stops when no session of an owner is open.
CONSTANTS
    Admins = {a1, a2}
    Requests = {r1, r2}
    Logins = {}
    Sessions = {s1, s2}
    Starters = {}
    MaxPasswords = 0
    Nothing = Nothing
SPECIFICATION Spec
CHECK_DEADLOCK FALSE
SYMMETRY Symmetry
INVARIANTS
    OwnerRemains
