\* One request, one login, two open sessions and two starts on two accounts,
\* in any order.
CONSTANTS
    Admins = {a1, a2}
    Requests = {r1}
    Logins = {l1}
    Sessions = {s1, s2}
    Starters = {b1, b2}
    MaxPasswords = 1
    Nothing = Nothing
SPECIFICATION Spec
SYMMETRY Symmetry
INVARIANTS
    TypeOK
    AcceptsTheChosenPassword
    SessionsEndWithThePassword
PROPERTIES
    BootstrapOnlyWhenEmpty
