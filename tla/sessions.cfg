SPECIFICATION SessionsSpec
CONSTANTS
    Dept = {d1}
    Report = {k1}
    User = {u1, u2}
    Number = {n1, n2}
    Request = {r1}
    Session = {s1, s2}
    Attempt = {a1}
    Change = {c1, c2}
    MaxVersion = 3
    NoUser = NoUser
    NoAccount = NoAccount
    Nothing = Nothing
    Role <- EditorsOnly
    RoleCaps <- SeededCapabilities
    EditorRole = "editor"
    ScopeLists <- StarOnly
SYMMETRY Interchangeable
INVARIANT SessionsAreCurrent
CONSTRAINT FlatOrgChart
