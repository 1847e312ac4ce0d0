SPECIFICATION Spec
CONSTANTS
    d1 = d1
    k1 = k1
    Dept = {d1}
    Report = {k1}
    User = {u1, u2, u3}
    Number = {n1, n2, n3}
    Request = {r1, r2}
    NoUser = NoUser
    NoAccount = NoAccount
    Role <- TwoRoles
    RoleCaps <- SeededCapabilities
    EditorRole = "editor"
    ScopeLists <- StarOrDept
SYMMETRY Interchangeable
INVARIANTS
    StarEditorSurvives
    ChainsEndAtStar
PROPERTY ActsWithinReach
