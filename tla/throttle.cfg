SPECIFICATION ThrottleFairSpec
CONSTANTS
    Username = {n1, n2}
    Try = {a1, a2, a3}
    NoUsername = NoUsername
    MaxFailures = 3
INVARIANT Ceiling
PROPERTY LetBackIn
