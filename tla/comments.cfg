SPECIFICATION FairSpec
CONSTANTS
    u1 = u1
    u2 = u2
    u3 = u3
    User = {u1, u2, u3}
    Request = {r1}
    NoUser = NoUser
    NoOne = NoOne
    MaxChanges = 2
    MaxCrashes = 1
INVARIANTS
    RoutingIsRight
    RecordedOnce
PROPERTIES
    KeepsThePromise
    NeverStranded
    ResolveIsRecorded
CONSTRAINT ChainFirst
