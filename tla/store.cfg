SPECIFICATION Spec
CONSTANTS
    Existing = 2
    MaxId = 4
    MaxOps = 2
    MaxDeaths = 1
    NoDoc = NoDoc
INVARIANTS
    IdsGivenOnce
    DepartmentIsSound
    HeirsBeforeBurial
PROPERTY CurationKept
CHECK_DEADLOCK FALSE
