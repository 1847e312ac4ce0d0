SPECIFICATION Spec
CONSTANTS
    Keys = {"table", "chart", "remark", "note"}
    Tabs = {1}
    Values = {"v1", "v2"}
    Sources = {"a", "b", "chat"}
    Chat = "chat"
    MaxDate = 1
    MaxId = 3
    None = None
    Deltas <- MCDeltas
    Notes = {"remark", "note"}
    MaxRuns = 3
    MaxReverts = 1
    MaxDeaths = 1
INVARIANTS
    OneOfEach
    SettledStands
    ReadingsKept
    RevertTakesOnlyItsOwn
    LinksResolve
CHECK_DEADLOCK FALSE
