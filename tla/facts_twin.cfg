SPECIFICATION Spec
CONSTANTS
    FormBudget = 5
    TalkBudget = 4
    ChunkBudget = 5
    RecordedBudget = 5
    TableLines = 3
    EntryLines = 1
    Estates <- TwinEstates
INVARIANTS NoDanglingRef
CHECK_DEADLOCK FALSE
