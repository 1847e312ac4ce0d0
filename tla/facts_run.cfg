SPECIFICATION FairSpec
CONSTANTS
    FormBudget = 5
    TalkBudget = 4
    ChunkBudget = 5
    RecordedBudget = 5
    TableLines = 3
    EntryLines = 1
    Estates <- AllEstates
INVARIANTS PlanIsWhole ShownAsItIs AttemptsAreFair FormsBeforeTalk NothingIsLostUnsaid LinksLand DroppedByReviewIsGone
PROPERTIES EveryUnitSettles
CHECK_DEADLOCK FALSE
