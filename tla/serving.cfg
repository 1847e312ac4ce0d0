SPECIFICATION PanelSpec
CONSTANTS
    Dept = {"dining", "cooking"}
    Home = "dining"
    Node = {"n1", "n2"}
    Text = {"t1", "t2"}
    Blank = "blank"
    None = None
    MaxBegun = 4
    Fact = {"table", "rule", "units"}
    Units = {"units"}
    Person = {"ed", "hd"}
    Grant <- MCGrant
    Wild = "all"
    FileDept = "dining"
    Estate <- MCEstate
    MaxAsked = 3
INVARIANT AnswersAreFit
PROPERTIES
    UnseenLinksSurvive
    PanelTellsOnlyTheFit
CONSTRAINT PanelFirst
CHECK_DEADLOCK FALSE
