SPECIFICATION ReportsSpec
CONSTANTS
    Proc = {p1, p2}
    Overview = overview
    Builder = {b1, b2}
    Nothing = Nothing
    MaxVersion = 2
    MaxMoves = 2
INVARIANTS
    ServedIsCurrent
    PdfMatchesPage
CONSTRAINT OneReads
SYMMETRY Symmetry
CHECK_DEADLOCK FALSE
