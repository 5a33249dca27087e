\* The same field: two means of the same percentages, added up in other orders.
SPECIFICATION Spec
CONSTANTS
    Players = {p1, p2, p3, p4}
    Scores <- WinOrDraw
    NoResult = NoResult
    MaxRounds = 3
    Scales <- Powers
    Normal = 1024
    Epsilon <- Eps
SYMMETRY SameForAll
INVARIANT RanksAreCompetition
CHECK_DEADLOCK FALSE
