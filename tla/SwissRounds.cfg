\* An odd field, long enough for second byes and for rematches.
SPECIFICATION Spec
CONSTANTS
    Players = {p1, p2, p3, p4}
    Scores <- WinOrDraw
    NoResult = NoResult
    MaxRounds = 3
    Scales <- Powers
    Normal = 1024
    Epsilon <- Eps
SYMMETRY SameForAll
INVARIANTS
    PointsAgree
    ByesAreFair
    RanksFailOnlyByRounding
PROPERTIES
    FewestRematches
CHECK_DEADLOCK FALSE
