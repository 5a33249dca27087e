SPECIFICATION Spec
CONSTANTS
    Players = {p1, p2, p3}
    Organizer = Organizer
    NoResult = NoResult
    Results <- OneScore
    MaxRounds = 2
    MaxReports = 1
SYMMETRY SameForAll
PROPERTIES
    UndropUntilPaired
CHECK_DEADLOCK FALSE
