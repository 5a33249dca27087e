\* Two rounds, three players, and the reports of two at once (ManyReportsOnce).
SPECIFICATION Spec
CONSTANTS
    Players = {p1, p2, p3}
    Organizer = Organizer
    NoResult = NoResult
    Results <- TwoScores
    MaxRounds = 2
    MaxReports = 3
SYMMETRY SameForAll
CONSTRAINT ManyReportsOnce
INVARIANTS
    SeatedOnce
    RoundsInOrder
    ScoresFollowStatus
    OrganizerRules
    DisputeIsRecorded
PROPERTIES
    ResultsFrozen
CHECK_DEADLOCK FALSE
