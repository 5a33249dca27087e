\* Two editors of one cube, and a card in two printings.
SPECIFICATION Spec
CONSTANTS
    Oracles = {o1}
    Printings = {p1, p2}
    None = None
    Editors = {e1, e2}
    MaxVersion = 3
    MaxQuantity = 2
    MaxLines = 2
SYMMETRY Symmetric
INVARIANTS
    ReplayIsHistory
    PastCardsKnown
PROPERTIES
    EditsApplyToWhatWasSeen
CHECK_DEADLOCK FALSE
