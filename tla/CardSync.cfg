\* Two cards, three files, two faults and two references.
SPECIFICATION FairSpec
CONSTANTS
    Cards = {c1, c2}
    MaxFiles = 3
    MaxFaults = 2
    MaxEdits = 2
INVARIANTS
    ReferencesKnown
    CatalogueIsImport
    SucceededOnce
PROPERTIES
    OnlyTheMissingLeave
    CatchesUp
CHECK_DEADLOCK FALSE
