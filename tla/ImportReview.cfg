\* One user, two requests at once and a pasted list under review.
SPECIFICATION ReviewSpec
CONSTANTS
    Printings <- MCPrintings
    OracleOf <- MCOracleOf
    NameOf <- MCNameOf
    SetOf <- MCSetOf
    CollectorOf <- MCCollectorOf
    Rank <- MCRank
    NumberIn <- MCNumberIn
    SetIn <- MCSetIn
    CollectorTokens <- MCCollectorTokens
    CardYears <- MCCardYears
    Texts <- MCTexts
    Cubes <- MCCubes
    Leaving = {"mine2"}
    MovesTo <- MCMovesTo
    None = None
    Calls = {t1, t2}
    MaxItemQuantity = 2
INVARIANT ReviewIsTyped
PROPERTIES
    ImplementsLedger
    OperationsAreWhole
    NamesImportable
    CallsEnd
CHECK_DEADLOCK FALSE
