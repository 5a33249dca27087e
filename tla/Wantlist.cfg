\* What the user lacks of two cubes, before and after a sync moves a printing.
SPECIFICATION ReviewSpec
CONSTANTS
    Printings <- MCPrintings
    OracleOf <- MCOracleOf
    NameOf <- MCNameOf
    SetOf <- MCSetOf
    CollectorOf <- MCCollectorOf
    Rank <- MCRank
    NumberIn <- MCNumberIn
    SetIn <- MCSetIn
    CollectorTokens <- MCCollectorTokens
    CardYears <- MCCardYears
    Texts <- MCTexts
    Cubes <- MCCubes
    Leaving = {"mine2"}
    MovesTo <- MCMovesTo
    None = None
    Calls = {t1, t2}
    MaxItemQuantity = 2
INVARIANT WantlistModesAgree
CHECK_DEADLOCK FALSE
