SPECIFICATION Spec
CONSTANTS
    Symbols <- MCSymbols
    CommandLines <- MCCommandLines
    FewLines <- MCFewLines
    Values <- MCValues
    Environments <- MCEnvironments
    RCs <- MCRCs
    Files <- MCFiles
INVARIANTS
    ParsedAsMeant
    RightValueWins
    MessageNamesKey
CHECK_DEADLOCK FALSE
