CONSTANTS
    Base <- MCBase
    Role <- MCRole
    Derived <- MCDerived
    Inputs <- MCInputs
    Indicator <- MCIndicator
    RawTokens <- MCRawTokens
    Counts <- MCCounts
    K = 1
    NoList = NoList
SPECIFICATION Spec
INVARIANTS
    SelectionRecorded
CHECK_DEADLOCK FALSE
