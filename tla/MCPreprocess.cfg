CONSTANTS
    Base <- MCBase
    Role <- MCRole
    Derived <- MCDerived
    Inputs <- MCInputs
    Indicator <- MCIndicator
    RawTokens <- MCRawTokens
    Counts <- MCCounts
    K = 1
    NoList = NoList
SPECIFICATION Spec
INVARIANTS
    TypeOK
    FeatureColumnsMatchX
    ConstantsDropped
    LabelsIdempotent
CHECK_DEADLOCK FALSE
