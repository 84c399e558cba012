CONSTANTS
    p1 = p1
    r1 = r1
    ghost = ghost
    w1 = w1
    w2 = w2
    Captures = {p1}
    Returns = {}
    Unknown = {ghost}
    Value <- MCValue
    Reports <- MCReports
    Workers = {w1, w2}
    MaxSettlements = 2
    MaxFlags = 1
SPECIFICATION FairReconSpec
CHECK_DEADLOCK FALSE
INVARIANTS
    SuspenseIsExplained
    CreditBookedOnce
    NonePassedOver
PROPERTY SettlementsAreIngested
