SPECIFICATION Spec
CONSTANTS
    buy = buy
    rest = rest
    Orders <- MCOrders
    LimitOrders <- Resting
    UnitsOf <- MCUnits
    Faults <- FaultKinds
    FillWindow = 3
    MaxPositions = 2
    MaxExposure = 3
    MaxOrderUnits = 3
    MaxRetries = 2
    MaxRequests = 2
    MaxBook = 3
INVARIANTS
    AtMostRetries
    StopsAtAnswer
    ReportedOnce
    WithinLimits
    KillCancelsKnown
    CloseTracked
PROPERTIES
    NothingAfterKill
    CallReturns
