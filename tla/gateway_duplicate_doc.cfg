SPECIFICATION Spec
CONSTANTS
    buy = buy
    rest = rest
    Orders <- MCOrders
    LimitOrders <- Resting
    UnitsOf <- MCUnits
    Faults <- NoFaults
    FillWindow = 4
    MaxPositions = 3
    MaxExposure = 3
    MaxOrderUnits = 3
    MaxRetries = 1
    MaxRequests = 3
    MaxBook = 3
INVARIANTS
    NoDuplicates
