SPECIFICATION Spec
CONSTANTS
    Kinds <- ReplayOnly
    Ratio = 2
    MaxErrors = 3
    Window = 3
    History = 4
    Capacity = 4
    HtfCapacity = 3
    Lag = 2
    MaxTime = 5
    MaxRestarts = 0
CHECK_DEADLOCK FALSE
INVARIANT
    HtfUpTo
