SPECIFICATION Spec
CONSTANTS
    Kinds <- AllFeeds
    Ratio = 2
    MaxErrors = 2
    Window = 3
    History = 4
    Capacity = 4
    HtfCapacity = 3
    Lag = 2
    MaxTime = 5
    MaxRestarts = 1
CHECK_DEADLOCK FALSE
INVARIANTS
    BufferInOrder
    NoneMissed
    StopIsPrompt
PROPERTIES
    SignalEnds
    OutageEnds
