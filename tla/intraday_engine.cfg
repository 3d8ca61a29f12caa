SPECIFICATION Spec
CONSTANTS
    Window <- MCWindow
    Closes = 2
    Lists <- MCLists
    Session <- MCSession
    Levels = {"high"}
    Opens <- MCOpens
    Closing <- MCClosing
    RangeEnd <- MCRangeEnd
    DayTicks = 9
    Roll = 8
    WeekDays = 2
    Friday = 0
    MinWarmup = 5
    Warmup = 1
    Policies <- Both
    Starts = {0}
    LastTick = 11
    MaxGap = 2
    MaxOrders = 2
INVARIANTS
    NothingCarried
    FunnelsAddUp
    OnePositionPerPair
    FillsAreLive
PROPERTIES
    SignalIsCausal
