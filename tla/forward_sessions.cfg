SPECIFICATION Spec
CONSTANTS
    Scale = 1000
    MaxDaily = 30
    MaxWeekly = 60
    DailyLockout = 100
    BreakerThreshold = 50
    CooldownTicks = 3
    DampenAfter = 2
    TicksPerDay = 3
    DaysPerWeek = 2
    Capital = 1000
    Results <- Medium
    MaxConcurrent = 3
    MaxPerPair = 2
    MaxDirectional = 80
    MaxTradesPerDay = 2
    CheckpointInterval = 3
    MaxTime = 8
    MaxSkip = 2
    MaxRestarts = 1
    Fails = TRUE
CHECK_DEADLOCK FALSE
INVARIANTS
    PositionLimits
    TradesAreSaved
    DailyTradesBounded
    NoEntryWhileHalted
    CheckpointIsRecent
PROPERTIES
    StopKeepsTracker
    SavedStopIsServed
    SessionsFollowLadder
