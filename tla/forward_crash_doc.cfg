SPECIFICATION Spec
CONSTANTS
    Scale = 1000
    MaxDaily = 30
    MaxWeekly = 60
    DailyLockout = 25
    BreakerThreshold = 150
    CooldownTicks = 0
    DampenAfter = 2
    TicksPerDay = 3
    DaysPerWeek = 2
    Capital = 1000
    Results <- Severe
    MaxConcurrent = 3
    MaxPerPair = 1
    MaxDirectional = 80
    MaxTradesPerDay = 2
    CheckpointInterval = 5
    MaxTime = 6
    MaxSkip = 0
    MaxRestarts = 1
    Fails = TRUE
CHECK_DEADLOCK FALSE
PROPERTIES
    StopIsForever
