SPECIFICATION Spec
CONSTANTS
    Scale = 1000
    MaxDaily = 30
    MaxWeekly = 60
    DailyLockout = 25
    BreakerThreshold = 150
    CooldownTicks = 4
    DampenAfter = 2
    TicksPerDay = 2
    DaysPerWeek = 2
    Equities <- MCEquities
    InitialEquity = 1000
    MaxGap = 3
    MaxTime = 10
    MaxLosses = 2
INVARIANTS
    BreakerHolds
    LockoutHolds
    StopHasCooldown
    BreakerRate
PROPERTIES
    StopServed
    ImplementsLadder
