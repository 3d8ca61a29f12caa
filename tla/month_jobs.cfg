SPECIFICATION Spec
CONSTANTS
    NumDays = 3
    Closed <- Weekend
    Jobs <- AllJobs
INVARIANTS
    RowsAreThere
    CompactedIsWhole
PROPERTIES
    DurableProgress
    DailyLeavesNoHole
    EventuallyWhole
