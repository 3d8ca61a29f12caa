SPECIFICATION Spec
CONSTANTS
    a = a
    b = b
    w1 = w1
    w2 = w2
    w3 = w3
    Procs <- MCProcs
    Workers <- MCWorkers
    ProcOf <- MCProcOf
INVARIANTS
    SerialExclusion
    LeftByTheKilled
PROPERTIES
    StaleLockRecovered
