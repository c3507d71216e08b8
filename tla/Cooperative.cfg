SPECIFICATION Spec
CONSTANTS
    ThreadOrder <- Shipped
    IOThread = {"io"}
    Exiting = {"cpu1", "cpu2", "cpu3"}
    Preemptive = FALSE
    DiskIRQ = FALSE
    MaxCalls = 3
    MaxNodes = 6
    None = "none"
INVARIANTS
    LostOnlyToTheDrive
    CpuOnce
    FreedIsForgotten
PROPERTIES
    OperationsFinish
    EveryThreadRuns
CHECK_DEADLOCK FALSE
