SPECIFICATION Spec
CONSTANTS
    ThreadOrder <- PairIO
    IOThread = {"io", "io2"}
    Exiting = {}
    Preemptive = TRUE
    DiskIRQ = TRUE
    MaxCalls = 2
    MaxNodes = 3
    None = "none"
INVARIANTS
    OwnData
    QueueExclusive
CHECK_DEADLOCK FALSE
