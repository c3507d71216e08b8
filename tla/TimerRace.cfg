SPECIFICATION Spec
CONSTANTS
    ThreadOrder <- PairCPU
    IOThread = {}
    Exiting = {}
    Preemptive = TRUE
    DiskIRQ = FALSE
    MaxCalls = 3
    MaxNodes = 4
    None = "none"
INVARIANT
    NoThreadLost
CHECK_DEADLOCK FALSE
