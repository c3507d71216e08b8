SPECIFICATION Spec
CONSTANTS
    ThreadOrder <- Pair
    Kernels = {"paging", "fifo", "round_robin"}
    Lines = {0, 14}
    Vectors = {0, 14}
    Quantum = 2
    Hz = 2
    MaxSeconds = 2
    Waits = {0, 1}
    MaxDepth = 2
    None = "main"
INVARIANTS
    TypeOK
    InServiceIsHandled
    SliceBelowQuantum
PROPERTIES
    TimerAlive
    EveryThreadRuns
CHECK_DEADLOCK FALSE
