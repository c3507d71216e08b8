SPECIFICATION Spec
CONSTANTS
    Kernels = {"paging", "threads"}
    Hz = 100
    ThreadOrder <- ThreeThreads
    StackWords = 39
    HandlerWords = 2
    MaxTicks = 3
    MaxCalls = 3
    None = "none"
INVARIANTS
    ResumesWhereItLeft
CHECK_DEADLOCK FALSE
