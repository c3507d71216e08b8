SPECIFICATION FairSpec
CONSTANTS
    Base = 3
    NFrames = 5
    Memory = 7
    Request = {0, 1, 2, 3, 6}
INVARIANTS
    ResultIsFirstFit
    OneFrameStaysInside
    CountIsExact
    LeavesBehindUsedEnd
PROPERTY Terminates
CHECK_DEADLOCK FALSE
