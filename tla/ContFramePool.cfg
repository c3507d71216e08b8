SPECIFICATION Spec
CONSTANTS
    Pool = {"kernel", "process"}
    Base <- MCBase
    NFrames <- MCNFrames
    Hole <- MCHole
    FramesPerInfo = 4
    Request = {0, 1, 2, 3}
    OutsideFrame = 1
INVARIANTS
    TypeOK
    CountIsExact
    HeldIsExtent
    HeldDisjoint
    NoOrphan
    InfoIsSafe
    HoleIsSafe
CHECK_DEADLOCK FALSE
PROPERTY ImplementsAllocator
