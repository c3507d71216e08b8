SPECIFICATION Spec
CONSTANTS
    Pool = {"code", "heap"}
    BasePage <- MCBase
    NPages <- MCPages
    Slots = 5
    PageSize = 4
    Word = 64
    Request = {3, 8}
    Frame = {1, 2, 3, 4, 5, 6, 7, 8, 9, 10}
    N = 5
    NTables = 2
INVARIANTS
    RegionsPartition
    ListsPacked
    GivenIsAllocated
    ContentsKept
    FramesAccounted
    NoStaleTranslation
    MappedIsAllocated
CHECK_DEADLOCK FALSE
