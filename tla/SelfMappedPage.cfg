SPECIFICATION Spec
CONSTANTS
    Pool = {"code", "heap"}
    BasePage <- MCBase
    NPages <- MCLong
    Slots = 5
    PageSize = 4
    Word = 64
    Request = {3, 8}
    Frame = {1, 2, 3, 4, 5, 6, 7, 8, 9, 10}
    N = 5
    NTables = 2
INVARIANT HeldPageIsNotTable
CHECK_DEADLOCK FALSE
