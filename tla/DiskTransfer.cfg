SPECIFICATION Spec
CONSTANTS
    Thread = {"a", "b"}
    Block = {1, 10}
    Words = 2
    Base = 2
    TopBase = 2
    Written <- Contents
    ReadFails = TRUE
    NoThread = "none"
INVARIANTS
    DataRequested
PROPERTIES
    ImplementsBlockStore
CHECK_DEADLOCK FALSE
