CONSTANTS
    LEVELS = 3
    BITS = 1
    SHIFT = 2
    WORD = 6
    NPAGES = 5
    PPN = {1, 15}
SPECIFICATION Spec
CHECK_DEADLOCK FALSE
INVARIANTS
    WalksStayInMemory
    TablesAreTrees
PROPERTY PageMapSpec
