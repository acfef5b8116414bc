SPECIFICATION FairSpec
CONSTANTS
    Ops = {o1, o2}
    Blocks = {b1, b2, b3}
    Values = {0, 1}
    Zero = 0
    LOGSIZE = 4
    MAXOPBLOCKS = 2
    OpBlocks = 1
    Size = 4
INVARIANTS LogInv ReserveInv
PROPERTIES ImplementsAtomicDisk WaiterWakes
