SPECIFICATION Spec
CONSTANTS
    Ops = {o1, o2}
    Blocks = {b1, b2, b3, b4}
    Values = {0, 1}
    Zero = 0
    LOGSIZE = 4
    MAXOPBLOCKS = 2
    OpBlocks = 2
    Size = 4
INVARIANTS NeverExhausted
