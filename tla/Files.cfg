SPECIFICATION Spec
CONSTANTS
    Procs = {p1, p2}
    FirstProc = p1
    PIPESIZE = 1
    Wrap = 2
    ReadCounts = {1}
    WriteCounts = {2}
    MaxDup = 2
    NFILE = 3
    NOFILE = 2
    NoFile = 0
    Nobody = Nobody
INVARIANTS RefsAgree EndsAgree NoUseAfterFree
CHECK_DEADLOCK FALSE
