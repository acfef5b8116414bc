SPECIFICATION FairSpec
CONSTANTS
    Readers = {r1}
    Writers = {w1, w2}
    Procs = {r1, w1, w2}
    PIPESIZE = 2
    Wrap = 4
    ReadCounts = {1, 2}
    WriteCounts = {1, 3}
    Nobody = Nobody
INVARIANTS PipeInv WakeupsArrive
PROPERTIES ImplementsByteStream ClosingReaches
CHECK_DEADLOCK FALSE
