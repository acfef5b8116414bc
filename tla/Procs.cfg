SPECIFICATION Spec
CONSTANTS
    NPROC = 3
    CPUs = {c1, c2}
    Clock = c1
    NPAGES = 9
    MinSpace = 2
    MaxSpace = 2
    Nobody = Nobody
INVARIANTS PageInv NothingFreedInUse ProcInv NoOrphan NoSleepOverZombie NoMissedTick
