SPECIFICATION Spec
CONSTANTS
    a = a
    b = b
    p1 = p1
    Procs = {p1, p2}
    Names = {a, b}
    Inums = {root, i1, i2, i3}
    ROOTINO = root
    Slots = {s1, s2, s3}
    Calls <- TwoSorts
    Nobody = Nobody
    None = None
SYMMETRY Symmetry
VIEW View
INVARIANT NoCircularWait
CHECK_DEADLOCK FALSE
