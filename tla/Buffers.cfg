SPECIFICATION Spec
CONSTANTS
    first = first
    second = second
    other = other
    log = log
    indirect = indirect
    bitmap = bitmap
    content = content
    Hands = {first, second, other}
    Blocks = {log, indirect, bitmap, content}
    Process <- TwoHands
    Nested <- Inward
    Bufs = {b1, b2, b3}
    Data = {d1, d2}
    MaxDirty = 1
    Faults = FALSE
    Nobody = Nobody
    NoBlock = NoBlock
    NoBuf = NoBuf
SYMMETRY Symmetry
INVARIANTS CacheInv OneBuffer
PROPERTIES ImplementsBlockStore
