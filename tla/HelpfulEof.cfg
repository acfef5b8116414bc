SPECIFICATION KitSpec
CONSTANTS
    x = x
    Readers = {p1}
    N = 2
    Plain = {x}
    NL = NL
    CR = CR
    EOT = EOT
    NUL = NUL
    SP = SP
    Intr = Intr
    Nobody = Nobody
    MaxRead = 2
    MaxTyped = 3
    Words <- DoubleX
    Keys = {"tab"}
    Kits = {{"tab"}}
    Junk = {NUL}
    Spill = 0
INVARIANTS EofPreserved
