SPECIFICATION KitSpec
CONSTANTS
    x = x
    Readers = {p1}
    N = 2
    Plain = {x}
    NL = NL
    CR = CR
    EOT = EOT
    NUL = NUL
    SP = SP
    Intr = Intr
    Nobody = Nobody
    MaxRead = 2
    MaxTyped = 3
    Words <- DoubleX
    Keys = {"tab", "up", "copy", "paste", "cipher", "devil", "layout"}
    Kits = {{"tab", "up", "layout", "devil"}, {"up", "cipher"}, {"tab", "copy", "paste"}}
    Junk = {NUL, x}
    Spill = 1
INVARIANTS HelpfulInv EofInv
PROPERTIES OnlyPassedAtRisk HandlerReturns
