SPECIFICATION FairSpec
CONSTANTS
    Readers = {p1, p2}
    N = 3
    Plain = {x}
    NL = NL
    CR = CR
    EOT = EOT
    NUL = NUL
    Intr = Intr
    Nobody = Nobody
    MaxRead = 2
    MaxTyped = 4
INVARIANTS FullIsCommitted IInv
PROPERTIES CommittedIsStable ImplementsTerminal ReaderServed
