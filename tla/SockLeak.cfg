CONSTANTS
    NSock = 2
    Remote = {r1, r2}
    NoRemote = NoRemote
    BoundPort = {80}
    EphBase = 1000
    EphCount = 3
    Protocols = {"tcp"}
SPECIFICATION Spec
SYMMETRY Interchangeable
INVARIANT IdleStackHasSlots
CHECK_DEADLOCK FALSE
