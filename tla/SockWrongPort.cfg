CONSTANTS
    NSock = 3
    Remote = {r1, r2}
    NoRemote = NoRemote
    BoundPort = {80, 81}
    EphBase = 1000
    EphCount = 3
    Protocols = {"tcp"}
SPECIFICATION Spec
SYMMETRY Interchangeable
INVARIANT AcceptsOwnPort
CHECK_DEADLOCK FALSE
