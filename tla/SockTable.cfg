CONSTANTS
    NSock = 3
    Remote = {r1}
    NoRemote = NoRemote
    BoundPort = {80, 81}
    EphBase = 1000
    EphCount = 3
    Protocols = {"tcp", "udp"}
SPECIFICATION Spec
SYMMETRY Interchangeable
INVARIANTS TypeOK HeldInUse EphemeralUnique PendingUnclaimed PendingOnce
CHECK_DEADLOCK FALSE
