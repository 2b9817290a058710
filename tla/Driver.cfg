CONSTANTS
    BusMod = 5
    FarAhead = 2
    Window = 2
    Packet = {p1}
    Own = Own
    Arp = Arp
    None = None
    MaxDepth = 3
    MaxIn = 1
    MaxIoctls = 2
SPECIFICATION Spec
INVARIANTS TypeOK WithinWindow OwnAnswer
