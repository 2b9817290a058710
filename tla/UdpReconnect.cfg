SPECIFICATION Spec
CONSTANTS
    Callers = {c1, c2}
    Kinds = {"dns", "ntp", "ping"}
    IdMod = 2
    Attempts = 2
    MaxWork = 3
    Slots = {1}
    Ports = {1}
    Senders <- MCSenders
    PortOf <- MCPortOf
    Resolver = Resolver
    Other = Other
    Lens = {1, 2}
    RxSize = 2
    Reconnects = TRUE
    Nobody = Nobody
    errClosed = errClosed
SYMMETRY Symmetry
INVARIANT OneConversation
