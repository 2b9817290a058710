CONSTANTS
    SeqMod = 32
    Iss = 29
    Mss = 2
    RxBuf = 2
    TxBuf = 4
    MaxRetx = 2
    PeerIss = 3
    PeerBuf = 4
    MaxFlight = 3
    Scene <- ClosesEarly
SPECIFICATION Spec
INVARIANT FinAfterAllData
CHECK_DEADLOCK FALSE
