CONSTANTS
    SeqMod = 32
    Iss = 29
    Mss = 2
    RxBuf = 2
    TxBuf = 4
    MaxRetx = 2
    PeerIss = 3
    PeerBuf = 4
    MaxFlight = 3
    Scene <- ServerSends
SPECIFICATION Spec
INVARIANT ReleasedWereReceived
CHECK_DEADLOCK FALSE
