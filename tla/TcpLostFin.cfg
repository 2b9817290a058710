CONSTANTS
    SeqMod = 32
    Iss = 29
    Mss = 2
    RxBuf = 2
    TxBuf = 4
    MaxRetx = 3
    PeerIss = 3
    PeerBuf = 2
    MaxFlight = 4
    Scene <- LosesFin
SPECIFICATION FairSpec
PROPERTY CloseCompletes
CHECK_DEADLOCK FALSE
