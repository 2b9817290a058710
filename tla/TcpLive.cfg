CONSTANTS
    SeqMod = 32
    Iss = 29
    Mss = 2
    RxBuf = 2
    TxBuf = 4
    MaxRetx = 3
    PeerIss = 3
    PeerBuf = 4
    MaxFlight = 4
    Scene <- LiveScenes
SPECIFICATION FairSpec
PROPERTIES SendsAreAcked StreamArrivesUnlessLost ClosesUnlessLost
CHECK_DEADLOCK FALSE
