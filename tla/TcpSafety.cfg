CONSTANTS
    SeqMod = 16
    Iss = 14
    Mss = 2
    RxBuf = 2
    TxBuf = 2
    MaxRetx = 1
    PeerIss = 14
    PeerBuf = 2
    MaxFlight = 3
    Scene <- SafetyScenes
SPECIFICATION Spec
INVARIANTS TypeOK ReceivedInOrder EofAfterAllData AckedIsStored CarefulSends
CHECK_DEADLOCK FALSE
