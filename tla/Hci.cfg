CONSTANTS
    Byte = {0, 1, 2}
    NoByte = 170
    RingSize = 4
    WinWords = 4
    CtlWindow <- ControlRegisters
    Burst = 2
    Bases = {2}
    Payloads = {0, 5}
    Rooms = {1, 6}
    Strikes = {"window", "lost", "done", "silent"}
    MaxFaults = 2
    MaxWritten = 5
    MaxPut = 2
SPECIFICATION Spec
INVARIANTS TypeOK WindowIsCached SentInOrder ReadInOrder
