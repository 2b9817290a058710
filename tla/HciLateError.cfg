CONSTANTS
    Byte = {0, 1, 2}
    NoByte = 170
    RingSize = 5
    WinWords = 4
    CtlWindow <- ControlRegisters
    Burst = 2
    Bases = {2, 5}
    Payloads = {0, 5}
    Rooms = {1, 6}
    Strikes = {"done"}
    MaxFaults = 1
    MaxWritten = 4
    MaxPut = 3
SPECIFICATION Spec
INVARIANTS PacketsReturned
