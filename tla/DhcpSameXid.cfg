CONSTANTS
    Client = {c1, c2}
    NoClient = none
    Addr <- LastBytes
    NoAddr = noaddr
    MaxRetx = 1
    MaxRenew = 1
    MaxLeases = 2
    Gateway = 1
    Departed = departed
    MaxDeparted = 1
    MaxInAir = 2
SPECIFICATION LanSpec
INVARIANT NoSharedAddress
SYMMETRY Stations
