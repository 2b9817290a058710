CONSTANTS
    Addr = {a1}
    NoAddr = noaddr
    MaxRetx = 1
    MaxRenew = 1
    Static = {TRUE, FALSE}
    Blocks = FALSE
    MaxRx = 3
    MaxFaults = 5
SPECIFICATION FairSpec
INVARIANTS TypeOK AddressOfThisLink
PROPERTIES EventsInOrder LossIsReported ComesUp
