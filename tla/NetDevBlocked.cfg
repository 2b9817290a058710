CONSTANTS
    Addr = {a1}
    NoAddr = noaddr
    MaxRetx = 1
    MaxRenew = 1
    Static = {TRUE}
    Blocks = TRUE
    MaxRx = 3
    MaxFaults = 1
SPECIFICATION FairSpec
PROPERTY LossIsRepaired
