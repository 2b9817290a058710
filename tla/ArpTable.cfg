CONSTANTS
    TableLen = 2
    Host = {gw, h1, h2}
    Far = {far}
    Group = {bcast}
    GroupMac = gmac
    NoGateway = nogw
    Gateway = gw
    Mac = {m1, m2}
    NoMac = nomac
    TTL = 1
    MaxPolls = 2
    MaxNow = 3
SPECIFICATION FairSpec
INVARIANTS OneEntryPerHost EntriesCurrent KeepsRecent
PROPERTY ResolveEnds
