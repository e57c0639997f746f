SPECIFICATION FairSpec
CONSTANTS
    Clients = {c1, c2}
    c1 = c1
    c2 = c2
    Ports = {1, 2}
    Seeds = {1}
    InitSeed = 1
    WordMod = 16
    TsMod = 64
    HalfMod = 4
    FoldMod = 4
    haraka <- TwoHaraka
    hsiphash <- OneHsiphash
    hsiphash_ip <- TwoHsiphashIp
    ServerAddr = server
    MaxFaults = 0
    BloomBits <- TwoBloomBits
    CacheSlots = 2
    hash_option = "HARAKA"
    opt_change_key = FALSE
    MAX_ENTRY = 4
    DROP_THRESH = 1
    Concurrent = FALSE
    XDP_DRV = FALSE
    ServerIss = 7
    MaxOpen = 1
    MaxRequests = 1
    MaxClock = 2
    MaxStrays = 0
    MaxAborts = 0
PROPERTIES
    EventuallyServed
CHECK_DEADLOCK FALSE
