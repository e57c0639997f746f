SPECIFICATION Spec
CONSTANTS
    Clients = {c1}
    c1 = c1
    c2 = c2
    Ports = {1, 2, 3}
    Seeds = {1}
    InitSeed = 1
    WordMod = 16
    TsMod = 64
    HalfMod = 4
    FoldMod = 4
    haraka <- OneHaraka
    hsiphash <- OneHsiphash
    hsiphash_ip <- OneHsiphashIp
    ServerAddr = server
    MaxFaults = 0
    BloomBits <- OneBloomBits
    CacheSlots = 2
    hash_option = "HARAKA"
    opt_change_key = FALSE
    MAX_ENTRY = 3
    DROP_THRESH = 1
    Concurrent = TRUE
    XDP_DRV = TRUE
    ServerIss = 7
    MaxOpen = 2
    MaxRequests = 1
    MaxClock = 1
    MaxStrays = 0
    MaxAborts = 0
INVARIANTS
    Synchronized
CHECK_DEADLOCK FALSE
