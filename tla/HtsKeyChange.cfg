SPECIFICATION Spec
CONSTANTS
    Clients = {c1}
    c1 = c1
    c2 = c2
    Ports = {1, 2, 3}
    Seeds = {1, 2}
    InitSeed = 1
    WordMod = 16
    TsMod = 64
    HalfMod = 4
    FoldMod = 4
    haraka <- OneHaraka
    hsiphash <- OneHsiphash
    hsiphash_ip <- OneHsiphashIp
    ServerAddr = server
    MaxFaults = 0
    BloomBits <- OneBloomBits
    CacheSlots = 2
    hash_option = "HARAKA"
    opt_change_key = TRUE
    MAX_ENTRY = 3
    DROP_THRESH = 1
    Concurrent = FALSE
    XDP_DRV = TRUE
    ServerIss = 7
    MaxOpen = 2
    MaxRequests = 2
    MaxClock = 1
    MaxStrays = 1
    MaxAborts = 1
INVARIANTS
    TypeOK
    Synchronized
    AdmissionPaid
    TimestampsAdvance
    CookieMatchesSeed
    OwnCookiesValidate
    SeedsAgree
    HandedOverPass
    ResetAccepted
CHECK_DEADLOCK FALSE
