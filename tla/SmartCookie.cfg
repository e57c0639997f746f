SPECIFICATION FairSpec
CONSTANTS
    Clients = {c1}
    Ports = {1, 2}
    WordMod = 16
    TsMod = 16
    MaxFaults = 1
    ServerIss = 7
    MaxOpen = 1
    MaxRequests = 1
    MaxClock = 1
    MaxStrays = 1
    MaxAborts = 1
    hsiphash <- Cookies
    BloomBits <- FalsePositive
    opt_tcpoption = TRUE
    MAX_CONNECTION = 2
    XDP_DRV = FALSE
    Concurrent = TRUE
INVARIANTS
    TypeOK
    Synchronized
    AdmissionPaid
PROPERTIES
    EveryConnectionServed
CHECK_DEADLOCK FALSE
