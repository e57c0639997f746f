SPECIFICATION GatewaySpec
CONSTANTS
    num_interfaces = 2
    num_workers = 3
    FrameShift = 2
    Configs <- AnyMode
    Faulty = TRUE
    MaxErrors = 2
INVARIANTS
    GatewayTypeOK
    PollingWorkersHaveSockets
    NothingLeft
    OwnerFound
    TimestampFound
    AgentsAgree
PROPERTIES
    StopEnds
CHECK_DEADLOCK FALSE
