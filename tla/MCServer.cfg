SPECIFICATION FairSpec
CONSTANTS
    Requests = {r1, r2}
    MaxOpenConns = 1
    Fanout = 2
    PageMutes = 1
    MaxReceived = 3
    MaxFaults = 1
    MaxRestarts = 1
INVARIANTS
    ServerTypeOK
    ServesWithSchema
    CountersBalance
    CleanExit
PROPERTIES
    Served
    ShutdownEnds
CHECK_DEADLOCK FALSE
