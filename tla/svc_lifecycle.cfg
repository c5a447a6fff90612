CONSTANTS
    Reqs        = {r1, r2}
    InitFails   = TRUE
    ListenFails = TRUE
    ReadFails   = TRUE
    LocksStick  = TRUE
    NoPacket    = NoPacket
SPECIFICATION FairSpec
CHECK_DEADLOCK FALSE
INVARIANTS
    TypeOK
    NoPacketLost
    CleanExit
    DiesWithoutClient
PROPERTY InterruptStops
