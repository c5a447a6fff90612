CONSTANTS
    Sends      = {s1, s2}
    Blocks     = {b1}
    Kinds      = {"udp", "raw", "fritzbox"}
    MaxPort    = 1
    StartPort  = 1
    WriteFails = TRUE
    Nobody     = Nobody
SPECIFICATION FairSpec
CHECK_DEADLOCK FALSE
INVARIANTS
    TypeOK
    ConnInv
    ResultHonest
    StuckNeedsTimeout
    OneAbortPerCancel
PROPERTIES
    BlockedTraffic
    ImplementsTransmission
    BlockReturnsUnlessStuck
