CONSTANTS
    LeaseReqs    = {}
    RenewReqs    = {n1}
    ReleaseReqs  = {d1}
    MaxTries     = 1
    MaxDiscovers = 1
    Refusals     = TRUE
    SendFails    = TRUE
    SendsStick   = TRUE
    ShortTTL     = FALSE
    NoLease      = NoLease
SPECIFICATION FairSpec
CHECK_DEADLOCK FALSE
PROPERTIES
    LeaseFrozen
    HangOnlyWhenStuck
    ImplementsRequests
