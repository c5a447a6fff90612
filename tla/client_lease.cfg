CONSTANTS
    LeaseReqs    = {l1}
    RenewReqs    = {}
    ReleaseReqs  = {}
    MaxTries     = 2
    MaxDiscovers = 2
    Refusals     = TRUE
    SendFails    = TRUE
    SendsStick   = TRUE
    ShortTTL     = FALSE
    NoLease      = NoLease
SPECIFICATION FairSpec
CHECK_DEADLOCK FALSE
INVARIANTS
    TypeOK
    IInv
    SingleClose
    PanicNeedsAbandonment
PROPERTIES
    HangOnlyWhenStuck
    ImplementsRequests
