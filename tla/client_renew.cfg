CONSTANTS
    LeaseReqs    = {}
    RenewReqs    = {n1}
    ReleaseReqs  = {}
    MaxTries     = 2
    MaxDiscovers = 2
    Refusals     = FALSE
    SendFails    = FALSE
    SendsStick   = TRUE
    ShortTTL     = FALSE
    NoLease      = NoLease
SPECIFICATION FairSpec
CHECK_DEADLOCK FALSE
INVARIANT AckedLease
PROPERTIES
    HangOnlyWhenStuck
    StoreDrains
