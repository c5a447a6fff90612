CONSTANTS
    LeaseReqs    = {l1}
    RenewReqs    = {}
    ReleaseReqs  = {}
    MaxTries     = 2
    MaxDiscovers = 2
    Refusals     = FALSE
    SendFails    = FALSE
    SendsStick   = FALSE
    ShortTTL     = FALSE
    NoLease      = NoLease
SPECIFICATION FairSpec
CHECK_DEADLOCK FALSE
PROPERTY Answered
