CONSTANTS
    LeaseReqs    = {}
    RenewReqs    = {n1}
    ReleaseReqs  = {}
    MaxTries     = 1
    MaxDiscovers = 1
    Refusals     = FALSE
    SendFails    = FALSE
    SendsStick   = FALSE
    ShortTTL     = FALSE
    NoLease      = NoLease
SPECIFICATION Spec
CHECK_DEADLOCK FALSE
INVARIANT CleanSurvives
