CONSTANTS
    LeaseReqs   = {l1}
    RenewReqs   = {n1}
    ReleaseReqs = {d1}
    Modulus     = 64
    NoOption    = NoOption
    NoLease     = NoLease
    Queries     <- MCQueries
    Options     <- MCOptions
    MaxCalls    = 2
SPECIFICATION Spec
CHECK_DEADLOCK FALSE
INVARIANTS
    TypeOK
    CallerToldTruth
    OnlySoundCalls
    TimesInOrder
