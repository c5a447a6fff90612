CONSTANTS
    Users   = {u1, u2}
    Leases  = {l1, l2}
    Xids    = {x1}
    CallsOf <- MCCallsOf
    Receiver = u2
    XidOf   <- MCXidOf
    TTL     = 0
    MaxTime = 1
    Cleaner = Cleaner
    Nil     = Nil
SPECIFICATION FairSpec
CHECK_DEADLOCK FALSE
INVARIANTS
    TypeOK
    StoreInv
    CleanNeverWaits
PROPERTIES
    ImplementsLeaseMap
    CallsReturn
    OutdatedGoes
