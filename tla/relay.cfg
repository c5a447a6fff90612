CONSTANTS
    Lookups    = {q1, q2, q3}
    lan        = lan
    wan        = wan
    router     = router
    server     = server
    net        = net
    e1         = e1
    e2         = e2
    e6         = e6
    f6         = f6
    NoIP       = NoIP
    Garbage    = Garbage
    Internet   = net
    V4         <- MCV4
    V6         <- MCV6
    Configs    <- MCConfigs
    Tables     <- MCTables
    Services   <- MCServices
    MaxChanges = 2
SPECIFICATION Spec
CHECK_DEADLOCK FALSE
SYMMETRY Symmetry
INVARIANTS
    TypeOK
    RelayInv
    AddressesAsConfigured
    RelayPublished
    FallbackNotOutdated
