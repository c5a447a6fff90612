CONSTANTS
    Sends      = {s1}
    Blocks     = {b1}
    Kinds      = {"raw"}
    MaxPort    = 0
    StartPort  = 0
    WriteFails = FALSE
    Nobody     = Nobody
SPECIFICATION FullFairSpec
CHECK_DEADLOCK FALSE
PROPERTY BlockReturns
