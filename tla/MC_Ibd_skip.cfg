CONSTANTS
    MaxHeight = 4
    IBD_SAFE_SKIP_TX_HASHING = 1
    BUFFER_SIZE = 2
    FullIbd = FALSE
    MaxFaults = 1

SPECIFICATION Spec

INVARIANT SkipHashingOnlyFarFromTip
