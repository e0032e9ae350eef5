CONSTANTS
    MaxHeight = 6
    IBD_SAFE_SKIP_TX_HASHING = 1
    BUFFER_SIZE = 3
    FullIbd = FALSE
    MaxFaults = 2

SPECIFICATION Spec

INVARIANT TypeOK
INVARIANT RejectedOnlyAfterTipMoved
PROPERTY ChainRefinement
