CONSTANTS
    t1 = t1
    t2 = t2
    t3 = t3
    o1 = o1
    o2 = o2
    o3 = o3
    Tx <- MC_Tx
    Outpoint <- MC_Outpoint
    Inputs <- MC_Inputs
    EXPIRATION_TIME = 2
    MaxTime = 7
    NoAdd = NoAdd

SPECIFICATION Spec

INVARIANT TypeOK
INVARIANT NoDoubleSpendInMempool
INVARIANT NoLostTransaction
INVARIANT ConfirmedPooledOnlyAfterIbd
