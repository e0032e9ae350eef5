CONSTANTS
    x = x
    y = y
    h1 = h1
    h2 = h2
    TxId <- MC_TxId
    Handler <- MC_Handler
    Capacity = 1
    MaxDeliveries = 3
    MaxHash = 2
    MaxHeight = 2
    MaxRestarts = 1
    MaxEvents = 1
    NoMeta = NoMeta
SPECIFICATION Spec
PROPERTY AcceptedBlockExtendsTip
CHECK_DEADLOCK FALSE
