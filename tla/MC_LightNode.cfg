\* Two ids and two peer tasks; capacity 1 so the BoundedSet evicts.
\* Three hashes give forks (0->1, 0->2, 1->2), two file slots, one restart.
CONSTANTS
    x = x
    y = y
    h1 = h1
    h2 = h2
    TxId <- MC_TxId
    Handler <- MC_Handler
    Capacity = 1
    MaxDeliveries = 3
    MaxHash = 2
    MaxHeight = 2
    MaxRestarts = 1
    MaxEvents = 1
    NoMeta = NoMeta
SPECIFICATION Spec
INVARIANT TypeOK
INVARIANT SeenSetBounded
INVARIANT StoredChainContinuous
INVARIANT IndexMatchesFiles
PROPERTY MetaStoreRefinement
\* A light node with every handler idle and no message or call left waits
\* for input forever: the terminal states are those, reached once the
\* delivery, height, restart and event bounds are used up.
CHECK_DEADLOCK FALSE
