CONSTANTS
    lping = lping
    ibd = ibd
    rping = rping
    NoReq = NoReq
    Requester <- MC_Requester
    Home <- MC_Home
    Pinger <- MC_Pinger
    Ids <- MC_Ids
    MaxRounds = 1
    VERSION = 1

SPECIFICATION Spec

INVARIANT TypeOK
INVARIANT FramesIntact
PROPERTY RequestRefinement
PROPERTY BrokenPeerDeregistered

\* Every state without a successor has the connection broken and both
\* sessions dead and deregistered, with no request waiting: the end of the
\* connection's life (a dead peer never comes back, spec 4.7).
CHECK_DEADLOCK FALSE
