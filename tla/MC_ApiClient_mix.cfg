CONSTANTS
    miner = miner
    wallet = wallet
    NoValue = NoValue
    Caller <- MC_Caller
    Program <- MC_ProgramHeight
    Receivers <- MC_Receivers
    CoinLists <- MC_CoinLists
    MaxHeight = 3
    WordBits = 3
    INITIAL_REWARD = 6
    HALVING_INTERVAL = 2
    MIN_REWARD = 1

SPECIFICATION Spec

INVARIANT ResponseMatchesRequest

\* Every state without a successor has each caller finished ("ok" or
\* "err") or stopped before its next fetch, with nothing left in flight:
\* the callers are done with the Client.
CHECK_DEADLOCK FALSE
