\* A 5-bit word: the reward 6 halves to 3 and 1, stays at MIN_REWARD for
\* two intervals and reaches the word width at halving 5 (height 10).
CONSTANTS
    WordBits = 5
    INITIAL_REWARD = 6
    HALVING_INTERVAL = 2
    MIN_REWARD = 1
    MaxHeight = 12
SPECIFICATION Spec
INVARIANT RewardFollowsHalving
\* Building stops at MaxHeight or after a debug build's panic.
CHECK_DEADLOCK FALSE
