------------------------------ MODULE Economics ------------------------------
(***************************************************************************)
(* The block reward of src/src/core/economics.rs as build_block          *)
(* (src/src/lib.rs) pays it, one block after the other.                  *)
(*                                                                         *)
(* get_block_reward computes `INITIAL_REWARD >> halvings` on a u64 with a *)
(* usize shift amount. A shift by 64 or more is an arithmetic overflow in *)
(* Rust: a debug build panics, a release build (overflow checks off)     *)
(* shifts by `halvings % 64`. Which build runs is a choice of Init. The   *)
(* word is scaled from 64 to WordBits bits and INITIAL_REWARD and         *)
(* HALVING_INTERVAL with it; the halvings at which the reward reaches     *)
(* MIN_REWARD, stays there, and meets the word width keep their order.    *)
(***************************************************************************)
EXTENDS Naturals, Bitwise

CONSTANTS
    WordBits,          \* width of the reward word (64)
    INITIAL_REWARD,    \* economics.rs: to_nano(100.0)
    HALVING_INTERVAL,  \* economics.rs: 210_000
    MIN_REWARD,        \* economics.rs: 1
    MaxHeight          \* blocks built

ASSUME WordBits \in Nat \ {0} /\ INITIAL_REWARD \in 1 .. (2^WordBits - 1)
ASSUME HALVING_INTERVAL \in Nat \ {0} /\ MIN_REWARD \in Nat /\ MaxHeight \in Nat

VARIABLES
    build,      \* "debug" or "release"
    height,     \* blockchain height build_block reads
    reward,     \* the last coinbase's total
    devFee,     \* its DEV_WALLET output
    minerPay,   \* its miner output
    panicked    \* get_block_reward panicked (debug overflow)

vars == <<build, height, reward, devFee, minerPay, panicked>>

Init ==
    /\ build \in {"debug", "release"}
    /\ height = 0
    /\ reward = 0 /\ devFee = 0 /\ minerPay = 0
    /\ panicked = FALSE

MaxOf(a, b) == IF a >= b THEN a ELSE b

(* get_block_reward: `>>` by halvings; overflow panics or masks.        *)
GetBlockReward(h) ==
    LET halvings == h \div HALVING_INTERVAL
    IN  MaxOf(shiftR(INITIAL_REWARD, halvings % WordBits), MIN_REWARD)

(* calculate_dev_fee: (reward as f64 * 0.02) as u64. For rewards below   *)
(* 2^53 the double product is never below the exact one, so the cast     *)
(* truncates to floor(reward / 50).                                      *)
CalculateDevFee(r) == r \div 50

(* build_block for the current height: the coinbase pays the dev fee to *)
(* DEV_WALLET and the rest to the miner; the block is then accepted and *)
(* the height grows.                                                    *)
BuildBlock ==
    /\ ~panicked
    /\ height < MaxHeight
    /\ IF build = "debug" /\ height \div HALVING_INTERVAL >= WordBits
       THEN /\ panicked' = TRUE
            /\ UNCHANGED <<height, reward, devFee, minerPay>>
       ELSE LET r == GetBlockReward(height)
            IN  /\ reward' = r
                /\ devFee' = CalculateDevFee(r)
                /\ minerPay' = r - CalculateDevFee(r)
                /\ height' = height + 1
                /\ UNCHANGED panicked
    /\ UNCHANGED build

Next == BuildBlock

Spec == Init /\ [][Next]_vars

-----------------------------------------------------------------------------
TypeOK ==
    /\ build \in {"debug", "release"}
    /\ height \in 0 .. MaxHeight
    /\ {reward, devFee, minerPay} \subseteq 0 .. (2^WordBits - 1)
    /\ panicked \in BOOLEAN

(* The reference: the reward of the block at height h is INITIAL_REWARD *)
(* divided by 2^(h / HALVING_INTERVAL), never below MIN_REWARD, as the   *)
(* comment of get_block_reward says ("Divide by 2^halvings").            *)
HalvedReward(h) ==
    MaxOf(INITIAL_REWARD \div 2^(h \div HALVING_INTERVAL), MIN_REWARD)

(* Every coinbase build_block makes pays the halved reward of its        *)
(* height, however many blocks came before.                              *)
RewardFollowsHalving ==
    height > 0 => reward = HalvedReward(height - 1)
====
