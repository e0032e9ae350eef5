----------------------------- MODULE MC_ApiClient ----------------------------
(* Model-checking instance of ApiClient: a miner task running build_block *)
(* (and, in MC_Program, submitting its block) and a wallet task on the   *)
(* same Client, while other blocks grow the node's chain from 1 to 3.    *)
(* The reward 6 halves every 2 blocks, so a block built at height 1 and *)
(* submitted at height 2 has the wrong coinbase. The wallet runs         *)
(* build_transaction (MC_Program) or, for the response mix, get_height   *)
(* (MC_ProgramHeight).                                                    *)
(*                                                                         *)
(* Amounts are 3-bit words. The receiver lists total 3, 7 (the largest    *)
(* amount) and 8 (an overflow); the coin lists are empty, cover 3 exactly *)
(* with two coins out of order, cover it with change, and overflow while *)
(* gathering 7. Both build profiles are explored.                         *)
EXTENDS ApiClient, TLC

CONSTANTS miner, wallet

MC_Caller == {miner, wallet}
MC_Program == (miner :> "mine") @@ (wallet :> "build_transaction")
MC_ProgramHeight == (miner :> "build_block") @@ (wallet :> "get_height")
MC_Receivers == {<<2, 1>>, <<6, 1>>, <<4, 4>>}
MC_CoinLists == {<<>>, <<2, 1>>, <<2, 3>>, <<5, 5>>}
=============================================================================
