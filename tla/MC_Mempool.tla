----------------------------- MODULE MC_Mempool -----------------------------
(* Model-checking instance of Mempool: three transactions, two of which   *)
(* (t1, t2) spend the same outpoint, so double spends and conflicting     *)
(* blocks from other miners can happen; t3 spends two outpoints, one      *)
(* shared with t2.                                                        *)
EXTENDS Mempool, TLC

CONSTANTS t1, t2, t3, o1, o2, o3

MC_Tx == {t1, t2, t3}
MC_Outpoint == {o1, o2, o3}
MC_Inputs == (t1 :> {o1}) @@ (t2 :> {o1, o2}) @@ (t3 :> {o2, o3})
=============================================================================
