------------------------------- MODULE MC_Peer ------------------------------
(* Model-checking instance of Peer: on L the pinger and one IBD GetBlock  *)
(* future, on R the pinger. Two ids, 1 and 256, use each byte of the u16 *)
(* header field; concurrent requests can draw the same id, and a request *)
(* of R can carry the id of a request of L.                               *)
EXTENDS Peer, TLC

CONSTANTS lping, ibd, rping

MC_Requester == {lping, ibd, rping}
MC_Home == (lping :> "L") @@ (ibd :> "L") @@ (rping :> "R")
MC_Pinger == {lping, rping}
MC_Ids == {1, 256}
=============================================================================
