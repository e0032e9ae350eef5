--------------------------- MODULE ReplicatedChain ---------------------------
(***************************************************************************)
(* What a full node's block download and gossip promise, abstractly: the  *)
(* local chain is a copy of a prefix of the peer's chain that only grows, *)
(* one block at a time, each the next block of the peer's chain, and it   *)
(* keeps growing while the peer is ahead. Blocks are named by their       *)
(* height in the peer's chain, which never forks. Ibd                     *)
(* (src/src/full_node/ibd.rs with the Ping and NewBlock handlers of       *)
(* src/src/node/peer.rs) instantiates it with a refinement mapping.       *)
(***************************************************************************)
EXTENDS Naturals, Sequences

VARIABLES
    local,    \* the local chain: the heights of its blocks, in order
    remote    \* the height of the peer's chain

Init == local = <<>> /\ remote = 0

(* The peer's chain grows by one block.                                   *)
Grow ==
    /\ remote' = remote + 1
    /\ UNCHANGED local

(* The local chain takes the peer's next block.                           *)
CopyNext ==
    /\ Len(local) < remote
    /\ local' = Append(local, Len(local))
    /\ UNCHANGED remote

Next == Grow \/ CopyNext

(* A local chain behind the peer does not stay behind it forever.         *)
Spec == Init /\ [][Next]_<<local, remote>> /\ WF_<<local, remote>>(CopyNext)
=============================================================================
