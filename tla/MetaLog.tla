------------------------------- MODULE MetaLog -------------------------------
(***************************************************************************)
(* What the light node's BlockMetaStore promises, abstractly: a log of    *)
(* block metadata in which each entry's previous_block is the hash of the *)
(* entry before it, the first one's GENESIS_PREVIOUS_BLOCK_HASH. The log  *)
(* only grows by one entry at a time, and a restart of the process starts *)
(* it again from empty (BlockMetaStore::new_empty does not read the files *)
(* back). LightNode instantiates it with a refinement mapping.           *)
(***************************************************************************)
EXTENDS Sequences

CONSTANTS
    Meta,      \* block metadata: records with fields prev and hash
    Genesis    \* GENESIS_PREVIOUS_BLOCK_HASH

VARIABLES log   \* the metadata stored, oldest first

Init == log = <<>>

(* The hash a new entry must name as its previous_block.                  *)
Tip == IF log = <<>> THEN Genesis ELSE log[Len(log)].hash

Append1(m) ==
    /\ m.prev = Tip
    /\ log' = Append(log, m)

Reset == log' = <<>>

Next == (\E m \in Meta : Append1(m)) \/ Reset

Spec == Init /\ [][Next]_log
=============================================================================
