------------------------------ MODULE LightNode ------------------------------
(***************************************************************************)
(* The light node of src/src/light_node/: accept_transaction and          *)
(* accept_block (mod.rs), the seen_transactions BoundedSet                *)
(* (bounded_set.rs, light_node_state.rs) and the BlockMetaStore           *)
(* (block_meta_store.rs).                                                  *)
(*                                                                         *)
(* Every NewTransaction message runs accept_transaction in the task of    *)
(* the peer that delivered it, so Handler is a set of concurrent tasks.   *)
(* accept_transaction takes the seen_transactions lock twice: a read      *)
(* lock for `contains`, released, then a write lock for `insert`; the     *)
(* model has one step per lock section.                                   *)
(*                                                                         *)
(* A transaction is its id plus whether its input signatures verify. The  *)
(* id hashes the transaction without its signatures (spec section 3), so  *)
(* a "good" and a "bad" version share an id.                              *)
(*                                                                         *)
(* A block is named by its metadata: previous_block and hash, hashes      *)
(* being 0 .. MaxHash with GENESIS_PREVIOUS_BLOCK_HASH = 0 and            *)
(* prev < hash (no hash cycles). The store's disk is `files`, one slot    *)
(* per meta-<height>.dat, and `tmp`, the meta-<height>.dat.tmp file; they *)
(* survive a restart, the in-memory fields do not.                        *)
(***************************************************************************)
EXTENDS Naturals, Sequences, SequencesExt, FiniteSets

CONSTANTS
    TxId,           \* transaction ids
    Handler,        \* peer tasks running accept_transaction
    Capacity,       \* BoundedSet capacity of seen_transactions (1000)
    MaxDeliveries,  \* bound on NewTransaction messages delivered
    MaxHash,        \* hashes are 0 .. MaxHash
    MaxHeight,      \* number of meta-<height>.dat slots
    MaxRestarts,    \* bound on process restarts
    MaxEvents,      \* bound on accepted blocks
    NoMeta          \* model value: no file

ASSUME Capacity \in Nat \ {0} /\ MaxDeliveries \in Nat
ASSUME MaxHash \in Nat \ {0} /\ MaxHeight \in Nat \ {0}
ASSUME MaxRestarts \in Nat /\ MaxEvents \in Nat

GENESIS_PREVIOUS_BLOCK_HASH == 0
Hashes == 0 .. MaxHash
Meta == {m \in [prev : Hashes, hash : Hashes] : m.prev < m.hash}
Tx == [id : TxId, sig : {"good", "bad"}]
Heights == 0 .. (MaxHeight - 1)

VARIABLES
    seen,         \* seen_transactions: [set, order] of the BoundedSet
    hpc,          \* hpc[h]: where handler h is in accept_transaction
    htx,          \* htx[h]: the transaction h is handling
    deliveries,   \* NewTransaction messages delivered so far
    txEvents,     \* LightChainEvent::Transaction sent on chain_events
    handled,      \* history: transactions whose handler returned
    lastBlock,    \* BlockMetaStore.last_block
    height,       \* BlockMetaStore.height
    byHash,       \* meta_index.by_hash
    byHeight,     \* meta_index.by_height
    files,        \* files[h]: content of meta-<h>.dat
    tmp,          \* <<h, m>>: a meta-<h>.dat.tmp left behind, or <<>>
    restarts,     \* restarts so far
    blockEvents   \* LightChainEvent::Block sent on chain_events

txVars == <<seen, hpc, htx, deliveries, txEvents, handled>>
storeVars == <<lastBlock, height, byHash, byHeight, files, tmp, restarts>>
vars == <<txVars, storeVars, blockEvents>>

(* LightNodeState::new_empty, BlockMetaStore::new_empty, no file yet.    *)
Init ==
    /\ seen = [set |-> {}, order |-> <<>>]
    /\ hpc = [h \in Handler |-> "idle"]
    /\ htx = [h \in Handler |-> CHOOSE t \in Tx : TRUE]
    /\ deliveries = 0
    /\ txEvents = <<>>
    /\ handled = {}
    /\ lastBlock = GENESIS_PREVIOUS_BLOCK_HASH
    /\ height = 0
    /\ byHash = <<>>
    /\ byHeight = <<>>
    /\ files = [h \in Heights |-> NoMeta]
    /\ tmp = <<>>
    /\ restarts = 0
    /\ blockEvents = <<>>

(* Mutant: evicts only once the set has grown past its capacity.         *)
InsertPastCapacity(bs, v) ==
    IF v \in bs.set THEN bs
    ELSE LET ev == IF Cardinality(bs.set) > Capacity /\ bs.order # <<>>
                   THEN [set |-> bs.set \ {Head(bs.order)}, order |-> Tail(bs.order)]
                   ELSE bs
         IN  [set |-> ev.set \cup {v}, order |-> Append(ev.order, v)]

(* BoundedSet::insert: nothing if present; at capacity, drop the oldest. *)
Insert(bs, v) ==
    IF v \in bs.set THEN bs
    ELSE LET ev == IF Cardinality(bs.set) = Capacity /\ bs.order # <<>>
                   THEN [set |-> bs.set \ {Head(bs.order)}, order |-> Tail(bs.order)]
                   ELSE bs
         IN  [set |-> ev.set \cup {v}, order |-> Append(ev.order, v)]

-----------------------------------------------------------------------------
(* A NewTransaction reaches handler h, which runs accept_transaction up   *)
(* to the read-locked `contains`: a seen id returns Ok at once.          *)
ReceiveTransaction(h, t) ==
    /\ hpc[h] = "idle"
    /\ deliveries < MaxDeliveries
    /\ deliveries' = deliveries + 1
    /\ htx' = [htx EXCEPT ![h] = t]
    /\ IF t.id \in seen.set
       THEN /\ handled' = handled \cup {t}
            /\ UNCHANGED hpc
       ELSE /\ hpc' = [hpc EXCEPT ![h] = "insert"]
            /\ UNCHANGED handled
    /\ UNCHANGED <<seen, txEvents, storeVars, blockEvents>>

(* Mutant: records the transaction itself instead of its id.              *)
InsertSeenWholeTx(h) ==
    /\ hpc[h] = "insert"
    /\ seen' = [set |-> seen.set \cup {htx[h]}, order |-> Append(seen.order, htx[h])]
    /\ hpc' = [hpc EXCEPT ![h] = "validate"]
    /\ UNCHANGED <<htx, deliveries, txEvents, handled, storeVars, blockEvents>>

(* The write-locked insert into seen_transactions, before any check.     *)
InsertSeen(h) ==
    /\ hpc[h] = "insert"
    /\ seen' = Insert(seen, htx[h].id)
    /\ hpc' = [hpc EXCEPT ![h] = "validate"]
    /\ UNCHANGED <<htx, deliveries, txEvents, handled, storeVars, blockEvents>>

(* The validation chain: id, PoW, IO limits and input signatures; only   *)
(* a transaction that passes is sent on chain_events.                    *)
ValidateTransaction(h) ==
    /\ hpc[h] = "validate"
    /\ txEvents' = IF htx[h].sig = "good" THEN Append(txEvents, htx[h]) ELSE txEvents
    /\ hpc' = [hpc EXCEPT ![h] = "idle"]
    /\ handled' = handled \cup {htx[h]}
    /\ UNCHANGED <<seen, htx, deliveries, storeVars, blockEvents>>

-----------------------------------------------------------------------------
(* Mutant: writes the index, height and last_block before the file.      *)
SaveBlockMetaIndexFirst(m) ==
    /\ m.prev = lastBlock
    /\ height < MaxHeight
    /\ byHash' = (m.hash :> height) @@ byHash
    /\ byHeight' = (height :> m.hash) @@ byHeight
    /\ height' = height + 1
    /\ lastBlock' = m.hash
    /\ \/ /\ files' = [files EXCEPT ![height] = m]
          /\ tmp' = <<>>
       \/ /\ tmp' = <<height, m>>
          /\ UNCHANGED files
    /\ UNCHANGED <<restarts, txVars, blockEvents>>

(* Mutant: no chain-continuity check.                                     *)
SaveBlockMetaNoContinuity(m) ==
    /\ height < MaxHeight
    /\ \/ /\ files' = [files EXCEPT ![height] = m]
          /\ tmp' = <<>>
          /\ byHash' = (m.hash :> height) @@ byHash
          /\ byHeight' = (height :> m.hash) @@ byHeight
          /\ height' = height + 1
          /\ lastBlock' = m.hash
       \/ /\ tmp' = <<height, m>>
          /\ UNCHANGED <<files, byHash, byHeight, height, lastBlock>>
    /\ UNCHANGED <<restarts, txVars, blockEvents>>

(* BlockMetaStore::save_block_meta. It refuses metadata whose           *)
(* previous_block is not last_block; then writes the .tmp file and      *)
(* renames it over meta-<height>.dat, and only then updates the index,  *)
(* height and last_block. File::create, write_all, sync_all or rename   *)
(* may fail with an IO error: the call returns Err with the .tmp file   *)
(* left on disk and memory untouched.                                   *)
SaveBlockMeta(m) ==
    /\ m.prev = lastBlock
    /\ height < MaxHeight
    /\ \/ /\ files' = [files EXCEPT ![height] = m]
          /\ tmp' = <<>>
          /\ byHash' = (m.hash :> height) @@ byHash
          /\ byHeight' = (height :> m.hash) @@ byHeight
          /\ height' = height + 1
          /\ lastBlock' = m.hash
       \/ /\ tmp' = <<height, m>>
          /\ UNCHANGED <<files, byHash, byHeight, height, lastBlock>>
    /\ UNCHANGED <<restarts, txVars, blockEvents>>

(* get_meta_by_height reads meta-<h>.dat whatever the height;            *)
(* get_meta_by_hash looks the height up in by_hash first.               *)
GetMetaByHeight(h) == files[h]
GetMetaByHash(x) == IF x \in DOMAIN byHash THEN GetMetaByHeight(byHash[x]) ELSE NoMeta

(* The process stops at any point and create_light_node builds a fresh   *)
(* state: BlockMetaStore::new_empty does not read the files back, and    *)
(* the tasks handling messages are gone.                                 *)
Restart ==
    /\ restarts < MaxRestarts
    /\ restarts' = restarts + 1
    /\ lastBlock' = GENESIS_PREVIOUS_BLOCK_HASH
    /\ height' = 0
    /\ byHash' = <<>>
    /\ byHeight' = <<>>
    /\ seen' = [set |-> {}, order |-> <<>>]
    /\ hpc' = [h \in Handler |-> "idle"]
    /\ UNCHANGED <<files, tmp, htx, deliveries, txEvents, handled, blockEvents>>

(* accept_block, for a block whose check_meta, timestamp, size and PoW   *)
(* checks pass: it compares meta_store.get_last_block_hash() with the    *)
(* block's own hash, and on success updates the difficulty state and     *)
(* sends the block on chain_events. It never calls save_block_meta.     *)
AcceptBlock(b) ==
    /\ Len(blockEvents) < MaxEvents
    /\ lastBlock = b.hash
    /\ blockEvents' = Append(blockEvents, b)
    /\ UNCHANGED <<txVars, storeVars>>

Next ==
    \/ \E h \in Handler, t \in Tx : ReceiveTransaction(h, t)
    \/ \E h \in Handler : InsertSeen(h) \/ ValidateTransaction(h)
    \/ \E m \in Meta : SaveBlockMeta(m) \/ AcceptBlock(m)
    \/ Restart

Spec == Init /\ [][Next]_vars

-----------------------------------------------------------------------------
TypeOK ==
    /\ seen \in [set : SUBSET TxId, order : Seq(TxId)]
    /\ hpc \in [Handler -> {"idle", "insert", "validate"}]
    /\ htx \in [Handler -> Tx]
    /\ deliveries \in 0 .. MaxDeliveries
    /\ txEvents \in Seq(Tx) /\ handled \subseteq Tx
    /\ lastBlock \in Hashes /\ height \in 0 .. MaxHeight
    /\ files \in [Heights -> Meta \cup {NoMeta}]
    /\ tmp \in {<<>>} \cup (Heights \X Meta)
    /\ restarts \in 0 .. MaxRestarts
    /\ blockEvents \in Seq(Meta)

(* seen_transactions stays a well-formed BoundedSet through any          *)
(* interleaving of handlers and restarts: the set and the FIFO order     *)
(* hold the same ids, once each, and never more than Capacity of them,   *)
(* so the oldest id is the one evicted.                                  *)
SeenSetBounded ==
    /\ seen.set = ToSet(seen.order)
    /\ Len(seen.order) = Cardinality(seen.set)
    /\ Cardinality(seen.set) <= Capacity

(* The metadata files below `height` form the chain save_block_meta      *)
(* was given, from GENESIS_PREVIOUS_BLOCK_HASH to last_block, whatever   *)
(* IO errors, restarts and leftover files from an earlier run happened.  *)
StoredChainContinuous ==
    /\ \A h \in 0 .. (height - 1) :
          /\ files[h] # NoMeta
          /\ files[h].prev = IF h = 0 THEN GENESIS_PREVIOUS_BLOCK_HASH
                             ELSE files[h - 1].hash
    /\ lastBlock = IF height = 0 THEN GENESIS_PREVIOUS_BLOCK_HASH
                   ELSE files[height - 1].hash

(* get_meta_by_hash and the by_height index find a file of this run      *)
(* holding metadata with that very hash, even after an IO error.         *)
IndexMatchesFiles ==
    /\ \A x \in DOMAIN byHash :
          /\ byHash[x] < height
          /\ GetMetaByHash(x) # NoMeta
          /\ GetMetaByHash(x).hash = x
    /\ \A h \in DOMAIN byHeight :
          h < height /\ byHeight[h] = GetMetaByHeight(h).hash

(* save_block_meta and restarts implement MetaLog: the metadata files    *)
(* below `height` are a log that only ever grows by one continuous entry *)
(* (a failed write changes nothing) or starts again empty at a restart,  *)
(* whatever stale files a previous run left above it.                     *)
ML == INSTANCE MetaLog
        WITH Genesis <- GENESIS_PREVIOUS_BLOCK_HASH,
             log <- [i \in 1 .. height |-> files[i - 1]]

MetaStoreRefinement == ML!Spec

(* A transaction with valid signatures that reached accept_transaction   *)
(* has been forwarded on chain_events, or a handler holding a valid copy *)
(* is still on its way to forwarding it (the spec: acceptance validates  *)
(* id, PoW, signatures and limits).                                      *)
ValidTransactionForwarded ==
    \A t \in handled :
        t.sig = "good" =>
            \/ \E i \in DOMAIN txEvents : txEvents[i].id = t.id
            \/ \E h \in Handler : hpc[h] # "idle" /\ htx[h] = t

(* accept_block sends a block on chain_events only when it extends the   *)
(* stored chain: its previous_block is the store's last block (spec      *)
(* 4.10, monotonic previous-hash).                                       *)
AcceptedBlockExtendsTip ==
    [][Len(blockEvents') > Len(blockEvents) =>
         Last(blockEvents').prev = lastBlock]_vars
====
