-------------------------------- MODULE Ibd ---------------------------------
(***************************************************************************)
(* Initial block download of a full node from one peer                    *)
(* (src/src/full_node/ibd.rs), the Ping handler that starts it under the  *)
(* is_syncing guard, and the NewBlock gossip handler that can append to   *)
(* the local chain while a download is running (src/src/node/peer.rs).    *)
(*                                                                         *)
(* A block is named by its height in the peer's chain; the peer's chain   *)
(* only grows (no forks), so hashes[k] is a height. add_block (not under  *)
(* src/, spec 4.5) accepts a block iff its previous hash is the local     *)
(* tip, i.e. iff its height equals the local chain length.                *)
(*                                                                         *)
(* The download is `stream::iter(hashes).map(GetBlock).buffered(10)`      *)
(* followed by `try_for_each(add_block)`: up to BUFFER_SIZE requests are  *)
(* started in hash order, their answers arrive in any order, and results  *)
(* are handed to add_block strictly in hash order; the first error (a     *)
(* request timing out, an empty block, a rejected block) ends the round.  *)
(***************************************************************************)
EXTENDS Integers, Sequences, FiniteSets

CONSTANTS
    MaxHeight,                 \* bound on the peer's chain height
    IBD_SAFE_SKIP_TX_HASHING,  \* ibd.rs: 500
    BUFFER_SIZE,               \* ibd.rs: 10
    FullIbd,                   \* the full_ibd argument
    MaxFaults                  \* bound on requests that time out

ASSUME MaxHeight \in Nat \ {0} /\ IBD_SAFE_SKIP_TX_HASHING \in Nat
ASSUME BUFFER_SIZE \in Nat \ {0} /\ FullIbd \in BOOLEAN /\ MaxFaults \in Nat

Phase == {"idle", "ping", "hashes", "download"}
Fetch == {"wait", "ok", "err"}

VARIABLES
    chain,          \* local block store: the heights appended, in order
    remoteHeight,   \* height of the peer's chain
    isSyncing,      \* node.is_syncing
    phase,          \* where the ibd_blockchain task is
    syncLocal,      \* local_height read when the round started
    syncRemote,     \* remote_height from the Pong
    hashes,         \* block_hashes from GetBlockHashesResponse
    fetch,          \* fetch[k]: state of the k-th GetBlock future
    yielded,        \* results handed to add_block so far this round
    left,           \* the AtomicUsize `left`
    skipped,        \* history: <<block, syncRemote>> added with skip_tx_hashing
    faults,         \* requests that timed out so far
    outcome,        \* history: how the last round ended
    tipMoved        \* history: gossip appended a block during this round

vars == <<chain, remoteHeight, isSyncing, phase, syncLocal,
          syncRemote, hashes, fetch, yielded, left, skipped, faults,
          outcome, tipMoved>>
roundVars == <<syncLocal, syncRemote, hashes, fetch, yielded, left>>

Init ==
    /\ chain = <<>>
    /\ remoteHeight = 0
    /\ isSyncing = FALSE
    /\ phase = "idle"
    /\ syncLocal = 0
    /\ syncRemote = 0
    /\ hashes = <<>>
    /\ fetch = <<>>
    /\ yielded = 0
    /\ left = 0
    /\ skipped = {}
    /\ faults = 0
    /\ outcome = "none"
    /\ tipMoved = FALSE

(* add_block's chain-continuity check: previous_block == tip hash.        *)
Extends(b) == b = Len(chain)

(* Mutant: is_syncing is cleared only when the round succeeds.           *)
EndRoundKeepSyncingOnError(result) ==
    /\ phase' = "idle"
    /\ isSyncing' = (result # "ok")
    /\ outcome' = result

(* The round ends (ibd_blockchain returns Ok or Err); the Ping handler's  *)
(* task then clears is_syncing whatever the result.                       *)
EndRound(result) ==
    /\ phase' = "idle"
    /\ isSyncing' = FALSE
    /\ outcome' = result

-----------------------------------------------------------------------------
(* The peer mines a block.                                                *)
RemoteMine ==
    /\ remoteHeight < MaxHeight
    /\ remoteHeight' = remoteHeight + 1
    /\ UNCHANGED <<chain, isSyncing, phase, roundVars,
                   skipped, faults, outcome, tipMoved>>

(* Peer::on_message, Command::Ping{height} from the peer's pinger: reply  *)
(* Pong, and in a spawned task, if the local chain is shorter, take the   *)
(* node lock, return if is_syncing, else set it and start ibd_blockchain, *)
(* which reads local_height and sends its own Ping. The handler calls     *)
(* sync_to_peer (node/sync.rs), which is not in this repository; the      *)
(* download it runs is taken to be full_node's ibd_blockchain, the only   *)
(* one src/ has.                                                          *)
ReceivePing ==
    /\ IF Len(chain) < remoteHeight /\ ~isSyncing
       THEN /\ isSyncing' = TRUE
            /\ phase' = "ping"
            /\ syncLocal' = Len(chain)
            /\ tipMoved' = FALSE
            /\ outcome' = "none"
       ELSE UNCHANGED <<isSyncing, phase, syncLocal, tipMoved, outcome>>
    /\ UNCHANGED <<chain, remoteHeight, syncRemote, hashes,
                   fetch, yielded, left, skipped, faults>>

(* Peer::on_message, Command::NewBlock: the peer gossips its newest       *)
(* block, and the handler submits it unless its hash is the node's        *)
(* last_seen_block. The handler does not write last_seen_block; only     *)
(* Node::submit_block, outside this repository, may (spec 4.8). A skipped *)
(* block and a re-submitted one that add_block refuses leave the same     *)
(* state, so the model keeps no last_seen_block. Node::submit_block       *)
(* (add_block, full validation) appends the block or fails, and the       *)
(* failure is logged.                                                     *)
ReceiveNewBlock ==
    /\ remoteHeight > 0
    /\ LET b == remoteHeight - 1
       IN  IF Extends(b)
           THEN /\ chain' = Append(chain, b)
                /\ tipMoved' = (tipMoved \/ isSyncing)
           ELSE UNCHANGED <<chain, tipMoved>>
    /\ UNCHANGED <<remoteHeight, isSyncing, phase, roundVars, skipped,
                   faults, outcome>>

-----------------------------------------------------------------------------
(* A request of the round times out (peer.request: 10 s, Disconnected).   *)
CanFault == faults < MaxFaults

(* ibd_blockchain: the Ping request is answered with Pong{remote height}; *)
(* if the peer is not ahead the round ends Ok, else GetBlockHashes is     *)
(* sent for [local_height, remote_height).                                *)
PongReceived ==
    /\ phase = "ping"
    /\ syncRemote' = remoteHeight
    /\ IF remoteHeight <= syncLocal
       THEN EndRound("ok")
       ELSE /\ phase' = "hashes"
            /\ UNCHANGED <<isSyncing, outcome>>
    /\ UNCHANGED <<chain, remoteHeight, syncLocal, hashes,
                   fetch, yielded, left, skipped, faults, tipMoved>>

(* The peer's GetBlockHashes handler returns the hash of every height in  *)
(* [start, end) it has; the download starts with left = remote_height.    *)
HashesReceived ==
    /\ phase = "hashes"
    /\ hashes' = [k \in 1 .. (syncRemote - syncLocal) |-> syncLocal + k - 1]
    /\ fetch' = <<>>
    /\ yielded' = 0
    /\ left' = syncRemote
    /\ phase' = "download"
    /\ UNCHANGED <<chain, remoteHeight, isSyncing, syncLocal,
                   syncRemote, skipped, faults, outcome, tipMoved>>

(* The Ping or GetBlockHashes request times out: the round ends Err.      *)
RequestTimeout ==
    /\ phase \in {"ping", "hashes"}
    /\ CanFault
    /\ faults' = faults + 1
    /\ EndRound("error")
    /\ UNCHANGED <<chain, remoteHeight, roundVars, skipped,
                   tipMoved>>

(* Mutant: admits one more future than BUFFER_SIZE.                      *)
IssueGetBlockOverfill ==
    /\ phase = "download"
    /\ Len(fetch) < Len(hashes)
    /\ Len(fetch) - yielded <= BUFFER_SIZE
    /\ fetch' = Append(fetch, "wait")
    /\ UNCHANGED <<chain, remoteHeight, isSyncing, phase,
                   syncLocal, syncRemote, hashes, yielded, left, skipped,
                   faults, outcome, tipMoved>>

(* buffered(BUFFER_SIZE) polls the next GetBlock future when fewer than   *)
(* BUFFER_SIZE futures are started and not yet yielded.                   *)
IssueGetBlock ==
    /\ phase = "download"
    /\ Len(fetch) < Len(hashes)
    /\ Len(fetch) - yielded < BUFFER_SIZE
    /\ fetch' = Append(fetch, "wait")
    /\ UNCHANGED <<chain, remoteHeight, isSyncing, phase,
                   syncLocal, syncRemote, hashes, yielded, left, skipped,
                   faults, outcome, tipMoved>>

(* The k-th GetBlock request is answered (the peer has every block below  *)
(* its height) or times out; answers arrive in any order.                 *)
GetBlockAnswered(k) ==
    /\ phase = "download"
    /\ k \in DOMAIN fetch
    /\ fetch[k] = "wait"
    /\ fetch' = [fetch EXCEPT ![k] = "ok"]
    /\ UNCHANGED <<chain, remoteHeight, isSyncing, phase,
                   syncLocal, syncRemote, hashes, yielded, left, skipped,
                   faults, outcome, tipMoved>>

GetBlockTimeout(k) ==
    /\ phase = "download"
    /\ k \in DOMAIN fetch
    /\ fetch[k] = "wait"
    /\ CanFault
    /\ fetch' = [fetch EXCEPT ![k] = "err"]
    /\ faults' = faults + 1
    /\ UNCHANGED <<chain, remoteHeight, isSyncing, phase,
                   syncLocal, syncRemote, hashes, yielded, left, skipped,
                   outcome, tipMoved>>

(* Mutant: results are handed on in arrival order (buffer_unordered).    *)
YieldNextUnordered ==
    \E k \in (yielded + 1) .. Len(fetch) :
      LET b == hashes[k]
          skip == left > IBD_SAFE_SKIP_TX_HASHING /\ ~FullIbd
      IN
      /\ phase = "download"
      /\ fetch[k] = "ok"
      /\ yielded' = yielded + 1
      /\ IF ~Extends(b)
         THEN /\ EndRound("rejected")
              /\ UNCHANGED <<chain, left, skipped>>
         ELSE /\ chain' = Append(chain, b)
              /\ skipped' = IF skip THEN skipped \cup {<<b, syncRemote>>}
                                    ELSE skipped
              /\ left' = IF left > 0 THEN left - 1 ELSE 0
              /\ IF yielded + 1 = Len(hashes) THEN EndRound("ok")
                 ELSE UNCHANGED <<phase, isSyncing, outcome>>
      /\ UNCHANGED <<remoteHeight, syncLocal, syncRemote,
                     hashes, fetch, faults, tipMoved>>

(* try_for_each receives the next result in hash order. An Err ends the   *)
(* round. A block goes to add_block(block, left > SAFE && !full_ibd); if  *)
(* add_block rejects it the round ends Err, else left is decremented and  *)
(* the round ends Ok after the last hash.                                 *)
YieldNext ==
    LET k == yielded + 1
        b == hashes[k]
        skip == left > IBD_SAFE_SKIP_TX_HASHING /\ ~FullIbd
    IN
    /\ phase = "download"
    /\ k <= Len(fetch)
    /\ fetch[k] # "wait"
    /\ yielded' = k
    /\ CASE fetch[k] = "err" ->
              /\ EndRound("error")
              /\ UNCHANGED <<chain, left, skipped>>
         [] fetch[k] = "ok" /\ ~Extends(b) ->
              /\ EndRound("rejected")
              /\ UNCHANGED <<chain, left, skipped>>
         [] OTHER ->
              /\ chain' = Append(chain, b)
              /\ skipped' = IF skip THEN skipped \cup {<<b, syncRemote>>}
                                    ELSE skipped
              /\ left' = IF left > 0 THEN left - 1 ELSE 0
              /\ IF k = Len(hashes) THEN EndRound("ok")
                 ELSE UNCHANGED <<phase, isSyncing, outcome>>
    /\ UNCHANGED <<remoteHeight, syncLocal, syncRemote,
                   hashes, fetch, faults, tipMoved>>

Next ==
    \/ RemoteMine
    \/ ReceivePing
    \/ ReceiveNewBlock
    \/ PongReceived
    \/ HashesReceived
    \/ RequestTimeout
    \/ IssueGetBlock
    \/ \E k \in 1 .. Len(fetch) : GetBlockAnswered(k)
    \/ \E k \in 1 .. Len(fetch) : GetBlockTimeout(k)
    \/ YieldNext

(* The peer's pinger loops every 5 s and its reader and writer tasks      *)
(* answer every request; the local ibd task is a tokio task that runs.    *)
(* Mining and timeouts are the environment and get no fairness.           *)
Fairness ==
    /\ WF_vars(ReceivePing)
    /\ WF_vars(PongReceived)
    /\ WF_vars(HashesReceived)
    /\ WF_vars(IssueGetBlock)
    /\ \A k \in 1 .. MaxHeight : WF_vars(GetBlockAnswered(k))
    /\ WF_vars(YieldNext)

Spec == Init /\ [][Next]_vars /\ Fairness

-----------------------------------------------------------------------------
TypeOK ==
    /\ chain \in Seq(0 .. MaxHeight - 1)
    /\ remoteHeight \in 0 .. MaxHeight
    /\ isSyncing \in BOOLEAN
    /\ phase \in Phase
    /\ hashes \in Seq(0 .. MaxHeight - 1)
    /\ fetch \in Seq(Fetch)
    /\ Len(fetch) <= Len(hashes)
    /\ yielded \in 0 .. Len(fetch)
    /\ Len(fetch) - yielded \in 0 .. BUFFER_SIZE
    /\ left \in 0 .. MaxHeight
    /\ skipped \subseteq (0 .. MaxHeight - 1) \X (0 .. MaxHeight)
    /\ faults \in 0 .. MaxFaults
    /\ outcome \in {"none", "ok", "error", "rejected"}
    /\ tipMoved \in BOOLEAN

(* Spec 5(a): IBD hands blocks to add_block strictly in the order of the  *)
(* hashes, whatever order the GetBlock answers arrive in, so add_block    *)
(* rejects an IBD block only when a gossiped NewBlock moved the local tip *)
(* during the round.                                                      *)
RejectedOnlyAfterTipMoved ==
    outcome = "rejected" => tipMoved

(* Spec 4.9 and 5(a): IBD rounds and NewBlock gossip together implement *)
(* ReplicatedChain. The local chain only ever grows by the peer's next     *)
(* block, whatever order GetBlock answers arrive in and however gossip     *)
(* races a round. While the peer is ahead, repeated Pings keep extending   *)
(* it, so every failed round must release is_syncing.                     *)
RC == INSTANCE ReplicatedChain WITH local <- chain, remote <- remoteHeight

ChainRefinement == RC!Spec

(* Spec 4.5: add_block skips transaction hashing only for blocks more     *)
(* than IBD_SAFE_SKIP_TX_HASHING below the tip the download targets.      *)
SkipHashingOnlyFarFromTip ==
    \A s \in skipped : s[2] - s[1] > IBD_SAFE_SKIP_TX_HASHING
=============================================================================
