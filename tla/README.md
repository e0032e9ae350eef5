# TLA+ models of snap-coin

This directory holds TLA+ models of the concurrent and stateful parts of snap-coin
(`src/src/`), together with the TLC configurations that check them. Every action is
translated from the Rust source. `PROJECT.json` gives, for each definition, the lines
it models. A few definitions model code that is not in this repository: the
blockchain store, the UTXO set and block validation are described only in `spec.md`.
Those definitions are written from the spec and marked `spec_modelled`.

## The system and its parts

| Part | Source | State | Concurrency |
|---|---|---|---|
| Mempool | `node/mempool.rs` | `pending: RwLock<HashMap<expiry_second, Vec<Transaction>>>` | A watchdog task runs once a second, alongside the submit and block handlers. |
| Peer session | `node/peer.rs`, `node/server.rs` | `send_queue`, `pending: HashMap<u16, oneshot::Sender>`, `shutdown` | Reader, writer and pinger tasks run under `select!`. `request` callers wait with a 10 s timeout, and `on_fail` runs when the session ends. |
| IBD | `full_node/ibd.rs`, Ping handler in `node/peer.rs` | The local chain, `is_syncing`, and the round's `left` counter | Up to 10 GetBlock futures are in flight (`buffered`). Results are applied in order, racing NewBlock gossip. |
| Node state | `full_node/node_state.rs` | `is_syncing`, last-seen block and transactions (watch channels) | Read and modified from every peer handler. |
| Message framing | `node/message.rs` | — | Frames of an 8-byte big-endian header (version, id, size) and a bincode payload. Each message gets a random u16 id. |
| Light node | `light_node/*`, `bounded_set.rs` | Seen-transaction and seen-block bounded sets, and the block meta store | Peer handlers. |
| Economics | `core/economics.rs` | — | Pure functions: the reward halving and the dev fee. |
| API | `api/client.rs`, `api/api_server.rs` | The client's `stream: Mutex<TcpStream>`; the server's per-connection loop | Tasks sharing one `Client` each run `fetch`. The server answers one request at a time, in order. |
| Builders | `lib.rs` | — | `build_block` makes six fetches through a `BlockchainDataProvider`, such as a `Client`. |
| Keys | `crypto/keys.rs` | — | Pure base36 conversions. Not modelled. |

How the parts interact: a peer's reader hands each message to `handle_incoming`. If
the message's id is a pending request, the message goes to the waiting `request`.
Otherwise `on_message` handles it:

- A Ping may spawn IBD.
- IBD calls `request` for the remote height, then for the hashes, then for each block.
- Blocks and transactions go through `submit_block` and `submit_transaction`, which
  update the mempool.

A wallet or miner talks to a node through the API instead. `Client::fetch` writes a
request on the connection and decodes the next response. The server's connection loop
answers each request by reading the node's state.

Three abstract specifications state what a component promises. The detailed modules are
shown to implement them:

- `RequestReply`: a call returns exactly once, and it does return. `Peer::request` and
  `Client::fetch` both refine it.
- `MetaLog`: block metadata forms an append-only continuous log, which a restart
  empties. The light node's `BlockMetaStore` refines it.
- `ReplicatedChain`: the local chain is a growing copy of a prefix of the peer's
  chain. Each step adds the peer's next block, and the chain keeps growing while the
  peer is ahead. `Ibd` (download rounds plus NewBlock gossip) refines it.

## Modules

### `Mempool` (`node/mempool.rs`)

Variables:

- `now`: the wall-clock second.
- `pending`: the expiry buckets, each a sequence of transactions.
- `spent`: the UTXO set's consumed outputs (spec).
- `confirmed`: transactions in blocks.
- `admitted`: a history of pooled `<<tx, expiry>>` pairs.
- `adding`: an `add_transaction` between its two lock sections (the transaction, its expiry key and whether `contains_key` found the bucket), or `NoAdd`.
- `ibdConfirmed`: a history of the transactions confirmed by blocks the initial block download applied.

Actions, with the code each one models:

| Action | Models |
|---|---|
| `SubmitTransaction` | The spec's submit path: inputs unspent, then `validate_transaction`, then the first section of `add_transaction` (lines 47-49): the expiry key and `contains_key` under a read lock. |
| `AddTransaction` | The second section (lines 50-58), under a write lock: push onto the bucket found, or insert a new bucket. If the bucket was found but has since been removed, `get_mut(..).unwrap()` panics and the transaction is not pooled. |
| `AcceptBlock` | The block path for a NewBlock, under `processing`: `ApplyBlock` (the UTXO update of `add_block`, from the spec), then `spend_transactions` of the block's ids. |
| `IbdAddBlock` | One step of `ibd_blockchain`'s `try_for_each` (ibd.rs 86-94): `ApplyBlock` of the next downloaded block. `ibd_blockchain` holds only the blockchain, so the pool is left as it is. |
| `Watchdog` | One iteration of the watchdog loop. It removes the key equal to `now`. It may run between the two sections of an admission. |
| `Tick` | The clock advancing. |

Admissions and block acceptance both run under the node's `processing` mutex (spec section 5), and `add_transaction` takes `&mut self`, so no other pool call runs between its two sections (`adding # NoAdd`) and `AcceptBlock` waits for it. Only `Watchdog`, which holds its own clone of `pending`, `Tick` and `IbdAddBlock`, which never touches the pool, interleave with it. The unwrap's panic branch is reached when `EXPIRATION_TIME` ticks pass between the two sections and the watchdog removes the bucket.

`MC_Mempool` uses three transactions over three outputs:

- t1 conflicts with t2 (output o1).
- t2 conflicts with t3 (output o2).
- `EXPIRATION_TIME = 2` and `MaxTime = 7`, so transactions share buckets, expire, and
  are confirmed before and after expiry.

### `Ibd` (`full_node/ibd.rs` plus the Ping and NewBlock handlers)

One node syncs from one peer whose chain grows to `MaxHeight`. A block is named by
its height.

Actions, with the code each one models:

| Action | Models |
|---|---|
| `ReceivePing` | The `local_height < height` check and the `is_syncing` test-and-set under the node lock (peer.rs 244-264). The handler then calls `sync_to_peer` (`node/sync.rs`), which is not in this repository; the model takes its download to be `ibd_blockchain`, the only one `src/` has. |
| `PongReceived` | The Ping round trip of `ibd_blockchain`. |
| `HashesReceived` | GetBlockHashes and the initialisation of `left`. |
| `IssueGetBlock` | `buffered(BUFFER_SIZE)` starting the next future. |
| `GetBlockAnswered` and `GetBlockTimeout` | One future's answer or its 10 s timeout. |
| `YieldNext` | `try_for_each` applying the next result in order, with `add_block(block, left > 500 && !full_ibd)`. |
| `ReceiveNewBlock` | Gossip submitted with `Node::submit_block`, appending to the chain concurrently when it extends it. The handler's `last_seen_block` check is not kept: the handler never writes it, and a skipped block and a refused re-submission leave the same state. |
| `EndRound` | Resetting `is_syncing` after either result. |

Refinement: `RC == INSTANCE ReplicatedChain WITH local <- chain, remote <- remoteHeight`.
`ChainRefinement` checks `RC!Spec`, including the abstract weak fairness of `CopyNext`.

`IBD_SAFE_SKIP_TX_HASHING` is scaled from 500 to 1. The skip decision depends only on
how `left` compares with the constant, so the scaling keeps that decision intact.

### `Peer` (`node/peer.rs`, `node/server.rs`)

Two sides, L and R, share one TCP connection. Each has a send queue, an in-flight
wire, and a `pending` map from id to the requester waiting on it.

The requesters are:

- the pinger of each side;
- on L, an IBD GetBlock caller.

`Ids` stands for the u16 id space: two ids are enough for a collision. They are
1 and 256, so that each byte of the u16 header field carries an id.

The wire is a stream of bytes framed as `Framing` (`node/message.rs`) describes.
`Write` appends `Message::serialize`'s frame, and `Read` takes one frame off the
other side's stream with `from_stream`'s two `read_exact`s: the 8-byte header,
then `size` payload bytes. The bincode payload is one element standing for the
encoded command, so its size field is 1. A frame that fails to decode ends the
reader task with an error, as `?` does in the code.

Actions, with the code each one models:

| Action | Models |
|---|---|
| `Request` | `Peer::request`: insert into `pending`, then push. An overwritten oneshot resolves its waiter Disconnected. |
| `Timeout` | The 10 s `timeout`. |
| `Write` | The writer task. |
| `Read` and `HandleIncoming` | The reader task, `handle_incoming` and `on_message`'s request/response behaviour. |
| `ConnectionLost` | The connection breaking (environment). |
| `OnFail` | `Peer::kill` followed by removal from `node.peers`. |

A pinger whose request fails ends with `Err`, which ends `select!`.

Helper operators:

- `NewMessage` and `MakeResponse` are `Message::new` and `make_response`.
- `Send` is `Peer::send`.
- `TaskFailed` is `select!` completing with an error.
- `Kill` is `Peer::kill`.
- `Command` and `Received` are the command's encoding and the message
  `from_stream` returns for a frame.

`Framing` has `ToBeBytes`/`FromBeBytes` (`to_be_bytes`/`from_be_bytes`),
`Serialize`, `SendFrame` (`send`), and `FrameComplete`, `Size`, `Body`, `Decodes`,
`FromStream` and `Rest` (`from_stream`). `FramesIntact` checks, in every
reachable state, that each side's stream parses from its first byte into whole
frames that decode, each with the id of the message it carries.

Refinement: `RR == INSTANCE RequestReply WITH Caller <- Requester, status <- ...`
maps a requester to "waiting" exactly while `rstate` is "waiting". A `Request` whose
HashMap insert drops another caller's oneshot is a `CallEnding` step of the abstract
spec: a call is made, and another ends, in one step. `RequestRefinement` checks
`RR!Spec`, whose fairness makes every call return.

### `LightNode` (`light_node/mod.rs`, `bounded_set.rs`, `light_node/block_meta_store.rs`)

`Handler` is a set of peer tasks, each running `accept_transaction` in three steps. Each step is one lock section of the code:

| Action | Models |
|---|---|
| `ReceiveTransaction` | The read-locked `contains`. A seen id returns early. |
| `InsertSeen` | The write-locked `BoundedSet::insert` (`Insert`). |
| `ValidateTransaction` | The validation chain, then the `chain_events` send. |

A transaction is an id plus whether its signatures verify. The id excludes signatures, so a good and a bad copy share an id.

The block side has these actions:

- `SaveBlockMeta`: `save_block_meta`. It checks continuity and writes `.tmp`, then renames it. Only then does it update the index, height and `last_block`. An IO error leaves the `.tmp` file behind and changes nothing else.
- `Restart`: `create_light_node` after a crash. The in-memory store is empty again, while the files stay.
- `AcceptBlock`: `accept_block` as written.

Hashes are small integers, and metadata with `prev < hash` allows forks. `GetMetaByHeight` and `GetMetaByHash` are the store's getters. `save_block_meta` has no caller in `src/`, so the environment calls it with any metadata.

Refinement: `ML == INSTANCE MetaLog WITH log <- [i \in 1 .. height |-> files[i - 1]]`.
The log is the metadata files below `height`. A successful save is `Append1`, a
failed write is a stuttering step, and a restart is `Reset`. Files a previous run
left above `height` are outside the log.

### `ApiClient` (`api/client.rs`, `api/api_server.rs`, `lib.rs`)

Several caller tasks share one `Client`. Each caller runs a program:

- `"build_block"`: `build_block`'s six fetches, in the order the code awaits them (`Script`). These are get_height, three difficulties, get_height, and get_block_hash_by_height of the second height minus one.
- `"mine"`: `build_block`, then `submit_block` of the block it built, as a miner does (spec 7.1). `MinedBlock` is the block: its previous hash from the last fetch, and its coinbase from `Econ!GetBlockReward` of the first height with `Econ!CalculateDevFee`. `Econ` is `Economics` by `INSTANCE ... WITH`, on the same scaled word.
- `"get_height"`: one fetch.
- `"build_transaction"`: the receivers' total, one AvailableUTXOs fetch, then the rest of `build_transaction` (`BuildTransaction`). Each receiver list comes from `Receivers`, chosen in `Init`.

`build_transaction`'s amounts are words of `WordBits` bits. `Init` chooses a debug or a release build (`build`). `AddU64` is the u64 `+`:
a debug build panics on overflow, and a release build wraps. The operators follow
the code's steps:

- `Target` folds the receivers' total (lines 51-53).
- `Gather` adds the listed outputs in the node's order until they reach the target (lines 59-66).
- `BuildTransaction` returns InsufficientFunds, or the inputs sorted ascending (line 76) with the receivers plus any change output (lines 68-97).

The code's comments say the function "takes biggest coins first" (line 44), and
that the sort runs "from highest amount to lowest amount" (line 76). The code
does neither. It takes outputs in the order the node lists them, and sorts
ascending. Neither difference changes what the transaction pays.

Variables: `up` and `down` are the two directions of the connection. `lock` is the
caller holding the stream lock while it decodes. `phase`, `step` and `reg` are each
caller's progress and the answers it keeps. `got` is history: the last response each
caller decoded. Requests and responses carry their caller (`from`, `to`) as history
only; the bytes have no id.

| Action | Models |
|---|---|
| `WriteRequest` | `fetch`'s first lock section: `write_all` of the encoded request. It fails once the connection is broken. |
| `BeginRead` | `fetch` taking the lock again for `decode_from_stream`. |
| `ReadResponse` | The decode returning the first response on the stream, then `Apply`: the typed wrapper's variant match (`IncorrectResponse`) and `build_block`'s use of the answer. With the connection broken and nothing left to read, it returns a stream error. |
| `Serve` | One iteration of `Server::connection`: decode, `Answer` (or `UtxoAnswer`, any list of `CoinLists`, or `SubmitBlock`), then `Respond` (encode and write). |
| `SubmitBlock` (in `Serve`) | The NewBlock arm. `Node::submit_block` is not in this repository, so its checks come from spec section 4 (`BlockValid`): the previous hash is the tip's, and the coinbase pays the dev fee and the rest of the reward at the node's height. A valid block grows the chain. The status is answered inside `Ok`. |
| `ProviderFails` | The AvailableUTXOs arm's `?` failing. The loop breaks, and the connection task drops the stream. |
| `TargetPanics` | `build_transaction`'s receiver total overflowing in a debug build before its fetch. |
| `ChainGrows` | Another peer's block accepted by the node (environment). |
| `ConnectionLost` | The connection breaking (environment). |

Refinement: a caller is "waiting" in `RequestReply` from its write until its decode
returns. `RequestRefinement` checks `RR!Spec`.

### `Economics` (`core/economics.rs`, `lib.rs`)

`BuildBlock` is `build_block`'s coinbase at the current height:

- `GetBlockReward` is `INITIAL_REWARD >> halvings` on a `WordBits`-bit word.
- `CalculateDevFee` is `calculate_dev_fee`.

`Init` chooses a debug build or a release build. When the shift amount reaches the word width, a debug build panics and a release build masks the shift amount.

## Runs

| Run | Expect | Shows |
|---|---|---|
| `mempool` | pass | No double spend of an output in the pool. No admitted, unconfirmed, unexpired transaction is lost. A confirmed transaction is in the pool only if the initial block download confirmed it (`ConfirmedPooledOnlyAfterIbd`). The run reaches that state: `ibd_blockchain` (ibd.rs 86-94) applies blocks with `add_block` and has no handle on the pool, so the transactions it confirms stay pooled with spent inputs until the watchdog happens to remove their bucket, and `get_mempool` offers them to the next block built. Spec 4.5 step 9 says `add_block` removes them; with all runs in use this divergence is recorded as a hazard (ibd.rs:88). The submit path never leaves a confirmed transaction pooled. |
| `mempool_expiry` | violation | When `now` passes an expiry second before the watchdog runs, the watchdog never removes that bucket (mempool.rs:30). |
| `ibd` | pass | A block is rejected only after gossip moved the tip during the round. Rounds and gossip refine `ReplicatedChain`: the chain only grows by the peer's next block, and it keeps growing while the peer is ahead. This needs `is_syncing` to be released after every round. This holds under weak fairness of the handlers and of answers, with at most `MaxFaults` timeouts. |
| `ibd_skip` | violation | `left` starts at `remote_height` (ibd.rs:63), so a block one step from the tip skips transaction hashing. |
| `peer` | pass | `Peer::request` refines `RequestReply`: every call returns exactly once, because of its timeout, even when the connection breaks. Both sides deregister a broken peer. Every frame on either stream is whole, decodes, and carries the id of its message (`FramesIntact`). |
| `peer_ids` | violation | An incoming Ping whose random id equals L's pending Ping id is delivered as L's reply (peer.rs:225). |
| `light` | pass | Across two concurrent handlers, capacity-1 eviction, IO errors and a restart, `seen_transactions` stays a FIFO set within capacity. The metadata files below `height` form a continuous chain, and the index points at files holding the right hash. The store refines `MetaLog`. |
| `light_poison` | violation | A bad-signature copy of a valid transaction, handled first, marks the id seen. The valid copy then returns early and is never forwarded (mod.rs:140). |
| `light_block` | violation | `accept_block` compares the store's tip with the block's own hash (mod.rs:100). After one `save_block_meta`, it accepts only a re-delivery of the tip. It accepts that re-delivery every time it arrives. Each time, `update_difficulty` (mod.rs:119, not modelled) retargets again, and the block is sent again on `chain_events`. |
| `api` | pass | A mining task (`build_block`, then `submit_block`) and a `build_transaction` task share one `Client`. `fetch` refines `RequestReply`: every fetch returns exactly once. This holds although a decoder holds the stream lock while it waits, and the connection may break, or the server may drop it, with requests in flight. The run explores debug and release builds. `TransactionBalances`: a transaction `build_transaction` returns fails to pay each receiver its amount, with outputs (change included) adding up exactly to its inputs, only in a release build where the receivers' total or the gathered funds passed `u64::MAX` and wrapped. TLC reaches that case: receivers 4 and 4 on a 3-bit word wrap to a target of 0, one coin is taken, and the outputs pay more than the inputs hold. A debug build panics there instead (`TargetPanics`). `RejectedOnlyAfterChainGrew`: the node rejects the mined block only if other blocks were accepted after `build_block`'s first get_height. The run reaches the stale case of lib.rs:132: the chain grows between the two height reads, and the block has the right previous hash but the reward of the height below it, which the node rejects at a halving boundary. |
| `api_mix` | violation | The wallet task runs get_height here (`MC_ProgramHeight`). `fetch` releases the stream lock between its write and its read (client.rs:39). The get_height task can therefore decode the answer to `build_block`'s first get_height, and vice versa. |
| `reward` | violation | In a release build, the reward returns to `INITIAL_REWARD` at the halving equal to the word width (halving 64, height 13,440,000 unscaled). |

Each property of a passing run has a mutant in `PROJECT.json`: a plausible bug in the mapped code that TLC shows breaks it.

## Bounds

- **`Mempool`:** three transactions over three outputs give both conflicts and non-conflicts. An expiry of 2 and a horizon of 7 let buckets be shared and expire, and let a transaction be resubmitted after its first entry expired. The expiry run keeps a horizon of 4, which is enough for its counterexample.
- **`Ibd`:**
  - A remote height of 6 and a window of 3 let answers arrive out of order and leave futures unstarted. They also let a round span more than one window.
  - Two timeout faults exercise the error path twice, including in consecutive rounds.
  - A skip threshold of 1 keeps the comparison `left > 1` meaningful for heights 1 to 6.
- **`Peer`:** one round per requester is enough for an id collision, for a timeout with a late answer, and for a broken connection with a request in flight. Two rounds take more than 3 million states.
- **`LightNode`:**
  - Capacity 1 exercises eviction.
  - Three deliveries allow bad-then-good and a concurrent duplicate.
  - Two file slots, three hashes and one restart allow a fork after a restart over stale files.
- **`ApiClient`:** two callers and a chain growing from 1 to 3 blocks by other peers' blocks (4 with the miner's). The reward 6 halves every 2 blocks, so a block whose two height reads straddle height 2 has a stale coinbase, while one whose reads straddle height 3 does not, and is accepted. This gives both a same-variant swap (two Height responses) and a different-variant one (IncorrectResponse). It also lets the chain grow between `build_block`'s two height reads, and the connection break with requests in flight. `build_transaction`'s amounts are 3-bit words. The receiver totals are 3, 7 and 8, where 8 overflows. The coin lists cover each outcome:

- an empty list;
- two coins out of order that match the target exactly;
- coins that need change;
- coins whose sum overflows while gathering toward 7.

Both builds are explored; in release the total of 8 wraps to 0.
- **`Economics`:** a 5-bit word with reward 6 goes through halving, the `MIN_REWARD` floor, and the word width.

`MC_Peer`, `MC_LightNode` and `MC_ApiClient` disable deadlock checking:

- In `Peer`, every terminal state has the connection closed and both sessions dead.
- In `LightNode`, every terminal state has all handlers idle, waiting for input.
- In `ApiClient`, every terminal state has each caller finished, or stopped before a fetch, with nothing in flight.

## Fairness

The tokio tasks are modelled with weak fairness:

- the reader, writer and on_fail tasks;
- the request timeout;
- the remote pinger's Ping every 5 s with its handler, and the IBD task's steps.

The runtime schedules every runnable task, and each of these stays runnable until it runs.

In `ApiClient`, these are fair:

- the server's connection task: weak fairness;
- a caller's decode of an available response: weak fairness;
- a caller's wait for the stream lock before decoding: strong fairness.

`fetch` has no timeout, so liveness rests on the server answering; a server that stops answering without closing the connection stalls every caller, which this fairness assumes away.

The lock is a tokio `Mutex`, which is fair: waiters get it in FIFO order. A waiter is therefore not passed over for ever, although other callers take the lock in between. A caller need not start its next fetch.

The environment gets no fairness:

- new requests;
- blocks mined remotely;
- gossip;
- connections breaking.

The remote peer answering GetBlock is fair in `Ibd`. Its timeouts are bounded by `MaxFaults`, so every round after the last fault can complete.

`Mempool`, `LightNode` and `Economics` assume no fairness. Their properties, `MetaStoreRefinement` included, are safety properties.

## Not modelled, and why

- **The bincode encoding of a command, and base36 keys:** pure conversions over 2^256 values, with no interleaving, that TLC cannot enumerate. A command's encoding is one element of the `Framing` stream; the header around it is modelled byte by byte.
- **API server arms other than Height, BlockHash, Difficulty, AvailableUTXOs and NewBlock, and the accept loop:** each of the read-only arms reads the node under one read lock and answers. The NewTransaction arm and `Client::submit_transaction` pass a transaction to `Node::submit_transaction`, which is not in this repository. Its UTXO and mempool checks are modelled in `Mempool`. The builder's side of a payment is checked by `TransactionBalances`. Its doc comment's "takes biggest coins first" is not what its loop does (it takes the node's listing order); the order comes from a map outside this repository, so this is listed as a hazard (lib.rs:60) without a property. The interleaving that matters is on the client's stream, which `ApiClient` models. `api::requests` (the request codec) is not in this repository.
- **Transaction signing in `build_transaction`:** `Transaction::new_transaction_now` and the signatures are not modelled. Inputs and outputs are their amounts.
- **The light node's `LightNodePeerBehavior` dispatch (behavior.rs) beyond the transaction and block arms:** it answers requests with `make_response` or returns an error. It refers to `node_state` and `blockchain`, which it does not define, and no peer code in `src/` calls it.
- **The blockchain, UTXO and difficulty code:** not in this repository. Only its interface as `spec.md` describes it is modelled, marked `spec_modelled`.
- **`seen_blocks` of the light node:** it is never read or written.
- **`add_last_seen_transaction` (node_state.rs):** it has no caller in `src/`. Its clone-modify-send on a watch channel could lose an update if two threads called it at once, but nothing calls it.
- **The per-peer `seen_transactions` of the full node (peer.rs:72):** it is never filled, so its check never fires.
- **The light node's `connected_peers` registry (light_node/mod.rs:77-81, behavior.rs:147-152):** `create_peer`, which starts the session and calls `on_kill`, is not in this repository. So the order of its kill path against `connect_peer`'s insert cannot be translated from the code. The hazard list records what that order can do: a dead handle stays registered, or a reconnect's entry is removed by the old session's `on_kill`.
- **The message version field:** read but never compared (message.rs:120). This is a single-step check, not an interleaving.

Three behaviours the models reach have no run of their own; the hazard list records them:

- After a block, `spend_transactions` removes only the block's own ids. A pooled transaction that spends an input the block consumed stays pooled (mempool.rs:76).
- `ibd_blockchain` leaves the transactions of the blocks it applies in the pool (ibd.rs:88); `ConfirmedPooledOnlyAfterIbd` shows this is the only way a confirmed transaction stays pooled, but no run is violated by it.
- Two handlers of one transaction id both pass the read-locked `contains` before either inserts, and both forward it (light_node/mod.rs:137).

## Plan

Later work, in this order:

1. The block store and UTXO facade from the spec, with `Ibd` composed over it.
2. Full-node `NewTransaction` gossip, composed with `Mempool`, once `Node::submit_transaction` is in the repository.
3. A violation run for IBD leaving confirmed transactions pooled (ibd.rs:88 against spec 4.5 step 9), and one for a release build's unbalanced transaction (lib.rs:53).
4. A violation run for the MAX_MESSAGE_BYTES bound that spec 4.7 requires and `Message::from_stream` lacks (message.rs:124), if a weaker run is retired.

The project holds 12 runs. Each addition must replace a weaker run or add a property to a passing one.
