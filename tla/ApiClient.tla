------------------------------ MODULE ApiClient ------------------------------
(***************************************************************************)
(* The API of a node: one connection between a Client                     *)
(* (src/src/api/client.rs) shared by several caller tasks, and the       *)
(* server's connection task (src/src/api/api_server.rs) answering it.    *)
(*                                                                         *)
(* Client::fetch locks the stream, writes the request, releases it, then *)
(* locks it again to decode a response. Responses carry no id: the server *)
(* answers requests in the order it reads them, and a caller takes the   *)
(* first response on the stream whatever request it answers. The typed   *)
(* wrappers (get_height, ...) reject a response of another variant with  *)
(* IncorrectResponse.                                                    *)
(*                                                                         *)
(* A caller runs a Program: "build_block" (src/src/lib.rs) issues its six *)
(* fetches in the order the code awaits them; "mine" is build_block then  *)
(* submit_block of the block it built (spec 7.1), which the node accepts *)
(* or rejects by the checks of spec section 4; "get_height" is one fetch, *)
(* and                                                                   *)
(* "build_transaction" (src/src/lib.rs) one fetch of the sender's        *)
(* available outputs, then selects coins and builds the transaction. An  *)
(* output is its amount, in a u64 scaled to WordBits bits. Blocks         *)
(* are named by their height; GENESIS_PREVIOUS_BLOCK_HASH is -1. Each     *)
(* request and response carries, as history only, the caller it was     *)
(* written by or for (from, to), which the bytes do not have.            *)
(***************************************************************************)
EXTENDS Integers, Sequences, SequencesExt

CONSTANTS
    Caller,      \* tasks sharing one Client
    Program,     \* Program[c]: the program caller c runs
    MaxHeight,   \* bound on the node's chain height
    NoValue,     \* model value: no register value / no response yet
    WordBits,    \* width of the amounts' word (64)
    Receivers,   \* receiver amount lists build_transaction may be given
    CoinLists,   \* available output amounts the node may report
    INITIAL_REWARD, HALVING_INTERVAL, MIN_REWARD   \* of Economics

ASSUME Program \in [Caller -> {"build_block", "mine", "get_height", "build_transaction"}]
ASSUME MaxHeight \in Nat /\ WordBits \in Nat \ {0}

Word == 2^WordBits
Amount == 0 .. Word - 1
ASSUME Receivers \subseteq Seq(Amount) /\ CoinLists \subseteq Seq(Amount)

GENESIS_PREVIOUS_BLOCK_HASH == -1


(* The fetches of build_block, lib.rs 109-132: get_height (reward),      *)
(* get_transaction_difficulty (compute_pow), get_block_difficulty,        *)
(* get_transaction_difficulty, get_height, get_block_hash_by_height.     *)
(* `into` names the register the answer is kept in.                      *)
RECURSIVE Script(_)
Script(p) ==
    IF p = "build_block"
    THEN << [kind |-> "Height", into |-> "hA"],
            [kind |-> "Difficulty", into |-> "none"],
            [kind |-> "Difficulty", into |-> "none"],
            [kind |-> "Difficulty", into |-> "none"],
            [kind |-> "Height", into |-> "hB"],
            [kind |-> "BlockHash", into |-> "prev"] >>
    ELSE IF p = "mine"
    THEN Script("build_block") \o << [kind |-> "NewBlock", into |-> "status"] >>
    ELSE IF p = "get_height"
    THEN << [kind |-> "Height", into |-> "hA"] >>
    ELSE << [kind |-> "AvailableUTXOs", into |-> "tx"] >>

Kind == {"Height", "Difficulty", "BlockHash", "AvailableUTXOs", "NewBlock"}
(* Heights a fetch returns: other peers' blocks stop at MaxHeight, and  *)
(* the miner's own block, one above, is never read back.                 *)
Val == (-1 .. MaxHeight) \cup {NoValue}
Status == {"Ok", "Err"}
(* A block: its previous_block and its coinbase's two outputs.           *)
Block == [prev : Val, coinbase : Amount \X Amount]
Req == [kind : Kind \ {"NewBlock"}, arg : Val, from : Caller]
         \cup [kind : {"NewBlock"}, block : Block, from : Caller]
Resp == [kind : Kind \ {"AvailableUTXOs", "NewBlock"}, val : Val, to : Caller]
          \cup [kind : {"AvailableUTXOs"}, val : CoinLists, to : Caller]
          \cup [kind : {"NewBlock"}, status : Status, to : Caller]
Tx == [inputs : Seq(Amount), outputs : Seq(Amount)]
Regs == [hA : Val, hB : Val, prev : Val, tx : Tx \cup {NoValue},
         status : Status \cup {NoValue}]

VARIABLES
    height,   \* the node's blockchain height
    up,       \* requests written by the client, not yet read by the server
    down,     \* responses written by the server, not yet read by the client
    lock,     \* the caller holding Client.stream's Mutex to read, or NoValue
    phase,    \* phase[c]: "ready" to fetch, "sent", "reading", "ok", "err"
    step,     \* step[c]: number of fetches of Program[c] completed
    reg,      \* reg[c]: the answers build_block keeps
    got,      \* got[c]: the last response c decoded (history)
    closed,   \* the TCP connection is broken
    recv,     \* recv[c]: the receivers' amounts build_transaction is given
    build     \* "debug" or "release": the profile, how u64 overflow behaves

vars == <<height, up, down, lock, phase, step, reg, got, closed, recv, build>>

(* get_block_reward and calculate_dev_fee (src/src/core/economics.rs),   *)
(* on the same scaled word. The heights reached stay below the halving  *)
(* at which a debug build's shift panics.                                *)
Econ == INSTANCE Economics
          WITH build <- build, reward <- 0, devFee <- 0, minerPay <- 0,
               panicked <- FALSE
ASSUME (MaxHeight + 1) \div HALVING_INTERVAL < WordBits

(* Client::connect and the server's accept: an open connection with      *)
(* nothing in flight; the node holds the genesis block.                   *)
Init ==
    /\ height = 1
    /\ up = <<>> /\ down = <<>>
    /\ lock = NoValue
    /\ phase = [c \in Caller |-> "ready"]
    /\ step = [c \in Caller |-> 0]
    /\ reg = [c \in Caller |->
                [hA |-> NoValue, hB |-> NoValue, prev |-> NoValue, tx |-> NoValue,
                 status |-> NoValue]]
    /\ got = [c \in Caller |-> NoValue]
    /\ closed = FALSE
    /\ build \in {"debug", "release"}
    /\ recv \in {f \in [Caller -> Receivers \cup {<<>>}] :
                   \A c \in Caller : f[c] = <<>> <=> Program[c] # "build_transaction"}

(* build_block's block, lines 109-124 and 132: the coinbase pays         *)
(* calculate_dev_fee(reward) to DEV_WALLET and the rest to the miner, for *)
(* the reward of the first get_height; previous_block is the hash the     *)
(* last fetch returned.                                                   *)
MinedBlock(c) ==
    LET r == Econ!GetBlockReward(reg[c].hA)
    IN  [prev |-> reg[c].prev,
         coinbase |-> << Econ!CalculateDevFee(r), r - Econ!CalculateDevFee(r) >>]

(* Mutant: get_block_hash_by_height(get_height()), without the -1.       *)
NextRequestNoSub(c) ==
    LET s == Script(Program[c])[step[c] + 1]
    IN  IF s.kind = "NewBlock"
        THEN [kind |-> "NewBlock", block |-> MinedBlock(c), from |-> c]
        ELSE [kind |-> s.kind,
              arg |-> IF s.kind = "BlockHash" THEN reg[c].hB ELSE NoValue,
              from |-> c]

(* The request c's next fetch encodes: get_block_hash_by_height takes    *)
(* get_height().saturating_sub(1); submit_block carries the block.       *)
NextRequest(c) ==
    LET s == Script(Program[c])[step[c] + 1]
    IN  IF s.kind = "NewBlock"
        THEN [kind |-> "NewBlock", block |-> MinedBlock(c), from |-> c]
        ELSE [kind |-> s.kind,
              arg |-> IF s.kind = "BlockHash"
                      THEN IF reg[c].hB > 0 THEN reg[c].hB - 1 ELSE 0
                      ELSE NoValue,
              from |-> c]

(* u64 `+`: NoValue once a debug build has panicked on overflow; a       *)
(* release build (overflow checks off) wraps.                            *)
AddU64(a, b) ==
    IF a = NoValue THEN NoValue
    ELSE IF a + b < Word THEN a + b
    ELSE IF build = "debug" THEN NoValue
    ELSE (a + b) % Word

(* build_transaction, lines 51-53: the receivers' total, folded in u64.  *)
Target(rs) == FoldLeft(AddU64, 0, rs)

(* The loop of lines 59-66: add the available outputs in the order the  *)
(* node listed them to current_funds, pushing each to used_inputs, until *)
(* current_funds reaches the target.                                     *)
RECURSIVE Gather(_, _, _, _)
Gather(target, coins, used, funds) ==
    IF coins = <<>> \/ funds = NoValue THEN [used |-> used, funds |-> funds]
    ELSE LET f == AddU64(funds, Head(coins))
             u == Append(used, Head(coins))
         IN  IF f # NoValue /\ f >= target THEN [used |-> u, funds |-> f]
             ELSE Gather(target, Tail(coins), u, f)

(* Mutant: no change output; the funds beyond the target are dropped.   *)
BuildTransactionNoChange(rs, coins) ==
    LET target == Target(rs)
        g == Gather(target, coins, <<>>, 0)
    IN  IF g.funds = NoValue \/ target > g.funds THEN NoValue
        ELSE [inputs |-> SortSeq(g.used, LAMBDA x, y : x < y), outputs |-> rs]

(* build_transaction after its fetch, lines 57-97: NoValue for a panic   *)
(* or InsufficientFunds; otherwise the inputs, sorted by amount          *)
(* ascending (line 76), and the receivers with the change to the sender  *)
(* appended when the funds exceed the target.                            *)
BuildTransaction(rs, coins) ==
    LET target == Target(rs)
        g == Gather(target, coins, <<>>, 0)
    IN  IF g.funds = NoValue \/ target > g.funds THEN NoValue
        ELSE [inputs |-> SortSeq(g.used, LAMBDA x, y : x < y),
              outputs |-> IF target < g.funds THEN Append(rs, g.funds - target)
                          ELSE rs]

(* build_transaction's receiver total overflows in a debug build: the   *)
(* task panics before its fetch.                                         *)
TargetPanics(c) ==
    /\ Program[c] = "build_transaction"
    /\ phase[c] = "ready"
    /\ Target(recv[c]) = NoValue
    /\ phase' = [phase EXCEPT ![c] = "err"]
    /\ UNCHANGED <<build, height, up, down, lock, step, reg, got, closed, recv>>

(* fetch, first half: lock the stream and write_all the request. The     *)
(* write fails once the connection is broken, and fetch returns Stream.  *)
WriteRequest(c) ==
    /\ phase[c] = "ready"
    /\ Program[c] = "build_transaction" => Target(recv[c]) # NoValue
    /\ lock = NoValue
    /\ IF closed
       THEN /\ phase' = [phase EXCEPT ![c] = "err"]
            /\ UNCHANGED up
       ELSE /\ up' = Append(up, NextRequest(c))
            /\ phase' = [phase EXCEPT ![c] = "sent"]
    /\ UNCHANGED <<build, height, down, lock, step, reg, got, closed, recv>>

(* fetch, second half: lock the stream again for decode_from_stream,     *)
(* holding it until a whole response is read.                             *)
BeginRead(c) ==
    /\ phase[c] = "sent"
    /\ lock = NoValue
    /\ lock' = c
    /\ phase' = [phase EXCEPT ![c] = "reading"]
    /\ UNCHANGED <<build, height, up, down, step, reg, got, closed, recv>>

(* The typed wrapper's match and build_block's use of the answer: a      *)
(* response of another variant is IncorrectResponse, which `?` returns   *)
(* from build_block; otherwise the answer is kept and the next fetch, or *)
(* the end of the program, follows. get_block_hash_by_height's None is   *)
(* unwrap_or(GENESIS_PREVIOUS_BLOCK_HASH); build_transaction builds its  *)
(* transaction from get_available_transaction_outputs' list, and ends    *)
(* with an error when it cannot. submit_block returns the node's status *)
(* inside Ok, so a rejected block ends the program without an error.    *)
Apply(c, r) ==
    LET s == Script(Program[c])[step[c] + 1]
        v == CASE s.kind = "BlockHash" /\ r.val = NoValue -> GENESIS_PREVIOUS_BLOCK_HASH
               [] s.kind = "AvailableUTXOs" -> BuildTransaction(recv[c], r.val)
               [] s.kind = "NewBlock" -> r.status
               [] OTHER -> r.val
    IN  IF r.kind # s.kind
        THEN /\ phase' = [phase EXCEPT ![c] = "err"]
             /\ UNCHANGED <<build, step, reg>>
        ELSE /\ reg' = IF s.into = "none" THEN reg
                       ELSE [reg EXCEPT ![c][s.into] = v]
             /\ step' = [step EXCEPT ![c] = @ + 1]
             /\ phase' = [phase EXCEPT ![c] =
                            IF step[c] + 1 < Len(Script(Program[c])) THEN "ready"
                            ELSE IF s.kind = "AvailableUTXOs" /\ v = NoValue THEN "err"
                            ELSE "ok"]

(* Mutant: the read guard is kept after the response is decoded.        *)
ReadResponseKeepLock(c) ==
    /\ phase[c] = "reading"
    /\ down # <<>>
    /\ down' = Tail(down)
    /\ got' = [got EXCEPT ![c] = Head(down)]
    /\ Apply(c, Head(down))
    /\ UNCHANGED <<build, height, up, lock, closed, recv>>

(* decode_from_stream returns: the first response on the stream, or a    *)
(* Stream error once the connection is broken and nothing is left; the   *)
(* guard is dropped and the lock released.                                *)
ReadResponse(c) ==
    /\ phase[c] = "reading"
    /\ \/ /\ down # <<>>
          /\ down' = Tail(down)
          /\ got' = [got EXCEPT ![c] = Head(down)]
          /\ Apply(c, Head(down))
       \/ /\ down = <<>>
          /\ closed
          /\ phase' = [phase EXCEPT ![c] = "err"]
          /\ UNCHANGED <<build, down, step, reg, got>>
    /\ lock' = NoValue
    /\ UNCHANGED <<build, height, up, closed, recv>>

(* Mutant: Height answered with the height the next block will have.    *)
AnswerNextHeight(q) ==
    [kind |-> q.kind,
     val |-> CASE q.kind = "Height" -> height + 1
               [] q.kind = "BlockHash" -> IF q.arg < height THEN q.arg ELSE NoValue
               [] OTHER -> NoValue,
     to |-> q.from]

(* The match arms of Server::connection for the requests build_block     *)
(* makes, each reading the node under its read lock. The difficulties    *)
(* are not modelled as values. AvailableUTXOs is answered in Serve.       *)
Answer(q) ==
    [kind |-> q.kind,
     val |-> CASE q.kind = "Height" -> height
               [] q.kind = "BlockHash" -> IF q.arg < height THEN q.arg ELSE NoValue
               [] OTHER -> NoValue,
     to |-> q.from]

(* Encode the response and write_all it on the connection.               *)
Respond(r) == down' = Append(down, r)

(* The AvailableUTXOs arm: the outputs the chain holds for the address. *)
UtxoAnswer(q, coins) == [kind |-> "AvailableUTXOs", val |-> coins, to |-> q.from]

(* Node::submit_block's checks of a block at the node's height (spec     *)
(* section 4, items 2 and 5): previous_block is the tip's hash, and the  *)
(* coinbase pays the dev fee and the rest of get_block_reward(height).   *)
BlockValid(b) ==
    LET r == Econ!GetBlockReward(height)
    IN  /\ b.prev = height - 1
        /\ b.coinbase = << Econ!CalculateDevFee(r), r - Econ!CalculateDevFee(r) >>

(* The NewBlock arm: Node::submit_block appends a valid block and        *)
(* answers its status.                                                    *)
SubmitBlock(q) ==
    /\ Respond([kind |-> "NewBlock",
                status |-> IF BlockValid(q.block) THEN "Ok" ELSE "Err",
                to |-> q.from])
    /\ height' = IF BlockValid(q.block) THEN height + 1 ELSE height

(* One iteration of the connection loop: decode the next request, answer *)
(* it, write the answer. When the connection is broken the loop breaks.  *)
Serve ==
    /\ ~closed
    /\ up # <<>>
    /\ up' = Tail(up)
    /\ CASE Head(up).kind = "AvailableUTXOs" ->
              /\ \E coins \in CoinLists : Respond(UtxoAnswer(Head(up), coins))
              /\ UNCHANGED height
         [] Head(up).kind = "NewBlock" -> SubmitBlock(Head(up))
         [] OTHER -> Respond(Answer(Head(up))) /\ UNCHANGED height
    /\ UNCHANGED <<build, lock, phase, step, reg, got, closed, recv>>

(* get_available_transaction_outputs fails at its `?`: the async block    *)
(* returns the error, the loop breaks and the connection task ends,      *)
(* dropping the stream with the requests behind this one unread.         *)
ProviderFails ==
    /\ ~closed
    /\ up # <<>>
    /\ Head(up).kind = "AvailableUTXOs"
    /\ closed' = TRUE
    /\ UNCHANGED <<build, height, up, down, lock, phase, step, reg, got, recv>>

(* Another peer's block is accepted by the node (submit_block).           *)
ChainGrows ==
    /\ height < MaxHeight
    /\ height' = height + 1
    /\ UNCHANGED <<build, up, down, lock, phase, step, reg, got, closed, recv>>

(* The connection breaks.                                                 *)
ConnectionLost ==
    /\ ~closed
    /\ closed' = TRUE
    /\ UNCHANGED <<build, height, up, down, lock, phase, step, reg, got, recv>>

Next ==
    \/ \E c \in Caller : TargetPanics(c) \/ WriteRequest(c) \/ BeginRead(c) \/ ReadResponse(c)
    \/ Serve \/ ProviderFails \/ ChainGrows \/ ConnectionLost

(* The server's connection task and a caller blocked in fetch are tokio  *)
(* tasks that run. tokio's Mutex is fair (FIFO), so a caller waiting for *)
(* the stream lock gets it even if other callers keep taking it. A       *)
(* caller need not start its next fetch, and the chain and the          *)
(* connection are the environment.                                       *)
Fairness ==
    /\ WF_vars(Serve)
    /\ \A c \in Caller : SF_vars(BeginRead(c)) /\ WF_vars(ReadResponse(c))

Spec == Init /\ [][Next]_vars /\ Fairness

-----------------------------------------------------------------------------
TypeOK ==
    /\ height \in 1 .. MaxHeight + 1
    /\ up \in Seq(Req) /\ down \in Seq(Resp)
    /\ lock \in Caller \cup {NoValue}
    /\ phase \in [Caller -> {"ready", "sent", "reading", "ok", "err"}]
    /\ step \in [Caller -> 0 .. 7]
    /\ reg \in [Caller -> Regs]
    /\ got \in [Caller -> Resp \cup {NoValue}]
    /\ closed \in BOOLEAN
    /\ recv \in [Caller -> Receivers \cup {<<>>}]
    /\ build \in {"debug", "release"}

(* Client::fetch as seen by its callers: every fetch returns exactly     *)
(* once, and does return, although a caller holds the stream lock while  *)
(* it awaits a response that may be another caller's, and the           *)
(* connection may break with requests in flight.                         *)
RR == INSTANCE RequestReply
        WITH status <- [c \in Caller |->
                          IF phase[c] \in {"sent", "reading"}
                          THEN "waiting" ELSE "idle"]

RequestRefinement == RR!Spec

(* Every response a caller's fetch decodes is the server's answer to the *)
(* request that same caller wrote (the tests use one caller per Client). *)
ResponseMatchesRequest ==
    \A c \in Caller : got[c] # NoValue => got[c].to = c

(* build_transaction: a transaction it returns pays every receiver its   *)
(* amount, in order, and its outputs, with the change back to the sender, *)
(* add up to exactly the inputs it spends, unless the build is a release *)
(* one and the receivers' total (lib.rs 53) or the gathered funds (line  *)
(* 61) passed u64::MAX and wrapped. Then the change is computed from the *)
(* wrapped sums and the transaction pays out more than its inputs hold;  *)
(* a debug build panics there instead.                                    *)
TransactionBalances ==
    LET total(s) == FoldLeft(LAMBDA a, b : a + b, 0, s)
    IN  \A c \in Caller :
            Program[c] = "build_transaction" /\ phase[c] = "ok" =>
                \/ /\ SubSeq(reg[c].tx.outputs, 1, Len(recv[c])) = recv[c]
                   /\ total(reg[c].tx.outputs) = total(reg[c].tx.inputs)
                \/ /\ build = "release"
                   /\ \/ total(recv[c]) >= Word
                      \/ total(reg[c].tx.inputs) >= Word

(* build_block reads the height twice, for the reward (lib.rs 109) and  *)
(* for the previous hash (line 132), and other blocks may be accepted    *)
(* between the reads and before submit_block. A miner's block is        *)
(* rejected only when the chain grew after its first get_height: on an   *)
(* unchanged chain build_block's previous hash and coinbase are what the *)
(* node's checks require.                                                 *)
RejectedOnlyAfterChainGrew ==
    \A c \in Caller : reg[c].status = "Err" => height > reg[c].hA

=============================================================================
