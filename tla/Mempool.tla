------------------------------ MODULE Mempool ------------------------------
(***************************************************************************)
(* The full node's transaction pool (src/src/node/mempool.rs) together    *)
(* with the two node-level handlers that drive it: accepting a            *)
(* transaction (UTXO check, double-spend check, add) and accepting a      *)
(* block (consume its inputs, drop its transactions from the pool).       *)
(*                                                                         *)
(* The pool is the code's HashMap<u64, Vec<Transaction>> keyed by expiry  *)
(* second; the expiry watchdog is a separate task that, every 0.5 s,      *)
(* removes the bucket keyed by exactly the current wall-clock second.     *)
(* The node handlers (accept_transaction / accept_block) are not under    *)
(* src/ and are modelled from spec sections 4.5 and 4.6; they run under   *)
(* the node's `processing` mutex (spec 5), so they exclude each other.    *)
(* add_transaction takes the pool's lock twice, a read lock for           *)
(* contains_key and then a write lock to append or insert; the watchdog   *)
(* and the clock are not held back by `processing` and may run between.  *)
(* add_transaction takes &mut self, so no other call on the pool runs    *)
(* between its sections; only the watchdog, which holds its own clone of *)
(* `pending`, can. The initial block download applies each block with    *)
(* blockchain.add_block (src/src/full_node/ibd.rs:88), holding only the  *)
(* blockchain: it moves the UTXO set and never reaches the pool.         *)
(***************************************************************************)
EXTENDS Naturals, Sequences, SequencesExt, FiniteSets

CONSTANTS
    Tx,               \* transaction ids (model values)
    Outpoint,         \* (txid, output_index) pairs spent by Tx
    Inputs,           \* Inputs[t]: the outpoints transaction t spends
    EXPIRATION_TIME,  \* economics.rs: seconds a transaction stays pooled
    MaxTime,          \* bound on the wall clock, in seconds
    NoAdd             \* model value: no add_transaction in progress

ASSUME Inputs \in [Tx -> (SUBSET Outpoint) \ {{}}]
ASSUME EXPIRATION_TIME \in Nat \ {0} /\ MaxTime \in Nat

VARIABLES
    now,        \* chrono::Utc::now().timestamp(), whole seconds
    pending,    \* MemPool.pending: expiry second -> Vec<Transaction>
    spent,      \* outpoints consumed by confirmed blocks (UTXO set complement)
    confirmed,  \* transactions in confirmed blocks
    adding,     \* the add_transaction between its two lock sections, or NoAdd
    admitted,   \* history: <<t, expiry>> for every admission not yet
                \* legitimately ended by a block or by expiry
    ibdConfirmed  \* history: transactions confirmed by blocks the initial
                  \* block download applied

vars == <<now, pending, spent, confirmed, adding, admitted, ibdConfirmed>>

Expiry == 0 .. (MaxTime + EXPIRATION_TIME)

-----------------------------------------------------------------------------
(* MemPool::new *)
Init ==
    /\ now = 0
    /\ pending = [e \in {} |-> <<>>]
    /\ spent = {}
    /\ confirmed = {}
    /\ adding = NoAdd
    /\ admitted = {}
    /\ ibdConfirmed = {}

(* MemPool::get_mempool: every transaction of every bucket *)
MempoolTxs == UNION {ToSet(pending[e]) : e \in DOMAIN pending}

(* Mutant: compares only against the bucket the transaction would join.  *)
ValidateTransactionSameBucket(t) ==
    LET expiry == now + EXPIRATION_TIME
    IN  expiry \in DOMAIN pending =>
          \A i \in 1 .. Len(pending[expiry]) :
            Inputs[pending[expiry][i]] \cap Inputs[t] = {}

(* MemPool::validate_transaction: false iff some pooled transaction       *)
(* spends an outpoint that t also spends (double-spend exclusion).        *)
ValidateTransaction(t) ==
    \A m \in MempoolTxs : Inputs[m] \cap Inputs[t] = {}

(* Mutant: expiry one second later than now + EXPIRATION_TIME.           *)
AddTransactionCheckLate(t) ==
    LET expiry == now + EXPIRATION_TIME + 1
    IN  adding' = [tx |-> t, expiry |-> expiry, exists |-> expiry \in DOMAIN pending]

(* MemPool::add_transaction, first lock section: the expiry second is    *)
(* now + EXPIRATION_TIME, and contains_key is read under the read lock.  *)
AddTransactionCheck(t) ==
    LET expiry == now + EXPIRATION_TIME
    IN  adding' = [tx |-> t, expiry |-> expiry, exists |-> expiry \in DOMAIN pending]

(* Mutant: the write section always inserts a fresh bucket.              *)
AddTransactionOverwrite ==
    /\ adding # NoAdd
    /\ pending' = (adding.expiry :> <<adding.tx>>) @@ pending
    /\ admitted' = admitted \cup {<<adding.tx, adding.expiry>>}
    /\ adding' = NoAdd
    /\ UNCHANGED <<now, spent, confirmed, ibdConfirmed>>

(* MemPool::add_transaction, second lock section, under the write lock:  *)
(* if the bucket existed, get_mut(&expiry).unwrap() and push, which      *)
(* panics when the bucket has been removed since (the admission ends     *)
(* and `processing` is released); otherwise insert a one-element bucket. *)
(* accept_transaction then returns.                                      *)
AddTransaction ==
    /\ adding # NoAdd
    /\ LET t == adding.tx
           e == adding.expiry
       IN  IF adding.exists
           THEN IF e \in DOMAIN pending
                THEN /\ pending' = [pending EXCEPT ![e] = Append(@, t)]
                     /\ admitted' = admitted \cup {<<t, e>>}
                ELSE UNCHANGED <<pending, admitted>>
           ELSE /\ pending' = (e :> <<t>>) @@ pending
                /\ admitted' = admitted \cup {<<t, e>>}
    /\ adding' = NoAdd
    /\ UNCHANGED <<now, spent, confirmed, ibdConfirmed>>

(* Mutant: only prunes empty buckets, the retain is missing.             *)
SpendTransactionsPruneOnly(ids) ==
    pending' = [e \in {d \in DOMAIN pending : pending[d] # <<>>} |-> pending[e]]

(* MemPool::spend_transactions: retain in every bucket the transactions   *)
(* whose id is not listed, then drop the buckets left empty.              *)
SpendTransactions(ids) ==
    LET kept == [e \in DOMAIN pending |->
                    SelectSeq(pending[e], LAMBDA m : m \notin ids)]
    IN  pending' = [e \in {d \in DOMAIN kept : kept[d] # <<>>} |-> kept[e]]

-----------------------------------------------------------------------------
(* accept_transaction (spec 4.5 validate_transaction (e), 4.6), holding  *)
(* `processing`: every input must still be unspent, no pooled             *)
(* transaction may share an input, then add_transaction starts.           *)
SubmitTransaction(t) ==
    /\ adding = NoAdd
    /\ Inputs[t] \cap spent = {}
    /\ ValidateTransaction(t)
    /\ AddTransactionCheck(t)
    /\ UNCHANGED <<now, pending, spent, confirmed, admitted, ibdConfirmed>>

(* A block whose transactions are valid against the UTXO set: unspent,    *)
(* unconfirmed inputs, no two of its transactions spending one outpoint.  *)
(* It may come from any miner, so it need not be drawn from this pool.    *)
ValidBlock(B) ==
    /\ B # {}
    /\ B \cap confirmed = {}
    /\ \A t \in B : Inputs[t] \cap spent = {}
    /\ \A t, u \in B : t # u => Inputs[t] \cap Inputs[u] = {}

(* Blockchain::add_block (spec 4.5 step 9): apply the block to the UTXO  *)
(* set.                                                                   *)
ApplyBlock(B) ==
    /\ ValidBlock(B)
    /\ spent' = spent \cup UNION {Inputs[t] : t \in B}
    /\ confirmed' = confirmed \cup B

(* accept_block for a NewBlock, holding `processing`: add_block, then    *)
(* mempool.spend_transactions(ids of the block's transactions).          *)
AcceptBlock(B) ==
    /\ adding = NoAdd
    /\ ApplyBlock(B)
    /\ SpendTransactions(B)
    /\ admitted' = {a \in admitted : a[1] \notin B}
    /\ UNCHANGED <<now, adding, ibdConfirmed>>

(* One step of ibd_blockchain's try_for_each (ibd.rs 86-94): add_block   *)
(* of the next downloaded block. The task holds the blockchain and no    *)
(* handle on the pool, so the block's transactions stay pooled.          *)
IbdAddBlock(B) ==
    /\ ApplyBlock(B)
    /\ ibdConfirmed' = ibdConfirmed \cup B
    /\ UNCHANGED <<now, pending, adding, admitted>>

(* start_expiry_watchdog, one loop iteration: remove the bucket keyed by  *)
(* exactly the current second.                                            *)
Watchdog ==
    /\ pending' = [e \in DOMAIN pending \ {now} |-> pending[e]]
    /\ admitted' = {a \in admitted : a[2] # now}
    /\ UNCHANGED <<now, spent, confirmed, adding, ibdConfirmed>>

(* The wall clock advances one second. The watchdog sleeps 0.5 s and then *)
(* waits for the write lock, so nothing forces it to run in every second. *)
Tick ==
    /\ now < MaxTime
    /\ now' = now + 1
    /\ UNCHANGED <<pending, spent, confirmed, adding, admitted, ibdConfirmed>>

Next ==
    \/ \E t \in Tx : SubmitTransaction(t)
    \/ AddTransaction
    \/ \E B \in SUBSET Tx : AcceptBlock(B) \/ IbdAddBlock(B)
    \/ Watchdog
    \/ Tick

Spec == Init /\ [][Next]_vars

-----------------------------------------------------------------------------
TypeOK ==
    /\ now \in 0 .. MaxTime
    /\ DOMAIN pending \subseteq Expiry
    /\ \A e \in DOMAIN pending : pending[e] \in Seq(Tx)
    /\ spent \subseteq Outpoint
    /\ confirmed \subseteq Tx
    /\ adding \in {NoAdd} \cup [tx : Tx, expiry : Expiry, exists : BOOLEAN]
    /\ admitted \subseteq Tx \X Expiry
    /\ ibdConfirmed \subseteq confirmed

(* Spec 8.9: the pool never holds two transactions that spend the same    *)
(* outpoint, over any sequence of admissions, blocks and expiries.        *)
NoDoubleSpendInMempool ==
    \A e1, e2 \in DOMAIN pending :
      \A i \in 1 .. Len(pending[e1]), j \in 1 .. Len(pending[e2]) :
        <<e1, i>> # <<e2, j>> =>
          Inputs[pending[e1][i]] \cap Inputs[pending[e2][j]] = {}

(* No admitted transaction is lost: the pool holds exactly the admitted   *)
(* transactions that no block has confirmed and no watchdog pass has      *)
(* expired, each in the bucket of its own expiry second. This is what     *)
(* add_transaction's read-then-append on an existing bucket and           *)
(* spend_transactions' retain-then-prune must preserve together.          *)
NoLostTransaction ==
    /\ \A a \in admitted :
         a[2] \in DOMAIN pending /\ a[1] \in ToSet(pending[a[2]])
    /\ \A e \in DOMAIN pending : \A i \in 1 .. Len(pending[e]) :
         <<pending[e][i], e>> \in admitted

(* A transaction in a block stays pooled only when the initial block    *)
(* download applied that block: accept_block removes a block's           *)
(* transactions with spend_transactions, and a confirmed transaction     *)
(* offered again is refused because its inputs are spent. Those the      *)
(* download confirms stay pooled, with spent inputs, until the watchdog  *)
(* happens to run in their expiry second, and get_mempool offers them to *)
(* the next block that is built.                                          *)
ConfirmedPooledOnlyAfterIbd ==
    MempoolTxs \cap confirmed \subseteq ibdConfirmed

(* Spec 4.6: the watchdog removes every bucket whose key is <= now, so    *)
(* after one of its passes no expired transaction stays in the pool.      *)
ExpiredRemovedByWatchdog ==
    [][Watchdog => \A e \in DOMAIN pending' : e > now]_vars
=============================================================================
