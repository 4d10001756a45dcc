-------------------------------- MODULE TxDb --------------------------------
(***************************************************************************)
(* The transaction database (core/txdb.c), the part of core/wallet.c that  *)
(* keeps the balance and makes payments, and the set of transactions that  *)
(* core/peergroup.c relays.                                                *)
(*                                                                         *)
(* A transaction has at most one output that pays the wallet, so a coin    *)
(* (struct txo_entry) is named by its transaction; inputs and outputs that *)
(* do not concern the wallet are left out.  A block is a positive number,  *)
(* its timestamp; 0 is the zero hash of a transaction in no block, and no  *)
(* two transactions share a block.  Amounts are taken modulo Word.  A      *)
(* failed ASSERT stops the process: nothing is written after it, and the   *)
(* program may be started again.                                           *)
(***************************************************************************)
EXTENDS Integers, Sequences, FiniteSets, SequencesExt, FiniteSetsExt

CONSTANTS
    NetTx,      \* transactions made by others
    OwnTx,      \* names for the payments this wallet makes
    Ins,        \* NetTx -> the coins it spends
    Out,        \* NetTx -> the amount it pays the wallet, 0: none
    WatchOnly,  \* transactions of NetTx that pay a key with spendable = 0
    BlocksOf,   \* transaction -> the blocks that may contain it
    Fee, Values,\* the fee and the amounts of payments
    Word,       \* 2^64
    MaxStops,   \* bound on stops of the process
    MaxFails    \* bound on failed writes to the database

Tx == NetTx \union OwnTx

ASSUME TxDbAssumption ==
    /\ NetTx \cap OwnTx = {} /\ IsFiniteSet(Tx)
    /\ Ins \in [NetTx -> SUBSET Tx] /\ Out \in [NetTx -> 0 .. Word - 1]
    /\ WatchOnly \subseteq NetTx
    /\ BlocksOf \in [Tx -> SUBSET (Nat \ {0})]
    /\ \A t, u \in Tx : t # u => BlocksOf[t] \cap BlocksOf[u] = {}
    /\ Fee \in Nat /\ Values \subseteq Nat \ {0} /\ Word \in Nat \ {0}
    /\ MaxStops \in Nat /\ MaxFails \in Nat

VARIABLES
    mode,       \* "down", "syncing" or "ready" (btc->state)
    locked,     \* btc->wallet_state is WALLET_ENCRYPTED_LOCKED
    made,       \* payments made: OwnTx -> [ins, change], or unused
    db,         \* the leveldb records in the order of tx_seq: [tx, blk]
    mem,        \* hash_tx and hash_txo, see MemType; while the process is
                \* down, what it will build from the disk when it starts
    balance,    \* wallet->balance
    bcast,      \* pg->hash_broadcast
    panic,      \* the ASSERT that last stopped the process
    budget      \* what is left of the bounds

vars == <<mode, locked, made, db, mem, balance, bcast, panic, budget>>

Absent  == [relevant |-> FALSE, blk |-> -1]
NoCoin  == [spent |-> FALSE, blk |-> -1]
MemType == [tx  : [Tx -> [relevant : BOOLEAN, blk : Int]],
            txo : [Tx -> [spent : BOOLEAN, blk : Int]]]
Empty   == [tx |-> [t \in Tx |-> Absent], txo |-> [t \in Tx |-> NoCoin]]
Unused  == [ins |-> {}, change |-> 0]

InsOf(mk, t)  == IF t \in NetTx THEN Ins[t] ELSE mk[t].ins
PaysOf(mk, t) == IF t \in NetTx THEN Out[t] ELSE mk[t].change
Seen(t)       == t \in OwnTx => made[t] # Unused

Has(m, t)  == m.tx[t] # Absent
Coins(m)   == {t \in Tx : m.txo[t] # NoCoin}
Unspent(m) == {c \in Coins(m) : ~m.txo[c].spent}

\* The key "/tx/<seq>/<hash>" and the data of a record.  The sequence number is
\* padded with zeros, so leveldb's order is that of the numbers.
Record(t, blk) == [tx |-> t, blk |-> blk]

-----------------------------------------------------------------------------
(* The hash tables *)

\* The coins a transaction debits, and whether it concerns the wallet.
Debits(mk, m, t)   == InsOf(mk, t) \cap Coins(m)
Relevant(mk, m, t) == PaysOf(mk, t) > 0 \/ Debits(mk, m, t) # {}
\* ASSERT(txo_entry->spent == 0)
Respends(mk, m, t) == \E c \in Debits(mk, m, t) : m.txo[c].spent

RememberCredit(mk, m, t, blk) ==
    [tx  |-> [m.tx EXCEPT ![t] = [relevant |-> Relevant(mk, m, t), blk |-> blk]],
     txo |-> IF PaysOf(mk, t) > 0
               THEN [m.txo EXCEPT ![t] = [spent |-> FALSE, blk |-> blk]] ELSE m.txo]

\* txdb_add_to_hashtable and txdb_process_tx_entry.
Remember(mk, m, t, blk) ==
    [tx  |-> [m.tx EXCEPT ![t] = [relevant |-> Relevant(mk, m, t), blk |-> blk]],
     txo |-> [c \in Tx |->
                IF c \in Debits(mk, m, t) THEN [m.txo[c] EXCEPT !.spent = TRUE]
                ELSE IF c = t /\ PaysOf(mk, t) > 0 THEN [spent |-> FALSE, blk |-> blk]
                ELSE m.txo[c]]]

\* txdb_open: the records are processed again, in order.
Reload(mk, d) ==
    LET m[i \in 0..Len(d)] ==
          IF i = 0 THEN Empty ELSE Remember(mk, m[i - 1], d[i].tx, d[i].blk)
    IN  m[Len(d)]

\* txdb_load_tx fails an ASSERT on a record it cannot insert or apply.
ReloadFails(mk, d) ==
    \E i \in DOMAIN d :
        LET m == Reload(mk, SubSeq(d, 1, i - 1))
        IN  Has(m, d[i].tx) \/ Respends(mk, m, d[i].tx)

\* txdb_get_balance
Balance(mk, m) == MapThenSumSet(LAMBDA c : PaysOf(mk, c), Unspent(m)) % Word

-----------------------------------------------------------------------------
(* Coin selection *)

\* The coins txdb_select_coins does not skip.
Usable == {c \in Unspent(mem) \ WatchOnly : mem.txo[c].blk # 0}

Worth(S) == MapThenSumSet(LAMBDA c : PaysOf(made, c), S)

\* Oldest first, until the amount and the fee are covered.
Selected(v) ==
    {c \in Usable :
        Worth({d \in Usable : mem.txo[d].blk < mem.txo[c].blk}) < v + Fee}

\* value - total_value - fee, of 64-bit unsigned integers.
Change(v) == (Worth(Selected(v)) - v - Fee) % Word

-----------------------------------------------------------------------------
(* The process *)

TypeOK ==
    /\ mode \in {"down", "syncing", "ready"} /\ locked \in BOOLEAN
    /\ made \in [OwnTx -> [ins : SUBSET Tx, change : 0 .. Word - 1]]
    /\ db \in Seq([tx : Tx, blk : Nat]) /\ mem \in MemType
    /\ balance \in 0 .. Word - 1 /\ bcast \subseteq Tx
    /\ panic \in {"none", "respend", "reconfirmed", "record", "reload",
                  "save", "select_coins"}
    /\ budget \in [stops : 0 .. MaxStops, fails : 0 .. MaxFails]

Init ==
    /\ mode = "down" /\ locked = FALSE
    /\ made = [o \in OwnTx |-> Unused] /\ db = <<>> /\ mem = Empty
    /\ balance = 0 /\ bcast = {} /\ panic = "none"
    /\ budget = [stops |-> MaxStops, fails |-> MaxFails]

\* The process is gone, and with it what is not on disk.
Gone == mode' = "down" /\ mem' = Reload(made, db) /\ balance' = 0 /\ bcast' = {}

\* An ASSERT fails.
Panic(why) == Gone /\ panic' = why /\ UNCHANGED <<locked, made, db, budget>>

\* wallet_open: what is pending on disk is relayed again.
Start ==
    /\ mode = "down"
    /\ locked' \in BOOLEAN
    /\ IF ReloadFails(made, db)
         THEN panic' = "reload" /\ UNCHANGED <<mode, mem, balance, bcast>>
         ELSE /\ mode' = "syncing" /\ panic' = "none"
              /\ mem' = Reload(made, db)
              /\ balance' = Balance(made, mem')
              /\ bcast' = {r.tx : r \in {q \in ToSet(db) : q.blk = 0}}
    /\ UNCHANGED <<made, db, budget>>

\* The scan is complete (bitc_state_ready).
Synced ==
    /\ mode = "syncing" /\ mode' = "ready"
    /\ UNCHANGED <<locked, made, db, mem, balance, bcast, panic, budget>>

\* The process exits or is killed.
Stop ==
    /\ mode # "down" /\ budget.stops > 0
    /\ Gone /\ budget' = [budget EXCEPT !.stops = @ - 1]
    /\ UNCHANGED <<locked, made, db, panic>>

\* -z (wallet_zap_txdb), while the program does not run.
Zap ==
    /\ mode = "down" /\ db # <<>> /\ db' = <<>> /\ mem' = Empty
    /\ UNCHANGED <<mode, locked, made, balance, bcast, panic, budget>>

\* A write to leveldb succeeds, or fails and leaves the database alone.
Write(d) ==
    \/ db' = d /\ UNCHANGED budget
    \/ /\ budget.fails > 0 /\ budget' = [budget EXCEPT !.fails = @ - 1]
       /\ UNCHANGED db

-----------------------------------------------------------------------------
(* Transactions from the network: wallet_handle_tx, txdb_handle_tx *)

\* In any order: a transaction may come before the one it spends.
Arrives(t) == mode # "down" /\ Seen(t)

\* txdb_remember_tx.  A failed write keeps the balance, and stops the process
\* when the transaction came alone: peer_handle_tx asserts that it worked.
Learn(t, blk) ==
    LET m == Remember(made, mem, t, blk)
    IN  \/ /\ Respends(made, mem, t) /\ Panic("respend")
        \/ /\ ~Respends(made, mem, t) /\ ~Relevant(made, mem, t)
           /\ mem' = m
           /\ UNCHANGED <<mode, locked, made, db, balance, bcast, panic, budget>>
        \/ /\ ~Respends(made, mem, t) /\ Relevant(made, mem, t)
           /\ Write(Append(db, Record(t, blk)))
           /\ IF db' = db /\ blk = 0
                THEN Gone /\ panic' = "save" /\ UNCHANGED <<locked, made>>
                ELSE /\ mem' = m
                     /\ balance' = IF db' = db THEN balance ELSE Balance(made, m)
                     /\ UNCHANGED <<mode, locked, made, bcast, panic>>

StopBroadcastNever(t) == bcast
StopBroadcast(t)      == bcast \ {t}

\* txdb_confirm_one_tx.  The first record of the transaction is rewritten.
RecordsOf(t) == {i \in DOMAIN db : db[i].tx = t}

ConfirmOneTx(t, blk) ==
    \/ /\ ~mem.tx[t].relevant
       /\ mem' = [mem EXCEPT !.tx[t] = Absent]
       /\ UNCHANGED <<mode, locked, made, db, balance, bcast, panic, budget>>
    \/ /\ mem.tx[t].relevant /\ mem.tx[t].blk \notin {0, blk}
       /\ Panic("reconfirmed")
    \/ /\ mem.tx[t].relevant /\ mem.tx[t].blk = 0
       /\ IF RecordsOf(t) # {} /\ db[Min(RecordsOf(t))].blk # 0
            THEN Panic("record")
            ELSE /\ bcast' = StopBroadcast(t)
                 /\ mem' = [mem EXCEPT !.tx[t].blk = blk]
                 /\ IF RecordsOf(t) = {}
                      THEN UNCHANGED <<db, budget>>
                      ELSE Write([db EXCEPT ![Min(RecordsOf(t))].blk = blk])
                 /\ UNCHANGED <<mode, locked, made, balance, panic>>

\* A tx message (peer_handle_tx); one already known is ignored.
HandleTx(t) == Arrives(t) /\ ~Has(mem, t) /\ Learn(t, 0)

\* A transaction of a block whose filter matched.  A known transaction is
\* confirmed and not processed again.
HandleBlockTx(t, blk) ==
    /\ Arrives(t) /\ blk \in BlocksOf[t]
    /\ IF Has(mem, t) THEN ConfirmOneTx(t, blk) ELSE Learn(t, blk)

-----------------------------------------------------------------------------
(* Payments: wallet_craft_tx, txdb_craft_tx *)

\* wallet_craft_tx compares with the balance, which is not computed again after
\* a payment; the user is not let this far before READY and with a locked wallet.
Affordable(v) == mode = "ready" /\ ~locked /\ v + Fee <= balance

\* The outputs and inputs of a payment: change goes back to the wallet.
Payment(v) == [ins |-> Selected(v), change |-> Change(v)]

\* peergroup_new_tx_broadcast
Broadcast(t) == bcast \union {t}

\* The result of the write is replaced by that of the broadcast.
CraftTx(o, v) ==
    /\ made[o] = Unused /\ Affordable(v)
    /\ IF Worth(Selected(v)) < v
         THEN Panic("select_coins")
         ELSE /\ made' = [made EXCEPT ![o] = Payment(v)]
              /\ mem' = Remember(made', mem, o, 0)
              /\ Write(Append(db, Record(o, 0)))
              /\ bcast' = Broadcast(o)
              /\ UNCHANGED <<mode, locked, balance, panic>>

-----------------------------------------------------------------------------
Next ==
    \/ Start \/ Synced \/ Stop \/ Zap
    \/ \E t \in Tx : HandleTx(t)
    \/ \E t \in Tx, blk \in UNION {BlocksOf[u] : u \in Tx} : HandleBlockTx(t, blk)
    \/ \E o \in OwnTx, v \in Values : CraftTx(o, v)

Spec == Init /\ [][Next]_vars

-----------------------------------------------------------------------------
(* Properties *)

AbstractLedger == INSTANCE Ledger WITH
    spends    <- [t \in Tx |-> InsOf(made, t)],
    pays      <- {t \in Tx : PaysOf(made, t) > 0},
    book      <- {t \in Tx : mem.tx[t].relevant},
    confirmed <- {t \in Tx : mem.tx[t].relevant /\ mem.tx[t].blk # 0},
    unspent   <- Unspent(mem),
    stored    <- {r.tx : r \in ToSet(db)},
    intact    <- budget.fails = MaxFails

\* The database implements Ledger: it learns a transaction once and only if
\* that spends no coin twice, never takes a confirmation back while it runs,
\* and a stop loses only what a failed write kept from the disk.
LedgerSpec == AbstractLedger!Spec

\* A payment is relayed when it is made, and after every start that finds its
\* record (one that could not be written is gone), from then on until it is
\* seen in a block, and, if no write has failed, never after that.
Pending(t) == mode # "down" /\ mem.tx[t].relevant /\ mem.tx[t].blk = 0

RelayedUntilConfirmed ==
    [][/\ \A o \in OwnTx :
             Pending(o)' /\ (o \in bcast \/ mode = "down" \/ made'[o] # made[o])
             => o \in bcast'
       /\ budget'.fails = MaxFails => \A t \in bcast' : mem'.tx[t].relevant => mem'.tx[t].blk = 0]_vars

-----------------------------------------------------------------------------
(* A claim of the code that does not hold: see README.md *)

\* txdb.c:1411 asserts that the selected coins cover the payment.
SelectionCovers == panic # "select_coins"
=============================================================================
