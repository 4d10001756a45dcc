------------------------------- MODULE Ledger -------------------------------
(***************************************************************************)
(* What the wallet promises about its transactions: the abstract           *)
(* specification that TxDb is shown to implement.  The book holds the      *)
(* transactions that concern the wallet, each pending or confirmed, and    *)
(* the coins it owns.  A transaction spends each of its coins once, a      *)
(* confirmation is never taken back, and stopping and starting the program *)
(* changes nothing as long as no write to the disk has failed.             *)
(***************************************************************************)
EXTENDS FiniteSets

CONSTANTS Tx            \* transactions

VARIABLES
    spends,     \* transaction -> the coins it spends (named by transaction)
    pays,       \* the transactions with an output for the wallet
    book,       \* transactions the wallet counts
    confirmed,  \* those it has seen in a block
    unspent,    \* those whose coin it counts as its own
    stored,     \* those on disk
    intact      \* no write has failed

vars == <<spends, pays, book, confirmed, unspent, stored, intact>>

Init ==
    /\ spends \in [Tx -> SUBSET Tx] /\ pays \in SUBSET Tx
    /\ book = {} /\ confirmed = {} /\ unspent = {} /\ stored = {}
    /\ intact = TRUE

\* A write to the disk succeeds or fails.
Written(new) ==
    \/ stored' = new /\ UNCHANGED intact
    \/ UNCHANGED stored /\ intact' = FALSE

\* A transaction enters the book: it pays the wallet or spends one of its
\* coins, and it spends none that is already spent.
Learn(t) ==
    /\ t \notin book
    /\ t \in pays' \/ spends'[t] \cap unspent # {}
    /\ spends'[t] \cap book \cap pays \subseteq unspent
    /\ book' = book \union {t}
    /\ unspent' = (unspent \ spends'[t]) \union (pays' \cap {t})
    /\ confirmed' \in {confirmed, confirmed \union {t}}
    /\ Written(stored \union {t})
    /\ \A u \in Tx \ {t} : spends'[u] = spends[u] /\ (u \in pays' <=> u \in pays)

\* A pending transaction is seen in a block.
Confirm(t) ==
    /\ t \in book \ confirmed
    /\ confirmed' = confirmed \union {t}
    /\ Written(stored)
    /\ UNCHANGED <<spends, pays, book, unspent>>

\* The program stops, and after a failed write starts again with what it
\* finds on the disk.
Restart ==
    /\ intact' = FALSE
    /\ book' \subseteq stored /\ confirmed' \subseteq book' /\ unspent' \subseteq book' \cap pays
    /\ UNCHANGED <<spends, pays, stored>>

\* -z: the database is destroyed, to be filled again from the network.
Zap == book' = {} /\ confirmed' = {} /\ unspent' = {} /\ stored' = {}
       /\ UNCHANGED <<spends, pays, intact>>

Next == (\E t \in Tx : Learn(t) \/ Confirm(t)) \/ Restart \/ Zap

Spec == Init /\ [][Next]_vars
=============================================================================
