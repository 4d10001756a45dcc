------------------------------- MODULE MCTxDb -------------------------------
(***************************************************************************)
(* A small instance of TxDb.  credit pays the wallet 3 and may be mined in *)
(* two blocks, one of which is reorganized away; watch pays 1 to a key     *)
(* without spendable and stays unconfirmed; sweep is made by another       *)
(* wallet with the same key, spends credit and pays nothing back.          *)
(***************************************************************************)
EXTENDS TxDb

MCNetTx    == {"credit", "watch", "sweep"}
MCIns      == [credit |-> {}, watch |-> {}, sweep |-> {"credit"}]
MCOut      == [credit |-> 3, watch |-> 1, sweep |-> 0]
MCBlocksOf == [credit |-> {1, 2}, watch |-> {}, sweep |-> {4}, o1 |-> {5}]
=============================================================================
