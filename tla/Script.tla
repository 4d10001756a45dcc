------------------------------- MODULE Script -------------------------------
(***************************************************************************)
(* Output scripts: core/script.c.  The wallet knows the hashes of keys; a  *)
(* script pays the key whose hash it holds, or the key it holds.           *)
(***************************************************************************)
EXTENDS Wire

CONSTANTS
    PushData1,      \* OP_PUSHDATA1; OP_PUSHDATA2 and OP_PUSHDATA4 follow it
    OpDup, OpHash160, OpEqualVerify, OpCheckSig,
    KeyHashLen,     \* bytes of uint160
    MinKey, MaxKey, \* lengths that are taken for a public key, 23 and 120
    Hash160(_)      \* the hash of a public key

ASSUME ScriptAssumption ==
    /\ PushData1 \in Nat \ {0} /\ KeyHashLen \in 1 .. PushData1 - 1
    /\ \A op \in {OpDup, OpHash160, OpEqualVerify, OpCheckSig} : op \in PushData1 + 3 .. Base - 1
    /\ MinKey \in Nat /\ MaxKey \in Nat /\ MinKey > KeyHashLen

\* script_push_data
PushData(data) ==
    LET n == Len(data)
        form == CASE n < PushData1 -> <<n>>
                  [] n \in PushData1 .. Base - 1 -> <<PushData1, n>>
                  [] n \in Base .. Base^2 - 1 -> <<PushData1 + 1>> \o LittleEndian(n, 2)
                  [] OTHER -> <<PushData1 + 2>> \o LittleEndian(n, 4)
    IN  form \o data

\* buff_curptr and buff_skip: the data of a push, which may be empty; but
\* buff_curptr ASSERTs that a byte follows the length.
Panicked == [Failed EXCEPT !.val = "panic"]
ReadData(b, p, n) == IF p = Len(b) THEN Panicked ELSE ReadBytes(b, p, n)

ReadOpShort(b, p) ==
    LET op == b[p + 1]
    IN  IF op > PushData1 + 2 THEN Reads([op |-> op, data |-> <<>>], p + 1)
        ELSE Then(IF op < PushData1 THEN Reads(op, p + 1) ELSE ReadNumber(b, p + 1, 1), LAMBDA n, p1 :
             Then(ReadData(b, p1, n), LAMBDA data, p2 : Reads([op |-> op, data |-> data], p2)))

\* script_parse_one_op
ReadOp(b, p) ==
    LET op == b[p + 1]
    IN  IF op > PushData1 + 2 THEN Reads([op |-> op, data |-> <<>>], p + 1)
        ELSE Then(IF op < PushData1 THEN Reads(op, p + 1)
                  ELSE ReadNumber(b, p + 1, 2^(op - PushData1)), LAMBDA n, p1 :
             Then(ReadData(b, p1, n), LAMBDA data, p2 : Reads([op |-> op, data |-> data], p2)))

\* script_parse
RECURSIVE ReadOps(_, _)
ReadOps(b, p) ==
    IF p = Len(b) THEN Reads(<<>>, p)
    ELSE Then(ReadOp(b, p),   LAMBDA first, p1 :
         Then(ReadOps(b, p1), LAMBDA rest, p2 : Reads(<<first>> \o rest, p2)))

IsPush(i)    == i.op <= PushData1 + 2
IsOp(i, op)  == ~IsPush(i) /\ i.op = op
IsPubkey(i)  == IsPush(i) /\ Len(i.data) \in MinKey .. MaxKey
IsKeyHash(i) == IsPush(i) /\ Len(i.data) = KeyHashLen

\* script_classify, with the two templates of std_scripts.
Classify(ops) ==
    CASE Len(ops) = 2 /\ IsPubkey(ops[1]) /\ IsOp(ops[2], OpCheckSig) -> "pubkey"
      [] Len(ops) = 5 /\ IsOp(ops[1], OpDup) /\ IsOp(ops[2], OpHash160) /\ IsKeyHash(ops[3])
         /\ IsOp(ops[4], OpEqualVerify) /\ IsOp(ops[5], OpCheckSig)   -> "pubkeyhash"
      [] OTHER -> "nonstandard"

\* script_match_type of what script_parse read: the form of a script and the
\* data that it holds, or that it cannot be read or stops the program.
MatchOps(r) ==
    IF ~r.ok THEN [type |-> r.val, data |-> <<>>]
    ELSE [type |-> Classify(r.val),
          data |-> CASE Classify(r.val) = "pubkey"     -> r.val[1].data
                     [] Classify(r.val) = "pubkeyhash" -> r.val[3].data
                     [] OTHER                          -> <<>>]
MatchType(b) == MatchOps(ReadOps(b, 0))

\* script_parse_pubkey_hash: the key that is paid, <<>> for none.
PaidKey(m)    == IF m.type = "pubkey" THEN Hash160(m.data) ELSE m.data
PubkeyHash(b) == PaidKey(MatchType(b))

\* script_txo_generate
TxoGenerate(h) == <<OpDup, OpHash160>> \o PushData(h) \o <<OpEqualVerify, OpCheckSig>>

\* wallet_get_filter_scripts_cb: what the filter of a block is asked for.
FilterScript(h) == <<OpDup, OpHash160, KeyHashLen>> \o h \o <<OpEqualVerify, OpCheckSig>>

\* script_sign, of an output whose key the wallet has: NOT_IMPLEMENTED stops
\* the program.
Signing(type) == CASE type = "error"      -> "error"
                   [] type = "pubkeyhash" -> "signed"
                   [] OTHER               -> "panic"
Sign(b) == Signing(MatchType(b).type)

-----------------------------------------------------------------------------
\* An output pays a key exactly if it is one of the two forms and nothing is
\* missing; the data may be pushed in any of the ways there are.  What is paid
\* in the form that the program itself uses is asked of the filters and can
\* be spent.  The last op has lost its last cut bytes; the program stops at it
\* exactly if it is a push of which nothing but the length is there, for which
\* see ScriptsRead.
ScriptAgrees(ops, cut, b) ==
    LET key  == PubkeyHash(b)
        opOf == [i \in DOMAIN ops |-> ops[i].op]
        paid == CASE Len(ops) = 2 /\ Len(ops[1].data) \in MinKey .. MaxKey
                     /\ opOf[2] = OpCheckSig -> Hash160(ops[1].data)
                  [] Len(ops) = 5 /\ Len(ops[3].data) = KeyHashLen
                     /\ <<opOf[1], opOf[2], opOf[4], opOf[5]>>
                        = <<OpDup, OpHash160, OpEqualVerify, OpCheckSig>> -> ops[3].data
                  [] OTHER -> <<>>
        bare == ops # <<>> /\ IsPush(Last(ops)) /\ cut = Len(Last(ops).data)
    IN  /\ MatchType(b).type = "panic" <=> bare
        /\ key = IF cut = 0 THEN paid ELSE <<>>
        /\ Sign(b) = "signed" => key # <<>>
        /\ key # <<>> /\ b = TxoGenerate(key) => b = FilterScript(key) /\ Sign(b) = "signed"
=============================================================================
