-------------------------------- MODULE Wire --------------------------------
(***************************************************************************)
(* The payloads of the peer-to-peer messages: core/buff.h,                 *)
(* core/serialize.c and the parsers and writers of core/btc-message.c.     *)
(*                                                                         *)
(* A payload is a sequence of bytes.  A reader takes a payload and a       *)
(* position, counted from 0, and returns whether it could read, what it    *)
(* read and the position after it.  A field of fixed length is a sequence  *)
(* of bytes, numbers the code looks at are numbers.                        *)
(***************************************************************************)
EXTENDS Integers, Sequences, SequencesExt, FiniteSetsExt

CONSTANTS
    Base,       \* values of a byte, 256 in the code
    HashLen,    \* bytes of a hash, 32 in the code
    MaxEntries, \* the most entries of a list: BTC_MSG_*_MAX_ENTRIES
    MaxFilter,  \* the longest filter, 4000000 in the code
    MaxStr,     \* size of strVersion
    Filtering   \* BTC_PROTO_FILTERING: the first version with a relay flag

ASSUME WireAssumption ==
    /\ Base \in Nat /\ Base > 3 /\ HashLen \in Nat \ {0}
    /\ MaxEntries \in Nat \ {0} /\ MaxFilter \in Nat /\ MaxStr \in Nat \ {0} /\ Filtering \in Nat

Failed == [ok |-> FALSE, val |-> "error", pos |-> 0]
Reads(val, pos) == [ok |-> TRUE, val |-> val, pos |-> pos]

\* What is read after r, from its value and position, unless r has failed.
Then(r, Rest(_, _)) == IF r.ok THEN Rest(r.val, r.pos) ELSE r

-----------------------------------------------------------------------------
(* Numbers and bytes *)

\* A number of w bytes, the least significant first; what does not fit is lost.
LittleEndian(v, w) == [i \in 1 .. w |-> (v \div Base^(i - 1)) % Base]

\* buff_copy_from: the bytes have to be there.
ReadBytes(b, p, n) == IF p + n > Len(b) THEN Failed ELSE Reads(SubSeq(b, p + 1, p + n), p + n)

\* deserialize_uint8 to deserialize_uint64
ReadNumber(b, p, w) ==
    Then(ReadBytes(b, p, w),
         LAMBDA s, q : Reads(FoldRight(LAMBDA d, v : Base * v + d, s, 0), q))

\* deserialize_varint: the last three bytes announce a number of 2, 4, 8 bytes.
ReadVarint(b, p) ==
    Then(ReadNumber(b, p, 1), LAMBDA c, q :
        IF c < Base - 3 THEN Reads(c, q) ELSE ReadNumber(b, q, 2^(c - Base + 4)))

WriteVarintLate(v) ==
    CASE v <= Base - 3 -> <<v>>
      [] v < Base^2    -> <<Base - 3>> \o LittleEndian(v, 2)
      [] OTHER         -> <<Base - 2>> \o LittleEndian(v, 4)

\* serialize_varint: never 8 bytes.
WriteVarint(v) ==
    CASE v < Base - 3 -> <<v>>
      [] v < Base^2   -> <<Base - 3>> \o LittleEndian(v, 2)
      [] OTHER        -> <<Base - 2>> \o LittleEndian(v, 4)

\* The scripts of deserialize_tx, and deserialize_str_alloc: a length that is
\* more than what is left is refused.
ReadScript(b, p) ==
    Then(ReadVarint(b, p), LAMBDA n, q : IF n > Len(b) - q THEN Failed ELSE ReadBytes(b, q, n))
WriteScript(s) == WriteVarint(Len(s)) \o s

\* deserialize_str: a string that does not fit is refused.
ReadStr(b, p) ==
    Then(ReadVarint(b, p), LAMBDA n, q : IF n >= MaxStr THEN Failed ELSE ReadBytes(b, q, n))

\* n entries one after the other; the first that fails ends it.
ReadEntries(b, p, n, Entry(_, _)) ==
    FoldLeft(LAMBDA r, i : Then(r, LAMBDA s, q :
                           Then(Entry(b, q), LAMBDA e, u : Reads(Append(s, e), u))),
             Reads(<<>>, p), [i \in 1 .. n |-> i])
WriteEntries(s, Write(_)) == WriteVarint(Len(s)) \o FlattenSeq([i \in DOMAIN s |-> Write(s[i])])

-----------------------------------------------------------------------------
(* Transactions and blocks *)

\* point: hash and index of the output that is spent.
ReadTxIn(b, p) ==
    Then(ReadBytes(b, p, HashLen + 4), LAMBDA point, p1 :
    Then(ReadScript(b, p1),            LAMBDA sig, p2 :
    Then(ReadBytes(b, p2, 4),          LAMBDA seq, p3 :
        Reads([point |-> point, script |-> sig, seq |-> seq], p3))))
WriteTxIn(i) == i.point \o WriteScript(i.script) \o i.seq

ReadTxOut(b, p) ==
    Then(ReadBytes(b, p, 8), LAMBDA value, p1 :
    Then(ReadScript(b, p1),  LAMBDA key, p2 : Reads([value |-> value, script |-> key], p2)))
WriteTxOut(o) == o.value \o WriteScript(o.script)

\* A count and its entries, each of at least min bytes.
ReadCounted(b, p, min, Entry(_, _)) ==
    Then(ReadVarint(b, p), LAMBDA n, q :
        IF n > (Len(b) - q) \div min THEN Failed ELSE ReadEntries(b, q, n, Entry))

\* deserialize_tx
ReadTx(b, p) ==
    Then(ReadBytes(b, p, 4),                          LAMBDA version, p1 :
    Then(ReadCounted(b, p1, HashLen + 9, ReadTxIn),   LAMBDA ins, p2 :
    Then(ReadCounted(b, p2, 9, ReadTxOut),            LAMBDA outs, p3 :
    Then(ReadBytes(b, p3, 4),                         LAMBDA lock, p4 :
        Reads([version |-> version, ins |-> ins, outs |-> outs, lock |-> lock], p4)))))
\* serialize_tx
WriteTx(t) == t.version \o WriteEntries(t.ins, WriteTxIn) \o WriteEntries(t.outs, WriteTxOut) \o t.lock

HeaderLen == 2 * HashLen + 16

\* deserialize_block, which leaves no byte over.
ReadBlock(b, p) ==
    Then(ReadBytes(b, p, HeaderLen),      LAMBDA header, p1 :
    Then(ReadCounted(b, p1, 10, ReadTx),  LAMBDA txs, p2 :
        IF p2 = Len(b) THEN Reads([header |-> header, txs |-> txs], p2) ELSE Failed))

-----------------------------------------------------------------------------
(* Lists of entries *)

\* A list of at most MaxEntries entries after a head of fixed length.
ReadList(b, p, Entry(_, _)) ==
    Then(ReadVarint(b, p), LAMBDA n, q :
        IF n > MaxEntries THEN Failed ELSE ReadEntries(b, q, n, Entry))

\* The list, of which Keep is used, and no byte after it.
ReadWholeList(b, Entry(_, _), Keep(_)) ==
    Then(ReadList(b, 0, Entry), LAMBDA s, q :
        IF q = Len(b) THEN Reads(SelectSeq(s, Keep), q) ELSE Failed)

\* deserialize_inv: a type of 4 bytes and a hash.
ReadInvEntry(b, p) ==
    Then(ReadNumber(b, p, 4),        LAMBDA type, p1 :
    Then(ReadBytes(b, p1, HashLen),  LAMBDA hash, p2 : Reads([type |-> type, hash |-> hash], p2)))
WriteInvEntry(i) == LittleEndian(i.type, 4) \o i.hash

\* btcmsg_parse_inv: bytes after the entries are not noticed.
ReadInv(b) == ReadList(b, 0, ReadInvEntry)
\* btcmsg_craft_inv, btcmsg_craft_getdata
WriteInv(s) == WriteEntries(s, WriteInvEntry)

\* btcmsg_parse_notfound: only the blocks are of interest.
MsgBlock == 2
ReadNotfound(b) == ReadWholeList(b, ReadInvEntry, LAMBDA i : i.type = MsgBlock)

\* btcmsg_parse_headers: each header is followed by a count of transactions, 0.
ReadHeaderEntry(b, p) ==
    Then(ReadBytes(b, p, HeaderLen), LAMBDA header, p1 :
    Then(ReadVarint(b, p1),          LAMBDA numTx, p2 :
        IF numTx = 0 THEN Reads(header, p2) ELSE Failed))
ReadHeaders(b) == ReadWholeList(b, ReadHeaderEntry, LAMBDA h : TRUE)

\* deserialize_addr, of a version that has the time: 8 bytes of services, the
\* address in 16 of which the first 12 tell IPv4, the port.
ReadAddrEntry(b, p) ==
    Then(ReadNumber(b, p, 4),  LAMBDA time, p1 :
    Then(ReadBytes(b, p1, 8),  LAMBDA services, p2 :
    Then(ReadBytes(b, p2, 16), LAMBDA ip, p3 :
    Then(ReadBytes(b, p3, 2),  LAMBDA port, p4 : Reads([time |-> time, ip |-> ip, port |-> port], p4)))))
IsIPv4(a) == SubSeq(a.ip, 1, 12) = [i \in 1 .. 12 |-> IF i > 10 THEN Base - 1 ELSE 0]

\* btcmsg_parse_addr: the others, and the ones older than a day, are left out.
ReadAddr(b, yesterday) ==
    ReadWholeList(b, ReadAddrEntry, LAMBDA a : IsIPv4(a) /\ a.time >= yesterday)

\* btcmsg_parse_cfheaders and btcmsg_parse_cfcheckpt: after the type of the
\* filter and one or two hashes the list; what follows it is not noticed.
ReadHash(b, p) == ReadBytes(b, p, HashLen)
ReadCFHeaders(b) == IF Len(b) < 2 * HashLen + 1 THEN Failed ELSE ReadList(b, 2 * HashLen + 1, ReadHash)
ReadCFCheckpt(b) == IF Len(b) < HashLen + 1 THEN Failed ELSE ReadList(b, HashLen + 1, ReadHash)

\* btcmsg_parse_cfilter
ReadCFilter(b) ==
    IF Len(b) < HashLen + 1 THEN Failed
    ELSE Then(ReadVarint(b, HashLen + 1), LAMBDA n, q :
             IF n > MaxFilter THEN Failed ELSE ReadBytes(b, q, n))

-----------------------------------------------------------------------------
(* The version message *)

\* Services, time, both addresses and the nonce.
VersionFixed == 8 + 8 + 26 + 26 + 8

\* deserialize_version: a relay flag that is not there is set.
ReadVersion(b) ==
    Then(ReadNumber(b, 0, 4),               LAMBDA version, p1 :
    Then(ReadBytes(b, p1, VersionFixed),    LAMBDA fixed, p2 :
    Then(ReadStr(b, p2),                    LAMBDA str, p3 :
    Then(ReadBytes(b, p3, 4),               LAMBDA height, p4 :
    Then(IF version >= Filtering /\ p4 < Len(b) THEN ReadNumber(b, p4, 1) ELSE Reads(1, p4),
                                            LAMBDA relay, p5 :
        IF p5 = Len(b)
          THEN Reads([version |-> version, fixed |-> fixed, str |-> str, height |-> height,
                      relay |-> relay], p5)
          ELSE Failed)))))

\* serialize_version
WriteVersion(v) ==
    LittleEndian(v.version, 4) \o v.fixed \o WriteScript(v.str) \o v.height
    \o (IF v.version >= Filtering THEN <<v.relay>> ELSE <<>>)

-----------------------------------------------------------------------------
(* What a payload holds and what is read from it *)

Zeros(n) == [i \in 1 .. n |-> 0]

\* The payload of a message with the content c; where no writer of the code
\* makes it, it is what the peers send.
Payload(msg, c) ==
    CASE msg = "tx"        -> WriteTx(c)
      [] msg = "version"   -> WriteVersion(c)
      [] msg = "inv"       -> WriteInv(c)
      [] msg = "notfound"  -> WriteInv(c)
      [] msg = "block"     -> c.header \o WriteEntries(c.txs, WriteTx)
      [] msg = "headers"   -> WriteEntries(c, LAMBDA h : h \o <<0>>)
      [] msg = "addr"      -> WriteEntries(c, LAMBDA a : LittleEndian(a.time, 4) \o Zeros(8) \o a.ip \o a.port)
      [] msg = "cfheaders" -> Zeros(2 * HashLen + 1) \o WriteEntries(c, LAMBDA h : h)
      [] msg = "cfcheckpt" -> Zeros(HashLen + 1) \o WriteEntries(c, LAMBDA h : h)
      [] msg = "cfilter"   -> Zeros(HashLen + 1) \o WriteScript(c)

\* The parser that the handler of a message calls.
Parse(msg, b, yesterday) ==
    CASE msg = "tx"        -> ReadTx(b, 0)
      [] msg = "version"   -> ReadVersion(b)
      [] msg = "inv"       -> ReadInv(b)
      [] msg = "notfound"  -> ReadNotfound(b)
      [] msg = "block"     -> ReadBlock(b, 0)
      [] msg = "headers"   -> ReadHeaders(b)
      [] msg = "addr"      -> ReadAddr(b, yesterday)
      [] msg = "cfheaders" -> ReadCFHeaders(b)
      [] msg = "cfcheckpt" -> ReadCFCheckpt(b)
      [] msg = "cfilter"   -> ReadCFilter(b)

\* What the program keeps of a content.
Kept(msg, c, yesterday) ==
    CASE msg = "notfound" -> SelectSeq(c, LAMBDA i : i.type = MsgBlock)
      [] msg = "addr"     -> SelectSeq(c, LAMBDA a : IsIPv4(a) /\ a.time >= yesterday)
      [] OTHER            -> c

\* A list that is longer than the code takes.
TooLong(msg, c) ==
    CASE msg \in {"inv", "notfound", "headers", "addr", "cfheaders", "cfcheckpt"} -> Len(c) > MaxEntries
      [] msg = "cfilter" -> Len(c) > MaxFilter
      [] msg = "version" -> Len(c.str) >= MaxStr
      [] OTHER           -> FALSE

\* A message of which cut bytes are missing at the end, or with extra more, is
\* read exactly if nothing is missing, and nothing is left over where the code
\* looks; what is read is what was written.  A version without its relay flag
\* is one that relays.
MessageAgrees(msg, c, cut, extra, yesterday, read) ==
    LET lax   == {"tx", "inv", "cfheaders", "cfcheckpt", "cfilter"}
        flag  == msg = "version" /\ c.version >= Filtering /\ extra = 0 /\ cut = 1
        taken == ~TooLong(msg, c) /\ (cut = 0 \/ flag) /\ (extra = 0 \/ msg \in lax)
    IN  /\ read.ok <=> taken
        /\ read.ok => read.val = IF flag THEN [c EXCEPT !.relay = 1] ELSE Kept(msg, c, yesterday)
=============================================================================
