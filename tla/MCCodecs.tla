------------------------------ MODULE MCCodecs ------------------------------
(***************************************************************************)
(* The algorithms of Gcs, Wire, Script and Base58 on all inputs of a small *)
(* size, and HashTable and Config under all sequences of calls.  A job is  *)
(* chosen first; then its result is computed, or the calls are made.       *)
(***************************************************************************)
EXTENDS Gcs, Wire, Script, Base58, HashTable, Config

CONSTANTS
    MaxFilterItems, MaxQuery,   \* sizes of a filter and of a query
    MaxCut,                     \* the most bytes that are missing
    MaxData,                    \* bytes of an address
    MaxLines,                   \* lines of a file of settings
    Keys                        \* keys of the table

VARIABLES job, out

vars == <<job, out>>

Yesterday == 3

\* A checksum that is not 0 for any input: see Encode.
MCHash4(bytes) == <<1 + (FoldLeft(LAMBDA a, b : 2 * a + b, 0, bytes) % (ByteBase - 1))>>

MCHash160(key) == <<Len(key), key[1]>>

-----------------------------------------------------------------------------
(* Inputs *)

BoundedSeqs(S, n) == UNION {[1 .. k -> S] : k \in 0 .. n}

Hashes == 0 .. 2^HashBits - 1

\* The order of the items of a block does not matter to the filter.
FilterJobs ==
    {[kind |-> "filter", items |-> s, query |-> q] :
        s \in {t \in BoundedSeqs(Hashes, MaxFilterItems) : \A i \in 2 .. Len(t) : t[i - 1] <= t[i]},
        q \in BoundedSeqs(Hashes, MaxQuery)}

Same(n, x) == [i \in 1 .. n |-> x]

\* Lengths on both sides of each form of a varint, bytes that look like its mark.
Scripts == {Same(n, Base - 1) : n \in {0, 1, Base - 4, Base - 3, Base^2 - 1, Base^2}}
Ins     == {[point |-> Same(HashLen + 4, 1), script |-> s, seq |-> Same(4, 2)] : s \in Scripts}
Outs    == {[value |-> Same(8, 3), script |-> s] : s \in Scripts}
Tx(i, o) == [version |-> Same(4, 4), ins |-> i, outs |-> o, lock |-> Same(4, 5)]
SmallTxs == {Tx(i, o) : i \in BoundedSeqs({CHOOSE x \in Ins : Len(x.script) = 0}, 1),
                        o \in BoundedSeqs({CHOOSE x \in Outs : Len(x.script) = 1}, 1)}
HashValues == {Same(HashLen, 0), Same(HashLen, Base - 1)}
Addresses  ==
    {[time |-> t, ip |-> Same(10, x) \o Same(2, Base - 1) \o Same(4, 1), port |-> Same(2, 6)] :
        t \in {Yesterday - 1, Yesterday}, x \in {0, 1}}

Contents(msg) ==
    CASE msg = "tx"        -> {Tx(i, o) : i \in BoundedSeqs(Ins, 2), o \in BoundedSeqs(Outs, 2)}
      [] msg = "version"   -> {[version |-> v, fixed |-> Zeros(VersionFixed), str |-> Same(n, 1),
                                height |-> Zeros(4), relay |-> r] :
                               v \in {Filtering, Filtering + 1}, n \in {0, MaxStr - 1, MaxStr}, r \in {0, 1}}
                              \union {[version |-> Filtering - 1, fixed |-> Zeros(VersionFixed),
                                       str |-> <<>>, height |-> Zeros(4), relay |-> 1]}
      [] msg \in {"inv", "notfound"} ->
             BoundedSeqs([type : {1, MsgBlock}, hash : HashValues], MaxEntries + 1)
      [] msg = "block"     -> [header : {Zeros(HeaderLen)}, txs : BoundedSeqs(SmallTxs, 3)]
      [] msg = "headers"   -> BoundedSeqs({Same(HeaderLen, 0), Same(HeaderLen, Base - 1)}, MaxEntries + 1)
      [] msg = "addr"      -> BoundedSeqs(Addresses, MaxEntries + 1)
      [] msg \in {"cfheaders", "cfcheckpt"} -> BoundedSeqs(HashValues, MaxEntries + 1)
      [] msg = "cfilter"   -> {Same(n, 1) : n \in 0 .. MaxFilter + 1}

Messages == {"tx", "version", "inv", "notfound", "block", "headers", "addr",
             "cfheaders", "cfcheckpt", "cfilter"}

MessageJobs ==
    {[kind |-> "message", msg |-> m, cut |-> d[1], extra |-> d[2]] :
        m \in Messages, d \in ((0 .. MaxCut) \X {0}) \union {<<0, 1>>}}

\* Scripts are built of ops that are written in all the ways there are.
Op(o)         == [op |-> o, data |-> <<>>, bytes |-> <<o>>]
Push(f, data) ==
    LET n == Len(data)
    IN  IF f = 0 THEN [op |-> n, data |-> data, bytes |-> <<n>> \o data]
        ELSE [op |-> PushData1 + f - 1, data |-> data,
              bytes |-> <<PushData1 + f - 1>> \o LittleEndian(n, 2^(f - 1)) \o data]
Plain  == {Op(o) : o \in {OpDup, OpHash160, OpEqualVerify, OpCheckSig}}
Pushes == {Push(f, Same(n, 1)) : f \in 0 .. 3, n \in {0, KeyHashLen, MinKey}}
          \union {Push(f, Same(n, 1)) : f \in 1 .. 3, n \in {MaxKey, MaxKey + 1}}
          \union {Push(f, Same(KeyHashLen, OpDup)) : f \in 0 .. 3}

ScriptJobs ==
    {j \in [kind : {"script"}, cut : 0 .. 2,
            ops : BoundedSeqs(Plain \union Pushes, 2)
                  \union [1 .. 5 -> Plain \union {Push(f, Same(KeyHashLen, 2)) : f \in {0, 2}}]] :
        j.cut = 0 \/ (j.ops # <<>> /\ j.cut < Len(Last(j.ops).bytes))}

TextJobs ==
    [kind : {"text"}, type : 0 .. ByteBase - 1, data : BoundedSeqs(0 .. ByteBase - 1, MaxData),
     char : {0, Space, Other}]

\* Of the three names of settings one is a string, one a number, one a bool.
SettingType(key) == <<"string", "int", "bool">>[Name(key) + 1]
SettingVals(type) ==
    CASE type = "string" -> {NullStr} \union BoundedSeqs({Blank, Quote, Letter}, 2)
      [] type = "int"    -> {<<0>>, <<7>>}
      [] type = "bool"   -> {<<Yes>>, <<No>>}

\* Lines as a user may write them, with or without quotes and blanks.
SettingTexts(type) ==
    CASE type = "string" -> {<<Letter>>, <<Letter, Blank, Letter, Blank>>, <<Blank, Quote, Letter, Quote, Blank>>,
                             <<Quote, Blank, Quote>>, <<Quote, Quote>>, <<>>, <<Blank, Blank>>}
      [] type = "int"    -> {<<7>>, <<Quote, 7, Quote>>}
      [] type = "bool"   -> {<<Blank, No, Blank>>, <<Quote, Yes, Quote>>}

Lines == {[key |-> NoKey, text |-> <<>>]}
         \union UNION {[key : {k}, text : SettingTexts(SettingType(k))] : k \in {1, 2, 3, 4}}

\* What a user means by a text: nothing around the quotes counts.
Meant(text) ==
    LET s == SkipBlanks(Reverse(SkipBlanks(Reverse(text))))
    IN  IF s # <<>> /\ s[1] = Quote THEN SubSeq(s, 2, Len(s) - 1) ELSE s

\* Of the lines with a name the one with the least key counts, of equal ones the last.
FileMap(lines) ==
    [n \in {Name(lines[i].key) : i \in {x \in DOMAIN lines : lines[x].key # NoKey}} |->
        LET same == {i \in DOMAIN lines : lines[i].key # NoKey /\ Name(lines[i].key) = n}
            top  == {i \in same : \A j \in same : lines[i].key <= lines[j].key}
        IN  [val |-> Meant(lines[Max(top)].text), save |-> TRUE]]

-----------------------------------------------------------------------------
(* Steps *)

\* out is empty until there is a result, then <<result>>.
Undone == <<>>

Init ==
    \/ job \in FilterJobs \union ScriptJobs \union TextJobs /\ out = Undone
    \/ \E j \in MessageJobs : \E c \in Contents(j.msg) :
           /\ job = [content |-> c] @@ j
           /\ j.cut <= Len(Payload(j.msg, c)) /\ out = Undone
    \/ job = [kind |-> "table", map |-> <<>>] /\ out = <<EmptyTable>>
    \/ \E lines \in BoundedSeqs(Lines, MaxLines) :
           job = [kind |-> "file", lines |-> lines] /\ out = Undone

MatchFilter ==
    /\ job.kind = "filter" /\ out = Undone
    /\ out' = <<MatchAny(BuildFilter(job.items), job.query)>> /\ UNCHANGED job

ParseMessage ==
    /\ job.kind = "message" /\ out = Undone
    /\ LET b == Payload(job.msg, job.content) \o Zeros(job.extra)
       IN  out' = <<Parse(job.msg, SubSeq(b, 1, Len(b) - job.cut), Yesterday)>>
    /\ UNCHANGED job

ParseScript ==
    /\ job.kind = "script" /\ out = Undone
    /\ LET b == FlattenSeq([i \in DOMAIN job.ops |-> job.ops[i].bytes])
       IN  out' = <<SubSeq(b, 1, Len(b) - job.cut)>>
    /\ UNCHANGED job

\* A character is put in at the start, at the end and in between.
ReadText ==
    /\ job.kind = "text" /\ out = Undone
    /\ LET s == EncodeCheck(job.type, job.data)
       IN  \E p \in {1, (Len(s) + 1) \div 2, Len(s) + 1} :
               out' = <<[pos |-> p,
                         read |-> DecodeCheck(IF job.char = 0 THEN s ELSE InsertAt(s, p, job.char))]>>
    /\ UNCHANGED job

TableInsert(k, v) ==
    /\ job.kind = "table"
    /\ out' = <<HashInsert(out[1], k, v)>> /\ job' = [job EXCEPT !.map = @ @@ (k :> v)]

TableRemove(k) ==
    /\ job.kind = "table"
    /\ out' = <<HashRemove(out[1], k)>>
    /\ job' = [job EXCEPT !.map = [x \in DOMAIN @ \ {k} |-> @[x]]]

TableClear ==
    /\ job.kind = "table"
    /\ out' = <<HashClear(out[1])>> /\ job' = [job EXCEPT !.map = <<>>]

\* A file that cannot be read leaves the caller without settings.
LoadSettings ==
    /\ job.kind = "file" /\ Readable(job.lines)
    /\ out' = <<Load(job.lines)>> /\ job' = [kind |-> "config", map |-> FileMap(job.lines)]

\* A string that is set over another is not null: no caller takes one back.
SetSetting(key, val) ==
    /\ job.kind = "config" /\ MaySet(out[1], key, SettingType(key))
    /\ IsSet(out[1], key) => val # NullStr
    /\ out' = <<Set(out[1], key, SettingType(key), val)>>
    /\ job' = [job EXCEPT !.map = (Name(key) :> [val |-> val, save |-> TRUE]) @@ @]

GetSetting(key, default) ==
    /\ job.kind = "config" /\ MayGet(out[1], key, SettingType(key))
    /\ out' = <<Get(out[1], key, SettingType(key), default)>>
    /\ job' = [job EXCEPT !.map = @ @@ (Name(key) :> [val |-> default, save |-> FALSE])]

Next ==
    \/ LoadSettings
    \/ \E k \in 1 .. Names : \E v \in SettingVals(SettingType(k)) : SetSetting(k, v) \/ GetSetting(k, v)
    \/ MatchFilter \/ ParseMessage \/ ParseScript \/ ReadText \/ TableClear
    \/ \E k \in Keys : TableRemove(k) \/ \E v \in {1, 2} : TableInsert(k, v)

Spec == Init /\ [][Next]_vars

-----------------------------------------------------------------------------
(* Properties: see the operators they use *)

Done(kind) == job.kind = kind /\ out # Undone

\* gcs_filter_match_any finds the scripts of the wallet in the filter of a
\* block, however they fall: a filter that was built of the block's items.
FiltersMatch == Done("filter") => MatchIsExact(job.items, job.query, out[1])

\* The parsers of the messages read what was sent, all of it or nothing.
MessagesAgree ==
    Done("message") => MessageAgrees(job.msg, job.content, job.cut, job.extra, Yesterday, out[1])

\* script_parse_pubkey_hash finds the outputs that pay the wallet, in every
\* script but one that ends with the length of a push.
ScriptsAgree == Done("script") => ScriptAgrees(job.ops, job.cut, out[1])

\* An address or a key that was written as text is read back, and a payment to
\* the address of a key is one that its owner's wallet finds.  The settings
\* are what the file and the calls made them, and are written so that the next
\* run reads them back.
TextAgrees ==
    /\ Done("config") => ConfigAgrees(out[1], job.map)
    /\ Done("text") =>
        /\ Base58Agrees(job.type, job.data, out[1].pos, job.char, out[1].read)
        /\ LET s == EncodeCheck(job.type, job.data)
           IN  IsValid(s) /\ job.type = PubkeyAddress
                 => PubkeyHash(TxoGenerate(PubkeyToUint160(s))) = job.data

\* The hash table holds what its callers put in.
TablesAreMaps == Done("table") => TableIsMap(out[1], job.map)

-----------------------------------------------------------------------------
(* A claim of the code that does not hold *)

\* A script is read or refused: the ASSERT of buff_curptr, that it is called
\* where there is a byte, holds of script_parse_one_op.
ScriptsRead == Done("script") => MatchType(out[1]).type # "panic"
=============================================================================
