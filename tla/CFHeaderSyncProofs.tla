------------------------- MODULE CFHeaderSyncProofs -------------------------
(***************************************************************************)
(* Theorems about CFHeaderSync, for every set of peers, assignment of      *)
(* filter indexes, chain, batch size and number of failures.               *)
(*                                                                         *)
(* IInv is about who was asked for what, FileInv about the file and the    *)
(* store, ChainInv about the headers in both and where the next batch      *)
(* starts.  ChainInv is proved for CheckpointLag = 0, checkpoints at the   *)
(* heights where BIP157 puts them; what depends on it says so.             *)
(***************************************************************************)
EXTENDS CFHeaderSync, FiniteSetTheorems, SequenceTheorems, TLAPS

-----------------------------------------------------------------------------
(* The inductive invariant *)

Fields == {"driver", "ckPeers", "agreed", "verified", "expected", "counted", "start",
           "hdrTip", "prev", "syncStarted", "floor", "scanning"}

\* The group is a record with these fields; the ones that decide what is asked
\* for next have their types.
PgOK(g) ==
    /\ g = [f \in Fields |-> g[f]]
    /\ g.ckPeers \in Int /\ g.agreed \in Int
    /\ g.start \in Int /\ g.hdrTip \in Int /\ g.floor \in Int
    /\ g.verified \in BOOLEAN /\ g.syncStarted \in BOOLEAN /\ g.scanning \in BOOLEAN

Request   == [start : Int, stop : Int]
HeaderSet == [ix : Indexes \cup {NoIndex}, height : Int]
RecordSet == [height : Int, header : HeaderSet]

StoreOK ==
    /\ entries \in Seq(RecordSet)
    /\ disk \in [count : Nat, recs : Seq(RecordSet)]
    /\ index \in [Peers -> Indexes] /\ tip \in Nat

\* A batch under way is the only one, starts at the next height and is asked
\* for after the checkpoints were agreed on; the scan starts when no height is
\* left to ask for.
AskedOK(g, reqs) ==
    /\ reqs \in [Peers -> Seq(Request)]
    /\ \A p, q \in Peers : reqs[p] # <<>> /\ reqs[q] # <<>> => p = q
    /\ \A p \in Peers : reqs[p] # <<>> =>
          /\ Len(reqs[p]) = 1 /\ reqs[p][1].start = g.start
          /\ g.start =< g.hdrTip
          /\ g.syncStarted /\ g.verified
    /\ g.scanning => g.verified /\ g.start > g.hdrTip

\* What the phases of a run mean for the sync.
PhaseOK ==
    /\ state \in {"HEADERS", "TXDB", "READY", "DOWN"}
    /\ state = "HEADERS" => pg.ckPeers = 0 /\ ~pg.verified
    /\ state = "READY" => pg.scanning
    /\ \A p \in Peers : hdrReq[p] # <<>> => state = "TXDB"
    /\ panic # "cfheaders"

IInv == StoreOK /\ PgOK(pg) /\ AskedOK(pg, hdrReq) /\ PhaseOK

-----------------------------------------------------------------------------
(* The steps of the sync keep what they are given *)

\* peergroup_request_cfheaders asks for a batch only when none is under way.
LEMMA RequestKeeps ==
    ASSUME NEW g, NEW p \in Peers, NEW reqs, NEW up,
           PgOK(g), AskedOK(g, reqs), g.verified, RequestCfheaders(g, p, reqs, up)
    PROVE  PgOK(pg') /\ AskedOK(pg', hdrReq')
<1>1. CASE g.syncStarted
  BY <1>1 DEF RequestCfheaders
<1>2. CASE ~g.syncStarted /\ g.start > g.hdrTip
  <2>1. pg' = [g EXCEPT !.syncStarted = TRUE, !.scanning = TRUE] /\ hdrReq' = reqs
    BY <1>2 DEF RequestCfheaders, PgOK
  <2>2. /\ PgOK(pg') /\ pg'.syncStarted /\ pg'.scanning /\ pg'.verified
        /\ pg'.start = g.start /\ pg'.hdrTip = g.hdrTip
    BY <2>1 DEF PgOK, Fields
  <2>3. \A q \in Peers : reqs[q] = <<>>
    BY <1>2 DEF AskedOK
  <2> QED BY <1>2, <2>1, <2>2, <2>3 DEF AskedOK
<1>3. CASE ~g.syncStarted /\ g.start =< g.hdrTip
  <2> DEFINE r == [start |-> g.start, stop |-> BatchEnd(g)]
  <2>1. pg' = [g EXCEPT !.syncStarted = TRUE] /\ hdrReq' = Sent(reqs, p, r, up)
    BY <1>3 DEF RequestCfheaders, PgOK
  <2>2. /\ PgOK(pg') /\ pg'.syncStarted /\ pg'.verified
        /\ pg'.start = g.start /\ pg'.hdrTip = g.hdrTip /\ pg'.scanning = g.scanning
    BY <2>1 DEF PgOK, Fields
  <2>3. ~g.scanning
    BY <1>3 DEF AskedOK, PgOK
  <2>4. r \in Request /\ r.start = g.start
    BY SyncHeightsAssumption DEF Request, BatchEnd, PgOK
  <2> HIDE DEF r
  <2>5. reqs \in [Peers -> Seq(Request)] /\ \A q \in Peers : reqs[q] = <<>>
    BY <1>3 DEF AskedOK
  <2>6. /\ Append(<<>>, r) \in Seq(Request) /\ Append(<<>>, r) # <<>>
        /\ Len(Append(<<>>, r)) = 1 /\ Append(<<>>, r)[1] = r
    BY <2>4
  <2>7. /\ hdrReq' \in [Peers -> Seq(Request)]
        /\ \A q \in Peers : hdrReq'[q] # <<>> =>
              q = p /\ Len(hdrReq'[q]) = 1 /\ hdrReq'[q][1] = r
    BY <2>1, <2>5, <2>6 DEF Sent
  <2> QED BY <1>3, <2>2, <2>3, <2>4, <2>7 DEF AskedOK
<1> QED BY <1>1, <1>2, <1>3 DEF PgOK

\* peergroup_maybe_birthday_bound_cfheaders only moves the start and the header
\* before it.
LEMMA BoundShape ==
    ASSUME NEW g, PgOK(g)
    PROVE  /\ PgOK(BirthdayBound(g))
           /\ BirthdayBound(g).verified = g.verified
           /\ BirthdayBound(g).scanning = g.scanning
<1>1. Anchor(g) \in Int
  BY SyncHeightsAssumption DEF Anchor, PgOK
<1> QED BY <1>1 DEF BirthdayBound, PgOK, Fields

\* peergroup_cfcheckpt_maybe_complete
LEMMA CompleteKeeps ==
    ASSUME NEW g, NEW p \in Peers, NEW reqs, NEW up,
           PgOK(g), AskedOK(g, reqs), MaybeComplete(g, p, reqs, up)
    PROVE  PgOK(pg') /\ AskedOK(pg', hdrReq')
<1>1. CASE pg' = g /\ hdrReq' = reqs
  BY <1>1
<1>2. CASE /\ ~g.verified
           /\ RequestCfheaders(BirthdayBound([g EXCEPT !.verified = TRUE]), p, reqs, up)
  <2> DEFINE v == [g EXCEPT !.verified = TRUE]
             w == BirthdayBound(v)
  <2>1. PgOK(v) /\ v.verified = TRUE /\ v.scanning = g.scanning
    BY DEF PgOK, Fields
  <2> HIDE DEF v
  <2>2. PgOK(w) /\ w.verified /\ w.scanning = g.scanning
    BY <2>1, BoundShape
  <2>3. RequestCfheaders(w, p, reqs, up)
    BY <1>2 DEF v
  <2> HIDE DEF w
  <2>4. AskedOK(w, reqs)
    BY <1>2, <2>2 DEF AskedOK
  <2> QED BY <2>2, <2>3, <2>4, RequestKeeps
<1> QED BY <1>1, <1>2 DEF MaybeComplete

\* peergroup_notify_peer_gone: only a run that waits for checkpoints asks anew.
LEMMA GoneKeeps ==
    ASSUME IInv, Running, NEW p \in Peers, Gone(pg, p)
    PROVE  /\ PgOK(pg') /\ AskedOK(pg', hdrReq')
           /\ pg'.scanning \/ state # "READY"
           /\ state = "HEADERS" => pg'.ckPeers = 0 /\ ~pg'.verified
           /\ state # "TXDB" => \A q \in Peers : hdrReq'[q] = <<>>
<1> DEFINE g    == [pg EXCEPT !.driver = IF @ = p THEN NoPeer ELSE @]
           reqs == [hdrReq EXCEPT ![p] = <<>>]
           up   == Up \ {p}
<1>1. /\ PgOK(g) /\ g.verified = pg.verified /\ g.scanning = pg.scanning
      /\ g.ckPeers = pg.ckPeers /\ g.agreed = pg.agreed /\ g.start = pg.start
      /\ g.hdrTip = pg.hdrTip /\ g.syncStarted = pg.syncStarted
  BY DEF IInv, PgOK, Fields
<1>2. /\ reqs \in [Peers -> Seq(Request)]
      /\ \A q \in Peers : reqs[q] # <<>> => reqs[q] = hdrReq[q]
  <2>1. <<>> \in Seq(Request)
    OBVIOUS
  <2> QED BY <2>1 DEF IInv, AskedOK
<1>3. /\ \/ ~Awaiting(g) /\ pg' = g /\ hdrReq' = reqs
         \/ Awaiting(g) /\ pg' = Lowered(g) /\ hdrReq' = reqs
         \/ /\ Awaiting(g)
            /\ \E q \in Peers \ {p} : MaybeComplete(Lowered(g), q, reqs, up)
  BY DEF Gone
<1> HIDE DEF g, reqs, up
<1>4. AskedOK(g, reqs)
  BY <1>1, <1>2 DEF IInv, AskedOK
<1>5. CASE ~Awaiting(g) /\ pg' = g /\ hdrReq' = reqs
  BY <1>1, <1>2, <1>4, <1>5 DEF IInv, PhaseOK
<1>6. CASE Awaiting(g)
  <2>1. ~pg.verified /\ ~pg.scanning /\ state # "HEADERS" /\ state # "READY"
    BY <1>1, <1>6 DEF Awaiting, IInv, PhaseOK, AskedOK
  <2>2. PgOK(Lowered(g)) /\ AskedOK(Lowered(g), reqs)
    <3>1. /\ PgOK(Lowered(g)) /\ Lowered(g).verified = g.verified
          /\ Lowered(g).scanning = g.scanning /\ Lowered(g).start = g.start
          /\ Lowered(g).hdrTip = g.hdrTip /\ Lowered(g).syncStarted = g.syncStarted
      BY <1>1 DEF Lowered, PgOK, Fields
    <3> QED BY <3>1, <1>4 DEF AskedOK
  <2>3. PgOK(pg') /\ AskedOK(pg', hdrReq')
    BY <1>3, <1>6, <2>2, CompleteKeeps
  <2>4. state = "TXDB"
    BY <2>1 DEF IInv, PhaseOK, Running
  <2> QED BY <2>1, <2>3, <2>4
<1> QED BY <1>3, <1>5, <1>6

\* peergroup_verify_cfcheckpts starts over only when nothing is under way.
LEMMA VerifyKeeps ==
    ASSUME NEW g, NEW p \in Peers, NEW up, PgOK(g), AskedOK(g, hdrReq), ~g.verified,
           VerifyCfcheckpts(g, p, up), Cardinality(FilterPeers \cap up) \in Int
    PROVE  PgOK(pg') /\ AskedOK(pg', hdrReq')
<1> DEFINE asked == FilterPeers \cap up
           v == [g EXCEPT !.ckPeers = Cardinality(asked), !.agreed = 0,
                          !.verified = (asked = {}), !.syncStarted = FALSE,
                          !.expected = NoIndex, !.counted = FALSE]
<1>1. PgOK(v) /\ (v.verified <=> asked = {}) /\ v.scanning = g.scanning
  <2> DEFINE x == [g EXCEPT !.ckPeers = Cardinality(asked), !.agreed = 0,
                            !.verified = (asked = {})]
  <2>0. Cardinality(asked) \in Int
    OBVIOUS
  <2>1. PgOK(x) /\ (x.verified <=> asked = {}) /\ x.scanning = g.scanning
    <3>1. CASE asked = {}
      <4>1. x = [g EXCEPT !.ckPeers = Cardinality(asked), !.agreed = 0, !.verified = TRUE]
        BY <3>1
      <4> HIDE DEF x, asked
      <4>2. x = [f \in Fields |-> x[f]]
        BY <4>1 DEF PgOK, Fields
      <4>3. /\ x.ckPeers = Cardinality(asked) /\ x.agreed = 0 /\ x.verified = TRUE
            /\ x.start = g.start /\ x.hdrTip = g.hdrTip /\ x.floor = g.floor
            /\ x.syncStarted = g.syncStarted /\ x.scanning = g.scanning
        BY <4>1 DEF PgOK, Fields
      <4>4. x.agreed \in Int /\ x.ckPeers \in Int
        BY <4>3, <2>0
      <4>5. PgOK(x)
        BY <4>2, <4>3, <4>4 DEF PgOK
      <4> QED BY <3>1, <4>3, <4>5
    <3>2. CASE asked # {}
      <4>1. x = [g EXCEPT !.ckPeers = Cardinality(asked), !.agreed = 0, !.verified = FALSE]
        BY <3>2
      <4> HIDE DEF x, asked
      <4>2. x = [f \in Fields |-> x[f]]
        BY <4>1 DEF PgOK, Fields
      <4>3. /\ x.ckPeers = Cardinality(asked) /\ x.agreed = 0 /\ x.verified = FALSE
            /\ x.start = g.start /\ x.hdrTip = g.hdrTip /\ x.floor = g.floor
            /\ x.syncStarted = g.syncStarted /\ x.scanning = g.scanning
        BY <4>1 DEF PgOK, Fields
      <4>4. x.agreed \in Int /\ x.ckPeers \in Int
        BY <4>3, <2>0
      <4>5. PgOK(x)
        BY <4>2, <4>3, <4>4 DEF PgOK
      <4> QED BY <3>2, <4>3, <4>5
    <3> QED BY <3>1, <3>2
  <2>2. v = [x EXCEPT !.syncStarted = FALSE, !.expected = NoIndex, !.counted = FALSE]
    OBVIOUS
  <2> HIDE DEF x, v, asked
  <2> QED BY <2>1, <2>2 DEF PgOK, Fields
<1>2. \/ pg' = v /\ hdrReq' = hdrReq
      \/ asked = {} /\ RequestCfheaders(v, p, hdrReq, up)
  BY DEF VerifyCfcheckpts
<1> HIDE DEF asked, v
<1>3. AskedOK(v, hdrReq)
  BY <1>1 DEF AskedOK
<1> QED BY <1>1, <1>2, <1>3, RequestKeeps

\* The number of peers asked for checkpoints is one.
LEMMA AskedCount == ASSUME NEW up PROVE Cardinality(FilterPeers \cap up) \in Int
<1>1. IsFiniteSet(FilterPeers \cap up)
  BY SyncPeersAssumption, FS_Subset
<1> QED BY <1>1, FS_CardinalityType

\* The height of the store's last record is a number.
LEMMA TipHeightInt == StoreOK => TipHeight \in Int
<1> SUFFICES ASSUME StoreOK, entries # <<>> PROVE entries[Len(entries)].height \in Int
  BY DEF TipHeight
<1>1. entries[Len(entries)] \in RecordSet
  BY DEF StoreOK
<1> QED BY <1>1 DEF RecordSet

\* peergroup_download_filtered_blocks
LEMMA DownloadKeeps ==
    ASSUME IInv, NEW p \in Peers, NEW up, state \in {"HEADERS", "TXDB"},
           state = "HEADERS" => pg.driver = p,
           DownloadFilteredBlocks(p, up)
    PROVE  PgOK(pg') /\ AskedOK(pg', hdrReq') /\ state' = "TXDB"
<1>0. tip \in Int /\ Floors \subseteq Int /\ Cardinality(FilterPeers \cap up) \in Int
  <2>1. tip \in Int /\ Floors \subseteq Int
    BY SyncHeightsAssumption DEF IInv, StoreOK
  <2>2. Cardinality(FilterPeers \cap up) \in Int
    BY AskedCount
  <2> QED BY <2>1, <2>2
<1>1. CASE pg.driver \notin {NoPeer, p}
  <2>1. state' = "TXDB" /\ hdrReq' = hdrReq
    BY <1>1 DEF DownloadFilteredBlocks
  <2>2. CASE state = "TXDB" /\ pg.verified /\ pg.start > pg.hdrTip
    <3>1. pg' = [pg EXCEPT !.scanning = TRUE]
      BY <1>1, <2>2 DEF DownloadFilteredBlocks
    <3>2. /\ PgOK(pg') /\ pg'.verified = pg.verified /\ pg'.start = pg.start
          /\ pg'.hdrTip = pg.hdrTip /\ pg'.syncStarted = pg.syncStarted
      BY <3>1 DEF IInv, PgOK, Fields
    <3> QED BY <2>1, <2>2, <3>2 DEF IInv, AskedOK
  <2>3. CASE ~(state = "TXDB" /\ pg.verified /\ pg.start > pg.hdrTip)
    <3>1. pg' = pg
      BY <1>1, <2>3 DEF DownloadFilteredBlocks
    <3> QED BY <2>1, <3>1 DEF IInv
  <2> QED BY <2>2, <2>3
<1>2. CASE pg.driver \in {NoPeer, p}
  <2> DEFINE d == [pg EXCEPT !.driver = p]
  <2>1. /\ PgOK(d) /\ d.verified = pg.verified /\ d.start = pg.start
        /\ d.hdrTip = pg.hdrTip /\ d.syncStarted = pg.syncStarted
        /\ d.scanning = pg.scanning
    BY DEF IInv, PgOK, Fields
  <2>2. state' = "TXDB"
    BY <1>2 DEF DownloadFilteredBlocks
  <2>3. PICK f \in Int :
          LET g == IF state = "HEADERS" THEN LaidOut(d, f) ELSE d
          IN  \/ ~g.verified /\ VerifyCfcheckpts(g, p, up)
              \/ g.verified /\ RequestCfheaders(g, p, hdrReq, up)
              \/ /\ g.verified /\ g.start > g.hdrTip
                 /\ pg' = [g EXCEPT !.scanning = TRUE] /\ hdrReq' = hdrReq
    BY <1>0, <1>2 DEF DownloadFilteredBlocks, IInv, PgOK
  <2> HIDE DEF d
  <2> DEFINE g == IF state = "HEADERS" THEN LaidOut(d, f) ELSE d
  <2>4. PgOK(g) /\ AskedOK(g, hdrReq)
    <3>1. CASE state = "HEADERS"
      <4>1. PgOK(g) /\ g.verified = d.verified /\ g.scanning = d.scanning
        <5>1. TipHeight + 1 \in Int
          BY TipHeightInt DEF IInv
        <5>2. ASSUME NEW n \in Int, NEW h
              PROVE  LET w == [d EXCEPT !.floor = f, !.hdrTip = tip, !.start = n, !.prev = h]
                     IN  PgOK(w) /\ w.verified = d.verified /\ w.scanning = d.scanning
          BY <1>0, <2>1 DEF PgOK, Fields
        <5> QED BY <3>1, <5>1, <5>2 DEF LaidOut
      <4>2. ~pg.verified /\ ~pg.scanning /\ \A q \in Peers : hdrReq[q] = <<>>
        BY <3>1 DEF IInv, PhaseOK, AskedOK
      <4> QED BY <4>1, <4>2, <2>1 DEF IInv, AskedOK
    <3>2. CASE state # "HEADERS"
      BY <3>2, <2>1 DEF IInv, AskedOK
    <3> QED BY <3>1, <3>2
  <2>5. \/ ~g.verified /\ VerifyCfcheckpts(g, p, up)
        \/ g.verified /\ RequestCfheaders(g, p, hdrReq, up)
        \/ /\ g.verified /\ g.start > g.hdrTip
           /\ pg' = [g EXCEPT !.scanning = TRUE] /\ hdrReq' = hdrReq
    BY <2>3
  <2> HIDE DEF g
  <2>6. CASE /\ g.verified /\ g.start > g.hdrTip
             /\ pg' = [g EXCEPT !.scanning = TRUE] /\ hdrReq' = hdrReq
    <3>1. /\ PgOK(pg') /\ pg'.verified = g.verified /\ pg'.start = g.start
          /\ pg'.hdrTip = g.hdrTip /\ pg'.syncStarted = g.syncStarted
      BY <2>4, <2>6 DEF PgOK, Fields
    <3> QED BY <2>2, <2>4, <2>6, <3>1 DEF AskedOK
  <2> QED BY <1>0, <2>2, <2>4, <2>5, <2>6, VerifyKeeps, RequestKeeps
<1> QED BY <1>1, <1>2

-----------------------------------------------------------------------------
(* The store *)

\* The records of a batch are records.
LEMMA RecordsType ==
    ASSUME StoreOK, NEW p \in Peers, NEW r \in Request, NEW h \in Int, NEW n \in Nat
    PROVE  /\ Records(p, r, h, n) \in Seq(RecordSet)
           /\ Len(Records(p, r, h, n)) = n
           /\ entries \o Records(p, r, h, n) \in Seq(RecordSet)
<1> DEFINE rec(i) == [height |-> h + i - 1, header |-> Header(index[p], r.start + i - 1)]
<1>1. ASSUME NEW i \in 1..n PROVE rec(i) \in RecordSet
  <2>1. Header(index[p], r.start + i - 1) \in HeaderSet
    BY DEF Header, ZeroHeader, HeaderSet, StoreOK, Request
  <2> QED BY <2>1 DEF RecordSet
<1>2. Records(p, r, h, n) = [i \in 1..n |-> rec(i)]
  BY DEF Records
<1> HIDE DEF rec
<1>3. Records(p, r, h, n) \in Seq(RecordSet) /\ Len(Records(p, r, h, n)) = n
  BY <1>1, <1>2
<1> QED BY <1>3, ConcatProperties DEF StoreOK

\* Writing records keeps the file well formed.
LEMMA AppendedType ==
    ASSUME StoreOK, NEW es \in Seq(RecordSet), NEW rest \in Seq(RecordSet),
           Appended(es, rest)
    PROVE  disk' \in [count : Nat, recs : Seq(RecordSet)]
<1>1. es \o rest \in Seq(RecordSet) /\ Len(es) \in Nat
  BY ConcatProperties, LenProperties
<1> QED BY <1>1 DEF Appended, StoreOK

\* So does one more record.
LEMMA OneRecord ==
    ASSUME StoreOK, NEW p \in Peers, NEW r \in Request, NEW h \in Int, NEW k \in Nat
    PROVE  /\ <<Records(p, r, h, k + 1)[k + 1]>> \in Seq(RecordSet)
           /\ LET more == entries \o Records(p, r, h, k + 1)
              IN  <<more[Len(more)]>> \in Seq(RecordSet)
<1>1. /\ Records(p, r, h, k + 1) \in Seq(RecordSet) /\ Len(Records(p, r, h, k + 1)) = k + 1
      /\ entries \o Records(p, r, h, k + 1) \in Seq(RecordSet)
  BY RecordsType
<1>2. Records(p, r, h, k + 1)[k + 1] \in RecordSet
  BY <1>1, ElementOfSeq
<1>3. Len(entries \o Records(p, r, h, k + 1)) = Len(entries) + k + 1
  <2>1. entries \in Seq(RecordSet) /\ Len(entries) \in Nat
    BY LenProperties DEF StoreOK
  <2>2. Len(entries \o Records(p, r, h, k + 1)) = Len(entries) + Len(Records(p, r, h, k + 1))
    BY <1>1, <2>1, ConcatProperties
  <2> QED BY <1>1, <2>1, <2>2
<1>4. (entries \o Records(p, r, h, k + 1))[Len(entries) + k + 1] \in RecordSet
  <2>1. Len(entries) \in Nat
    BY LenProperties DEF StoreOK
  <2> QED BY <1>1, <1>3, <2>1, ElementOfSeq
<1> QED BY <1>2, <1>3, <1>4

\* Loading keeps it well formed.
LEMMA LoadedType ==
    ASSUME NEW d \in [count : Nat, recs : Seq(RecordSet)]
    PROVE  Loaded(d) \in Seq(RecordSet) /\ Len(Loaded(d)) \in Nat
<1> DEFINE m == IF d.count < Len(d.recs) THEN d.count ELSE Len(d.recs)
<1>1. m \in 0..Len(d.recs) /\ d.recs \in Seq(RecordSet)
  BY LenProperties
<1>2. Loaded(d) = SubSeq(d.recs, 1, m)
  BY DEF Loaded
<1> HIDE DEF m
<1>3. SubSeq(d.recs, 1, m) \in Seq(RecordSet)
  BY <1>1
<1> QED BY <1>2, <1>3, LenProperties

-----------------------------------------------------------------------------
(* The actions keep the invariant *)

\* The first run starts with the invariant.
LEMMA InitInv == Init => IInv
<1> SUFFICES ASSUME Init PROVE IInv
  OBVIOUS
<1>1. PgOK(pg) /\ ~pg.scanning /\ ~pg.verified /\ pg.ckPeers = 0
  BY DEF Init, FreshPg, PgOK, Fields
<1>2. StoreOK
  BY SyncPeersAssumption, SyncHeightsAssumption DEF Init, StoreOK
<1>3. AskedOK(pg, hdrReq) /\ PhaseOK
  BY <1>1 DEF Init, AskedOK, PhaseOK
<1> QED BY <1>1, <1>2, <1>3 DEF IInv

\* Steps that leave the sync alone, or end the process.
LEMMA QuietInv ==
    ASSUME IInv, UNCHANGED pg, StoreOK',
           \/ state' = state /\ hdrReq' = hdrReq
           \/ state' = "READY" /\ state = "TXDB" /\ pg.scanning /\ hdrReq' = hdrReq
           \/ state' = "DOWN" /\ hdrReq' = [p \in Peers |-> <<>>],
           panic' # "cfheaders"
    PROVE  IInv'
<1>1. CASE state' = state /\ hdrReq' = hdrReq
  BY <1>1 DEF IInv, AskedOK, PhaseOK
<1>2. CASE state' = "READY" /\ state = "TXDB" /\ pg.scanning /\ hdrReq' = hdrReq
  <2>1. \A p \in Peers : hdrReq[p] = <<>>
    BY <1>2 DEF IInv, AskedOK, PgOK
  <2> QED BY <1>2, <2>1 DEF IInv, AskedOK, PhaseOK
<1>3. CASE state' = "DOWN" /\ hdrReq' = [p \in Peers |-> <<>>]
  <2>1. hdrReq' \in [Peers -> Seq(Request)] /\ \A p \in Peers : hdrReq'[p] = <<>>
    BY <1>3
  <2> QED BY <1>3, <2>1 DEF IInv, AskedOK, PhaseOK
<1> QED BY <1>1, <1>2, <1>3

\* A new run starts with an empty group.
LEMMA StartInv == ASSUME IInv, Start PROVE IInv'
<1>1. PgOK(pg') /\ ~pg'.scanning /\ ~pg'.verified /\ pg'.ckPeers = 0
  BY DEF Start, FreshPg, PgOK, Fields
<1>2. Loaded(disk) \in Seq(RecordSet) /\ Len(Loaded(disk)) \in Nat
  BY LoadedType DEF IInv, StoreOK
<1>3. StoreOK'
  <2>1. tip' \in Nat
    BY SyncHeightsAssumption DEF Start, IInv, StoreOK
  <2>2. entries' \in Seq(RecordSet)
    <3>1. <<>> \in Seq(RecordSet)
      OBVIOUS
    <3>2. entries' \in {Loaded(disk), <<>>}
      BY DEF Start
    <3> QED BY <1>2, <3>1, <3>2
  <2>3. disk' \in [count : Nat, recs : Seq(RecordSet)]
    BY <1>2 DEF Start, IInv, StoreOK
  <2> QED BY <2>1, <2>2, <2>3 DEF Start, IInv, StoreOK
<1>4. /\ state' = "HEADERS" /\ panic' = "none" /\ hdrReq' = hdrReq
      /\ \A p \in Peers : hdrReq[p] = <<>>
  BY DEF Start, netVars, IInv, PhaseOK
<1>5. AskedOK(pg, hdrReq)' /\ PhaseOK'
  BY <1>1, <1>4 DEF IInv, AskedOK, PhaseOK
<1> QED BY <1>1, <1>3, <1>5 DEF IInv

\* A handler that ends with the peer destroyed.
LEMMA GoneInv ==
    ASSUME IInv, Running, NEW p \in Peers, Gone(pg, p), UNCHANGED <<state, panic>>, StoreOK'
    PROVE  IInv'
<1>1. /\ PgOK(pg') /\ AskedOK(pg', hdrReq')
      /\ pg'.scanning \/ state # "READY"
      /\ state = "HEADERS" => pg'.ckPeers = 0 /\ ~pg'.verified
      /\ state # "TXDB" => \A q \in Peers : hdrReq'[q] = <<>>
  BY GoneKeeps
<1>2. PhaseOK'
  BY <1>1 DEF IInv, PhaseOK
<1> QED BY <1>1, <1>2 DEF IInv

\* A handler that ends in the filter phase.
LEMMA SyncedInv ==
    ASSUME IInv, state' = "TXDB", panic' = panic, StoreOK', PgOK(pg'), AskedOK(pg', hdrReq')
    PROVE  IInv'
BY DEF IInv, PhaseOK

\* peergroup_handle_handshake_ok keeps it.
LEMMA HandshakeInv == ASSUME IInv, NEW p \in Peers, HandshakeOk(p) PROVE IInv'
<1>1. StoreOK' /\ panic' = panic
  BY DEF HandshakeOk, IInv, StoreOK, storeVars
<1>2. CASE state = "HEADERS"
  <2>1. /\ pg' = [pg EXCEPT !.driver = IF @ = NoPeer THEN p ELSE @]
        /\ hdrReq' = hdrReq /\ state' = state
    BY <1>2 DEF HandshakeOk
  <2>2. /\ PgOK(pg') /\ pg'.verified = pg.verified /\ pg'.scanning = pg.scanning
        /\ pg'.ckPeers = pg.ckPeers /\ pg'.start = pg.start /\ pg'.hdrTip = pg.hdrTip
        /\ pg'.syncStarted = pg.syncStarted
    BY <2>1 DEF IInv, PgOK, Fields
  <2> QED BY <1>1, <1>2, <2>1, <2>2 DEF IInv, AskedOK, PhaseOK
<1>3. CASE state = "TXDB"
  <2>1. DownloadFilteredBlocks(p, Up \cup {p})
    BY <1>3 DEF HandshakeOk
  <2>2. PgOK(pg') /\ AskedOK(pg', hdrReq') /\ state' = "TXDB"
    BY <1>3, <2>1, DownloadKeeps
  <2> QED BY <1>1, <2>2, SyncedInv
<1>4. CASE state = "READY"
  <2>1. UNCHANGED <<pg, state, hdrReq>> /\ panic' # "cfheaders"
    BY <1>1, <1>4 DEF HandshakeOk, IInv, PhaseOK
  <2> QED BY <1>1, <2>1, QuietInv
<1> QED BY <1>2, <1>3, <1>4 DEF HandshakeOk

\* peergroup_handle_cfcheckpt keeps it.
LEMMA HandleCfcheckptInv == ASSUME IInv, NEW p \in Peers, HandleCfcheckpt(p) PROVE IInv'
<1>1. StoreOK' /\ Running
  BY DEF HandleCfcheckpt, IInv, StoreOK, storeVars
<1>2. CASE Panic("cfcheckpt")
  <2>1. UNCHANGED pg /\ state' = "DOWN" /\ hdrReq' = [q \in Peers |-> <<>>]
        /\ panic' = "cfcheckpt"
    BY <1>2 DEF Panic
  <2> QED BY <1>1, <2>1, QuietInv
<1>3. CASE Gone(pg, p) /\ UNCHANGED <<state, panic>>
  BY <1>1, <1>3, GoneInv
<1>4. CASE /\ state = "TXDB" /\ UNCHANGED <<state, panic>>
           /\ MaybeComplete([pg EXCEPT !.counted = TRUE, !.expected = Answer(p),
                                       !.agreed = @ + 1], p, hdrReq, Up)
  <2> DEFINE g == [pg EXCEPT !.counted = TRUE, !.expected = Answer(p), !.agreed = @ + 1]
  <2>1. /\ PgOK(g) /\ g.verified = pg.verified /\ g.scanning = pg.scanning
        /\ g.start = pg.start /\ g.hdrTip = pg.hdrTip /\ g.syncStarted = pg.syncStarted
    <3>1. /\ g = [f \in Fields |-> g[f]] /\ g.agreed = pg.agreed + 1
          /\ g.ckPeers = pg.ckPeers /\ g.floor = pg.floor
          /\ g.verified = pg.verified /\ g.scanning = pg.scanning
          /\ g.start = pg.start /\ g.hdrTip = pg.hdrTip /\ g.syncStarted = pg.syncStarted
      BY DEF IInv, PgOK, Fields
    <3> HIDE DEF g
    <3> QED BY <3>1 DEF IInv, PgOK
  <2>2. MaybeComplete(g, p, hdrReq, Up)
    BY <1>4
  <2> HIDE DEF g
  <2>3. AskedOK(g, hdrReq)
    BY <2>1 DEF IInv, AskedOK
  <2>4. PgOK(pg') /\ AskedOK(pg', hdrReq')
    BY <2>1, <2>2, <2>3, CompleteKeeps
  <2> QED BY <1>1, <1>4, <2>4, SyncedInv
<1> QED BY <1>2, <1>3, <1>4 DEF HandleCfcheckpt

\* The batch that is answered was the only one asked for.
LEMMA AnsweredBatch ==
    ASSUME IInv, NEW p \in Peers, hdrReq[p] # <<>>
    PROVE  /\ Head(hdrReq[p]) \in Request
           /\ Tail(hdrReq[p]) = <<>>
           /\ state = "TXDB" /\ pg.verified /\ pg.start =< pg.hdrTip
           /\ \A q \in Peers \ {p} : hdrReq[q] = <<>>
<1>1. hdrReq[p] \in Seq(Request) /\ Len(hdrReq[p]) = 1
  BY DEF IInv, AskedOK
<1>2. Head(hdrReq[p]) \in Request
  BY <1>1
<1>3. Tail(hdrReq[p]) = <<>>
  <2>1. hdrReq[p] # <<>> /\ hdrReq[p] \in Seq(Request)
    BY <1>1
  <2>2. Tail(hdrReq[p]) \in Seq(Request) /\ Len(Tail(hdrReq[p])) = Len(hdrReq[p]) - 1
    BY <2>1, HeadTailProperties
  <2>3. Len(Tail(hdrReq[p])) = 0
    BY <1>1, <2>2
  <2> QED BY <2>2, <2>3, EmptySeq
<1> QED BY <1>2, <1>3 DEF IInv, AskedOK, PhaseOK

\* peergroup_handle_cfheaders keeps it.
LEMMA HandleCfheadersInv == ASSUME IInv, NEW p \in Peers, HandleCfheaders(p) PROVE IInv'
<1> DEFINE r == Head(hdrReq[p])
           h == TipHeight + 1
           n == r.stop - r.start + 1
<1>1. /\ hdrReq[p] # <<>> /\ Running /\ state = "TXDB"
      /\ r \in Request /\ Tail(hdrReq[p]) = <<>> /\ pg.verified
      /\ \A q \in Peers \ {p} : hdrReq[q] = <<>>
  <2>1. hdrReq[p] # <<>> /\ Running
    BY DEF HandleCfheaders
  <2> QED BY <2>1, AnsweredBatch
<1>2. h \in Int /\ n \in Int
  BY <1>1, TipHeightInt DEF IInv, Request
<1>3. \/ Gone(pg, p) /\ UNCHANGED <<state, storeVars, panic, tip, index>>
      \/ /\ entries' = entries \o Records(p, r, h, n)
         /\ Appended(entries', <<>>)
         /\ NextBatch(p, r, h)
         /\ UNCHANGED <<state, panic, tip, index>>
  BY <1>1 DEF HandleCfheaders
<1>4. CASE Gone(pg, p) /\ UNCHANGED <<state, storeVars, panic, tip, index>>
  <2>1. StoreOK'
    BY <1>4 DEF IInv, StoreOK, storeVars
  <2> QED BY <1>1, <1>4, <2>1, GoneInv
<1>5. CASE /\ entries' = entries \o Records(p, r, h, n)
           /\ Appended(entries', <<>>)
           /\ NextBatch(p, r, h)
           /\ UNCHANGED <<state, panic, tip, index>>
  <2> DEFINE g == [pg EXCEPT !.prev = Header(index[p], r.stop), !.start = h + n,
                             !.syncStarted = FALSE]
             reqs == [hdrReq EXCEPT ![p] = Tail(@)]
  <2>1. entries' \in Seq(RecordSet)
    <3>1. CASE n \in Nat
      BY <3>1, <1>1, <1>2, <1>5, RecordsType DEF IInv
    <3>2. CASE n \notin Nat
      <4>1. Records(p, r, h, n) = <<>>
        BY <3>2, <1>2 DEF Records
      <4>2. entries \o <<>> = entries
        BY DEF IInv, StoreOK
      <4> QED BY <1>5, <4>1, <4>2 DEF IInv, StoreOK
    <3> QED BY <3>1, <3>2
  <2>2. StoreOK'
    <3>1. <<>> \in Seq(RecordSet)
      OBVIOUS
    <3>2. disk' \in [count : Nat, recs : Seq(RecordSet)]
      BY <2>1, <3>1, <1>5, AppendedType DEF IInv
    <3> QED BY <2>1, <3>2, <1>5 DEF IInv, StoreOK
  <2>3. \/ RequestCfheaders(g, p, reqs, Up)
        \/ /\ g.start > g.hdrTip
           /\ pg' = [g EXCEPT !.scanning = TRUE] /\ hdrReq' = reqs
    BY <1>5 DEF NextBatch
  <2>4. /\ PgOK(g) /\ g.verified = pg.verified /\ g.scanning = pg.scanning
    <3> HIDE DEF h, n, r
    <3>1. /\ g = [f \in Fields |-> g[f]] /\ g.agreed = pg.agreed
          /\ g.ckPeers = pg.ckPeers /\ g.floor = pg.floor
          /\ g.verified = pg.verified /\ g.scanning = pg.scanning
          /\ g.start = h + n /\ g.hdrTip = pg.hdrTip /\ g.syncStarted = FALSE
      BY DEF IInv, PgOK, Fields
    <3> HIDE DEF g
    <3>2. g.start \in Int
      BY <3>1, <1>2
    <3> QED BY <3>1, <3>2 DEF IInv, PgOK
  <2>5. reqs \in [Peers -> Seq(Request)] /\ \A q \in Peers : reqs[q] = <<>>
    BY <1>1 DEF IInv, AskedOK
  <2> HIDE DEF g, reqs
  <2>6. AskedOK(g, reqs)
    <3>1. ~pg.scanning
      BY <1>1, AnsweredBatch DEF IInv, AskedOK, PgOK
    <3> QED BY <2>4, <2>5, <3>1 DEF AskedOK
  <2>7. PgOK(pg') /\ AskedOK(pg', hdrReq')
    <3>1. CASE g.start > g.hdrTip /\ pg' = [g EXCEPT !.scanning = TRUE] /\ hdrReq' = reqs
      <4>1. /\ PgOK(pg') /\ pg'.verified = g.verified /\ pg'.start = g.start
            /\ pg'.hdrTip = g.hdrTip
        BY <3>1, <2>4 DEF PgOK, Fields
      <4> QED BY <4>1, <3>1, <2>4, <2>5, <1>1 DEF AskedOK
    <3>2. CASE RequestCfheaders(g, p, reqs, Up)
      BY <3>2, <1>1, <2>4, <2>6, RequestKeeps
    <3> QED BY <2>3, <3>1, <3>2
  <2> QED BY <1>1, <1>5, <2>2, <2>7, SyncedInv
<1> QED BY <1>3, <1>4, <1>5

\* A write that fails inside the batch keeps it.
LEMMA WriteFailsInv == ASSUME IInv, NEW p \in Peers, WriteFails(p) PROVE IInv'
<1> DEFINE r == Head(hdrReq[p])
           h == TipHeight + 1
<1>1. /\ hdrReq[p] # <<>> /\ state = "TXDB" /\ Gone(pg, p)
      /\ UNCHANGED <<state, panic, tip, index>>
  BY DEF WriteFails
<1>2. r \in Request /\ h \in Int
  BY <1>1, AnsweredBatch, TipHeightInt DEF IInv
<1>3. PICK k \in 0..(r.stop - r.start), inStore \in BOOLEAN :
        LET es   == entries \o Records(p, r, h, k)
            more == entries \o Records(p, r, h, k + 1)
        IN  /\ entries' = IF inStore THEN more ELSE es
            /\ Appended(es, IF inStore THEN <<more[Len(more)]>> ELSE <<>>)
  BY DEF WriteFails
<1> HIDE DEF r, h
<1>4. k \in Nat /\ k + 1 \in Nat
  BY <1>2 DEF Request
<1> DEFINE es   == entries \o Records(p, r, h, k)
           more == entries \o Records(p, r, h, k + 1)
           rest == IF inStore THEN <<more[Len(more)]>> ELSE <<>>
<1>5. es \in Seq(RecordSet) /\ more \in Seq(RecordSet)
  BY <1>2, <1>4, RecordsType DEF IInv
<1>6. rest \in Seq(RecordSet)
  <2>1. <<more[Len(more)]>> \in Seq(RecordSet)
    BY <1>2, <1>4, OneRecord DEF IInv
  <2>2. <<>> \in Seq(RecordSet)
    OBVIOUS
  <2> QED BY <2>1, <2>2
<1>7. entries' \in {es, more} /\ Appended(es, rest)
  BY <1>3
<1> HIDE DEF es, more, rest
<1>8. StoreOK'
  <2>1. disk' \in [count : Nat, recs : Seq(RecordSet)]
    BY <1>5, <1>6, <1>7, AppendedType DEF IInv
  <2> QED BY <2>1, <1>1, <1>5, <1>7 DEF IInv, StoreOK
<1> QED BY <1>1, <1>8, GoneInv DEF Running

\* So does a process that dies inside the batch.
LEMMA CrashInBatchInv == ASSUME IInv, NEW p \in Peers, CrashInBatch(p) PROVE IInv'
<1> DEFINE r == Head(hdrReq[p])
           h == TipHeight + 1
<1>1. /\ hdrReq[p] # <<>>
      /\ state' = "DOWN" /\ hdrReq' = [q \in Peers |-> <<>>]
      /\ UNCHANGED <<pg, tip, index, entries, panic>>
  BY DEF CrashInBatch, Down
<1>2. r \in Request /\ h \in Int
  BY <1>1, AnsweredBatch, TipHeightInt DEF IInv
<1>3. PICK k \in 0..(r.stop - r.start), torn \in BOOLEAN :
        Appended(entries \o Records(p, r, h, k),
                 IF torn THEN <<Records(p, r, h, k + 1)[k + 1]>> ELSE <<>>)
  BY DEF CrashInBatch
<1> HIDE DEF r, h
<1>4. k \in Nat /\ k + 1 \in Nat
  BY <1>2 DEF Request
<1> DEFINE es   == entries \o Records(p, r, h, k)
           rest == IF torn THEN <<Records(p, r, h, k + 1)[k + 1]>> ELSE <<>>
<1>5. es \in Seq(RecordSet)
  BY <1>2, <1>4, RecordsType DEF IInv
<1>6. rest \in Seq(RecordSet)
  <2>1. <<Records(p, r, h, k + 1)[k + 1]>> \in Seq(RecordSet) /\ <<>> \in Seq(RecordSet)
    BY <1>2, <1>4, OneRecord DEF IInv
  <2> QED BY <2>1
<1>7. Appended(es, rest)
  BY <1>3
<1> HIDE DEF es, rest
<1>8. StoreOK'
  <2>1. disk' \in [count : Nat, recs : Seq(RecordSet)]
    BY <1>5, <1>6, <1>7, AppendedType DEF IInv
  <2> QED BY <2>1, <1>1 DEF IInv, StoreOK
<1>9. panic' # "cfheaders"
  BY <1>1 DEF IInv, PhaseOK
<1> QED BY <1>1, <1>8, <1>9, QuietInv

\* Every step keeps the invariant.
LEMMA NextInv == IInv /\ [Next]_vars => IInv'
<1> SUFFICES ASSUME IInv, [Next]_vars PROVE IInv'
  OBVIOUS
<1>1. ASSUME NEW p \in Peers, Dial(p) PROVE IInv'
  BY <1>1, QuietInv DEF Dial, IInv, StoreOK, PhaseOK, storeVars
<1>2. ASSUME NEW p \in Peers, Leave(p) PROVE IInv'
  <2>1. StoreOK'
    BY <1>2 DEF Leave, IInv, StoreOK, storeVars
  <2> QED BY <1>2, <2>1, GoneInv DEF Leave
<1>3. ASSUME NEW p \in Peers, LastHeaders(p) PROVE IInv'
  <2>1. StoreOK' /\ panic' = panic
    BY <1>3 DEF LastHeaders, IInv, StoreOK, storeVars
  <2>2. PgOK(pg') /\ AskedOK(pg', hdrReq') /\ state' = "TXDB"
    BY <1>3, DownloadKeeps DEF LastHeaders
  <2> QED BY <2>1, <2>2, SyncedInv
<1>4. CASE ScanDone
  BY <1>4, QuietInv DEF ScanDone, netVars, storeVars, IInv, StoreOK, PhaseOK
<1>5. CASE Crash
  BY <1>5, QuietInv DEF Crash, Down, IInv, StoreOK, PhaseOK
<1>6. CASE UNCHANGED vars
  BY <1>6, QuietInv DEF vars, netVars, storeVars, IInv, StoreOK, PhaseOK
<1> QED BY <1>1, <1>2, <1>3, <1>4, <1>5, <1>6, HandshakeInv, HandleCfcheckptInv,
           HandleCfheadersInv, WriteFailsInv, CrashInBatchInv, StartInv
        DEF Next, PeerStep

-----------------------------------------------------------------------------
(* Theorems *)

\* Every reachable state of the sync satisfies the invariant above.
THEOREM InvariantHolds == Spec => []IInv
<1> QED BY InitInv, NextInv, PTL DEF Spec

\* At most one batch of filter headers is under way, for the next height, and
\* peergroup_request_cfheaders asks for no other meanwhile.
THEOREM OneBatchAtATime == Spec => []SingleDriver
<1>1. IInv => SingleDriver
  BY DEF IInv, AskedOK, SingleDriver
<1> QED BY <1>1, InvariantHolds, PTL

\* The ASSERT of peergroup_handle_cfheaders holds: no answer comes when the
\* wallet is ready or the headers phase is not over.
THEOREM HeadersInTime == Spec => []NoLateHeaders
<1>1. IInv => NoLateHeaders
  BY DEF IInv, PhaseOK, NoLateHeaders
<1> QED BY <1>1, InvariantHolds, PTL

-----------------------------------------------------------------------------
(* The file has what the store has                                         *)

\* The peer that was asked is gone and nobody will be asked again in this run.
Dead(g, reqs) == /\ g.verified /\ g.syncStarted /\ g.start =< g.hdrTip
                 /\ \A p \in Peers : reqs[p] = <<>>

\* A new run would load what the store holds, until a write fails.
FileInv ==
    Running /\ hasStore => Loaded(disk) = entries \/ (state = "TXDB" /\ Dead(pg, hdrReq))

\* The sequence b begins with a.
Prefix(a, b) == Len(a) =< Len(b) /\ \A i \in 1..Len(a) : b[i] = a[i]

\* What cfheaderstore_init finds in a file.
LEMMA LoadedIs ==
    ASSUME NEW d \in [count : Nat, recs : Seq(RecordSet)]
    PROVE  /\ Len(Loaded(d)) =< d.count /\ Len(Loaded(d)) =< Len(d.recs)
           /\ Len(Loaded(d)) = d.count \/ Len(Loaded(d)) = Len(d.recs)
           /\ \A i \in 1..Len(Loaded(d)) : Loaded(d)[i] = d.recs[i]
<1> DEFINE m == IF d.count < Len(d.recs) THEN d.count ELSE Len(d.recs)
<1>1. /\ m \in 0..Len(d.recs) /\ d.recs \in Seq(RecordSet) /\ d.count \in Nat /\ m =< d.count
      /\ m = d.count \/ m = Len(d.recs)
  BY LenProperties
<1>2. Loaded(d) = SubSeq(d.recs, 1, m)
  BY DEF Loaded
<1> HIDE DEF m
<1>3. Len(SubSeq(d.recs, 1, m)) = m /\ \A i \in 1..m : SubSeq(d.recs, 1, m)[i] = d.recs[i]
  BY <1>1
<1> QED BY <1>1, <1>2, <1>3

\* The records of a batch that are written: nothing that was there is lost, and
\* without a failure the file has what the store has.
LEMMA AppendedLoads ==
    ASSUME StoreOK, Loaded(disk) = entries, NEW t \in Seq(RecordSet), NEW rest \in Seq(RecordSet),
           Appended(entries \o t, rest)
    PROVE  /\ Prefix(entries, Loaded(disk'))
           /\ rest = <<>> => Loaded(disk') = entries \o t
<1> DEFINE es == entries \o t
<1>1. entries \in Seq(RecordSet) /\ disk \in [count : Nat, recs : Seq(RecordSet)]
  BY DEF StoreOK
<1>2. /\ es \in Seq(RecordSet) /\ Len(es) = Len(entries) + Len(t)
      /\ Len(entries) \in Nat /\ Len(t) \in Nat /\ Len(rest) \in Nat
      /\ \A i \in 1..Len(entries) : es[i] = entries[i]
  BY <1>1
<1>3. /\ es \o rest \in Seq(RecordSet) /\ Len(es \o rest) = Len(es) + Len(rest)
      /\ \A i \in 1..Len(es) : (es \o rest)[i] = es[i]
  BY <1>2
<1>4. /\ disk'.count = (IF es = entries THEN disk.count ELSE Len(es))
      /\ disk'.recs = (IF es \o rest = entries THEN disk.recs ELSE es \o rest)
      /\ disk' \in [count : Nat, recs : Seq(RecordSet)]
  BY <1>2, AppendedType DEF Appended
<1>5. Len(entries) =< disk.count /\ Len(entries) =< Len(disk.recs)
      /\ \A i \in 1..Len(entries) : entries[i] = disk.recs[i]
  BY <1>1, LoadedIs
<1>6. disk.count \in Nat /\ Len(disk.recs) \in Nat /\ disk = [count |-> disk.count, recs |-> disk.recs]
  BY <1>1
<1> HIDE DEF es
<1>7. CASE es = entries /\ es \o rest = entries
  <2>1. disk' = [count |-> disk.count, recs |-> disk.recs]
    BY <1>7 DEF Appended, es
  <2>2. disk' = disk
    BY <1>6, <2>1
  <2> QED BY <1>7, <2>2 DEF Prefix, es
<1>8. CASE es \o rest # entries \/ es # entries
  <2>1. es \o rest # entries
    <3>1. es # entries => Len(t) # 0
      BY <1>1, EmptySeq, ConcatEmptySeq DEF es
    <3> QED BY <1>2, <1>3, <1>8, <3>1
  <2>2. disk'.recs = es \o rest
    BY <1>4, <2>1
  <2>3. /\ Len(Loaded(disk')) =< disk'.count /\ Len(Loaded(disk')) =< Len(es) + Len(rest)
        /\ Len(Loaded(disk')) = disk'.count \/ Len(Loaded(disk')) = Len(es) + Len(rest)
        /\ \A i \in 1..Len(Loaded(disk')) : Loaded(disk')[i] = (es \o rest)[i]
        /\ Loaded(disk') \in Seq(RecordSet) /\ Len(Loaded(disk')) \in Nat
    BY <1>3, <1>4, <2>2, LoadedIs, LoadedType
  <2>4. Len(entries) =< disk'.count /\ disk'.count \in Nat
    BY <1>2, <1>4, <1>5, <1>6
  <2>5. Len(entries) =< Len(Loaded(disk'))
    BY <1>2, <2>3, <2>4
  <2>6. Prefix(entries, Loaded(disk'))
    BY <1>2, <1>3, <2>3, <2>5 DEF Prefix
  <2>7. ASSUME rest = <<>> PROVE Loaded(disk') = es
    <3>1. Len(rest) = 0 /\ es \o rest = es /\ es # entries
      BY <1>2, <2>7, <1>8, ConcatEmptySeq
    <3>2. disk'.count = Len(es)
      BY <1>4, <3>1
    <3>3. Len(Loaded(disk')) = Len(es)
      BY <1>2, <2>3, <3>1, <3>2
    <3>4. \A i \in 1..Len(es) : Loaded(disk')[i] = es[i]
      BY <2>3, <3>1, <3>3
    <3> QED BY <1>2, <2>3, <3>3, <3>4, SeqEqual
  <2> QED BY <2>6, <2>7 DEF es
<1> QED BY <1>7, <1>8

\* Nobody is asked again, whatever happens but the end of the run.
LEMMA DeadGone ==
    ASSUME IInv, Dead(pg, hdrReq), NEW p \in Peers, Gone(pg, p)
    PROVE  Dead(pg', hdrReq')
<1> DEFINE g == [pg EXCEPT !.driver = IF @ = p THEN NoPeer ELSE @]
<1>1. /\ g.verified = pg.verified /\ g.start = pg.start
      /\ g.hdrTip = pg.hdrTip /\ g.syncStarted = pg.syncStarted
  BY DEF IInv, PgOK, Fields
<1>2. ~Awaiting(g)
  BY <1>1 DEF Awaiting, Dead
<1>3. pg' = g /\ hdrReq' = [hdrReq EXCEPT ![p] = <<>>]
  BY <1>2 DEF Gone
<1>4. \A q \in Peers : hdrReq'[q] = <<>>
  BY <1>3 DEF Dead, IInv, AskedOK
<1> HIDE DEF g
<1> QED BY <1>1, <1>3, <1>4 DEF Dead

\* Nor does another answer to getcfcheckpt, which comes after the agreement.
LEMMA DeadCheckpt ==
    ASSUME IInv, Dead(pg, hdrReq), NEW p \in Peers, NEW x,
           MaybeComplete([pg EXCEPT !.counted = TRUE, !.expected = x, !.agreed = @ + 1], p, hdrReq, Up)
    PROVE  Dead(pg', hdrReq')
<1> DEFINE g == [pg EXCEPT !.counted = TRUE, !.expected = x, !.agreed = @ + 1]
<1>1. /\ g.verified = pg.verified /\ g.start = pg.start
      /\ g.hdrTip = pg.hdrTip /\ g.syncStarted = pg.syncStarted
  BY DEF IInv, PgOK, Fields
<1>2. pg' = g /\ hdrReq' = hdrReq
  BY <1>1 DEF MaybeComplete, Dead
<1> HIDE DEF g
<1> QED BY <1>1, <1>2 DEF Dead

\* Nor does another call of peergroup_download_filtered_blocks.
LEMMA DeadDownload ==
    ASSUME IInv, Dead(pg, hdrReq), state = "TXDB", NEW p \in Peers, NEW up,
           DownloadFilteredBlocks(p, up)
    PROVE  Dead(pg', hdrReq')
<1> DEFINE g == [pg EXCEPT !.driver = p]
<1>1. /\ g.verified = pg.verified /\ g.start = pg.start
      /\ g.hdrTip = pg.hdrTip /\ g.syncStarted = pg.syncStarted
  BY DEF IInv, PgOK, Fields
<1>2. ~(pg.start > pg.hdrTip) /\ ~(g.start > g.hdrTip) /\ g.verified /\ g.syncStarted
  BY <1>1 DEF IInv, PgOK, Dead
<1>3. \/ pg' = pg /\ hdrReq' = hdrReq
      \/ RequestCfheaders(g, p, hdrReq, up)
  BY <1>2 DEF DownloadFilteredBlocks
<1> HIDE DEF g
<1>4. pg' \in {pg, g} /\ hdrReq' = hdrReq
  BY <1>2, <1>3 DEF RequestCfheaders
<1> QED BY <1>1, <1>4 DEF Dead

\* A batch that is answered finds the file and the store in agreement.
LEMMA AskedAgrees ==
    ASSUME IInv, FileInv, hasStore, NEW p \in Peers, hdrReq[p] # <<>>
    PROVE  Loaded(disk) = entries
BY AnsweredBatch DEF FileInv, Running, Dead

\* A write that fails leaves a run that asks nobody again.
LEMMA FailedIsDead ==
    ASSUME IInv, NEW p \in Peers, hdrReq[p] # <<>>, Gone(pg, p)
    PROVE  Dead(pg', hdrReq')
<1> DEFINE g == [pg EXCEPT !.driver = IF @ = p THEN NoPeer ELSE @]
<1>0. pg.verified /\ pg.syncStarted /\ pg.start =< pg.hdrTip /\ \A q \in Peers \ {p} : hdrReq[q] = <<>>
  BY DEF IInv, AskedOK
<1>1. /\ g.verified = pg.verified /\ g.start = pg.start
      /\ g.hdrTip = pg.hdrTip /\ g.syncStarted = pg.syncStarted
  BY DEF IInv, PgOK, Fields
<1>2. ~Awaiting(g)
  BY <1>0, <1>1 DEF Awaiting
<1>3. pg' = g /\ hdrReq' = [hdrReq EXCEPT ![p] = <<>>]
  BY <1>2 DEF Gone
<1>4. \A q \in Peers : hdrReq'[q] = <<>>
  BY <1>0, <1>3 DEF IInv, AskedOK
<1> HIDE DEF g
<1> QED BY <1>0, <1>1, <1>3, <1>4 DEF Dead

\* A new run would find all that it would have found before the step.
Kept == Prefix(Loaded(disk), Loaded(disk'))

\* A step that leaves the store and the file alone.
LEMMA StoreAlone ==
    ASSUME StoreOK, FileInv, UNCHANGED storeVars, state = "DOWN" => state' = "DOWN",
           state = "TXDB" /\ Dead(pg, hdrReq) =>
               state' = "DOWN" \/ (state' = "TXDB" /\ Dead(pg', hdrReq'))
    PROVE  FileInv' /\ Kept
<1>1. entries' = entries /\ hasStore' = hasStore /\ disk' = disk
  BY DEF storeVars
<1>2. Loaded(disk)' = Loaded(disk')
  BY DEF Loaded
<1>3. FileInv'
  BY <1>1, <1>2 DEF FileInv, Running
<1>4. Kept
  <2>1. Len(Loaded(disk)) \in Nat
    BY LoadedType DEF StoreOK
  <2> QED BY <1>1, <2>1 DEF Kept, Prefix
<1> QED BY <1>3, <1>4

\* peergroup_handle_cfheaders keeps the file and the store in agreement.
LEMMA CfheadersKeep ==
    ASSUME IInv, FileInv, NEW p \in Peers, HandleCfheaders(p)
    PROVE  FileInv' /\ Kept
<1> DEFINE r == Head(hdrReq[p])
           h == TipHeight + 1
           n == r.stop - r.start + 1
<1>1. /\ hdrReq[p] # <<>> /\ state = "TXDB" /\ r \in Request
  <2>1. hdrReq[p] # <<>>
    BY DEF HandleCfheaders
  <2> QED BY <2>1, AnsweredBatch
<1>2. h \in Int /\ n \in Int
  BY <1>1, TipHeightInt DEF IInv, Request
<1>3. \/ Gone(pg, p) /\ UNCHANGED <<state, storeVars, panic, tip, index>>
      \/ /\ entries' = entries \o Records(p, r, h, n) /\ hasStore
         /\ Appended(entries', <<>>)
         /\ UNCHANGED <<state, hasStore>>
  BY <1>1 DEF HandleCfheaders
<1>4. CASE Gone(pg, p) /\ UNCHANGED <<state, storeVars, panic, tip, index>>
  BY <1>1, <1>4, DeadGone, StoreAlone DEF IInv
<1>5. CASE /\ entries' = entries \o Records(p, r, h, n) /\ hasStore
           /\ Appended(entries', <<>>)
           /\ UNCHANGED <<state, hasStore>>
  <2> DEFINE t == Records(p, r, h, n)
  <2>1. t \in Seq(RecordSet)
    <3>1. CASE n \in Nat
      BY <3>1, <1>1, <1>2, RecordsType DEF IInv
    <3>2. CASE n \notin Nat
      <4>1. t = <<>>
        BY <3>2, <1>2 DEF Records
      <4>2. <<>> \in Seq(RecordSet)
        OBVIOUS
      <4> QED BY <4>1, <4>2, Zenon
    <3> QED BY <3>1, <3>2
  <2>2. Loaded(disk) = entries
    BY <1>1, <1>5, AskedAgrees
  <2>3. <<>> \in Seq(RecordSet) /\ Appended(entries \o t, <<>>)
    BY <1>5
  <2> HIDE DEF t
  <2>4. Prefix(entries, Loaded(disk')) /\ Loaded(disk') = entries \o t
    BY <2>1, <2>2, <2>3, AppendedLoads DEF IInv
  <2>5. entries' = entries \o t
    BY <1>5 DEF t
  <2>6. Loaded(disk)' = Loaded(disk')
    BY DEF Loaded
  <2> QED BY <2>2, <2>4, <2>5, <2>6 DEF FileInv, Kept
<1> QED BY <1>3, <1>4, <1>5

\* A write that fails inside the batch takes nothing back.
LEMMA WriteFailsKeep ==
    ASSUME IInv, FileInv, NEW p \in Peers, WriteFails(p)
    PROVE  FileInv' /\ Kept
<1> DEFINE r == Head(hdrReq[p])
           h == TipHeight + 1
<1>1. /\ hdrReq[p] # <<>> /\ state = "TXDB" /\ hasStore /\ Gone(pg, p)
      /\ UNCHANGED <<state, panic, tip, index>>
  BY DEF WriteFails
<1>2. r \in Request /\ h \in Int
  BY <1>1, AnsweredBatch, TipHeightInt DEF IInv
<1>3. PICK k \in 0..(r.stop - r.start), inStore \in BOOLEAN :
        LET es   == entries \o Records(p, r, h, k)
            more == entries \o Records(p, r, h, k + 1)
        IN  Appended(es, IF inStore THEN <<more[Len(more)]>> ELSE <<>>)
  BY DEF WriteFails
<1> HIDE DEF r, h
<1>4. k \in Nat /\ k + 1 \in Nat
  BY <1>2 DEF Request
<1> DEFINE t    == Records(p, r, h, k)
           more == entries \o Records(p, r, h, k + 1)
           rest == IF inStore THEN <<more[Len(more)]>> ELSE <<>>
<1>5. t \in Seq(RecordSet)
  BY <1>2, <1>4, RecordsType DEF IInv
<1>6. rest \in Seq(RecordSet)
  <2>1. <<more[Len(more)]>> \in Seq(RecordSet)
    BY <1>2, <1>4, OneRecord DEF IInv
  <2>2. <<>> \in Seq(RecordSet)
    OBVIOUS
  <2> QED BY <2>1, <2>2
<1>7. Appended(entries \o t, rest)
  BY <1>3
<1> HIDE DEF t, more, rest
<1>8. Loaded(disk) = entries
  BY <1>1, AskedAgrees
<1>9. Kept
  BY <1>5, <1>6, <1>7, <1>8, AppendedLoads DEF IInv, Kept
<1>10. FileInv'
  BY <1>1, FailedIsDead DEF FileInv
<1> QED BY <1>9, <1>10

\* Nor does a process that dies inside the batch.
LEMMA CrashInBatchKeep ==
    ASSUME IInv, FileInv, NEW p \in Peers, CrashInBatch(p)
    PROVE  FileInv' /\ Kept
<1> DEFINE r == Head(hdrReq[p])
           h == TipHeight + 1
<1>1. hdrReq[p] # <<>> /\ hasStore /\ state' = "DOWN"
  BY DEF CrashInBatch, Down
<1>2. r \in Request /\ h \in Int
  BY <1>1, AnsweredBatch, TipHeightInt DEF IInv
<1>3. PICK k \in 0..(r.stop - r.start), torn \in BOOLEAN :
        Appended(entries \o Records(p, r, h, k),
                 IF torn THEN <<Records(p, r, h, k + 1)[k + 1]>> ELSE <<>>)
  BY DEF CrashInBatch
<1> HIDE DEF r, h
<1>4. k \in Nat /\ k + 1 \in Nat
  BY <1>2 DEF Request
<1> DEFINE t    == Records(p, r, h, k)
           rest == IF torn THEN <<Records(p, r, h, k + 1)[k + 1]>> ELSE <<>>
<1>5. t \in Seq(RecordSet)
  BY <1>2, <1>4, RecordsType DEF IInv
<1>6. rest \in Seq(RecordSet)
  <2>1. <<Records(p, r, h, k + 1)[k + 1]>> \in Seq(RecordSet) /\ <<>> \in Seq(RecordSet)
    BY <1>2, <1>4, OneRecord DEF IInv
  <2> QED BY <2>1
<1>7. Appended(entries \o t, rest)
  BY <1>3
<1> HIDE DEF t, rest
<1>8. Loaded(disk) = entries
  BY <1>1, AskedAgrees
<1>9. Kept
  BY <1>5, <1>6, <1>7, <1>8, AppendedLoads DEF IInv, Kept
<1>10. FileInv'
  BY <1>1 DEF FileInv, Running
<1> QED BY <1>9, <1>10

\* cfheaderstore_init: the count is made that of the records found.
LEMMA StartKeep == ASSUME IInv, FileInv, Start PROVE FileInv' /\ Kept
<1>1. disk \in [count : Nat, recs : Seq(RecordSet)]
  BY DEF IInv, StoreOK
<1>2. Loaded(disk) \in Seq(RecordSet) /\ Len(Loaded(disk)) \in Nat /\ Len(disk.recs) \in Nat
  BY <1>1, LoadedType
<1>3. Loaded(disk)' = Loaded(disk')
  BY DEF Loaded
<1>4. CASE /\ hasStore' = TRUE /\ entries' = Loaded(disk)
           /\ disk' = [disk EXCEPT !.count = Len(Loaded(disk))]
  <2>1. disk'.count = Len(Loaded(disk)) /\ disk'.recs = disk.recs
        /\ disk' \in [count : Nat, recs : Seq(RecordSet)]
    BY <1>1, <1>2, <1>4
  <2>2. Loaded(disk') \in Seq(RecordSet) /\ Len(Loaded(disk')) \in Nat
    BY <2>1, LoadedType
  <2>3. Len(Loaded(disk')) = Len(Loaded(disk))
    <3>1. Len(Loaded(disk)) =< Len(disk.recs)
      BY <1>1, LoadedIs
    <3>2. /\ Len(Loaded(disk')) =< Len(Loaded(disk))
          /\ Len(Loaded(disk')) = Len(Loaded(disk)) \/ Len(Loaded(disk')) = Len(disk.recs)
      BY <2>1, LoadedIs
    <3> QED BY <1>2, <2>2, <3>1, <3>2
  <2>4. \A i \in 1..Len(Loaded(disk)) : Loaded(disk')[i] = Loaded(disk)[i]
    <3>1. \A i \in 1..Len(Loaded(disk)) : Loaded(disk)[i] = disk.recs[i]
      BY <1>1, LoadedIs
    <3>2. \A i \in 1..Len(Loaded(disk')) : Loaded(disk')[i] = disk.recs[i]
      BY <2>1, LoadedIs
    <3> QED BY <2>3, <3>1, <3>2
  <2>5. Loaded(disk') = Loaded(disk)
    BY <1>2, <2>2, <2>3, <2>4, SeqEqual
  <2> QED BY <1>2, <1>3, <1>4, <2>5 DEF FileInv, Kept, Prefix
<1>5. CASE hasStore' = FALSE /\ UNCHANGED disk
  BY <1>2, <1>5 DEF FileInv, Kept, Prefix
<1> QED BY <1>4, <1>5 DEF Start

\* Every step keeps it, and takes back nothing of the file.
LEMMA NextKeep == ASSUME IInv, FileInv, [Next]_vars PROVE FileInv' /\ Kept
<1>0. StoreOK
  BY DEF IInv
<1>1. ASSUME NEW p \in Peers, Dial(p) PROVE FileInv' /\ Kept
  BY <1>0, <1>1, StoreAlone DEF Dial
<1>2. ASSUME NEW p \in Peers, Leave(p) PROVE FileInv' /\ Kept
  BY <1>0, <1>2, StoreAlone, DeadGone DEF Leave
<1>3. ASSUME NEW p \in Peers, LastHeaders(p) PROVE FileInv' /\ Kept
  <2>1. state = "HEADERS" /\ UNCHANGED storeVars
    BY <1>3 DEF LastHeaders
  <2> QED BY <1>0, <2>1, StoreAlone
<1>4. ASSUME NEW p \in Peers, HandshakeOk(p) PROVE FileInv' /\ Kept
  <2>1. state \in {"HEADERS", "TXDB", "READY"} /\ UNCHANGED storeVars
    BY <1>4 DEF HandshakeOk
  <2>2. ASSUME state = "TXDB", Dead(pg, hdrReq) PROVE state' = "TXDB" /\ Dead(pg', hdrReq')
    <3>1. DownloadFilteredBlocks(p, Up \cup {p})
      BY <1>4, <2>2 DEF HandshakeOk
    <3> QED BY <2>2, <3>1, DeadDownload, DownloadKeeps
  <2> QED BY <1>0, <2>1, <2>2, StoreAlone
<1>5. ASSUME NEW p \in Peers, HandleCfcheckpt(p) PROVE FileInv' /\ Kept
  <2>1. state # "DOWN" /\ UNCHANGED storeVars
    BY <1>5 DEF HandleCfcheckpt, Running
  <2>2. ASSUME state = "TXDB", Dead(pg, hdrReq) PROVE state' = "TXDB" /\ Dead(pg', hdrReq')
    BY <1>5, <2>2, DeadGone, DeadCheckpt DEF HandleCfcheckpt
  <2> QED BY <1>0, <2>1, <2>2, StoreAlone
<1>6. CASE ScanDone
  <2>1. state = "TXDB" /\ UNCHANGED storeVars /\ ~Dead(pg, hdrReq)
    BY <1>6 DEF ScanDone, Dead, IInv, AskedOK, PgOK
  <2> QED BY <1>0, <2>1, StoreAlone
<1>7. CASE Crash
  <2>1. state' = "DOWN" /\ UNCHANGED storeVars
    BY <1>7 DEF Crash, Down, storeVars
  <2> QED BY <1>0, <2>1, StoreAlone
<1>8. CASE UNCHANGED vars
  <2>1. UNCHANGED <<storeVars, state, pg, hdrReq>>
    BY <1>8 DEF vars, netVars
  <2> QED BY <1>0, <2>1, StoreAlone
<1> QED BY <1>1, <1>2, <1>3, <1>4, <1>5, <1>6, <1>7, <1>8, CfheadersKeep, WriteFailsKeep,
           CrashInBatchKeep, StartKeep DEF Next, PeerStep

\* No step takes back a record a new run would have found in cfheaders.dat,
\* whichever writes fail and wherever the process ends (cfheaderstore_append).
THEOREM FileNeverShrinks == Spec => NothingLost
<1>1. Init => FileInv
  BY DEF Init, FileInv, Running
<1>2. ASSUME IInv, Kept
      PROVE  /\ Len(Loaded(disk)) =< Len(Loaded(disk)')
             /\ SubSeq(Loaded(disk)', 1, Len(Loaded(disk))) = Loaded(disk)
  <2>1. Loaded(disk) \in Seq(RecordSet) /\ Len(Loaded(disk)) \in Nat
    BY <1>2, LoadedType DEF IInv, StoreOK
  <2>2. Len(Loaded(disk)) =< Len(Loaded(disk')) /\ \A i \in 1..Len(Loaded(disk)) : Loaded(disk')[i] = Loaded(disk)[i]
    BY <1>2 DEF Kept, Prefix
  <2>3. \A i \in 1..Len(Loaded(disk)) : Loaded(disk')[i] \in RecordSet
    BY <2>1, <2>2
  <2>4. /\ SubSeq(Loaded(disk'), 1, Len(Loaded(disk))) \in Seq(RecordSet)
        /\ Len(SubSeq(Loaded(disk'), 1, Len(Loaded(disk)))) = Len(Loaded(disk))
        /\ \A i \in 1..Len(Loaded(disk)) : SubSeq(Loaded(disk'), 1, Len(Loaded(disk)))[i] = Loaded(disk)[i]
    BY <2>1, <2>2, <2>3, SubSeqProperties
  <2>5. SubSeq(Loaded(disk'), 1, Len(Loaded(disk))) = Loaded(disk)
    BY <2>1, <2>4, SeqEqual
  <2>6. Loaded(disk)' = Loaded(disk')
    BY DEF Loaded
  <2> QED BY <2>2, <2>5, <2>6
<1>3. IInv /\ FileInv /\ [Next]_vars => FileInv'
  BY NextKeep
<1>4. IInv /\ FileInv /\ [Next]_vars =>
        [/\ Len(Loaded(disk)) =< Len(Loaded(disk)')
         /\ SubSeq(Loaded(disk)', 1, Len(Loaded(disk))) = Loaded(disk)]_vars
  BY <1>2, NextKeep
<1> QED BY <1>1, <1>3, <1>4, InvariantHolds, PTL DEF Spec, NothingLost

-----------------------------------------------------------------------------
(* The headers at their heights.  The rest is about peers that put their   *)
(* checkpoints where BIP157 says; see the README for the others.           *)

\* A store as a run from genesis fills it: the headers of one index.
Chain(es) ==
    \A i \in 1..Len(es) : /\ es[i].height = i - 1
                          /\ es[i].header = [ix |-> es[1].header.ix, height |-> i - 1]

\* The header before height n in the store es.
LastHeader(es) == IF es = <<>> THEN ZeroHeader ELSE es[Len(es)].header

\* The next batch follows the last record of the store.
Synced(es, g) == g.start = Len(es) /\ g.prev = LastHeader(es)

\* The birthday bound took the checkpoint at the start for the one before it:
\* no batch follows that.
Refused(es, g) == /\ es = <<>> /\ g.verified
                  /\ 0 < g.start /\ g.start =< g.hdrTip
                  /\ g.prev.height = g.start

\* Where the sync stands, for the store es.
StandOK(es, g, reqs) ==
    /\ Synced(es, g) \/ Refused(es, g) \/ Dead(g, reqs)
    /\ 0 =< g.floor /\ g.floor =< g.hdrTip
    /\ \A p \in Peers : reqs[p] # <<>> => reqs[p][1].start =< reqs[p][1].stop

\* The headers of the store and of the file, and what the sync goes on from.
ChainInv ==
    /\ Chain(entries) /\ Chain(disk.recs)
    /\ MinTip =< tip
    /\ state = "TXDB" => StandOK(entries, pg, hdrReq)
    /\ pg.scanning => Synced(entries, pg) /\ 0 =< pg.floor


\* The tip of such a store, and its header.
LEMMA ChainTip ==
    ASSUME StoreOK, Chain(entries)
    PROVE  /\ TipHeight = Len(entries) - 1 /\ Len(entries) \in Nat
           /\ entries # <<>> => GetHeader(TipHeight) = LastHeader(entries) /\ Len(entries) > 0
<1>1. entries \in Seq(RecordSet) /\ Len(entries) \in Nat
  BY LenProperties DEF StoreOK
<1>2. CASE entries = <<>>
  BY <1>2 DEF TipHeight
<1>3. CASE entries # <<>>
  <2>1. Len(entries) > 0 /\ 1 \in 1..Len(entries) /\ Len(entries) \in 1..Len(entries)
    BY <1>1, <1>3
  <2>2. entries[1].height = 0 /\ entries[Len(entries)].height = Len(entries) - 1
    <3>1. \A i \in 1..Len(entries) : entries[i].height = i - 1
      BY Zenon DEF Chain
    <3> QED BY <2>1, <3>1
  <2>3. TipHeight = Len(entries) - 1
    BY <1>3, <2>2 DEF TipHeight
  <2>4. GetHeader(TipHeight) = entries[Len(entries)].header
    <3>1. (Len(entries) - 1) - 0 + 1 = Len(entries)
      BY <1>1
    <3> QED BY <2>2, <2>3, <3>1 DEF GetHeader
  <2> QED BY <1>1, <1>3, <2>1, <2>3, <2>4 DEF LastHeader
<1> QED BY <1>2, <1>3

\* What a new run loads of such a file is such a store.
LEMMA ChainLoaded ==
    ASSUME NEW d \in [count : Nat, recs : Seq(RecordSet)], Chain(d.recs)
    PROVE  Chain(Loaded(d))
<1>1. /\ Len(Loaded(d)) =< Len(d.recs)
      /\ \A i \in 1..Len(Loaded(d)) : Loaded(d)[i] = d.recs[i]
      /\ Len(Loaded(d)) \in Nat /\ Len(d.recs) \in Nat
  BY LoadedIs, LoadedType
<1>2. ASSUME NEW i \in 1..Len(Loaded(d))
      PROVE  /\ Loaded(d)[i].height = i - 1
             /\ Loaded(d)[i].header = [ix |-> Loaded(d)[1].header.ix, height |-> i - 1]
  <2>1. i \in 1..Len(d.recs) /\ 1 \in 1..Len(Loaded(d))
    BY <1>1
  <2>2. Loaded(d)[i] = d.recs[i] /\ Loaded(d)[1] = d.recs[1]
    BY <1>1, <2>1
  <2> QED BY <2>1, <2>2 DEF Chain
<1> QED BY <1>2 DEF Chain

\* A batch of the peer whose headers the store ends with keeps it so.
LEMMA ChainGrows ==
    ASSUME StoreOK, Chain(entries), NEW p \in Peers, NEW r \in Request, NEW k \in Nat,
           r.start = Len(entries),
           entries # <<>> => LastHeader(entries) = Header(index[p], r.start - 1)
    PROVE  /\ Chain(entries \o Records(p, r, Len(entries), k))
           /\ Len(entries \o Records(p, r, Len(entries), k)) = Len(entries) + k
           /\ k > 0 => LastHeader(entries \o Records(p, r, Len(entries), k)) =
                           Header(index[p], r.start + k - 1)
<1> DEFINE n == Len(entries)
           t == Records(p, r, n, k)
           es == entries \o t
<1>1. entries \in Seq(RecordSet) /\ n \in Nat
  BY LenProperties DEF StoreOK
<1>2. /\ t \in Seq(RecordSet) /\ Len(t) = k
      /\ \A i \in 1..k : t[i] = [height |-> n + i - 1, header |-> Header(index[p], r.start + i - 1)]
  <2>1. t = [i \in 1..k |-> [height |-> n + i - 1, header |-> Header(index[p], r.start + i - 1)]]
    BY DEF Records
  <2>2. \A i \in 1..k : t[i] = [height |-> n + i - 1, header |-> Header(index[p], r.start + i - 1)]
    BY <2>1, Zenon
  <2>3. t \in Seq(RecordSet) /\ Len(t) = k
    BY <1>1, RecordsType
  <2> QED BY <2>2, <2>3
<1> HIDE DEF t
<1>3. /\ es \in Seq(RecordSet) /\ Len(es) = n + k
      /\ \A i \in 1..n : es[i] = entries[i]
      /\ \A i \in 1..k : es[n + i] = t[i]
  <2>1. t \in Seq(RecordSet) /\ Len(t) = k
    BY <1>2
  <2>2. /\ es \in Seq(RecordSet) /\ Len(es) = n + k
        /\ \A i \in 1..(n + k) : es[i] = IF i =< n THEN entries[i] ELSE t[i - n]
    BY <1>1, <2>1, ConcatProperties, ZenonT(60)
  <2>3. \A i \in 1..k : n + i \in 1..(n + k) /\ ~(n + i =< n) /\ (n + i) - n = i
    BY <1>1
  <2>4. \A i \in 1..n : i \in 1..(n + k) /\ i =< n
    BY <1>1
  <2> HIDE DEF es, n
  <2> QED BY <2>2, <2>3, <2>4
<1> HIDE DEF es
<1>4. ASSUME NEW i \in 1..k
      PROVE  es[n + i].height = n + i - 1 /\ es[n + i].header = [ix |-> index[p], height |-> n + i - 1]
  <2>1. Header(index[p], r.start + i - 1) = [ix |-> index[p], height |-> n + i - 1]
    BY <1>1 DEF Header
  <2>2. es[n + i] = [height |-> n + i - 1, header |-> [ix |-> index[p], height |-> n + i - 1]]
    BY <1>2, <1>3, <2>1, Zenon
  <2> QED BY <2>2
<1>5. ASSUME NEW i \in 1..n
      PROVE  es[i].height = i - 1 /\ es[i].header = [ix |-> entries[1].header.ix, height |-> i - 1]
  BY <1>3 DEF Chain
<1>6. n > 0 => entries[1].header.ix = index[p]
  <2>1. ASSUME n > 0 PROVE entries[1].header.ix = index[p]
    <3>1. n \in 1..n /\ entries # <<>>
      BY <1>1, <2>1
    <3>2. entries[n].header = [ix |-> entries[1].header.ix, height |-> n - 1]
      BY <3>1 DEF Chain
    <3>3. entries[n].header = Header(index[p], n - 1)
      BY <3>1 DEF LastHeader
    <3>4. Header(index[p], n - 1) = [ix |-> index[p], height |-> n - 1]
      BY <1>1, <2>1 DEF Header
    <3>5. [ix |-> entries[1].header.ix, height |-> n - 1].ix = [ix |-> index[p], height |-> n - 1].ix
      BY <3>2, <3>3, <3>4
    <3> QED BY <3>5
  <2> QED BY <2>1
<1>7. ASSUME NEW i \in 1..Len(es)
      PROVE  es[i].height = i - 1 /\ es[i].header = [ix |-> index[p], height |-> i - 1]
  <2>1. CASE i \in 1..n
    <3>1. n > 0
      BY <1>1, <2>1
    <3> QED BY <1>5, <1>6, <2>1, <3>1
  <2>2. CASE i > n
    <3>1. i - n \in 1..k /\ n + (i - n) = i
      BY <1>1, <1>3, <2>2
    <3>2. /\ es[n + (i - n)].height = n + (i - n) - 1
          /\ es[n + (i - n)].header = [ix |-> index[p], height |-> n + (i - n) - 1]
      BY <1>4, <3>1, Zenon
    <3>3. n + (i - n) - 1 = i - 1
      BY <1>1, <3>1
    <3> QED BY <3>1, <3>2, <3>3
  <2> QED BY <1>1, <2>1, <2>2
<1>8. Chain(es)
  <2>1. ASSUME NEW i \in 1..Len(es) PROVE es[1].header.ix = index[p]
    <3>1. 1 \in 1..Len(es)
      BY <1>1, <1>3, <2>1
    <3>2. es[1].header = [ix |-> index[p], height |-> 1 - 1]
      BY <1>7, <3>1, Zenon
    <3> QED BY <3>2
  <2> QED BY <1>7, <2>1 DEF Chain
<1>9. k > 0 => LastHeader(es) = Header(index[p], r.start + k - 1)
  <2>1. ASSUME k > 0 PROVE LastHeader(es) = Header(index[p], r.start + k - 1)
    <3>1. es # <<>> /\ Len(es) = n + k /\ k \in 1..k
      BY <1>1, <1>3, <2>1
    <3>2. es[n + k].header = [ix |-> index[p], height |-> n + k - 1]
      BY <1>4, <3>1
    <3>3. Header(index[p], r.start + k - 1) = [ix |-> index[p], height |-> n + k - 1]
      BY <1>1, <2>1 DEF Header
    <3> QED BY <3>1, <3>2, <3>3 DEF LastHeader
  <2> QED BY <2>1
<1> QED BY <1>3, <1>8, <1>9 DEF es, t

\* The fields of the group that say where the sync stands are the same.
SameStand(g, w) == /\ w.start = g.start /\ w.prev = g.prev
                   /\ w.floor = g.floor /\ w.hdrTip = g.hdrTip

\* peergroup_request_cfheaders does not move the sync.
LEMMA StandRequest ==
    ASSUME NEW es, NEW g, NEW p \in Peers, NEW reqs, NEW up, PgOK(g), AskedOK(g, reqs),
           g.verified, StandOK(es, g, reqs), RequestCfheaders(g, p, reqs, up)
    PROVE  StandOK(es, pg', hdrReq')
<1>1. CASE g.syncStarted
  BY <1>1 DEF RequestCfheaders
<1>2. CASE ~g.syncStarted /\ g.start > g.hdrTip
  <2>1. pg' = [g EXCEPT !.syncStarted = TRUE, !.scanning = TRUE] /\ hdrReq' = reqs
    BY <1>2 DEF RequestCfheaders, PgOK
  <2>2. SameStand(g, pg') /\ pg'.verified = g.verified
    BY <2>1 DEF PgOK, Fields, SameStand
  <2> QED BY <1>2, <2>1, <2>2 DEF StandOK, SameStand, Synced, Refused, Dead
<1>3. CASE ~g.syncStarted /\ g.start =< g.hdrTip
  <2> DEFINE r == [start |-> g.start, stop |-> BatchEnd(g)]
  <2>1. pg' = [g EXCEPT !.syncStarted = TRUE] /\ hdrReq' = Sent(reqs, p, r, up)
    BY <1>3 DEF RequestCfheaders, PgOK
  <2>2. SameStand(g, pg') /\ pg'.verified = g.verified
    BY <2>1 DEF PgOK, Fields, SameStand
  <2>3. r.start =< r.stop
    BY <1>3, SyncHeightsAssumption DEF BatchEnd, PgOK
  <2>4. reqs \in [Peers -> Seq(Request)] /\ \A q \in Peers : reqs[q] = <<>>
    BY <1>3 DEF AskedOK
  <2> HIDE DEF r
  <2>5. Append(<<>>, r)[1] = r
    OBVIOUS
  <2>6. \A q \in Peers : hdrReq'[q] # <<>> => hdrReq'[q][1] = r
    BY <2>1, <2>4, <2>5 DEF Sent
  <2>7. Synced(es, g) \/ Refused(es, g)
    BY <1>3 DEF StandOK, Dead
  <2> QED BY <2>2, <2>3, <2>6, <2>7 DEF StandOK, SameStand, Synced, Refused
<1> QED BY <1>1, <1>2, <1>3 DEF PgOK

\* A change of the other fields, the checkpoints still to be agreed on.
LEMMA StandSame ==
    ASSUME NEW es, NEW g, NEW w, NEW reqs, StandOK(es, g, reqs), ~g.verified, SameStand(g, w)
    PROVE  StandOK(es, w, reqs)
BY DEF StandOK, SameStand, Synced, Refused, Dead

\* The checkpoint below a height is not above it.
LEMMA AnchorBelow ==
    ASSUME NEW f \in Nat
    PROVE  (f \div Interval) * Interval =< f /\ (f \div Interval) * Interval \in Int
<1>1. Interval \in Nat \ {0}
  BY SyncHeightsAssumption
<1>2. f \div Interval \in Nat /\ f = Interval * (f \div Interval) + (f % Interval) /\ f % Interval \in Nat
  BY <1>1
<1>3. ASSUME NEW q \in Nat, NEW m \in Nat, f = Interval * q + m PROVE q * Interval =< f /\ q * Interval \in Int
  BY <1>1, <1>3
<1> QED BY <1>2, <1>3

\* peergroup_cfcheckpt_maybe_complete: the birthday bound leaves a sync that
\* stands where it did, or one that no batch follows.
LEMMA StandComplete ==
    ASSUME CheckpointLag = 0, StoreOK, Chain(entries),
           NEW g, NEW p \in Peers, NEW reqs, NEW up, PgOK(g), AskedOK(g, reqs),
           StandOK(entries, g, reqs), MaybeComplete(g, p, reqs, up)
    PROVE  StandOK(entries, pg', hdrReq')
<1>1. CASE pg' = g /\ hdrReq' = reqs
  BY <1>1
<1>2. CASE /\ ~g.verified
           /\ RequestCfheaders(BirthdayBound([g EXCEPT !.verified = TRUE]), p, reqs, up)
  <2> DEFINE v == [g EXCEPT !.verified = TRUE]
             w == BirthdayBound(v)
  <2>1. PgOK(v) /\ v.verified = TRUE /\ v.scanning = g.scanning /\ SameStand(g, v)
    BY DEF PgOK, Fields, SameStand
  <2> HIDE DEF v
  <2>2. StandOK(entries, v, reqs) /\ Synced(entries, v)
    BY <1>2, <2>1, StandSame DEF StandOK, Refused, Dead, Synced, SameStand
  <2>3. PgOK(w) /\ w.verified /\ w.scanning = g.scanning
    BY <2>1, BoundShape
  <2>4. AskedOK(w, reqs)
    <3> HIDE DEF w
    <3> QED BY <1>2, <2>3 DEF AskedOK
  <2>5. StandOK(entries, w, reqs)
    <3>1. CASE w = v
      BY <2>2, <3>1
    <3>2. CASE /\ ~(TipHeight >= 0) /\ ~(Anchor(v) =< 0)
               /\ w = [v EXCEPT !.start = Anchor(v), !.prev = Header(v.expected, Anchor(v) - CheckpointLag)]
      <4>1. v.floor \in Nat /\ v.floor =< v.hdrTip /\ v.hdrTip \in Int
        BY <2>1, <2>2 DEF StandOK, PgOK
      <4>2. Anchor(v) \in Int /\ Anchor(v) =< v.floor /\ Anchor(v) > 0
        BY <3>2, <4>1, AnchorBelow DEF Anchor
      <4>3. entries = <<>>
        <5>1. TipHeight = Len(entries) - 1 /\ Len(entries) \in Nat
          BY ChainTip
        <5>2. Len(entries) = 0
          BY <3>2, <5>1
        <5> QED BY <5>2, EmptySeq DEF StoreOK
      <4>4. Header(v.expected, Anchor(v) - CheckpointLag).height = Anchor(v)
        <5>1. Anchor(v) - CheckpointLag = Anchor(v) /\ ~(Anchor(v) < 0)
          BY <4>2
        <5> QED BY <5>1 DEF Header
      <4> HIDE DEF w
      <4>5. /\ w.start = Anchor(v) /\ w.prev.height = Anchor(v)
            /\ w.floor = v.floor /\ w.hdrTip = v.hdrTip /\ w.verified = v.verified
        BY <2>1, <3>2, <4>4 DEF PgOK, Fields
      <4>6. Refused(entries, w)
        BY <2>1, <4>1, <4>2, <4>3, <4>5 DEF Refused
      <4> QED BY <2>2, <4>5, <4>6 DEF StandOK
    <3> QED BY <3>1, <3>2 DEF BirthdayBound
  <2>6. RequestCfheaders(w, p, reqs, up)
    BY <1>2 DEF v
  <2> HIDE DEF w
  <2> QED BY <2>3, <2>4, <2>5, <2>6, StandRequest
<1> QED BY <1>1, <1>2 DEF MaybeComplete

\* peergroup_notify_peer_gone in the filter phase.
LEMMA StandGone ==
    ASSUME CheckpointLag = 0, IInv, Chain(entries), StandOK(entries, pg, hdrReq),
           NEW p \in Peers, Gone(pg, p)
    PROVE  StandOK(entries, pg', hdrReq')
<1> DEFINE g    == [pg EXCEPT !.driver = IF @ = p THEN NoPeer ELSE @]
           reqs == [hdrReq EXCEPT ![p] = <<>>]
           up   == Up \ {p}
<1>1. /\ PgOK(g) /\ g.verified = pg.verified /\ g.scanning = pg.scanning
      /\ g.ckPeers = pg.ckPeers /\ g.agreed = pg.agreed /\ g.syncStarted = pg.syncStarted
      /\ SameStand(pg, g)
  BY DEF IInv, PgOK, Fields, SameStand
<1>2. /\ reqs \in [Peers -> Seq(Request)]
      /\ \A q \in Peers : reqs[q] # <<>> => reqs[q] = hdrReq[q]
  <2>1. <<>> \in Seq(Request)
    OBVIOUS
  <2> QED BY <2>1 DEF IInv, AskedOK
<1>3. /\ \/ ~Awaiting(g) /\ pg' = g /\ hdrReq' = reqs
         \/ Awaiting(g) /\ pg' = Lowered(g) /\ hdrReq' = reqs
         \/ /\ Awaiting(g)
            /\ \E q \in Peers \ {p} : MaybeComplete(Lowered(g), q, reqs, up)
  BY DEF Gone
<1> HIDE DEF g, reqs, up
<1>4. AskedOK(g, reqs)
  BY <1>1, <1>2 DEF IInv, AskedOK, SameStand
<1>5. StandOK(entries, g, reqs)
  BY <1>1, <1>2 DEF StandOK, SameStand, Synced, Refused, Dead
<1>6. CASE ~Awaiting(g) /\ pg' = g /\ hdrReq' = reqs
  BY <1>5, <1>6
<1>7. CASE Awaiting(g)
  <2>1. /\ PgOK(Lowered(g)) /\ Lowered(g).verified = g.verified
        /\ Lowered(g).scanning = g.scanning /\ SameStand(g, Lowered(g))
        /\ Lowered(g).syncStarted = g.syncStarted
    BY <1>1 DEF Lowered, PgOK, Fields, SameStand
  <2>2. AskedOK(Lowered(g), reqs)
    BY <1>4, <2>1 DEF AskedOK, SameStand
  <2>3. StandOK(entries, Lowered(g), reqs)
    BY <1>5, <1>7, <2>1, StandSame DEF Awaiting
  <2> QED BY <1>3, <1>7, <2>1, <2>2, <2>3, StandComplete DEF IInv
<1> QED BY <1>3, <1>6, <1>7

\* peergroup_verify_cfcheckpts starts over where the sync stands.
LEMMA StandVerify ==
    ASSUME NEW es, NEW g, NEW p \in Peers, NEW up, PgOK(g), AskedOK(g, hdrReq), ~g.verified,
           StandOK(es, g, hdrReq), VerifyCfcheckpts(g, p, up), Cardinality(FilterPeers \cap up) \in Int
    PROVE  StandOK(es, pg', hdrReq')
<1> DEFINE asked == FilterPeers \cap up
           c == Cardinality(asked)
           b == (asked = {})
           v == [g EXCEPT !.ckPeers = c, !.agreed = 0, !.verified = b, !.syncStarted = FALSE,
                          !.expected = NoIndex, !.counted = FALSE]
<1>1. c \in Int /\ b \in BOOLEAN
  OBVIOUS
<1>2. \/ pg' = v /\ hdrReq' = hdrReq
      \/ asked = {} /\ RequestCfheaders(v, p, hdrReq, up)
  BY DEF VerifyCfcheckpts
<1>3. asked = {} => b = TRUE
  OBVIOUS
<1> HIDE DEF asked, c, b
<1>4. /\ v = [f \in Fields |-> v[f]] /\ v.ckPeers = c /\ v.agreed = 0 /\ v.verified = b
      /\ v.syncStarted = FALSE /\ v.scanning = g.scanning /\ SameStand(g, v)
  BY DEF PgOK, Fields, SameStand
<1> HIDE DEF v
<1>5. PgOK(v)
  <2>1. v.verified \in BOOLEAN /\ v.syncStarted \in BOOLEAN /\ v.scanning \in BOOLEAN
    <3>1. g.scanning \in BOOLEAN /\ FALSE \in BOOLEAN
      BY DEF PgOK
    <3> QED BY <1>1, <1>4, <3>1, Zenon
  <2>2. v.ckPeers \in Int /\ v.agreed \in Int /\ v.start \in Int /\ v.hdrTip \in Int /\ v.floor \in Int
    <3>1. g.start \in Int /\ g.hdrTip \in Int /\ g.floor \in Int /\ 0 \in Int
      BY DEF PgOK
    <3> QED BY <1>1, <1>4, <3>1, Zenon DEF SameStand
  <2>3. v = [f \in Fields |-> v[f]]
    BY <1>4
  <2> QED BY <2>1, <2>2, <2>3, Zenon DEF PgOK
<1>6. StandOK(es, v, hdrReq)
  BY <1>4, StandSame
<1>7. AskedOK(v, hdrReq)
  BY <1>4 DEF AskedOK
<1>8. CASE pg' = v /\ hdrReq' = hdrReq
  BY <1>6, <1>8
<1>9. CASE asked = {} /\ RequestCfheaders(v, p, hdrReq, up)
  BY <1>3, <1>4, <1>5, <1>6, <1>7, <1>9, StandRequest
<1> QED BY <1>2, <1>8, <1>9

\* peergroup_download_filtered_blocks: the layout starts after the last record.
LEMMA StandDownload ==
    ASSUME IInv, ChainInv, NEW p \in Peers, NEW up, state \in {"HEADERS", "TXDB"},
           state = "HEADERS" => pg.driver = p,
           DownloadFilteredBlocks(p, up)
    PROVE  StandOK(entries, pg', hdrReq')
<1>0. tip \in Nat /\ Floors \subseteq 1..MinTip /\ MinTip \in Nat /\ MinTip =< tip
      /\ Cardinality(FilterPeers \cap up) \in Int
  <2>1. tip \in Nat /\ Floors \subseteq 1..MinTip /\ MinTip \in Nat /\ MinTip =< tip
    BY SyncHeightsAssumption DEF IInv, StoreOK, ChainInv
  <2>2. Cardinality(FilterPeers \cap up) \in Int
    BY AskedCount
  <2> QED BY <2>1, <2>2
<1>1. CASE pg.driver \notin {NoPeer, p}
  <2>1. state = "TXDB" /\ hdrReq' = hdrReq /\ StandOK(entries, pg, hdrReq)
    BY <1>1 DEF DownloadFilteredBlocks, ChainInv
  <2>2. CASE pg.verified /\ pg.start > pg.hdrTip
    <3>1. pg' = [pg EXCEPT !.scanning = TRUE]
      BY <1>1, <2>1, <2>2 DEF DownloadFilteredBlocks
    <3>2. SameStand(pg, pg') /\ pg'.verified = pg.verified /\ pg'.syncStarted = pg.syncStarted
      BY <3>1 DEF IInv, PgOK, Fields, SameStand
    <3> QED BY <2>1, <3>2 DEF StandOK, SameStand, Synced, Refused, Dead
  <2>3. CASE ~(pg.verified /\ pg.start > pg.hdrTip)
    <3>1. pg' = pg
      BY <1>1, <2>3 DEF DownloadFilteredBlocks
    <3> QED BY <2>1, <3>1
  <2> QED BY <2>2, <2>3
<1>2. CASE pg.driver \in {NoPeer, p}
  <2> DEFINE d == [pg EXCEPT !.driver = p]
  <2>1. /\ PgOK(d) /\ d.verified = pg.verified /\ d.syncStarted = pg.syncStarted
        /\ d.scanning = pg.scanning /\ SameStand(pg, d)
    BY DEF IInv, PgOK, Fields, SameStand
  <2>3. PICK f \in IF state = "HEADERS" THEN Floors ELSE {pg.floor} :
          LET g == IF state = "HEADERS" THEN LaidOut(d, f) ELSE d
          IN  \/ ~g.verified /\ VerifyCfcheckpts(g, p, up)
              \/ g.verified /\ RequestCfheaders(g, p, hdrReq, up)
              \/ /\ g.verified /\ g.start > g.hdrTip
                 /\ pg' = [g EXCEPT !.scanning = TRUE] /\ hdrReq' = hdrReq
    BY <1>2 DEF DownloadFilteredBlocks
  <2> HIDE DEF d
  <2> DEFINE g == IF state = "HEADERS" THEN LaidOut(d, f) ELSE d
  <2>4. PgOK(g) /\ AskedOK(g, hdrReq) /\ StandOK(entries, g, hdrReq)
    <3>1. CASE state = "HEADERS"
      <4>0. f \in Floors /\ f \in Nat /\ f =< tip
        BY <1>0, <2>3, <3>1
      <4> DEFINE n == TipHeight + 1
                 h == IF TipHeight >= 0 THEN GetHeader(TipHeight) ELSE ZeroHeader
      <4>1. n = Len(entries) /\ Len(entries) \in Nat /\ h = LastHeader(entries)
        <5>1. /\ TipHeight = Len(entries) - 1 /\ Len(entries) \in Nat
              /\ entries # <<>> => GetHeader(TipHeight) = LastHeader(entries) /\ Len(entries) > 0
          BY ChainTip DEF IInv, ChainInv
        <5>2. CASE entries = <<>>
          BY <5>1, <5>2 DEF LastHeader
        <5>3. CASE entries # <<>>
          BY <5>1, <5>3
        <5> QED BY <5>2, <5>3
      <4>2. g = [d EXCEPT !.floor = f, !.hdrTip = tip, !.start = n, !.prev = h]
        BY <3>1 DEF LaidOut
      <4> HIDE DEF n, h, g
      <4>3. /\ g = [x \in Fields |-> g[x]] /\ g.floor = f /\ g.hdrTip = tip /\ g.start = n
            /\ g.prev = h /\ g.verified = d.verified /\ g.scanning = d.scanning
            /\ g.syncStarted = d.syncStarted /\ g.ckPeers = d.ckPeers /\ g.agreed = d.agreed
        BY <2>1, <4>2 DEF PgOK, Fields
      <4>4. PgOK(g)
        BY <1>0, <2>1, <4>0, <4>1, <4>3, SMTT(30) DEF PgOK
      <4>5. ~pg.verified /\ ~pg.scanning /\ \A q \in Peers : hdrReq[q] = <<>>
        BY <3>1 DEF IInv, PhaseOK, AskedOK
      <4>6. AskedOK(g, hdrReq)
        BY <2>1, <4>3, <4>5 DEF IInv, AskedOK
      <4>7. StandOK(entries, g, hdrReq)
        BY <4>0, <4>1, <4>3, <4>5 DEF StandOK, Synced
      <4> QED BY <4>4, <4>6, <4>7
    <3>2. CASE state # "HEADERS"
      <4>1. g = d /\ state = "TXDB"
        BY <3>2
      <4> HIDE DEF g
      <4>2. AskedOK(d, hdrReq)
        BY <2>1 DEF IInv, AskedOK, SameStand
      <4>3. StandOK(entries, d, hdrReq)
        BY <2>1, <4>1 DEF ChainInv, StandOK, SameStand, Synced, Refused, Dead
      <4> QED BY <2>1, <4>1, <4>2, <4>3
    <3> QED BY <3>1, <3>2
  <2>5. \/ ~g.verified /\ VerifyCfcheckpts(g, p, up)
        \/ g.verified /\ RequestCfheaders(g, p, hdrReq, up)
        \/ /\ g.verified /\ g.start > g.hdrTip
           /\ pg' = [g EXCEPT !.scanning = TRUE] /\ hdrReq' = hdrReq
    BY <2>3
  <2> HIDE DEF g
  <2>6. CASE /\ g.verified /\ g.start > g.hdrTip
             /\ pg' = [g EXCEPT !.scanning = TRUE] /\ hdrReq' = hdrReq
    <3>1. SameStand(g, pg') /\ pg'.verified = g.verified /\ pg'.syncStarted = g.syncStarted
      BY <2>4, <2>6 DEF PgOK, Fields, SameStand
    <3> QED BY <2>4, <2>6, <3>1 DEF StandOK, SameStand, Synced, Refused, Dead
  <2>7. CASE ~g.verified /\ VerifyCfcheckpts(g, p, up)
    BY <1>0, <2>4, <2>7, StandVerify
  <2>8. CASE g.verified /\ RequestCfheaders(g, p, hdrReq, up)
    BY <2>4, <2>8, StandRequest
  <2> QED BY <2>5, <2>6, <2>7, <2>8
<1> QED BY <1>1, <1>2

\* A handler that ends in the filter phase, the headers where they should be.
LEMMA ChainInPhase ==
    ASSUME PgOK(pg'), AskedOK(pg', hdrReq'), StandOK(entries', pg', hdrReq'),
           Chain(entries'), Chain(disk'.recs), MinTip =< tip'
    PROVE  ChainInv'
<1>1. ASSUME pg'.scanning PROVE Synced(entries', pg') /\ 0 =< pg'.floor
  <2>1. pg'.start > pg'.hdrTip /\ pg'.start \in Int /\ pg'.hdrTip \in Int
    BY <1>1 DEF AskedOK, PgOK
  <2>2. ~(pg'.start =< pg'.hdrTip)
    BY <2>1
  <2> QED BY <2>2 DEF StandOK, Refused, Dead
<1> QED BY <1>1 DEF ChainInv, StandOK, Chain, Synced, Refused, Dead, LastHeader

\* A step that leaves the store, the file and where the sync stands alone.
LEMMA ChainAlone ==
    ASSUME ChainInv, entries' = entries, disk'.recs = disk.recs, tip' = tip,
           SameStand(pg, pg'), pg'.scanning = pg.scanning,
           state' = "TXDB" => state = "TXDB" /\ pg' = pg /\ hdrReq' = hdrReq
    PROVE  ChainInv'
<1>1. Chain(entries)' /\ Chain(disk.recs)' /\ MinTip =< tip'
  BY DEF ChainInv, Chain
<1>2. state' = "TXDB" => StandOK(entries, pg, hdrReq)'
  BY DEF ChainInv, StandOK, Synced, Refused, Dead, LastHeader
<1>3. pg'.scanning => Synced(entries, pg)' /\ 0 =< pg'.floor
  BY DEF ChainInv, Synced, LastHeader, SameStand
<1> QED BY <1>1, <1>2, <1>3 DEF ChainInv

\* A batch that is taken follows the last record of the store.
LEMMA FollowsStore ==
    ASSUME IInv, ChainInv, NEW p \in Peers, hdrReq[p] # <<>>, Follows(p, Head(hdrReq[p]))
    PROVE  /\ Head(hdrReq[p]) \in Request
           /\ Head(hdrReq[p]).start = Len(entries) /\ TipHeight + 1 = Len(entries)
           /\ Len(entries) \in Nat /\ Head(hdrReq[p]).start =< Head(hdrReq[p]).stop
           /\ entries # <<>> =>
                LastHeader(entries) = Header(index[p], Head(hdrReq[p]).start - 1)
<1> DEFINE r == Head(hdrReq[p])
<1>1. r \in Request /\ state = "TXDB"
  BY AnsweredBatch
<1>2. r = hdrReq[p][1] /\ r.start = pg.start /\ pg.start \in Int
  <2>1. hdrReq[p] \in Seq(Request) /\ r = hdrReq[p][1]
    BY DEF IInv, AskedOK
  <2> QED BY <2>1 DEF IInv, AskedOK, PgOK
<1>3. StandOK(entries, pg, hdrReq) /\ Chain(entries)
  BY <1>1 DEF ChainInv
<1>4. r.start =< r.stop
  BY <1>2, <1>3 DEF StandOK
<1>5. TipHeight = Len(entries) - 1 /\ Len(entries) \in Nat
  BY <1>3, ChainTip DEF IInv
<1>6. pg.prev \in {ZeroHeader, Header(index[p], pg.start - 1)}
  BY <1>2 DEF Follows
<1> HIDE DEF r
<1>7. ~Refused(entries, pg)
  <2> SUFFICES ASSUME Refused(entries, pg) PROVE FALSE
    OBVIOUS
  <2>1. 0 < pg.start /\ pg.prev.height = pg.start
    BY DEF Refused
  <2>2. ZeroHeader.height = -1
    BY DEF ZeroHeader
  <2>3. Header(index[p], pg.start - 1).height = pg.start - 1
    BY <1>2, <2>1 DEF Header
  <2> QED BY <1>2, <1>6, <2>1, <2>2, <2>3
<1>8. Synced(entries, pg)
  BY <1>3, <1>7 DEF StandOK, Dead
<1>9. ASSUME entries # <<>> PROVE LastHeader(entries) = Header(index[p], r.start - 1)
  <2>1. Len(entries) \in 1..Len(entries)
    BY <1>5, <1>9 DEF IInv, StoreOK
  <2>2. LastHeader(entries) = [ix |-> entries[1].header.ix, height |-> Len(entries) - 1]
    BY <1>3, <1>9, <2>1 DEF LastHeader, Chain
  <2>3. LastHeader(entries).height = Len(entries) - 1 /\ ZeroHeader.height = -1
    BY <2>2 DEF ZeroHeader
  <2>4. LastHeader(entries) # ZeroHeader
    BY <1>5, <2>1, <2>3
  <2> QED BY <1>2, <1>6, <1>8, <2>4 DEF Synced
<1> QED BY <1>1, <1>2, <1>4, <1>5, <1>8, <1>9 DEF Synced, r

\* The file after the records of such a batch, or part of them, were written.
LEMMA ChainWritten ==
    ASSUME StoreOK, Chain(disk.recs), NEW es \in Seq(RecordSet), NEW rest \in Seq(RecordSet),
           Chain(es \o rest), Appended(es, rest)
    PROVE  Chain(disk'.recs)
<1>1. disk'.recs = IF es \o rest = entries THEN disk.recs ELSE es \o rest
  BY DEF Appended
<1> QED BY <1>1

\* The first k records of a batch and the one after are its first k + 1.
LEMMA OneMore ==
    ASSUME StoreOK, NEW p \in Peers, NEW r \in Request, NEW h \in Int, NEW k \in Nat,
           NEW last, last = Records(p, r, h, k + 1)[k + 1]
    PROVE  (entries \o Records(p, r, h, k)) \o <<last>> = entries \o Records(p, r, h, k + 1)
<1> DEFINE t == Records(p, r, h, k)
           u == Records(p, r, h, k + 1)
<1>1. t \in Seq(RecordSet) /\ u \in Seq(RecordSet) /\ Len(t) = k /\ Len(u) = k + 1
  BY RecordsType
<1>2. \A i \in 1..k : t[i] = u[i]
  BY DEF Records
<1>3. entries \in Seq(RecordSet) /\ Len(entries) \in Nat
  BY LenProperties DEF StoreOK
<1> HIDE DEF t, u
<1>4. last \in RecordSet
  <2>1. last = u[k + 1]
    BY DEF u
  <2> QED BY <1>1, <2>1, ElementOfSeq
<1>5. u = Append(t, last)
  <2>1. Append(t, last) \in Seq(RecordSet) /\ Len(Append(t, last)) = k + 1
    BY <1>1, <1>4
  <2>2. \A i \in 1..(k + 1) : u[i] = Append(t, last)[i]
    BY <1>1, <1>2, <1>4 DEF u
  <2> QED BY <1>1, <2>1, <2>2, SeqEqual
<1>6. Append(t, last) = t \o <<last>>
  BY <1>1, <1>4
<1>7. <<last>> \in Seq(RecordSet)
  BY <1>4
<1>8. (entries \o t) \o <<last>> = entries \o (t \o <<last>>)
  BY <1>1, <1>3, <1>7, ConcatAssociative, SMTT(30)
<1> QED BY <1>5, <1>6, <1>8 DEF t, u

\* peergroup_handle_cfheaders: a batch is stored behind the last record.
LEMMA ChainCfheaders ==
    ASSUME CheckpointLag = 0, IInv, IInv', ChainInv, NEW p \in Peers, HandleCfheaders(p)
    PROVE  ChainInv'
<1> DEFINE r == Head(hdrReq[p])
           h == TipHeight + 1
           n == r.stop - r.start + 1
<1>1. hdrReq[p] # <<>> /\ state = "TXDB"
  <2>1. hdrReq[p] # <<>>
    BY DEF HandleCfheaders
  <2> QED BY <2>1, AnsweredBatch
<1>2. \/ Gone(pg, p) /\ UNCHANGED <<state, storeVars, panic, tip, index>>
      \/ /\ Follows(p, r)
         /\ entries' = entries \o Records(p, r, h, n)
         /\ Appended(entries', <<>>)
         /\ NextBatch(p, r, h)
         /\ UNCHANGED <<state, panic, tip, index>>
  BY <1>1 DEF HandleCfheaders
<1>3. PgOK(pg') /\ AskedOK(pg', hdrReq') /\ StoreOK
  BY DEF IInv
<1>4. /\ Chain(entries) /\ Chain(disk.recs) /\ MinTip =< tip /\ StandOK(entries, pg, hdrReq)
  BY <1>1 DEF ChainInv
<1>5. CASE Gone(pg, p) /\ UNCHANGED <<state, storeVars, panic, tip, index>>
  <2>1. StandOK(entries, pg', hdrReq')
    BY <1>4, <1>5, StandGone
  <2> QED BY <1>3, <1>4, <1>5, <2>1, ChainInPhase DEF storeVars
<1>6. CASE /\ Follows(p, r)
           /\ entries' = entries \o Records(p, r, h, n)
           /\ Appended(entries', <<>>)
           /\ NextBatch(p, r, h)
           /\ UNCHANGED <<state, panic, tip, index>>
  <2>1. /\ r \in Request /\ r.start = Len(entries) /\ h = Len(entries)
        /\ Len(entries) \in Nat /\ r.start =< r.stop
        /\ entries # <<>> => LastHeader(entries) = Header(index[p], r.start - 1)
    BY <1>1, <1>6, FollowsStore
  <2>2. n \in Nat /\ n > 0 /\ r.start + n - 1 = r.stop /\ r.start \in Int /\ r.stop \in Int
    BY <2>1 DEF Request
  <2>3. NextBatch(p, r, h) /\ entries' = entries \o Records(p, r, h, n)
    BY <1>6
  <2> DEFINE g == [pg EXCEPT !.prev = Header(index[p], r.stop), !.start = h + n,
                             !.syncStarted = FALSE]
             reqs == [hdrReq EXCEPT ![p] = Tail(@)]
  <2>4. \/ RequestCfheaders(g, p, reqs, Up)
        \/ /\ g.start > g.hdrTip
           /\ pg' = [g EXCEPT !.scanning = TRUE] /\ hdrReq' = reqs
    BY <2>3 DEF NextBatch
  <2>5. reqs \in [Peers -> Seq(Request)] /\ \A q \in Peers : reqs[q] = <<>>
    <3>1. Tail(hdrReq[p]) = <<>> /\ \A q \in Peers \ {p} : hdrReq[q] = <<>>
      BY <1>1, AnsweredBatch
    <3>2. hdrReq \in [Peers -> Seq(Request)]
      BY DEF IInv, AskedOK
    <3>3. <<>> \in Seq(Request)
      OBVIOUS
    <3> QED BY <3>1, <3>2, <3>3
  <2> HIDE DEF r, h, n, reqs
  <2>6. /\ Chain(entries') /\ Len(entries') = Len(entries) + n
        /\ LastHeader(entries') = Header(index[p], r.stop)
    <3>1. /\ Chain(entries \o Records(p, r, Len(entries), n))
          /\ Len(entries \o Records(p, r, Len(entries), n)) = Len(entries) + n
          /\ LastHeader(entries \o Records(p, r, Len(entries), n)) = Header(index[p], r.start + n - 1)
      BY <1>3, <1>4, <2>1, <2>2, ChainGrows
    <3>2. entries' = entries \o Records(p, r, Len(entries), n)
      BY <2>1, <2>3
    <3> QED BY <2>2, <3>1, <3>2
  <2>7. Chain(disk'.recs)
    <3>1. entries' \in Seq(RecordSet) /\ <<>> \in Seq(RecordSet)
      BY DEF IInv, StoreOK
    <3>2. entries' \o <<>> = entries'
      BY <3>1, ConcatEmptySeq
    <3> QED BY <1>3, <1>4, <1>6, <2>6, <3>1, <3>2, ChainWritten
  <2>8. /\ g = [f \in Fields |-> g[f]] /\ g.agreed = pg.agreed
        /\ g.ckPeers = pg.ckPeers /\ g.floor = pg.floor
        /\ g.verified = pg.verified /\ g.scanning = pg.scanning
        /\ g.start = h + n /\ g.hdrTip = pg.hdrTip /\ g.syncStarted = FALSE
        /\ g.prev = Header(index[p], r.stop)
    BY DEF IInv, PgOK, Fields
  <2> HIDE DEF g
  <2>9. PgOK(g)
    <3>1. g.start \in Int
      BY <2>1, <2>2, <2>8
    <3> QED BY <2>8, <3>1 DEF IInv, PgOK
  <2>10. AskedOK(g, reqs) /\ g.verified
    <3>1. pg.verified /\ ~pg.scanning
      BY <1>1, AnsweredBatch DEF IInv, AskedOK, PgOK
    <3> QED BY <2>5, <2>8, <3>1 DEF AskedOK
  <2>11. StandOK(entries', g, reqs)
    <3>1. Synced(entries', g)
      BY <2>1, <2>6, <2>8 DEF Synced
    <3>2. 0 =< g.floor /\ g.floor =< g.hdrTip
      BY <1>4, <2>8 DEF StandOK
    <3> QED BY <2>5, <3>1, <3>2 DEF StandOK
  <2>12. StandOK(entries', pg', hdrReq')
    <3>1. CASE RequestCfheaders(g, p, reqs, Up)
      BY <2>9, <2>10, <2>11, <3>1, StandRequest
    <3>2. CASE g.start > g.hdrTip /\ pg' = [g EXCEPT !.scanning = TRUE] /\ hdrReq' = reqs
      <4>1. SameStand(g, pg') /\ pg'.verified = g.verified /\ pg'.syncStarted = g.syncStarted
        BY <2>9, <3>2 DEF PgOK, Fields, SameStand
      <4> QED BY <2>11, <3>2, <4>1 DEF StandOK, SameStand, Synced, Refused, Dead
    <3> QED BY <2>4, <3>1, <3>2
  <2> QED BY <1>3, <1>4, <1>6, <2>6, <2>7, <2>12, ChainInPhase
<1> QED BY <1>2, <1>5, <1>6

\* A write that fails inside the batch leaves the headers at their heights.
LEMMA ChainWriteFails ==
    ASSUME IInv, IInv', ChainInv, NEW p \in Peers, WriteFails(p)
    PROVE  ChainInv'
<1> DEFINE r == Head(hdrReq[p])
           h == TipHeight + 1
<1>1. /\ hdrReq[p] # <<>> /\ state = "TXDB" /\ Follows(p, r) /\ Gone(pg, p)
      /\ UNCHANGED <<state, panic, tip, index>>
  BY DEF WriteFails
<1>2. PICK k \in 0..(r.stop - r.start), inStore \in BOOLEAN :
        LET es   == entries \o Records(p, r, h, k)
            more == entries \o Records(p, r, h, k + 1)
        IN  /\ entries' = IF inStore THEN more ELSE es
            /\ Appended(es, IF inStore THEN <<more[Len(more)]>> ELSE <<>>)
  BY DEF WriteFails
<1>3. /\ r \in Request /\ r.start = Len(entries) /\ h = Len(entries)
      /\ Len(entries) \in Nat /\ r.start =< r.stop
      /\ entries # <<>> => LastHeader(entries) = Header(index[p], r.start - 1)
  BY <1>1, FollowsStore
<1> HIDE DEF r, h
<1>4. k \in Nat /\ k + 1 \in Nat /\ h \in Int
  BY <1>3 DEF Request
<1> DEFINE es   == entries \o Records(p, r, h, k)
           more == entries \o Records(p, r, h, k + 1)
           last == more[Len(more)]
           rest == IF inStore THEN <<last>> ELSE <<>>
<1>5. StoreOK /\ Chain(entries) /\ Chain(disk.recs) /\ MinTip =< tip /\ StandOK(entries, pg, hdrReq)
  BY <1>1 DEF IInv, ChainInv
<1>6. Chain(es) /\ Chain(more) /\ Len(more) = Len(entries) + (k + 1)
  BY <1>3, <1>4, <1>5, ChainGrows
<1>7. es \in Seq(RecordSet) /\ more \in Seq(RecordSet) /\ rest \in Seq(RecordSet)
  <2>1. es \in Seq(RecordSet) /\ more \in Seq(RecordSet)
    BY <1>3, <1>4, <1>5, RecordsType
  <2>2. <<last>> \in Seq(RecordSet)
    BY <1>3, <1>4, <1>5, OneRecord
  <2>3. <<>> \in Seq(RecordSet)
    OBVIOUS
  <2> QED BY <2>1, <2>2, <2>3
<1>8. es \o <<last>> = more
  <2>1. last = Records(p, r, h, k + 1)[k + 1]
    <3> DEFINE u == Records(p, r, h, k + 1)
    <3>1. u \in Seq(RecordSet) /\ Len(u) = k + 1 /\ entries \in Seq(RecordSet)
      BY <1>3, <1>4, <1>5, RecordsType DEF StoreOK
    <3>2. last = (entries \o u)[Len(entries) + (k + 1)]
      BY <1>6
    <3> HIDE DEF u, last
    <3>3. (entries \o u)[Len(entries) + (k + 1)] = u[k + 1]
      BY <1>3, <1>4, <3>1
    <3> QED BY <3>2, <3>3 DEF u
  <2> HIDE DEF last
  <2> QED BY <1>3, <1>4, <1>5, <2>1, OneMore, ZenonT(60)
<1>9. entries' \in {es, more} /\ Appended(es, rest)
  BY <1>2
<1>10. Chain(es \o rest)
  <2> HIDE DEF last, es, more
  <2>1. es \o <<>> = es
    BY <1>7, ConcatEmptySeq
  <2> QED BY <1>6, <1>8, <2>1
<1> HIDE DEF es, more, rest
<1>11. Chain(disk'.recs) /\ Chain(entries')
  BY <1>5, <1>6, <1>7, <1>9, <1>10, ChainWritten
<1>12. StandOK(entries', pg', hdrReq')
  <2>1. Dead(pg', hdrReq')
    BY <1>1, FailedIsDead
  <2>2. pg'.floor = pg.floor /\ pg'.hdrTip = pg.hdrTip
    <3> DEFINE g == [pg EXCEPT !.driver = IF @ = p THEN NoPeer ELSE @]
    <3>1. g.verified = pg.verified /\ g.floor = pg.floor /\ g.hdrTip = pg.hdrTip
      BY DEF IInv, PgOK, Fields
    <3>2. pg' = g
      BY <1>1, <3>1, AnsweredBatch DEF Gone, Awaiting
    <3> QED BY <3>1, <3>2
  <2> QED BY <1>5, <2>1, <2>2 DEF StandOK, Dead
<1> QED BY <1>1, <1>5, <1>11, <1>12, ChainInPhase DEF IInv

\* Nor does a process that dies inside the batch misplace one.
LEMMA ChainCrashInBatch ==
    ASSUME IInv, ChainInv, NEW p \in Peers, CrashInBatch(p)
    PROVE  ChainInv'
<1> DEFINE r == Head(hdrReq[p])
           h == TipHeight + 1
<1>1. /\ hdrReq[p] # <<>> /\ Follows(p, r) /\ state' = "DOWN"
      /\ UNCHANGED <<pg, tip, entries>>
  BY DEF CrashInBatch, Down
<1>2. PICK k \in 0..(r.stop - r.start), torn \in BOOLEAN :
        Appended(entries \o Records(p, r, h, k),
                 IF torn THEN <<Records(p, r, h, k + 1)[k + 1]>> ELSE <<>>)
  BY DEF CrashInBatch
<1>3. /\ r \in Request /\ r.start = Len(entries) /\ h = Len(entries)
      /\ Len(entries) \in Nat /\ r.start =< r.stop
      /\ entries # <<>> => LastHeader(entries) = Header(index[p], r.start - 1)
  BY <1>1, FollowsStore
<1> HIDE DEF r, h
<1>4. k \in Nat /\ k + 1 \in Nat /\ h \in Int
  BY <1>3 DEF Request
<1> DEFINE es   == entries \o Records(p, r, h, k)
           more == entries \o Records(p, r, h, k + 1)
           last == Records(p, r, h, k + 1)[k + 1]
           rest == IF torn THEN <<last>> ELSE <<>>
<1>5. StoreOK /\ Chain(entries) /\ Chain(disk.recs)
  BY <1>1 DEF IInv, ChainInv
<1>6. Chain(es) /\ Chain(more)
  BY <1>3, <1>4, <1>5, ChainGrows
<1>7. es \in Seq(RecordSet) /\ rest \in Seq(RecordSet)
  <2>1. es \in Seq(RecordSet)
    BY <1>3, <1>4, <1>5, RecordsType
  <2>2. <<last>> \in Seq(RecordSet)
    BY <1>3, <1>4, <1>5, OneRecord
  <2>3. <<>> \in Seq(RecordSet)
    OBVIOUS
  <2> QED BY <2>1, <2>2, <2>3
<1>8. es \o <<last>> = more
  BY <1>3, <1>4, <1>5, OneMore, ZenonT(60)
<1>9. Appended(es, rest)
  BY <1>2
<1>10. Chain(es \o rest)
  <2> HIDE DEF last, es, more
  <2>1. es \o <<>> = es
    BY <1>7, ConcatEmptySeq
  <2> QED BY <1>6, <1>8, <2>1
<1> HIDE DEF es, more, rest, last
<1>11. Chain(disk'.recs)
  BY <1>5, <1>7, <1>9, <1>10, ChainWritten
<1> QED BY <1>1, <1>11 DEF ChainInv, Chain, Synced, LastHeader

\* cfheaderstore_init loads the headers at their heights.
LEMMA ChainStart == ASSUME IInv, ChainInv, Start PROVE ChainInv'
<1>1. disk'.recs = disk.recs
  BY DEF Start, IInv, StoreOK
<1>2. Chain(entries')
  <2>1. Chain(Loaded(disk))
    BY ChainLoaded DEF IInv, StoreOK, ChainInv
  <2>2. Chain(<<>>)
    BY DEF Chain
  <2>3. entries' \in {Loaded(disk), <<>>}
    BY DEF Start
  <2> QED BY <2>1, <2>2, <2>3
<1>3. MinTip =< tip'
  <2>1. tip' \in tip..MaxTip /\ tip \in Nat /\ MinTip \in Nat /\ MaxTip \in Nat /\ MinTip =< tip
    BY SyncHeightsAssumption DEF Start, IInv, StoreOK, ChainInv
  <2> QED BY <2>1
<1>4. pg' = FreshPg /\ state' = "HEADERS"
  BY DEF Start
<1>5. ~FreshPg.scanning
  BY DEF FreshPg
<1>6. Chain(disk.recs)
  BY DEF ChainInv
<1> QED BY <1>1, <1>2, <1>3, <1>4, <1>5, <1>6 DEF ChainInv, Chain

\* A peer that leaves outside the filter phase does not move the sync.
LEMMA GoneOutside ==
    ASSUME IInv, NEW p \in Peers, state \in {"HEADERS", "READY"}, Gone(pg, p)
    PROVE  SameStand(pg, pg') /\ pg'.scanning = pg.scanning
<1> DEFINE g == [pg EXCEPT !.driver = IF @ = p THEN NoPeer ELSE @]
<1>1. /\ g.verified = pg.verified /\ g.ckPeers = pg.ckPeers /\ g.scanning = pg.scanning
      /\ SameStand(pg, g)
  BY DEF IInv, PgOK, Fields, SameStand
<1>2. pg.verified \/ pg.ckPeers = 0
  BY DEF IInv, PhaseOK, AskedOK
<1>3. ~Awaiting(g)
  BY <1>1, <1>2 DEF Awaiting
<1>4. pg' = g
  BY <1>3 DEF Gone
<1> QED BY <1>1, <1>4

\* A peer that leaves.
LEMMA ChainGone ==
    ASSUME CheckpointLag = 0, IInv, IInv', ChainInv, Running, NEW p \in Peers, Gone(pg, p),
           UNCHANGED <<state, tip, storeVars>>
    PROVE  ChainInv'
<1>1. CASE state = "TXDB"
  <2>1. StandOK(entries, pg', hdrReq')
    BY <1>1, StandGone DEF ChainInv
  <2> QED BY <2>1, ChainInPhase DEF storeVars, IInv, ChainInv
<1>2. CASE state # "TXDB"
  <2>1. state \in {"HEADERS", "READY"}
    BY <1>2 DEF IInv, PhaseOK, Running
  <2>2. SameStand(pg, pg') /\ pg'.scanning = pg.scanning
    BY <2>1, GoneOutside
  <2> QED BY <1>2, <2>2, ChainAlone DEF storeVars
<1> QED BY <1>1, <1>2

\* peergroup_handle_cfcheckpt.
LEMMA ChainCfcheckpt ==
    ASSUME CheckpointLag = 0, IInv, IInv', ChainInv, NEW p \in Peers, HandleCfcheckpt(p)
    PROVE  ChainInv'
<1>1. Running /\ UNCHANGED <<tip, storeVars>>
  BY DEF HandleCfcheckpt
<1>2. CASE Panic("cfcheckpt")
  BY <1>1, <1>2, ChainAlone DEF Panic, storeVars, SameStand
<1>3. CASE Gone(pg, p) /\ UNCHANGED <<state, panic>>
  BY <1>1, <1>3, ChainGone
<1>4. CASE /\ state = "TXDB" /\ UNCHANGED <<state, panic>>
           /\ MaybeComplete([pg EXCEPT !.counted = TRUE, !.expected = Answer(p),
                                       !.agreed = @ + 1], p, hdrReq, Up)
  <2> DEFINE g == [pg EXCEPT !.counted = TRUE, !.expected = Answer(p), !.agreed = @ + 1]
  <2>1. /\ g = [f \in Fields |-> g[f]] /\ g.agreed = pg.agreed + 1
        /\ g.ckPeers = pg.ckPeers /\ g.verified = pg.verified /\ g.scanning = pg.scanning
        /\ SameStand(pg, g) /\ g.syncStarted = pg.syncStarted
    BY DEF IInv, PgOK, Fields, SameStand
  <2>2. MaybeComplete(g, p, hdrReq, Up)
    BY <1>4
  <2> HIDE DEF g
  <2>3. PgOK(g)
    BY <2>1 DEF IInv, PgOK, SameStand
  <2>4. AskedOK(g, hdrReq)
    BY <2>1 DEF IInv, AskedOK, SameStand
  <2>5. StandOK(entries, g, hdrReq)
    BY <1>4, <2>1 DEF ChainInv, StandOK, SameStand, Synced, Refused, Dead
  <2>6. StandOK(entries, pg', hdrReq')
    BY <2>2, <2>3, <2>4, <2>5, StandComplete DEF IInv, ChainInv
  <2> QED BY <1>1, <2>6, ChainInPhase DEF storeVars, IInv, ChainInv
<1> QED BY <1>2, <1>3, <1>4 DEF HandleCfcheckpt

\* peergroup_handle_handshake_ok.
LEMMA ChainHandshake ==
    ASSUME IInv, IInv', ChainInv, NEW p \in Peers, HandshakeOk(p)
    PROVE  ChainInv'
<1>1. UNCHANGED <<tip, storeVars>>
  BY DEF HandshakeOk
<1>2. CASE state = "HEADERS"
  <2>1. /\ pg' = [pg EXCEPT !.driver = IF @ = NoPeer THEN p ELSE @] /\ state' = state
    BY <1>2 DEF HandshakeOk
  <2>2. SameStand(pg, pg') /\ pg'.scanning = pg.scanning
    BY <2>1 DEF IInv, PgOK, Fields, SameStand
  <2> QED BY <1>1, <1>2, <2>1, <2>2, ChainAlone DEF storeVars
<1>3. CASE state = "TXDB"
  <2>1. DownloadFilteredBlocks(p, Up \cup {p})
    BY <1>3 DEF HandshakeOk
  <2>2. StandOK(entries, pg', hdrReq')
    BY <1>3, <2>1, StandDownload
  <2> QED BY <1>1, <2>2, ChainInPhase DEF storeVars, IInv, ChainInv
<1>4. CASE state = "READY"
  BY <1>1, <1>4, ChainAlone DEF HandshakeOk, storeVars, SameStand
<1> QED BY <1>2, <1>3, <1>4 DEF HandshakeOk

\* Every step keeps the headers at their heights.
LEMMA ChainNext ==
    ASSUME CheckpointLag = 0, IInv, IInv', ChainInv, [Next]_vars
    PROVE  ChainInv'
<1>1. ASSUME NEW p \in Peers, Dial(p) PROVE ChainInv'
  BY <1>1, ChainAlone DEF Dial, storeVars, SameStand
<1>2. ASSUME NEW p \in Peers, Leave(p) PROVE ChainInv'
  BY <1>2, ChainGone DEF Leave
<1>3. ASSUME NEW p \in Peers, LastHeaders(p) PROVE ChainInv'
  <2>1. StandOK(entries, pg', hdrReq')
    BY <1>3, StandDownload DEF LastHeaders
  <2> QED BY <1>3, <2>1, ChainInPhase DEF LastHeaders, storeVars, IInv, ChainInv
<1>4. CASE ScanDone
  BY <1>4, ChainAlone DEF ScanDone, netVars, storeVars, SameStand
<1>5. CASE Crash
  BY <1>5, ChainAlone DEF Crash, Down, SameStand
<1>6. CASE UNCHANGED vars
  BY <1>6, ChainAlone DEF vars, netVars, storeVars, SameStand
<1> QED BY <1>1, <1>2, <1>3, <1>4, <1>5, <1>6, ChainHandshake, ChainCfcheckpt,
           ChainCfheaders, ChainWriteFails, ChainCrashInBatch, ChainStart
        DEF Next, PeerStep

\* The first run starts without headers.
LEMMA ChainInit == Init => ChainInv
<1>1. Init => entries = <<>> /\ disk.recs = <<>> /\ state = "DOWN" /\ pg = FreshPg /\ tip = MinTip
  BY DEF Init
<1>2. Chain(<<>>) /\ ~FreshPg.scanning /\ MinTip =< MinTip
  BY SyncHeightsAssumption DEF Chain, FreshPg
<1> QED BY <1>1, <1>2 DEF ChainInv

\* With checkpoints where BIP157 puts them, the store and its file hold the
\* headers of one index from genesis on, and the sync goes on behind the last.
THEOREM ChainInvariant ==
    ASSUME CheckpointLag = 0 PROVE Spec => [](IInv /\ ChainInv)
<1>1. IInv /\ IInv' /\ ChainInv /\ [Next]_vars => ChainInv'
  BY ChainNext
<1> QED BY <1>1, ChainInit, InvariantHolds, PTL DEF Spec

\* peergroup_handle_cfheaders stores each filter header at the height of its
\* block, each committing to the one before, whichever peers the batches come
\* from, whichever leave, and wherever the process ends inside a batch.
THEOREM HeadersPlaced ==
    ASSUME CheckpointLag = 0 PROVE Spec => []HeadersAtTheirHeights
<1>1. ASSUME IInv, ChainInv PROVE HeadersAtTheirHeights
  <2>1. Chain(entries) /\ Chain(Loaded(disk))
    BY <1>1, ChainLoaded DEF IInv, StoreOK, ChainInv
  <2>2. /\ entries \in Seq(RecordSet) /\ Loaded(disk) \in Seq(RecordSet)
    BY <1>1, LoadedType DEF IInv, StoreOK
  <2>3. ASSUME NEW es \in Seq(RecordSet), Chain(es), NEW i \in 1..Len(es)
        PROVE  /\ es[i].header.height = es[i].height
               /\ i > 1 => /\ es[i].height = es[i - 1].height + 1
                           /\ es[i].header = Header(es[i - 1].header.ix, es[i].height)
    <3>1. /\ es[i].height = i - 1
          /\ es[i].header = [ix |-> es[1].header.ix, height |-> i - 1]
      BY <2>3 DEF Chain
    <3>2. es[i].header.height = es[i].height
      BY <3>1
    <3>3. ASSUME i > 1 PROVE /\ es[i].height = es[i - 1].height + 1
                             /\ es[i].header = Header(es[i - 1].header.ix, es[i].height)
      <4>1. i - 1 \in 1..Len(es) /\ i \in Nat
        BY <3>3, LenProperties
      <4>2. /\ es[i - 1].height = (i - 1) - 1
            /\ es[i - 1].header = [ix |-> es[1].header.ix, height |-> (i - 1) - 1]
        BY <2>3, <4>1 DEF Chain
      <4>3. es[i].height = es[i - 1].height + 1
        BY <3>1, <4>1, <4>2
      <4>4. es[i - 1].header.ix = es[1].header.ix
        BY <4>2
      <4>5. Header(es[1].header.ix, i - 1) = [ix |-> es[1].header.ix, height |-> i - 1]
        BY <3>3, <4>1 DEF Header
      <4> QED BY <3>1, <4>3, <4>4, <4>5
    <3> QED BY <3>2, <3>3
  <2> QED BY <2>1, <2>2, <2>3 DEF HeadersAtTheirHeights
<1> QED BY <1>1, ChainInvariant, PTL

\* The scan starts with a filter header in the store for every height that
\* peergroup_handle_cfilter will look up.
THEOREM ScanHasItsHeaders ==
    ASSUME CheckpointLag = 0 PROVE Spec => []ScanCovered
<1>1. ASSUME IInv, ChainInv PROVE ScanCovered
  <2> SUFFICES ASSUME pg.scanning, NEW h \in pg.floor..pg.hdrTip PROVE h \in Stored
    BY DEF ScanCovered
  <2>1. /\ pg.start > pg.hdrTip /\ pg.start = Len(entries) /\ 0 =< pg.floor
        /\ pg.floor \in Int /\ pg.hdrTip \in Int /\ pg.start \in Int
    BY <1>1 DEF IInv, AskedOK, ChainInv, Synced, PgOK
  <2>2. h + 1 \in 1..Len(entries) /\ h \in Int
    BY <2>1
  <2>3. entries[h + 1].height = (h + 1) - 1
    BY <1>1, <2>2 DEF ChainInv, Chain
  <2>4. entries[h + 1].height = h
    BY <2>2, <2>3
  <2> QED BY <2>2, <2>4 DEF Stored
<1> QED BY <1>1, ChainInvariant, PTL

=============================================================================
