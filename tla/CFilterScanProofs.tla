-------------------------- MODULE CFilterScanProofs --------------------------
(***************************************************************************)
(* Proofs about CFilterScan for all values of its constants: any number of *)
(* peers, any chain height, batch size and set of matching heights, and    *)
(* any number of stalls, disconnections and crashes.                       *)
(*                                                                         *)
(* IInv is about the filters that were scanned, LiveInv about the chunks   *)
(* in flight and the peers that answer them, MatchInv about the blocks     *)
(* that matched and are still to be fetched, SafeInv about those that the  *)
(* resume pointer has passed.                                              *)
(***************************************************************************)
EXTENDS CFilterScan, FiniteSetTheorems, SequenceTheorems, NaturalsInduction,
        WellFoundedInduction, TLAPS

-----------------------------------------------------------------------------
(* The inductive invariant *)

\* The filter of chunk c that peer p sends next: only the first request of a
\* stream is partly answered, every other one starts at the chunk's start.
Position(st, p, c) ==
    IF st[p] # <<>> /\ CFChunkIndex(st[p][1].next) = c
    THEN st[p][1].next
    ELSE StartHeight(c)

\* How many filters of chunk c come before that of h, from position n on and
\* around the end of the chunk.
Ahead(c, n, h) == IF h >= n THEN h - n ELSE h - n + SegSize(c)

\* Every request asks for one chunk, and only a first one is partly answered.
StreamsOK(st) ==
    \A p \in Peers : \A i \in DOMAIN st[p] :
        LET c == CFChunkIndex(st[p][i].next)
        IN  /\ c \in Segs
            /\ st[p][i].next \in Heights(c)
            /\ st[p][i].stop = EndHeight(c)
            /\ i > 1 => st[p][i].next = StartHeight(c)

\* What is still unscanned of a chunk in flight is among the next "remaining"
\* filters its peer sends of it, counted around the end of the chunk: those
\* that an earlier request of the same peer still delivers are not counted
\* twice.
WaitOK(sg, st, sc) ==
    \A c \in Segs : sg[c].assignedPeer # NoPeer /\ ~sg[c].done =>
        \A h \in Heights(c) \ sc :
            Ahead(c, Position(st, sg[c].assignedPeer, c), h) < sg[c].remaining

\* The first k chunks are done.
PrefixDone(sg, k) == \A i \in 0..(k - 1) : sg[i].done

\* Nothing is in flight and nothing is pending while the process is down.
DownInv ==
    state = "DOWN" =>
        /\ cfPending = <<>>
        /\ \A p \in Peers : stream[p] = <<>> /\ fetch[p] = <<>>

IInv ==
    /\ TypeOK
    /\ DownInv
    /\ StreamsOK(stream)
    /\ state # "DOWN" => WaitOK(seg, stream, scanned)
    /\ PrefixDone(seg, contig)
    /\ DoneMeansScanned
    /\ ResumeCovered

-----------------------------------------------------------------------------
(* Arithmetic of the chunk table *)

\* What \div (the C division of CF_CHUNK_INDEX) returns.
LEMMA DivBounds ==
    ASSUME NEW x \in Nat, NEW b \in Nat \ {0}
    PROVE  x \div b \in Nat /\ (x \div b) * b =< x /\ x < (x \div b) * b + b
BY SMT

\* The quotient is the only number with these bounds.
LEMMA DivUnique ==
    ASSUME NEW x \in Nat, NEW b \in Nat \ {0}, NEW c \in Nat, c * b =< x, x < c * b + b
    PROVE  x \div b = c
BY SMT

\* A chunk ends before a later one begins.
LEMMA MulMono ==
    ASSUME NEW c \in Nat, NEW d \in Nat, NEW b \in Nat \ {0}, c < d
    PROVE  c * b + b =< d * b
BY SMT

\* The scan range is never empty and lies above genesis.
RangeOK == floor \in Nat /\ tip \in Nat /\ floor =< tip

\* Every chunk of the table covers at least one height of the scan range
\* (the table of peergroup_download_filtered_blocks).
LEMMA ChunkFacts ==
    ASSUME RangeOK, NEW c \in Segs
    PROVE  /\ c \in Nat
           /\ StartHeight(c) \in Nat /\ EndHeight(c) \in Nat /\ SegSize(c) \in Nat
           /\ floor =< StartHeight(c) /\ StartHeight(c) =< EndHeight(c)
           /\ EndHeight(c) =< tip
           /\ SegSize(c) = EndHeight(c) - StartHeight(c) + 1
<1>1. Batch \in Nat \ {0}
  BY HeightsAssumption
<1>2. tip - floor \in Nat
  BY DEF RangeOK
<1>3. c \in Nat /\ c =< (tip - floor) \div Batch
  BY <1>1, <1>2, DivBounds DEF Segs, SegsOf, SegCount
<1>4. ((tip - floor) \div Batch) * Batch =< tip - floor
  BY <1>1, <1>2, DivBounds
<1>5. c * Batch =< ((tip - floor) \div Batch) * Batch
  <2> DEFINE q == (tip - floor) \div Batch
  <2>1. q \in Nat
    BY <1>1, <1>2, DivBounds
  <2>2. CASE c = q
    BY <2>2, <2>1, <1>1
  <2>3. CASE c < q
    <3>1. c * Batch + Batch =< q * Batch
      BY <2>3, <2>1, <1>1, <1>3, MulMono
    <3> QED BY <3>1, <2>1, <1>1, <1>3
  <2> QED BY <1>3, <2>1, <2>2, <2>3
<1>6. c * Batch \in Nat /\ c * Batch =< tip - floor
  BY <1>1, <1>2, <1>3, <1>4, <1>5, DivBounds
<1> QED BY <1>1, <1>2, <1>3, <1>6 DEF StartHeight, EndHeight, SegSize, RangeOK

\* The table has at least one chunk.
LEMMA SegCountNat ==
    ASSUME RangeOK PROVE SegCount(floor, tip) \in Nat \ {0}
<1>1. Batch \in Nat \ {0} /\ tip - floor \in Nat
  BY HeightsAssumption DEF RangeOK
<1> QED BY <1>1, DivBounds DEF SegCount

\* CF_CHUNK_INDEX finds the chunk of a height in the chunk.
LEMMA IndexOfHeight ==
    ASSUME RangeOK, NEW c \in Segs, NEW h \in Heights(c)
    PROVE  CFChunkIndex(h) = c
<1>1. Batch \in Nat \ {0}
  BY HeightsAssumption
<1>2. c \in Nat /\ StartHeight(c) =< h /\ h =< EndHeight(c) /\ h \in Nat
  BY ChunkFacts DEF Heights
<1>3. c * Batch \in Nat
  BY <1>1, <1>2
<1>4. h - floor \in Nat /\ c * Batch =< h - floor /\ h - floor < c * Batch + Batch
  BY <1>1, <1>2, <1>3, ChunkFacts DEF StartHeight, EndHeight, RangeOK
<1> QED BY <1>1, <1>2, <1>4, DivUnique DEF CFChunkIndex

\* CF_CHUNK_INDEX finds a chunk of the table for every height of the range.
LEMMA HeightHasChunk ==
    ASSUME RangeOK, NEW h \in floor..tip
    PROVE  CFChunkIndex(h) \in Segs /\ h \in Heights(CFChunkIndex(h))
<1> DEFINE c == CFChunkIndex(h)
<1>1. Batch \in Nat \ {0}
  BY HeightsAssumption
<1>2. h - floor \in Nat /\ tip - floor \in Nat /\ h \in Nat
  BY DEF RangeOK
<1>3. c \in Nat /\ c * Batch =< h - floor /\ h - floor < c * Batch + Batch
  BY <1>1, <1>2, DivBounds DEF CFChunkIndex
<1>4. c * Batch \in Nat
  BY <1>1, <1>3
<1>5. h \in Heights(c)
  BY <1>1, <1>2, <1>3, <1>4 DEF Heights, StartHeight, EndHeight, RangeOK
<1>6. c =< (tip - floor) \div Batch
  <2> DEFINE q == (tip - floor) \div Batch
  <2>1. q \in Nat /\ tip - floor < q * Batch + Batch
    BY <1>1, <1>2, DivBounds
  <2>2. SUFFICES ASSUME q < c PROVE FALSE
    BY <1>3, <2>1
  <2>3. q * Batch + Batch =< c * Batch
    BY <1>1, <1>3, <2>1, <2>2, MulMono
  <2>4. q * Batch \in Nat
    BY <1>1, <2>1
  <2> QED BY <1>1, <1>2, <1>3, <1>4, <2>1, <2>3, <2>4 DEF RangeOK
<1> QED BY <1>1, <1>2, <1>3, <1>5, <1>6, DivBounds DEF Segs, SegsOf, SegCount

\* The first k chunks hold every height up to the end of the k-th.
LEMMA HeightInPrefix ==
    ASSUME RangeOK, NEW k \in 1..SegCount(floor, tip),
           NEW h \in floor..tip, h =< EndHeight(k - 1)
    PROVE  CFChunkIndex(h) \in 0..(k - 1)
<1> DEFINE c == CFChunkIndex(h)
<1>1. Batch \in Nat \ {0}
  BY HeightsAssumption
<1>2. c \in Segs /\ h \in Heights(c)
  BY HeightHasChunk
<1>3. c \in Nat /\ k \in Nat /\ k - 1 \in Nat
  BY <1>2, ChunkFacts, DivBounds, HeightsAssumption DEF SegCount, RangeOK
<1>4. SUFFICES ASSUME k - 1 < c PROVE FALSE
  BY <1>3
<1>5. (k - 1) * Batch + Batch =< c * Batch
  BY <1>1, <1>3, <1>4, MulMono
<1>6. (k - 1) * Batch \in Nat /\ c * Batch \in Nat
  BY <1>1, <1>3
<1>7. h =< floor + (k - 1) * Batch + Batch - 1 /\ floor + c * Batch =< h
  BY <1>1, <1>2, <1>3, <1>6 DEF EndHeight, StartHeight, Heights, RangeOK
<1> QED BY <1>1, <1>5, <1>6, <1>7 DEF RangeOK

-----------------------------------------------------------------------------
(* Streams and the chunks in flight *)

RequestType == [next : Int, stop : Int]
StreamType == [Peers -> Seq(RequestType)]
TableType  == [Segs -> SegEntry]

\* The scan range of a well-typed state.
LEMMA TypeRange == TypeOK => RangeOK
BY HeightsAssumption DEF TypeOK, RangeOK

\* What Append leaves in front.
LEMMA AppendFirst ==
    ASSUME NEW S, NEW s \in Seq(S), NEW e \in S
    PROVE  /\ Append(s, e) \in Seq(S)
           /\ Append(s, e) # <<>>
           /\ Append(s, e)[1] = IF s = <<>> THEN e ELSE s[1]
<1>1. s = <<>> \/ 1 \in 1..Len(s)
  OBVIOUS
<1>2. s = <<>> => Len(s) = 0
  OBVIOUS
<1> QED BY <1>1, <1>2, AppendProperties

\* The next filter of a chunk is one of the chunk.
LEMMA PositionInChunk ==
    ASSUME RangeOK, NEW st \in StreamType, StreamsOK(st), NEW p \in Peers, NEW c \in Segs
    PROVE  Position(st, p, c) \in Heights(c)
<1>1. StartHeight(c) \in Heights(c)
  BY ChunkFacts DEF Heights
<1>2. st[p] # <<>> => 1 \in DOMAIN st[p]
  BY DEF StreamType
<1> QED BY <1>1, <1>2 DEF Position, StreamsOK

\* An assigned chunk is a well-formed entry of the table.
LEMMA AssignedType ==
    ASSUME RangeOK, NEW c \in Segs, NEW p \in Peers
    PROVE  Assigned(c, p) \in SegEntry
BY ChunkFacts DEF Assigned, SegEntry

\* Handing out chunks (peergroup_assign_chunk), to any peers, leaves the
\* streams and the chunks in flight consistent: a chunk handed to a peer that
\* still streams it from an earlier request waits for a full round of it.
LEMMA GiveKeeps ==
    ASSUME RangeOK,
           NEW sg \in TableType, NEW st \in StreamType, NEW sc,
           StreamsOK(st), WaitOK(sg, st, sc),
           NEW give \in [Peers -> Segs \cup {NoSeg}],
           NEW sg2 \in TableType, NEW st2,
           \A c \in Segs : \/ sg2[c] = sg[c]
                           \/ \E p \in Peers : sg2[c] = Assigned(c, p) /\ ~sg[c].done,
           st2 = [p \in Peers |-> IF give[p] = NoSeg THEN st[p]
                                  ELSE Append(st[p], Request(give[p]))]
    PROVE  /\ st2 \in StreamType
           /\ StreamsOK(st2)
           /\ WaitOK(sg2, st2, sc)
           /\ \A c \in Segs : sg2[c].done = sg[c].done
<1>1. NoSeg \notin Segs
  BY ChunkFacts DEF NoSeg
<1>2. \A c \in Segs : /\ Request(c) \in RequestType
                      /\ Request(c).next = StartHeight(c)
                      /\ Request(c).stop = EndHeight(c)
                      /\ StartHeight(c) \in Heights(c)
                      /\ CFChunkIndex(StartHeight(c)) = c
  BY ChunkFacts, IndexOfHeight DEF Request, RequestType, Heights
<1>4. \A c \in Segs : sg2[c].done = sg[c].done
  BY DEF Assigned, TableType, SegEntry
<1>5. st2 \in StreamType
  <2> SUFFICES ASSUME NEW p \in Peers PROVE st2[p] \in Seq(RequestType)
    BY DEF StreamType
  <2>1. st[p] \in Seq(RequestType)
    BY DEF StreamType
  <2>2. CASE give[p] = NoSeg
    BY <2>1, <2>2
  <2>3. CASE give[p] # NoSeg
    BY <2>1, <2>3, <1>2
  <2> QED BY <2>2, <2>3
<1>6. StreamsOK(st2)
  <2> SUFFICES ASSUME NEW p \in Peers, NEW i \in DOMAIN st2[p]
               PROVE  /\ CFChunkIndex(st2[p][i].next) \in Segs
                      /\ st2[p][i].next \in Heights(CFChunkIndex(st2[p][i].next))
                      /\ st2[p][i].stop = EndHeight(CFChunkIndex(st2[p][i].next))
                      /\ i > 1 => st2[p][i].next = StartHeight(CFChunkIndex(st2[p][i].next))
    BY DEF StreamsOK
  <2>1. st[p] \in Seq(RequestType)
    BY DEF StreamType
  <2>2. CASE i \in DOMAIN st[p] /\ st2[p][i] = st[p][i]
    BY <2>2 DEF StreamsOK
  <2>3. CASE give[p] \in Segs /\ st2[p][i] = Request(give[p])
    BY <2>3, <1>2
  <2>4. \/ i \in DOMAIN st[p] /\ st2[p][i] = st[p][i]
        \/ give[p] \in Segs /\ st2[p][i] = Request(give[p])
    <3>1. CASE give[p] = NoSeg
      BY <3>1
    <3>2. CASE give[p] # NoSeg
      BY <3>2, <2>1, <1>2
    <3> QED BY <3>1, <3>2
  <2> QED BY <2>2, <2>3, <2>4
<1>7. \A p \in Peers, c \in Segs : Position(st2, p, c) = Position(st, p, c)
  <2> TAKE p \in Peers, c \in Segs
  <2>1. st[p] \in Seq(RequestType)
    BY DEF StreamType
  <2>2. CASE give[p] = NoSeg
    BY <2>2 DEF Position
  <2>3. CASE give[p] # NoSeg /\ st[p] # <<>>
    <3>1. st2[p] = Append(st[p], Request(give[p])) /\ give[p] \in Segs
      BY <2>3
    <3>2. Request(give[p]) \in RequestType
      BY <3>1, <1>2
    <3>3. st2[p] # <<>> /\ st2[p][1] = st[p][1]
      BY <3>1, <3>2, <2>1, <2>3, AppendFirst
    <3> QED BY <3>3, <2>3 DEF Position
  <2>4. CASE give[p] # NoSeg /\ st[p] = <<>>
    <3>1. st2[p] = Append(st[p], Request(give[p])) /\ give[p] \in Segs
      BY <2>4
    <3>2. st2[p] # <<>> /\ st2[p][1] = Request(give[p])
      <4>1. Request(give[p]) \in RequestType
        BY <3>1, <1>2
      <4>2. /\ Append(st[p], Request(give[p])) # <<>>
            /\ Append(st[p], Request(give[p]))[1]
                 = IF st[p] = <<>> THEN Request(give[p]) ELSE st[p][1]
        BY <4>1, <2>1, AppendFirst
      <4> QED BY <4>2, <3>1, <2>4
    <3>3. Position(st, p, c) = StartHeight(c)
      BY <2>4 DEF Position
    <3> QED BY <3>1, <3>2, <3>3, <1>2 DEF Position
  <2> QED BY <2>2, <2>3, <2>4
<1>8. WaitOK(sg2, st2, sc)
  <2> SUFFICES ASSUME NEW c \in Segs, sg2[c].assignedPeer # NoPeer, ~sg2[c].done,
                      NEW h \in Heights(c) \ sc
               PROVE  Ahead(c, Position(st2, sg2[c].assignedPeer, c), h) < sg2[c].remaining
    BY DEF WaitOK
  <2>1. sg2[c].assignedPeer \in Peers
    BY DEF TableType, SegEntry
  <2>2. CASE sg2[c] = sg[c]
    BY <2>1, <2>2, <1>7 DEF WaitOK
  <2>3. CASE \E p \in Peers : sg2[c] = Assigned(c, p)
    <3>1. sg2[c].remaining = SegSize(c)
      BY <2>3 DEF Assigned
    <3> DEFINE n == Position(st2, sg2[c].assignedPeer, c)
    <3>2. n \in Heights(c)
      BY <2>1, <1>5, <1>6, PositionInChunk
    <3>3. Ahead(c, n, h) < SegSize(c)
      BY <3>2, ChunkFacts DEF Ahead, Heights
    <3> QED BY <3>1, <3>3
  <2> QED BY <2>2, <2>3
<1> QED BY <1>4, <1>5, <1>6, <1>8

\* One pass of peergroup_schedule_cfilters is such a handing out.
LEMMA ScheduleKeeps ==
    ASSUME RangeOK,
           NEW sg \in TableType, NEW cn, NEW st \in StreamType, NEW sc,
           StreamsOK(st), WaitOK(sg, st, sc), ScheduleCfilters(sg, cn, st)
    PROVE  /\ seg' \in TableType
           /\ stream' \in StreamType
           /\ StreamsOK(stream')
           /\ WaitOK(seg', stream', sc)
           /\ \A c \in Segs : seg'[c].done = sg[c].done
<1>1. PICK give \in [Peers -> Segs \cup {NoSeg}] :
        /\ ScheduleOutcome(sg, cn, give)
        /\ seg' = [c \in Segs |->
                      IF c \in Taken(give)
                      THEN Assigned(c, CHOOSE p \in Peers : give[p] = c)
                      ELSE sg[c]]
        /\ stream' = [p \in Peers |-> IF give[p] = NoSeg THEN st[p]
                                      ELSE Append(st[p], Request(give[p]))]
  BY DEF ScheduleCfilters
<1>2. ASSUME NEW c \in Segs
      PROVE  \/ seg'[c] = sg[c]
             \/ \E p \in Peers : seg'[c] = Assigned(c, p) /\ ~sg[c].done
  <2>1. CASE c \notin Taken(give)
    BY <2>1, <1>1
  <2>2. CASE c \in Taken(give)
    <3>1. PICK q \in Peers : give[q] = c /\ c # NoSeg
      BY <2>2 DEF Taken
    <3> DEFINE p == CHOOSE r \in Peers : give[r] = c
    <3>2. p \in Peers
      BY <3>1
    <3>3. ~sg[c].done
      BY <3>1, <1>1 DEF ScheduleOutcome, Open
    <3>4. seg'[c] = Assigned(c, p)
      BY <2>2, <1>1
    <3> QED BY <3>2, <3>3, <3>4
  <2> QED BY <2>1, <2>2
<1>3. seg' \in TableType
  <2> SUFFICES ASSUME NEW c \in Segs PROVE seg'[c] \in SegEntry
    BY <1>1 DEF TableType
  <2> QED BY <1>2, AssignedType DEF TableType
<1>4. \A c \in Segs : \/ seg'[c] = sg[c]
                       \/ \E p \in Peers : seg'[c] = Assigned(c, p) /\ ~sg[c].done
  BY <1>2
<1> DEFINE sg2 == seg'
           st2 == stream'
<1>5. /\ sg2 \in TableType
      /\ \A c \in Segs : \/ sg2[c] = sg[c]
                         \/ \E p \in Peers : sg2[c] = Assigned(c, p) /\ ~sg[c].done
      /\ st2 = [p \in Peers |-> IF give[p] = NoSeg THEN st[p]
                                ELSE Append(st[p], Request(give[p]))]
  BY <1>1, <1>3, <1>4
<1> HIDE DEF sg2, st2
<1>6. /\ st2 \in StreamType
      /\ StreamsOK(st2) /\ WaitOK(sg2, st2, sc)
      /\ \A c \in Segs : sg2[c].done = sg[c].done
  BY <1>5, GiveKeeps, SMTT(30)
<1> QED BY <1>5, <1>6 DEF sg2, st2

\* One filter taken from p's stream moves p's position in one chunk by one,
\* around the end of the chunk, and no other position.
LEMMA FilterStep ==
    ASSUME RangeOK, stream \in StreamType, StreamsOK(stream),
           NEW p \in Peers, stream[p] # <<>>,
           NEW h, h = Head(stream[p]).next,
           NEW c, c = CFChunkIndex(h),
           NEW st, st = AfterOneFilter(p)
    PROVE  /\ c \in Segs
           /\ h \in Heights(c)
           /\ st \in StreamType
           /\ StreamsOK(st)
           /\ Position(stream, p, c) = h
           /\ Position(st, p, c) = IF h = EndHeight(c) THEN StartHeight(c) ELSE h + 1
           /\ \A q \in Peers, d \in Segs :
                 q # p \/ d # c => Position(st, q, d) = Position(stream, q, d)
<1> DEFINE s == stream[p]
           r == Head(s)
<1>1. s \in Seq(RequestType) /\ s # <<>>
  BY DEF StreamType
<1>2. r = s[1] /\ 1 \in DOMAIN s /\ r \in RequestType /\ DOMAIN s = 1..Len(s) /\ Len(s) \in Nat
  BY <1>1
<1>3. c \in Segs /\ h \in Heights(c) /\ r.stop = EndHeight(c) /\ r.next = h
  BY <1>2 DEF StreamsOK
<1>4. h \in Int /\ EndHeight(c) \in Int /\ StartHeight(c) =< h /\ h =< EndHeight(c)
      /\ StartHeight(c) \in Int
  BY <1>3, ChunkFacts DEF Heights
<1>5. Position(stream, p, c) = h
  BY <1>1, <1>2, <1>3 DEF Position
<1>6. \A d \in Segs : d # c => Position(stream, p, d) = StartHeight(d)
  BY <1>2, <1>3 DEF Position
<1>7. ASSUME NEW s2, s2 \in Seq(RequestType), st = [stream EXCEPT ![p] = s2],
             \A i \in DOMAIN s2 :
                /\ CFChunkIndex(s2[i].next) \in Segs
                /\ s2[i].next \in Heights(CFChunkIndex(s2[i].next))
                /\ s2[i].stop = EndHeight(CFChunkIndex(s2[i].next))
                /\ i > 1 => s2[i].next = StartHeight(CFChunkIndex(s2[i].next))
      PROVE  /\ st \in StreamType
             /\ StreamsOK(st)
             /\ st[p] = s2
             /\ \A q \in Peers, d \in Segs :
                   q # p => Position(st, q, d) = Position(stream, q, d)
  <2>1. st[p] = s2 /\ \A q \in Peers : q # p => st[q] = stream[q]
    BY <1>7 DEF StreamType
  <2>2. st \in StreamType
    BY <1>7, <2>1 DEF StreamType
  <2>3. StreamsOK(st)
    BY <1>7, <2>1 DEF StreamsOK
  <2> QED BY <2>1, <2>2, <2>3 DEF Position
<1>8. CASE r.next = r.stop
  <2> DEFINE s2 == Tail(s)
  <2>1. s2 \in Seq(RequestType) /\ \A i \in DOMAIN s2 : i + 1 \in DOMAIN s /\ i + 1 > 1 /\ s2[i] = s[i + 1]
    BY <1>1, HeadTailProperties
  <2>2. st = [stream EXCEPT ![p] = s2]
    BY <1>8 DEF AfterOneFilter
  <2>3. \A i \in DOMAIN s2 :
          /\ CFChunkIndex(s2[i].next) \in Segs
          /\ s2[i].next \in Heights(CFChunkIndex(s2[i].next))
          /\ s2[i].stop = EndHeight(CFChunkIndex(s2[i].next))
          /\ s2[i].next = StartHeight(CFChunkIndex(s2[i].next))
    BY <2>1 DEF StreamsOK
  <2> HIDE DEF s2
  <2>4. /\ st \in StreamType /\ StreamsOK(st) /\ st[p] = s2
        /\ \A q \in Peers, d \in Segs : q # p => Position(st, q, d) = Position(stream, q, d)
    BY <2>1, <2>2, <2>3, <1>7
  <2>5. s2 # <<>> => 1 \in DOMAIN s2
    BY <2>1
  <2>6. \A d \in Segs : Position(st, p, d) = StartHeight(d)
    BY <2>3, <2>4, <2>5 DEF Position
  <2>7. h = EndHeight(c)
    BY <1>8, <1>3
  <2> QED BY <2>4, <2>6, <2>7, <1>3, <1>5, <1>6
<1>9. CASE r.next # r.stop
  <2> DEFINE s2 == [s EXCEPT ![1].next = r.next + 1]
  <2>1. /\ s2 \in Seq(RequestType) /\ DOMAIN s2 = DOMAIN s /\ s2 # <<>>
        /\ s2[1].next = h + 1 /\ s2[1].stop = EndHeight(c)
        /\ \A i \in DOMAIN s2 : i # 1 => s2[i] = s[i]
    <3>1. s2 = [s EXCEPT ![1] = [s[1] EXCEPT !.next = r.next + 1]]
      BY <1>2
    <3>2. [s[1] EXCEPT !.next = r.next + 1] \in RequestType
      BY <1>2 DEF RequestType
    <3>3. s2 \in Seq(RequestType) /\ DOMAIN s2 = DOMAIN s /\ s2 # <<>>
      BY <3>1, <3>2, <1>1, <1>2, ExceptSeq
    <3>4. s2[1] = [s[1] EXCEPT !.next = r.next + 1]
      BY <3>1, <1>2
    <3> QED BY <3>1, <3>3, <3>4, <1>2, <1>3 DEF RequestType
  <2>2. st = [stream EXCEPT ![p] = s2]
    BY <1>9 DEF AfterOneFilter
  <2>3. h + 1 \in Heights(c) /\ CFChunkIndex(h + 1) = c
    <3>1. h + 1 \in Heights(c)
      BY <1>9, <1>3, <1>4 DEF Heights
    <3> QED BY <3>1, <1>3, IndexOfHeight
  <2>4. \A i \in DOMAIN s2 :
          /\ CFChunkIndex(s2[i].next) \in Segs
          /\ s2[i].next \in Heights(CFChunkIndex(s2[i].next))
          /\ s2[i].stop = EndHeight(CFChunkIndex(s2[i].next))
          /\ i > 1 => s2[i].next = StartHeight(CFChunkIndex(s2[i].next))
    BY <2>1, <2>3, <1>3 DEF StreamsOK
  <2> HIDE DEF s2
  <2>5. /\ st \in StreamType /\ StreamsOK(st) /\ st[p] = s2
        /\ \A q \in Peers, d \in Segs : q # p => Position(st, q, d) = Position(stream, q, d)
    BY <2>1, <2>2, <2>4, <1>7
  <2>6. Position(st, p, c) = h + 1
    BY <2>1, <2>3, <2>5 DEF Position
  <2>7. \A d \in Segs : d # c => Position(st, p, d) = StartHeight(d)
    BY <2>1, <2>3, <2>5 DEF Position
  <2>8. h # EndHeight(c)
    BY <1>9, <1>3
  <2> QED BY <2>5, <2>6, <2>7, <2>8, <1>3, <1>5, <1>6
<1> QED BY <1>8, <1>9

\* The filter p sends of a chunk it holds is the next one the chunk waits for.
LEMMA CountedFilter ==
    ASSUME RangeOK, NEW c \in Segs, NEW h \in Heights(c), NEW g \in Heights(c), g # h,
           NEW rem \in Int, Ahead(c, h, g) < rem
    PROVE  Ahead(c, IF h = EndHeight(c) THEN StartHeight(c) ELSE h + 1, g) < rem - 1
BY ChunkFacts DEF Ahead, Heights

\* A chunk that waits for one more filter has all others.
LEMMA LastFilter ==
    ASSUME RangeOK, NEW c \in Segs, NEW h \in Heights(c), NEW g \in Heights(c),
           NEW rem \in Int, rem =< 1, Ahead(c, h, g) < rem
    PROVE  g = h
BY ChunkFacts DEF Ahead, Heights

-----------------------------------------------------------------------------
(* The resume pointer, the pending fetches, and the parts of the invariant *)

\* peergroup_advance_lastblk keeps the resume pointer inside what the done
\* chunks cover.
LEMMA AdvanceCovered ==
    ASSUME RangeOK, NEW sg, NEW sc, NEW pend, NEW last,
           NEW k \in 0..SegCount(floor, tip),
           PrefixDone(sg, k),
           \A c \in Segs : sg[c].done => Heights(c) \subseteq sc,
           lastBlk \in floor..tip,
           lastBlk > floor => floor..lastBlk \subseteq sc,
           AdvanceLastblk(k, pend, last)
    PROVE  last \in floor..tip /\ (last > floor => floor..last \subseteq sc)
<1>1. CASE last = lastBlk
  BY <1>1
<1>2. CASE last # lastBlk
  <2>1. k # 0
    BY <1>2 DEF AdvanceLastblk
  <2>2. PICK safe \in (floor - 1)..tip :
           safe =< EndHeight(k - 1) /\ floor =< safe /\ last = safe
    BY <1>2, <2>1 DEF AdvanceLastblk, RangeOK
  <2>3. k \in Nat /\ k \in 1..SegCount(floor, tip)
    BY <2>1
  <2>4. ASSUME NEW h \in floor..last PROVE h \in sc
    <3>1. h \in floor..tip /\ h =< EndHeight(k - 1)
      <4>1. k - 1 \in Segs
        BY <2>3, SegCountNat DEF Segs, SegsOf
      <4> QED BY <2>2, <4>1, ChunkFacts DEF RangeOK
    <3>2. CFChunkIndex(h) \in 0..(k - 1)
      BY <3>1, <2>3, HeightInPrefix
    <3>3. CFChunkIndex(h) \in Segs /\ h \in Heights(CFChunkIndex(h))
      BY <3>1, HeightHasChunk
    <3> QED BY <3>2, <3>3 DEF PrefixDone
  <2> QED BY <2>2, <2>4 DEF RangeOK
<1> QED BY <1>1, <1>2

\* Removing an entry leaves a table of entries.
LEMMA RemoveType ==
    ASSUME NEW S, NEW pend \in Seq(S), NEW h
    PROVE  RemovePendingBlock(pend, h) \in Seq(S)
<1>1. CASE h \notin PendingHeights(pend)
  BY <1>1 DEF RemovePendingBlock
<1>2. CASE h \in PendingHeights(pend)
  <2>1. Len(pend) \in Nat /\ DOMAIN pend = 1..Len(pend) /\ \A j \in 1..Len(pend) : pend[j] \in S
    BY LenProperties
  <2>2. Len(pend) >= 1
    BY <1>2, <2>1 DEF PendingHeights
  <2> DEFINE i == CHOOSE j \in DOMAIN pend :
                     /\ pend[j].height = h
                     /\ \A m \in 1..(j - 1) : pend[m].height # h
             p2 == [pend EXCEPT ![i] = pend[Len(pend)]]
  <2>3. RemovePendingBlock(pend, h) = SubSeq(p2, 1, Len(pend) - 1)
    BY <1>2 DEF RemovePendingBlock
  <2> HIDE DEF i
  <2>4. \A j \in 1..Len(pend) : p2[j] \in S
    BY <2>1, <2>2
  <2> HIDE DEF p2
  <2>5. \A j \in 1..(Len(pend) - 1) : p2[j] \in S
    BY <2>1, <2>4
  <2>6. SubSeq(p2, 1, Len(pend) - 1) \in Seq(S)
    BY <2>1, <2>5, SubSeqProperties
  <2> QED BY <2>3, <2>6
<1> QED BY <1>1, <1>2

PendingType == [height : floor..tip, requestedFrom : Peers]
FetchType   == [Peers -> Seq(floor..tip)]

\* A retry keeps the pending table and the requests well-formed.
LEMMA RetryType ==
    ASSUME NEW failed, NEW h \in floor..tip,
           NEW pend \in Seq(PendingType), NEW ft \in FetchType,
           RetryBlockFetch(failed, h, pend, ft)
    PROVE  cfPending' \in Seq(PendingType) /\ fetch' \in FetchType
<1>1. CASE cfPending' = pend /\ fetch' = ft
  BY <1>1
<1>2. CASE \E best \in RetryPeers(failed) :
             /\ cfPending' = AddPendingBlock(pend, h, best)
             /\ fetch' = [ft EXCEPT ![best] = Append(@, h)]
  <2>1. PICK best \in RetryPeers(failed) :
             /\ cfPending' = AddPendingBlock(pend, h, best)
             /\ fetch' = [ft EXCEPT ![best] = Append(@, h)]
    BY <1>2
  <2>2. best \in Peers
    BY <2>1, PeersAssumption DEF RetryPeers
  <2>3. [height |-> h, requestedFrom |-> best] \in PendingType
    BY <2>2 DEF PendingType
  <2>4. cfPending' \in Seq(PendingType)
    BY <2>1, <2>3, AppendProperties DEF AddPendingBlock
  <2>5. Append(ft[best], h) \in Seq(floor..tip)
    BY <2>2, AppendProperties DEF FetchType
  <2> QED BY <2>1, <2>4, <2>5 DEF FetchType
<1>3. \/ cfPending' = pend /\ fetch' = ft
      \/ \E best \in RetryPeers(failed) :
             /\ cfPending' = AddPendingBlock(pend, h, best)
             /\ fetch' = [ft EXCEPT ![best] = Append(@, h)]
  BY DEF RetryBlockFetch
<1> QED BY <1>1, <1>2, <1>3

\* In a step that keeps the scan range, the chunk table keeps its shape and
\* the invariant's parts can be shown of the new values.
LEMMA SameRange ==
    ASSUME floor' = floor, tip' = tip
    PROVE  /\ Segs' = Segs
           /\ \A c : Heights(c)' = Heights(c)
           /\ PendingType' = PendingType /\ FetchType' = FetchType
           /\ SegCount(floor', tip') = SegCount(floor, tip)
           /\ StreamsOK(stream') => StreamsOK(stream)'
           /\ WaitOK(seg', stream', scanned') => WaitOK(seg, stream, scanned)'
           /\ TableType' = TableType
BY DEF Segs, SegsOf, SegCount, Heights, StartHeight, EndHeight, SegSize, PendingType,
       FetchType, StreamsOK, WaitOK, Position, Ahead, CFChunkIndex, TableType, SegEntry

BudgetType == [stalls : Nat, slowBlocks : Nat, disconnects : Nat, crashes : Nat]

\* The part of the invariant about the scan itself.
ScanPart(sg, st, sc, k, last, up) ==
    /\ sg \in TableType
    /\ st \in StreamType
    /\ StreamsOK(st)
    /\ up => WaitOK(sg, st, sc)
    /\ k \in 0..SegCount(floor, tip)
    /\ PrefixDone(sg, k)
    /\ \A c \in Segs : sg[c].done => Heights(c) \subseteq sc
    /\ sc \subseteq floor..tip
    /\ last \in floor..tip
    /\ last > floor => floor..last \subseteq sc

\* The invariant, taken apart.
LEMMA Parts ==
    ASSUME IInv
    PROVE  /\ RangeOK /\ floor \in Birth..MaxTip /\ tip \in floor..MaxTip
           /\ ScanPart(seg, stream, scanned, contig, lastBlk, state # "DOWN")
           /\ state \in {"UPDATE_TXDB", "READY", "DOWN"}
           /\ stop \in BOOLEAN /\ needWrite \in BOOLEAN /\ stopRequested \in BOOLEAN
           /\ saved \in 0..tip
           /\ cfPending \in Seq(PendingType) /\ conn \subseteq Peers /\ fetch \in FetchType
           /\ processed \subseteq Birth..tip
           /\ budget \in BudgetType
           /\ DownInv
<1>1. TypeOK /\ RangeOK
  BY TypeRange DEF IInv
<1> QED BY <1>1 DEF IInv, TypeOK, ScanPart, TableType, StreamType, RequestType, PendingType,
                    FetchType, BudgetType, DoneMeansScanned, ResumeCovered

\* The invariant, put together again after a step that keeps the scan range.
LEMMA Assemble ==
    ASSUME IInv, floor' = floor, tip' = tip,
           ScanPart(seg', stream', scanned', contig', lastBlk', state' # "DOWN"),
           state' \in {"UPDATE_TXDB", "READY", "DOWN"},
           stop' \in BOOLEAN, needWrite' \in BOOLEAN, stopRequested' \in BOOLEAN,
           saved' \in 0..tip,
           cfPending' \in Seq(PendingType), conn' \subseteq Peers, fetch' \in FetchType,
           processed' \subseteq Birth..tip,
           budget' \in BudgetType,
           DownInv'
    PROVE  IInv'
<1>1. /\ Segs' = Segs /\ TableType' = TableType
      /\ \A c : Heights(c)' = Heights(c)
      /\ PendingType' = PendingType /\ FetchType' = FetchType
      /\ SegCount(floor', tip') = SegCount(floor, tip)
      /\ StreamsOK(stream') => StreamsOK(stream)'
      /\ WaitOK(seg', stream', scanned') => WaitOK(seg, stream, scanned)'
  BY SameRange
<1>2. StreamsOK(stream)' /\ (state # "DOWN" => WaitOK(seg, stream, scanned))'
  BY <1>1 DEF ScanPart
<1>3. PrefixDone(seg, contig)'
  BY DEF ScanPart, PrefixDone
<1>4. DoneMeansScanned' /\ ResumeCovered'
  BY <1>1 DEF ScanPart, DoneMeansScanned, ResumeCovered
<1>5. TypeOK'
  <2>1. seg' \in [Segs' -> SegEntry]
    BY <1>1 DEF ScanPart, TableType
  <2>2. cfPending' \in Seq([height : floor'..tip', requestedFrom : Peers])
    BY DEF PendingType
  <2>3. stream' \in [Peers -> Seq([next : Int, stop : Int])] /\ fetch' \in [Peers -> Seq(floor'..tip')]
    BY DEF ScanPart, StreamType, RequestType, FetchType
  <2>4. contig' \in 0..SegCount(floor', tip') /\ lastBlk' \in floor'..tip' /\ scanned' \subseteq floor'..tip'
    BY <1>1 DEF ScanPart
  <2>5. floor' \in Birth..MaxTip /\ tip' \in floor'..MaxTip
    BY Parts
  <2> QED BY <2>1, <2>2, <2>3, <2>4, <2>5 DEF TypeOK, BudgetType, SegEntry
<1> QED BY <1>2, <1>3, <1>4, <1>5 DEF IInv

-----------------------------------------------------------------------------
(* The steps *)

NoStreams == [p \in Peers |-> <<>>]

\* With no request outstanding there is nothing to be consistent about.
LEMMA NoStreamsOK ==
    NoStreams \in StreamType /\ StreamsOK(NoStreams) /\ NoStreams \in FetchType
BY EmptySeq DEF NoStreams, StreamType, StreamsOK, FetchType

\* A fresh chunk table is well-formed, and none of its chunks is in flight.
LEMMA FreshTable ==
    ASSUME NEW f \in Nat, NEW t \in Nat, f =< t
    PROVE  /\ FreshSegs(f, t) \in [SegsOf(f, t) -> SegEntry]
           /\ \A c \in SegsOf(f, t) : /\ FreshSegs(f, t)[c].assignedPeer = NoPeer
                                      /\ FreshSegs(f, t)[c].done = FALSE
           /\ SegCount(f, t) \in Nat
<1>1. Batch \in Nat \ {0} /\ t - f \in Nat
  BY HeightsAssumption
<1>2. SegCount(f, t) \in Nat /\ SegsOf(f, t) \subseteq Nat
  BY <1>1, DivBounds DEF SegCount, SegsOf
<1> QED BY <1>1, <1>2 DEF FreshSegs, SegEntry

\* The initial state satisfies the invariant.
LEMMA InitInv == Init => IInv
<1> SUFFICES ASSUME Init PROVE IInv
  OBVIOUS
<1>1. /\ floor = Birth /\ Birth \in Nat \ {0} /\ tip \in Nat /\ floor =< tip /\ tip =< MaxTip
      /\ MaxTip \in Nat
  BY HeightsAssumption DEF Init
<1>2. /\ seg \in [Segs -> SegEntry] /\ SegCount(floor, tip) \in Nat
      /\ \A c \in Segs : seg[c].assignedPeer = NoPeer /\ seg[c].done = FALSE
  <2>1. seg = FreshSegs(floor, tip) /\ Segs = SegsOf(floor, tip)
    BY <1>1 DEF Init, Segs
  <2>2. floor \in Nat /\ tip \in Nat /\ floor =< tip
    BY <1>1
  <2> QED BY <2>1, <2>2, FreshTable
<1>3. stream \in StreamType /\ StreamsOK(stream) /\ fetch \in FetchType
  BY NoStreamsOK DEF Init, NoStreams
<1>4. cfPending \in Seq([height : floor..tip, requestedFrom : Peers])
  BY EmptySeq DEF Init
<1>5. budget \in BudgetType
  BY BoundsAssumption DEF Init, BudgetType
<1>6. TypeOK
  <2>1. /\ floor \in Birth..MaxTip /\ tip \in floor..MaxTip /\ lastBlk \in floor..tip
        /\ saved \in 0..tip /\ contig \in 0..SegCount(floor, tip)
    BY <1>1, <1>2 DEF Init
  <2>2. /\ state \in {"UPDATE_TXDB", "READY", "DOWN"}
        /\ stop \in BOOLEAN /\ needWrite \in BOOLEAN /\ stopRequested \in BOOLEAN
        /\ conn \subseteq Peers /\ scanned \subseteq floor..tip /\ processed \subseteq Birth..tip
    BY DEF Init
  <2> QED BY <2>1, <2>2, <1>2, <1>3, <1>4, <1>5
             DEF TypeOK, StreamType, RequestType, FetchType, BudgetType
<1>7. WaitOK(seg, stream, scanned) /\ DoneMeansScanned /\ ResumeCovered
  BY <1>1, <1>2 DEF Init, WaitOK, DoneMeansScanned, ResumeCovered
<1>8. PrefixDone(seg, contig)
  BY DEF Init, PrefixDone
<1> QED BY <1>3, <1>6, <1>7, <1>8 DEF IInv, DownInv, Init

\* A new run starts a scan of an empty range of scanned heights.
LEMMA RestartInv == IInv /\ Restart => IInv'
<1> SUFFICES ASSUME IInv, Restart PROVE IInv'
  OBVIOUS
<1>1. /\ RangeOK /\ tip \in floor..MaxTip /\ floor \in Birth..MaxTip /\ saved \in 0..tip
      /\ stream \in StreamType /\ fetch \in FetchType /\ DownInv
      /\ conn \subseteq Peers /\ processed \subseteq Birth..tip /\ budget \in BudgetType
      /\ stopRequested \in BOOLEAN
  BY Parts DEF ScanPart
<1>2. Birth \in Nat \ {0} /\ MaxTip \in Nat /\ Birth =< tip
  BY <1>1, HeightsAssumption DEF RangeOK
<1>3. ScanStart \in Birth..tip /\ ScanStart \in Nat
  BY <1>1, <1>2, HeightsAssumption DEF ScanStart, RangeOK
<1>4. PICK t \in tip..MaxTip :
          tip' = t /\ floor' = ScanStart /\ seg' = FreshSegs(ScanStart, t)
  BY DEF Restart
<1>5. /\ floor' \in Nat /\ tip' \in Nat /\ floor' =< tip' /\ tip =< tip' /\ tip' =< MaxTip
      /\ Birth =< floor' /\ floor' =< MaxTip
  BY <1>1, <1>2, <1>3, <1>4 DEF RangeOK
<1>6. /\ seg' \in [Segs' -> SegEntry] /\ SegCount(floor', tip') \in Nat
      /\ \A c \in Segs' : seg'[c].assignedPeer = NoPeer /\ seg'[c].done = FALSE
  <2>1. seg' = FreshSegs(floor', tip') /\ Segs' = SegsOf(floor', tip')
    BY <1>4 DEF Segs
  <2> DEFINE f == floor'
             u == tip'
  <2>2. f \in Nat /\ u \in Nat /\ f =< u
    BY <1>5
  <2> HIDE DEF f, u
  <2>3. /\ FreshSegs(f, u) \in [SegsOf(f, u) -> SegEntry]
        /\ \A c \in SegsOf(f, u) : /\ FreshSegs(f, u)[c].assignedPeer = NoPeer
                                   /\ FreshSegs(f, u)[c].done = FALSE
        /\ SegCount(f, u) \in Nat
    BY <2>2, FreshTable
  <2> QED BY <2>1, <2>3 DEF f, u
<1>7. state = "DOWN" /\ cfPending = <<>> /\ stream = NoStreams /\ fetch = NoStreams
  BY <1>1 DEF Restart, DownInv, NoStreams, StreamType, FetchType
<1>8. cfPending' = <<>> /\ stream' = NoStreams /\ fetch' = NoStreams
  BY <1>7 DEF Restart, netVars, NoStreams
<1>9. /\ stream' \in [Peers -> Seq([next : Int, stop : Int])]
      /\ fetch' \in [Peers -> Seq(floor'..tip')]
      /\ cfPending' \in Seq([height : floor'..tip', requestedFrom : Peers])
      /\ StreamsOK(stream)'
  BY <1>8, EmptySeq DEF NoStreams, StreamsOK
<1>10. TypeOK'
  <2>1. /\ floor' \in Birth..MaxTip /\ tip' \in floor'..MaxTip /\ lastBlk' \in floor'..tip'
        /\ saved' \in 0..tip' /\ contig' \in 0..SegCount(floor', tip')
    BY <1>1, <1>2, <1>3, <1>4, <1>5, <1>6 DEF Restart, RangeOK
  <2>2. /\ state' \in {"UPDATE_TXDB", "READY", "DOWN"}
        /\ stop' \in BOOLEAN /\ needWrite' \in BOOLEAN /\ stopRequested' \in BOOLEAN
        /\ conn' \subseteq Peers /\ scanned' \subseteq floor'..tip'
    BY <1>1 DEF Restart, netVars
  <2>3. processed' \subseteq Birth..tip'
    BY <1>1, <1>2, <1>5 DEF Restart, RangeOK
  <2>4. budget' \in [stalls : Nat, slowBlocks : Nat, disconnects : Nat, crashes : Nat]
    BY <1>1 DEF Restart, BudgetType
  <2> QED BY <2>1, <2>2, <2>3, <2>4, <1>6, <1>9 DEF TypeOK, SegEntry
<1>11. WaitOK(seg, stream, scanned)' /\ DoneMeansScanned'
  BY <1>6 DEF WaitOK, DoneMeansScanned
<1>12. ResumeCovered' /\ PrefixDone(seg, contig)' /\ DownInv'
  BY <1>4, <1>5 DEF Restart, ResumeCovered, PrefixDone, DownInv
<1> QED BY <1>9, <1>10, <1>11, <1>12 DEF IInv

\* A crash or an exit leaves nothing in flight.
LEMMA EndInv == IInv /\ (Crash \/ Exit) => IInv'
<1> SUFFICES ASSUME IInv, Crash \/ Exit PROVE IInv'
  OBVIOUS
<1> USE Parts
<1>1. Down
  BY DEF Crash, Exit
<1>2. ScanPart(seg', stream', scanned', contig', lastBlk', state' # "DOWN")
  BY <1>1, NoStreamsOK DEF Down, ScanPart, NoStreams
<1>3. cfPending' \in Seq(PendingType) /\ fetch' \in FetchType
  BY <1>1, NoStreamsOK, EmptySeq DEF Down, NoStreams
<1>4. DownInv'
  BY <1>1 DEF Down, DownInv
<1>5. saved' \in 0..tip /\ needWrite' \in BOOLEAN
  <2>1. lastBlk \in 0..tip /\ saved \in 0..tip /\ 0 \in 0..tip /\ needWrite \in BOOLEAN
    BY DEF ScanPart, RangeOK
  <2>2. saved' \in {lastBlk, 0, saved} /\ needWrite' \in {needWrite, FALSE}
    BY DEF Crash, Exit, SaveLastblk
  <2> QED BY <2>1, <2>2
<1>6. budget' \in BudgetType
  BY DEF Crash, Exit, BudgetType
<1> QED BY <1>1, <1>2, <1>3, <1>4, <1>5, <1>6, Assemble DEF Down

\* Saving the resume pointer.
LEMMA PeriodicInv == IInv /\ PeriodicCb => IInv'
<1> SUFFICES ASSUME IInv, PeriodicCb PROVE IInv'
  OBVIOUS
<1>1. ScanPart(seg', stream', scanned', contig', lastBlk', state' # "DOWN")
  BY Parts DEF PeriodicCb, netVars
<1>2. saved' \in 0..tip
  BY Parts DEF PeriodicCb, SaveLastblk, ScanPart, RangeOK
<1>3. DownInv'
  BY Parts DEF PeriodicCb, netVars, DownInv
<1> QED BY <1>1, <1>2, <1>3, Parts, Assemble DEF PeriodicCb, netVars

\* A table in which some chunks were taken away from their peers, and the pass
\* of peergroup_schedule_cfilters that follows.
LEMMA RescheduleInv ==
    ASSUME IInv, Running, NEW sg \in TableType, NEW cn, NEW st \in StreamType, StreamsOK(st),
           \A c \in Segs :
              /\ sg[c].done = seg[c].done
              /\ \/ sg[c].assignedPeer = NoPeer
                 \/ sg[c] = seg[c] /\ (seg[c].done \/ st[seg[c].assignedPeer] = stream[seg[c].assignedPeer]),
           ScheduleCfilters(sg, cn, st),
           UNCHANGED <<scanned, contig, lastBlk>>
    PROVE  ScanPart(seg', stream', scanned', contig', lastBlk', state' # "DOWN")
<1>1. /\ RangeOK /\ ScanPart(seg, stream, scanned, contig, lastBlk, TRUE)
  BY Parts DEF Running, ScanPart
<1>2. WaitOK(sg, st, scanned)
  <2> SUFFICES ASSUME NEW c \in Segs, sg[c].assignedPeer # NoPeer, ~sg[c].done,
                      NEW h \in Heights(c) \ scanned
               PROVE  Ahead(c, Position(st, sg[c].assignedPeer, c), h) < sg[c].remaining
    BY DEF WaitOK
  <2>1. sg[c] = seg[c] /\ st[seg[c].assignedPeer] = stream[seg[c].assignedPeer]
    OBVIOUS
  <2>2. Position(st, seg[c].assignedPeer, c) = Position(stream, seg[c].assignedPeer, c)
    BY <2>1 DEF Position
  <2> QED BY <1>1, <2>1, <2>2 DEF ScanPart, WaitOK
<1>3. /\ seg' \in TableType /\ stream' \in StreamType
      /\ StreamsOK(stream') /\ WaitOK(seg', stream', scanned)
      /\ \A c \in Segs : seg'[c].done = sg[c].done
  BY <1>1, <1>2, ScheduleKeeps
<1>4. \A c \in Segs : seg'[c].done = seg[c].done
  BY <1>3
<1>5. \A i \in 0..(contig - 1) : i \in Segs
  BY <1>1, SegCountNat DEF ScanPart, Segs, SegsOf
<1>6. PrefixDone(seg', contig)
  BY <1>1, <1>4, <1>5 DEF ScanPart, PrefixDone
<1> QED BY <1>1, <1>3, <1>4, <1>6 DEF ScanPart

\* A new peer.
LEMMA HandshakeInv ==
    ASSUME IInv, NEW p \in Peers, HandshakeOk(p) PROVE IInv'
<1> USE Parts
<1>1. ScanPart(seg', stream', scanned', contig', lastBlk', state' # "DOWN")
  <2>1. CASE UNCHANGED <<seg, stream>>
    BY <2>1 DEF HandshakeOk
  <2>2. CASE ScheduleCfilters(seg, conn', stream)
    <3>1. UNCHANGED <<scanned, contig, lastBlk>> /\ Running
      BY DEF HandshakeOk
    <3>2. seg \in TableType /\ stream \in StreamType /\ StreamsOK(stream)
      BY DEF ScanPart
    <3> QED BY <2>2, <3>1, <3>2, RescheduleInv
  <2> QED BY <2>1, <2>2 DEF HandshakeOk
<1>2. DownInv'
  BY DEF HandshakeOk, Running, DownInv
<1> QED BY <1>1, <1>2, Assemble DEF HandshakeOk

\* Requeued chunks are well-formed and held by nobody.
LEMMA RequeuedType ==
    ASSUME RangeOK, NEW sg \in TableType, NEW c \in Segs
    PROVE  /\ Requeued(sg, c) \in SegEntry
           /\ Requeued(sg, c).assignedPeer = NoPeer
           /\ Requeued(sg, c).done = sg[c].done
<1> DEFINE e == sg[c]
<1>1. e \in SegEntry /\ SegSize(c) \in Int
  BY ChunkFacts DEF TableType
<1>2. Requeued(sg, c) = [e EXCEPT !.avoidPeer = e.assignedPeer,
                                  !.assignedPeer = NoPeer,
                                  !.remaining = SegSize(c)]
  BY DEF Requeued
<1> HIDE DEF e
<1>3. /\ Requeued(sg, c) \in SegEntry
      /\ Requeued(sg, c).assignedPeer = NoPeer
      /\ Requeued(sg, c).done = e.done
  BY <1>1, <1>2 DEF SegEntry
<1> QED BY <1>3 DEF e

\* A peer goes, and its chunk goes back to the others.
LEMMA PeerDestroyInv ==
    ASSUME IInv, NEW p \in Peers, PeerDestroy(p) PROVE IInv'
<1> USE Parts
<1> DEFINE st == [stream EXCEPT ![p] = <<>>]
           gone == {c \in Segs : seg[c].assignedPeer = p /\ ~seg[c].done}
           sg == [c \in Segs |-> IF c \in gone THEN Requeued(seg, c) ELSE seg[c]]
<1>1. /\ seg \in TableType /\ stream \in StreamType /\ StreamsOK(stream) /\ Running
      /\ UNCHANGED <<scanned, contig, lastBlk>>
  BY DEF ScanPart, PeerDestroy
<1>2. st \in StreamType /\ StreamsOK(st) /\ \A q \in Peers : q # p => st[q] = stream[q]
  <2>1. st \in StreamType
    BY <1>1, EmptySeq DEF StreamType
  <2>2. st[p] = <<>> /\ \A q \in Peers : q # p => st[q] = stream[q]
    BY <1>1 DEF StreamType
  <2> HIDE DEF st
  <2> QED BY <2>1, <2>2, <1>1 DEF StreamsOK
<1>3. \A c \in Segs : \/ seg[c].assignedPeer \in Peers
                      \/ seg[c].assignedPeer = NoPeer
  BY <1>1 DEF TableType, SegEntry
<1>4. ScanPart(seg', stream', scanned', contig', lastBlk', state' # "DOWN")
  <2>1. CASE gone = {}
    <3>1. seg' = seg /\ stream' = st
      BY <2>1 DEF PeerDestroy, RequeuePeerChunks
    <3>2. WaitOK(seg, st, scanned)
      <4> SUFFICES ASSUME NEW c \in Segs, seg[c].assignedPeer # NoPeer, ~seg[c].done,
                          NEW h \in Heights(c) \ scanned
                   PROVE  Ahead(c, Position(st, seg[c].assignedPeer, c), h) < seg[c].remaining
        BY DEF WaitOK
      <4>1. seg[c].assignedPeer # p
        BY <2>1
      <4>2. Position(st, seg[c].assignedPeer, c) = Position(stream, seg[c].assignedPeer, c)
        <5> HIDE DEF st
        <5> QED BY <4>1, <1>2, <1>3 DEF Position
      <4> QED BY <4>2, <1>1 DEF ScanPart, WaitOK, Running
    <3> HIDE DEF st
    <3> QED BY <3>1, <3>2, <1>1, <1>2 DEF ScanPart
  <2>2. CASE gone # {}
    <3>1. ScheduleCfilters(sg, conn', st)
      BY <2>2 DEF PeerDestroy, RequeuePeerChunks
    <3>2. \A c \in Segs : sg[c] = IF seg[c].assignedPeer = p /\ ~seg[c].done
                                  THEN Requeued(seg, c) ELSE seg[c]
      OBVIOUS
    <3>3. sg \in TableType
      BY <1>1, RequeuedType DEF TableType
    <3> HIDE DEF sg, st
    <3>4. \A c \in Segs :
              /\ sg[c].done = seg[c].done
              /\ \/ sg[c].assignedPeer = NoPeer
                 \/ sg[c] = seg[c] /\ (seg[c].done \/ st[seg[c].assignedPeer] = stream[seg[c].assignedPeer])
      BY <3>2, <1>1, <1>2, <1>3, RequeuedType
    <3> QED BY <3>1, <3>3, <3>4, <1>1, <1>2, RescheduleInv
  <2> QED BY <2>1, <2>2
<1>5. fetch' \in FetchType
  BY EmptySeq DEF PeerDestroy, FetchType
<1>6. budget' \in BudgetType
  BY DEF PeerDestroy, BudgetType
<1>7. DownInv'
  BY DEF PeerDestroy, Running, DownInv
<1> QED BY <1>4, <1>5, <1>6, <1>7, Assemble DEF PeerDestroy

\* Stalled chunks are taken away from their peers, whose streams go on.
LEMMA ChunkTimeoutInv == IInv /\ ChunkTimeout => IInv'
<1> SUFFICES ASSUME IInv, ChunkTimeout PROVE IInv'
  OBVIOUS
<1> USE Parts
<1>1. /\ seg \in TableType /\ stream \in StreamType /\ StreamsOK(stream) /\ Running
      /\ UNCHANGED <<scanned, contig, lastBlk>>
  BY DEF ScanPart, ChunkTimeout
<1>2. PICK stalled : ExpireChunks(stalled)
  BY DEF ChunkTimeout
<1>3. ScanPart(seg', stream', scanned', contig', lastBlk', state' # "DOWN")
  <2> DEFINE sg == [c \in Segs |-> IF c \in stalled THEN Requeued(seg, c) ELSE seg[c]]
  <2>1. CASE stalled = {}
    BY <1>1, <1>2, <2>1 DEF ExpireChunks, ChunkTimeout
  <2>2. CASE stalled # {}
    <3>1. ScheduleCfilters(sg, conn, stream)
      BY <1>2, <2>2 DEF ExpireChunks
    <3>2. \A c \in Segs : sg[c] = IF c \in stalled THEN Requeued(seg, c) ELSE seg[c]
      OBVIOUS
    <3>3. sg \in TableType
      BY <1>1, RequeuedType DEF TableType
    <3> HIDE DEF sg
    <3>4. \A c \in Segs : /\ sg[c].done = seg[c].done
                          /\ sg[c].assignedPeer = NoPeer \/ sg[c] = seg[c]
      BY <3>2, <1>1, RequeuedType
    <3> QED BY <3>1, <3>3, <3>4, <1>1, RescheduleInv
  <2> QED BY <2>1, <2>2
<1>4. budget' \in BudgetType
  BY DEF ChunkTimeout, BudgetType
<1>5. DownInv'
  BY DEF ChunkTimeout, Running, DownInv
<1> QED BY <1>3, <1>4, <1>5, Assemble DEF ChunkTimeout

\* The request p answers next is for a height of the scan range.
LEMMA FetchHead ==
    ASSUME fetch \in FetchType, NEW p \in Peers, fetch[p] # <<>>
    PROVE  /\ Head(fetch[p]) \in floor..tip
           /\ [fetch EXCEPT ![p] = Tail(@)] \in FetchType
<1>1. Head(fetch[p]) \in floor..tip /\ Tail(fetch[p]) \in Seq(floor..tip)
  BY HeadTailProperties DEF FetchType
<1> QED BY <1>1 DEF FetchType

\* Answers to and timeouts of block requests, other than the block itself.
LEMMA FetchInv ==
    ASSUME IInv,
           \/ \E p \in Peers : HandleNotfound(p) \/ IgnoreGetdata(p)
           \/ \E i \in DOMAIN cfPending : BlockTimeout(i)
    PROVE  IInv'
<1> USE Parts
<1>1. ASSUME NEW p \in Peers, HandleNotfound(p) PROVE IInv'
  <2>1. cfPending' \in Seq(PendingType) /\ fetch' \in FetchType
    <3>1. /\ Head(fetch[p]) \in floor..tip
          /\ [fetch EXCEPT ![p] = Tail(@)] \in FetchType
      BY <1>1, FetchHead DEF HandleNotfound
    <3>2. RetryBlockFetch(p, Head(fetch[p]), cfPending, [fetch EXCEPT ![p] = Tail(@)])
      BY <1>1 DEF HandleNotfound
    <3> QED BY <3>1, <3>2, RetryType
  <2>2. ScanPart(seg', stream', scanned', contig', lastBlk', state' # "DOWN")
    BY <1>1 DEF HandleNotfound
  <2>3. DownInv'
    BY <1>1 DEF HandleNotfound, Running, DownInv
  <2> QED BY <1>1, <2>1, <2>2, <2>3, Assemble DEF HandleNotfound
<1>2. ASSUME NEW p \in Peers, IgnoreGetdata(p) PROVE IInv'
  <2>1. fetch' \in FetchType
    BY <1>2, FetchHead DEF IgnoreGetdata
  <2>2. ScanPart(seg', stream', scanned', contig', lastBlk', state' # "DOWN")
    BY <1>2 DEF IgnoreGetdata, procVars
  <2>3. DownInv'
    BY <1>2 DEF IgnoreGetdata, procVars, Running, DownInv
  <2> QED BY <1>2, <2>1, <2>2, <2>3, Assemble DEF IgnoreGetdata, procVars
<1>3. ASSUME NEW i \in DOMAIN cfPending, BlockTimeout(i) PROVE IInv'
  <2>1. cfPending[i] \in PendingType
    BY <1>3, ElementOfSeq
  <2>2. cfPending' \in Seq(PendingType) /\ fetch' \in FetchType
    <3> DEFINE e == cfPending[i]
               pend == RemovePendingBlock(cfPending, e.height)
    <3>1. e.height \in floor..tip
      BY <2>1 DEF PendingType
    <3>2. pend \in Seq(PendingType)
      BY RemoveType
    <3>3. RetryBlockFetch(e.requestedFrom, e.height, pend, fetch)
      BY <1>3 DEF BlockTimeout, ExpireBlock
    <3> HIDE DEF e, pend
    <3> QED BY <3>1, <3>2, <3>3, RetryType
  <2>3. ScanPart(seg', stream', scanned', contig', lastBlk', state' # "DOWN")
    BY <1>3 DEF BlockTimeout
  <2>4. DownInv'
    BY <1>3 DEF BlockTimeout, Running, DownInv
  <2>5. budget' \in BudgetType
    BY <1>3 DEF BlockTimeout, BudgetType
  <2> QED BY <1>3, <2>2, <2>3, <2>4, <2>5, Assemble DEF BlockTimeout
<1> QED BY <1>1, <1>2, <1>3

\* What peergroup_download_complete and bitc_req_stop may do to the process.
LEMMA CompleteType ==
    ASSUME IInv, Running, NEW a, NEW b, DownloadComplete(a, b),
           a \in BOOLEAN, b \in BOOLEAN
    PROVE  state' \in {"UPDATE_TXDB", "READY"} /\ stop' \in BOOLEAN
BY Parts, HeightsAssumption DEF DownloadComplete, Running

\* A block arrives: the resume pointer may follow.
LEMMA HandleBlockInv ==
    ASSUME IInv, NEW p \in Peers, HandleBlock(p) PROVE IInv'
<1> USE Parts
<1> DEFINE h == Head(fetch[p])
           pend == RemovePendingBlock(cfPending, h)
<1>1. h \in floor..tip /\ [fetch EXCEPT ![p] = Tail(@)] \in FetchType
  BY FetchHead DEF HandleBlock
<1>2. pend \in Seq(PendingType)
  BY RemoveType
<1>3. PICK last \in floor..tip :
          /\ AdvanceLastblk(contig, pend, last)
          /\ SetLastblk(last)
          /\ LET drained == stopRequested /\ pend = <<>>
             IN  DownloadComplete(drained \/ ScanComplete(contig, pend, last), drained)
  BY DEF HandleBlock
<1>4. /\ cfPending' = pend /\ fetch' = [fetch EXCEPT ![p] = Tail(@)]
      /\ processed' = processed \cup {h} /\ Running
      /\ UNCHANGED <<floor, tip, seg, contig, stopRequested, conn, stream, saved, scanned, budget>>
  BY DEF HandleBlock
<1> HIDE DEF h, pend
<1>5. last \in floor..tip /\ (last > floor => floor..last \subseteq scanned)
  BY <1>3, AdvanceCovered DEF ScanPart
<1>6. lastBlk' = last /\ needWrite' \in BOOLEAN
  BY <1>3 DEF SetLastblk
<1>7. state' \in {"UPDATE_TXDB", "READY"} /\ stop' \in BOOLEAN
  BY <1>3, <1>4, CompleteType DEF ScanComplete
<1>8. ScanPart(seg', stream', scanned', contig', lastBlk', state' # "DOWN")
  BY <1>4, <1>5, <1>6 DEF ScanPart, Running
<1>9. DownInv'
  BY <1>7 DEF DownInv
<1>10. processed' \subseteq Birth..tip
  BY <1>1, <1>4, HeightsAssumption DEF RangeOK
<1> QED BY <1>1, <1>2, <1>4, <1>6, <1>7, <1>8, <1>9, <1>10, Assemble

\* The last filter of a chunk: the prefix and the resume pointer move, and the
\* peer may be handed another chunk.
LEMMA CompleteChunkPart ==
    ASSUME IInv, NEW c \in Segs, NEW h \in Heights(c), NEW p \in Peers,
           NEW k \in contig..SegCount(floor, tip), NEW last, NEW sc,
           sc = scanned \cup {h}, Mine(c, p), CompleteChunk(c, p, k, last),
           AfterOneFilter(p) \in StreamType, StreamsOK(AfterOneFilter(p)),
           \A g \in Heights(c) : g \in sc,
           \A d \in Segs : d # c /\ seg[d].assignedPeer # NoPeer /\ ~seg[d].done =>
               \A g \in Heights(d) \ sc :
                  Ahead(d, Position(AfterOneFilter(p), seg[d].assignedPeer, d), g)
                     < seg[d].remaining
    PROVE  ScanPart(seg', stream', sc, contig', lastBlk', TRUE) /\ needWrite' \in BOOLEAN
<1> USE Parts
<1> DEFINE sg == [seg EXCEPT ![c].remaining = @ - 1, ![c].done = TRUE]
           st == AfterOneFilter(p)
<1>1. /\ \A i \in contig..(k - 1) : sg[i].done
      /\ contig' = k
      /\ AdvanceLastblk(k, cfPending, last)
      /\ SetLastblk(last)
      /\ \/ /\ seg' = sg
            /\ stream' = st
         \/ \E d \in Segs :
               /\ Open(sg, d, p)
               /\ seg' = [sg EXCEPT ![d] = Assigned(d, p)]
               /\ stream' = [st EXCEPT ![p] = Append(@, Request(d))]
  BY DEF CompleteChunk
<1>2. /\ seg \in TableType /\ contig \in 0..SegCount(floor, tip) /\ PrefixDone(seg, contig)
      /\ \A d \in Segs : seg[d].done => Heights(d) \subseteq scanned
      /\ scanned \subseteq floor..tip /\ lastBlk \in floor..tip
      /\ lastBlk > floor => floor..lastBlk \subseteq scanned
  BY DEF ScanPart
<1>3. /\ sg \in TableType /\ sg[c].done = TRUE
      /\ \A d \in Segs : d # c => sg[d] = seg[d]
  <2>1. seg[c] \in SegEntry
    BY <1>2 DEF TableType
  <2>2. sg = [seg EXCEPT ![c] = [seg[c] EXCEPT !.remaining = @ - 1, !.done = TRUE]]
    BY <1>2 DEF TableType
  <2>3. /\ [seg[c] EXCEPT !.remaining = @ - 1, !.done = TRUE] \in SegEntry
        /\ [seg[c] EXCEPT !.remaining = @ - 1, !.done = TRUE].done = TRUE
    <3> DEFINE e == seg[c]
    <3>1. e \in SegEntry
      BY <2>1
    <3> HIDE DEF e
    <3> DEFINE n == e.remaining - 1
    <3>2. n \in Int
      BY <3>1 DEF SegEntry
    <3> HIDE DEF n
    <3>3. /\ [e EXCEPT !.remaining = n, !.done = TRUE] \in SegEntry
          /\ [e EXCEPT !.remaining = n, !.done = TRUE].done = TRUE
      BY <3>1, <3>2, Zenon DEF SegEntry
    <3>4. /\ [e EXCEPT !.remaining = @ - 1, !.done = TRUE] \in SegEntry
          /\ [e EXCEPT !.remaining = @ - 1, !.done = TRUE].done = TRUE
      BY <3>3 DEF n
    <3> QED BY <3>4 DEF e
  <2> HIDE DEF sg
  <2> QED BY <2>2, <2>3, <1>2 DEF TableType
<1> HIDE DEF sg
<1>4. SegCount(floor, tip) \in Nat /\ contig \in Nat /\ k \in 0..SegCount(floor, tip) /\ k \in Nat
  BY <1>2, SegCountNat
<1>5. PrefixDone(sg, k)
  <2> SUFFICES ASSUME NEW i \in 0..(k - 1) PROVE sg[i].done
    BY DEF PrefixDone
  <2>1. CASE i >= contig
    BY <1>1, <1>4, <2>1
  <2>2. CASE i < contig
    <3>1. i \in Segs
      BY <1>4 DEF Segs, SegsOf
    <3>2. seg[i].done
      BY <1>2, <1>4, <2>2 DEF PrefixDone
    <3> QED BY <3>1, <3>2, <1>3
  <2> QED BY <1>4, <2>1, <2>2
<1>6. \A d \in Segs : sg[d].done => Heights(d) \subseteq sc
  BY <1>2, <1>3
<1>7. WaitOK(sg, st, sc)
  BY <1>3 DEF WaitOK
<1>8. last \in floor..tip /\ (last > floor => floor..last \subseteq sc)
  BY <1>1, <1>2, <1>4, <1>5, <1>6, AdvanceCovered
<1>9. lastBlk' = last /\ needWrite' \in BOOLEAN
  BY <1>1 DEF SetLastblk
<1>10. sc \subseteq floor..tip
  BY <1>2, ChunkFacts DEF Heights, RangeOK
<1>11. st \in StreamType /\ StreamsOK(st)
  OBVIOUS
<1> HIDE DEF st
<1>12. /\ seg' \in TableType /\ stream' \in StreamType /\ StreamsOK(stream')
       /\ WaitOK(seg', stream', sc)
       /\ \A d \in Segs : seg'[d].done = sg[d].done
  <2>1. CASE seg' = sg /\ stream' = st
    BY <2>1, <1>3, <1>7, <1>11
  <2>2. CASE \E d \in Segs :
               /\ Open(sg, d, p)
               /\ seg' = [sg EXCEPT ![d] = Assigned(d, p)]
               /\ stream' = [st EXCEPT ![p] = Append(@, Request(d))]
    <3>1. PICK d \in Segs :
               /\ Open(sg, d, p)
               /\ seg' = [sg EXCEPT ![d] = Assigned(d, p)]
               /\ stream' = [st EXCEPT ![p] = Append(@, Request(d))]
      BY <2>2
    <3> DEFINE give == [q \in Peers |-> IF q = p THEN d ELSE NoSeg]
               sg2 == seg'
               st2 == stream'
    <3>2. give \in [Peers -> Segs \cup {NoSeg}]
      OBVIOUS
    <3>3. d # NoSeg
      BY ChunkFacts DEF NoSeg
    <3>4. st2 = [q \in Peers |-> IF give[q] = NoSeg THEN st[q]
                                 ELSE Append(st[q], Request(give[q]))]
      BY <3>1, <3>3, <1>11 DEF StreamType
    <3>5. sg2 \in TableType
      BY <3>1, <1>3, AssignedType DEF TableType
    <3>6. \A e \in Segs : \/ sg2[e] = sg[e]
                          \/ \E q \in Peers : sg2[e] = Assigned(e, q) /\ ~sg[e].done
      BY <3>1, <1>3 DEF TableType, Open
    <3> HIDE DEF give, sg2, st2
    <3>7. /\ st2 \in StreamType /\ StreamsOK(st2) /\ WaitOK(sg2, st2, sc)
          /\ \A e \in Segs : sg2[e].done = sg[e].done
      BY <3>2, <3>4, <3>5, <3>6, <1>3, <1>7, <1>11, GiveKeeps
    <3> QED BY <3>5, <3>7 DEF sg2, st2
  <2> QED BY <1>1, <2>1, <2>2
<1>13. PrefixDone(seg', k)
  <2>1. \A i \in 0..(k - 1) : i \in Segs
    BY <1>4 DEF Segs, SegsOf
  <2> QED BY <2>1, <1>5, <1>12 DEF PrefixDone
<1>14. \A d \in Segs : seg'[d].done => Heights(d) \subseteq sc
  BY <1>6, <1>12
<1> QED BY <1>1, <1>4, <1>8, <1>9, <1>10, <1>12, <1>13, <1>14 DEF ScanPart

\* A filter arrives.
LEMMA HandleCfilterInv ==
    ASSUME IInv, NEW p \in Peers, HandleCfilter(p) PROVE IInv'
<1> USE Parts
<1> DEFINE h == Head(stream[p]).next
           c == CFChunkIndex(h)
           st == AfterOneFilter(p)
           sc == scanned \cup {h}
<1>1. /\ Running /\ stream[p] # <<>> /\ stream \in StreamType /\ StreamsOK(stream)
      /\ seg \in TableType /\ WaitOK(seg, stream, scanned)
      /\ scanned' = sc /\ StopOrMatch(p, h)
      /\ UNCHANGED <<floor, tip, conn, saved, processed, budget>>
  BY DEF HandleCfilter, ScanPart, Running
<1>2. /\ c \in Segs /\ h \in Heights(c) /\ st \in StreamType /\ StreamsOK(st)
      /\ Position(stream, p, c) = h
      /\ Position(st, p, c) = IF h = EndHeight(c) THEN StartHeight(c) ELSE h + 1
      /\ \A q \in Peers, d \in Segs :
            q # p \/ d # c => Position(st, q, d) = Position(stream, q, d)
  <2> HIDE DEF h, c, st
  <2>1. h = Head(stream[p]).next /\ c = CFChunkIndex(h) /\ st = AfterOneFilter(p)
    BY DEF h, c, st
  <2> QED BY <2>1, <1>1, FilterStep
<1>3. \/ /\ ~Mine(c, p)
         /\ stream' = st
         /\ DownloadComplete(StopNow(h), StopNow(h))
         /\ UNCHANGED <<seg, contig, lastBlk, needWrite>>
      \/ /\ Mine(c, p)
         /\ seg[c].remaining > 1
         /\ seg' = [seg EXCEPT ![c].remaining = @ - 1]
         /\ stream' = st
         /\ DownloadComplete(StopNow(h), StopNow(h))
         /\ UNCHANGED <<contig, lastBlk, needWrite>>
      \/ /\ Mine(c, p)
         /\ seg[c].remaining =< 1
         /\ \E k \in contig..SegCount(floor, tip), last \in floor..tip :
               /\ CompleteChunk(c, p, k, last)
               /\ DownloadComplete(\/ last # lastBlk /\ ScanComplete(k, cfPending, last)
                                   \/ StopNow(h),
                                   StopNow(h))
  BY DEF HandleCfilter
<1>4. h \in floor..tip /\ sc \subseteq floor..tip
  <2>1. RangeOK /\ scanned \subseteq floor..tip
    BY DEF ScanPart
  <2>2. sc = scanned \cup {h}
    OBVIOUS
  <2> HIDE DEF h, c, sc
  <2>3. /\ StartHeight(c) \in Nat /\ EndHeight(c) \in Nat
        /\ floor =< StartHeight(c) /\ EndHeight(c) =< tip
    BY <1>2, <2>1, ChunkFacts
  <2>4. h \in floor..tip
    BY <1>2, <2>1, <2>3 DEF Heights, RangeOK
  <2> QED BY <2>1, <2>2, <2>4
<1>5. \A d \in Segs : seg[d] \in SegEntry
  BY <1>1 DEF TableType
<1>6. state' \in {"UPDATE_TXDB", "READY"} /\ stop' \in BOOLEAN
  <2> HIDE DEF h, c, st, sc
  <2> QED BY <1>1, <1>3, CompleteType DEF StopNow, ScanComplete
<1>7. stopRequested' \in BOOLEAN /\ cfPending' \in Seq(PendingType) /\ fetch' \in FetchType
  <2> HIDE DEF h
  <2>1. [height |-> h, requestedFrom |-> p] \in PendingType
    BY <1>4 DEF PendingType
  <2>2. AddPendingBlock(cfPending, h, p) \in Seq(PendingType)
    BY <2>1, AppendProperties DEF AddPendingBlock
  <2>3. [fetch EXCEPT ![p] = Append(@, h)] \in FetchType
    <3>1. Append(fetch[p], h) \in Seq(floor..tip)
      BY <1>4, AppendProperties DEF FetchType
    <3> QED BY <3>1 DEF FetchType
  <2> QED BY <1>1, <2>2, <2>3 DEF StopOrMatch
<1>8. ASSUME NEW d \in Segs, seg[d].assignedPeer # NoPeer, ~seg[d].done,
             d # c \/ seg[d].assignedPeer # p, NEW g \in Heights(d) \ sc
      PROVE  Ahead(d, Position(st, seg[d].assignedPeer, d), g) < seg[d].remaining
  <2>1. seg[d].assignedPeer \in Peers
    BY <1>5, <1>8 DEF SegEntry
  <2>2. Position(st, seg[d].assignedPeer, d) = Position(stream, seg[d].assignedPeer, d)
    BY <1>2, <1>8, <2>1
  <2> QED BY <1>1, <1>8, <2>2 DEF WaitOK
<1>9. ScanPart(seg', stream', sc, contig', lastBlk', TRUE) /\ needWrite' \in BOOLEAN
  <2>1. CASE ~Mine(c, p) /\ stream' = st /\ UNCHANGED <<seg, contig, lastBlk, needWrite>>
    <3> HIDE DEF h, c, st
    <3>1. WaitOK(seg, st, sc)
      BY <1>2, <1>8, <2>1 DEF WaitOK, Mine
    <3> QED BY <2>1, <3>1, <1>2, <1>4 DEF ScanPart
  <2>2. CASE /\ Mine(c, p) /\ seg' = [seg EXCEPT ![c].remaining = @ - 1]
             /\ stream' = st /\ UNCHANGED <<contig, lastBlk, needWrite>>
    <3> HIDE DEF h, c, st
    <3>1. seg[c] \in SegEntry /\ c \in Segs /\ p # NoPeer
      BY <1>2, <1>5, PeersAssumption
    <3>2. seg' = [seg EXCEPT ![c] = [seg[c] EXCEPT !.remaining = @ - 1]]
      BY <2>2, <1>1, <3>1 DEF TableType
    <3>3. /\ [seg[c] EXCEPT !.remaining = @ - 1] \in SegEntry
          /\ [seg[c] EXCEPT !.remaining = @ - 1].done = seg[c].done
          /\ [seg[c] EXCEPT !.remaining = @ - 1].assignedPeer = seg[c].assignedPeer
          /\ [seg[c] EXCEPT !.remaining = @ - 1].remaining = seg[c].remaining - 1
      BY <3>1 DEF SegEntry
    <3>4. /\ seg' \in TableType
          /\ \A d \in Segs : /\ seg'[d].done = seg[d].done
                             /\ seg'[d].assignedPeer = seg[d].assignedPeer
                             /\ d # c => seg'[d] = seg[d]
          /\ seg'[c].remaining = seg[c].remaining - 1
      BY <3>1, <3>2, <3>3, <1>1 DEF TableType
    <3>5. WaitOK(seg', st, sc)
      <4> SUFFICES ASSUME NEW d \in Segs, seg'[d].assignedPeer # NoPeer, ~seg'[d].done,
                          NEW g \in Heights(d) \ sc
                   PROVE  Ahead(d, Position(st, seg'[d].assignedPeer, d), g) < seg'[d].remaining
        BY DEF WaitOK
      <4>1. CASE d # c
        BY <4>1, <3>4, <1>8
      <4>2. CASE d = c
        <5>1. seg[c].assignedPeer = p /\ seg[c].remaining \in Int
          BY <2>2, <3>1 DEF Mine, SegEntry
        <5>2. Ahead(c, h, g) < seg[c].remaining
          BY <4>2, <5>1, <1>1, <1>2, <3>1, <3>4 DEF WaitOK
        <5>3. g # h /\ g \in Heights(c)
          BY <4>2
        <5>4. Ahead(c, IF h = EndHeight(c) THEN StartHeight(c) ELSE h + 1, g) < seg[c].remaining - 1
          BY <5>1, <5>2, <5>3, <1>2, CountedFilter
        <5> QED BY <4>2, <5>1, <5>4, <1>2, <3>4
      <4> QED BY <4>1, <4>2
    <3>6. PrefixDone(seg', contig)
      <4>1. \A i \in 0..(contig - 1) : i \in Segs
        BY SegCountNat DEF ScanPart, Segs, SegsOf
      <4> QED BY <4>1, <3>4 DEF PrefixDone, ScanPart
    <3>7. \A d \in Segs : seg'[d].done => Heights(d) \subseteq sc
      BY <3>4 DEF ScanPart
    <3> QED BY <2>2, <3>4, <3>5, <3>6, <3>7, <1>2, <1>4 DEF ScanPart
  <2>3. CASE /\ Mine(c, p) /\ seg[c].remaining =< 1
             /\ \E k \in contig..SegCount(floor, tip), last \in floor..tip :
                   CompleteChunk(c, p, k, last)
    <3> HIDE DEF h, c
    <3>1. PICK k \in contig..SegCount(floor, tip), last \in floor..tip :
             CompleteChunk(c, p, k, last)
      BY <2>3
    <3>2. seg[c].assignedPeer = p /\ ~seg[c].done /\ p # NoPeer /\ seg[c].remaining \in Int
      BY <2>3, <1>2, <1>5, PeersAssumption DEF Mine, SegEntry
    <3>3. ASSUME NEW g \in Heights(c) PROVE g \in sc
      <4>1. SUFFICES ASSUME g \notin scanned PROVE g = h
        OBVIOUS
      <4>2. Ahead(c, h, g) < seg[c].remaining
        BY <4>1, <3>2, <1>1, <1>2 DEF WaitOK
      <4> QED BY <4>2, <3>2, <2>3, <1>2, LastFilter
    <3>4. \A d \in Segs : d # c /\ seg[d].assignedPeer # NoPeer /\ ~seg[d].done =>
               \A g \in Heights(d) \ sc :
                  Ahead(d, Position(AfterOneFilter(p), seg[d].assignedPeer, d), g)
                     < seg[d].remaining
      BY <1>8
    <3>5. AfterOneFilter(p) \in StreamType /\ StreamsOK(AfterOneFilter(p))
      BY <1>2
    <3>6. sc = scanned \cup {h} /\ Mine(c, p)
      BY <2>3
    <3> HIDE DEF sc, st
    <3> QED BY <3>1, <3>3, <3>4, <3>5, <3>6, <1>2, CompleteChunkPart
  <2> QED BY <1>3, <2>1, <2>2, <2>3
<1>10. ScanPart(seg', stream', scanned', contig', lastBlk', state' # "DOWN")
  <2> HIDE DEF h, sc
  <2> QED BY <1>1, <1>9 DEF ScanPart
<1>11. DownInv'
  BY <1>6 DEF DownInv
<1> QED BY <1>1, <1>6, <1>7, <1>9, <1>10, <1>11, Assemble

-----------------------------------------------------------------------------
(* The theorems *)

\* Every step of the scan preserves the invariant.
LEMMA NextInv == IInv /\ [Next]_vars => IInv'
<1> SUFFICES ASSUME IInv, [Next]_vars PROVE IInv'
  OBVIOUS
<1>1. CASE Restart
  BY <1>1, RestartInv
<1>2. CASE Crash \/ Exit
  BY <1>2, EndInv
<1>3. CASE PeriodicCb
  BY <1>3, PeriodicInv
<1>4. CASE ChunkTimeout
  BY <1>4, ChunkTimeoutInv
<1>5. CASE \E p \in Peers : HandshakeOk(p)
  BY <1>5, HandshakeInv
<1>6. CASE \E p \in Peers : PeerDestroy(p)
  BY <1>6, PeerDestroyInv
<1>7. CASE \E p \in Peers : HandleCfilter(p)
  BY <1>7, HandleCfilterInv
<1>8. CASE \E p \in Peers : HandleBlock(p)
  BY <1>8, HandleBlockInv
<1>9. CASE \/ \E p \in Peers : HandleNotfound(p) \/ IgnoreGetdata(p)
           \/ \E i \in DOMAIN cfPending : BlockTimeout(i)
  BY <1>9, FetchInv
<1>10. CASE UNCHANGED vars
  <2>1. UNCHANGED <<procVars, netVars, saved, scanned, processed, budget>>
    BY <1>10 DEF vars
  <2>2. ScanPart(seg', stream', scanned', contig', lastBlk', state' # "DOWN") /\ DownInv'
    BY <2>1, Parts DEF procVars, netVars, DownInv
  <2> QED BY <2>1, <2>2, Parts, Assemble DEF procVars, netVars
<1> QED BY <1>1, <1>2, <1>3, <1>4, <1>5, <1>6, <1>7, <1>8, <1>9, <1>10 DEF Next

\* The inductive invariant holds in every reachable state.
THEOREM ScanInvariant == Spec => []IInv
<1>1. Init => IInv
  BY InitInv
<1>2. IInv /\ [Next]_vars => IInv'
  BY NextInv
<1> QED BY <1>1, <1>2, PTL DEF Spec

\* The scan's state is well-typed: in particular lastBlk stays within the scan
\* range and the chunk table keeps its bounds (cfSeg, cfDoneContig).
THEOREM TypeCorrect == Spec => []TypeOK
<1>1. IInv => TypeOK
  BY DEF IInv
<1> QED BY <1>1, ScanInvariant, PTL

\* peergroup_handle_cfilter marks a chunk done only when every height of it has
\* been scanned, whatever was requeued, reassigned or answered late.
THEOREM DoneIsScanned == Spec => []DoneMeansScanned
<1>1. IInv => DoneMeansScanned
  BY DEF IInv
<1> QED BY <1>1, ScanInvariant, PTL

\* The resume pointer of peergroup_advance_lastblk never passes an unscanned
\* height.
THEOREM ResumeIsCovered == Spec => []ResumeCovered
<1>1. IInv => ResumeCovered
  BY DEF IInv
<1> QED BY <1>1, ScanInvariant, PTL

\* What is saved never lies above the pointer of the running scan.
SavedInv == saved =< lastBlk

\* peergroup_advance_lastblk never moves the pointer back.
LEMMA AdvanceMonotone ==
    ASSUME RangeOK, lastBlk \in floor..tip, NEW k, NEW pend, NEW last,
           AdvanceLastblk(k, pend, last)
    PROVE  last >= lastBlk /\ last \in Int
BY DEF AdvanceLastblk, RangeOK

\* One step, without --stop-after-height: the saved pointer stays, grows or is
\* lost.
LEMMA SavedStep ==
    ASSUME StopAfter = 0, IInv, SavedInv, [Next]_vars
    PROVE  SavedInv' /\ (saved' >= saved \/ saved' = 0)
<1>1. /\ RangeOK /\ floor \in Nat /\ tip \in Nat /\ lastBlk \in floor..tip /\ lastBlk \in Int
      /\ saved \in 0..tip /\ saved \in Int
  BY Parts DEF ScanPart, RangeOK
<1>2. CASE UNCHANGED <<saved, lastBlk>>
  BY <1>1, <1>2 DEF SavedInv
<1>3. CASE Restart
  <2>1. lastBlk' = ScanStart /\ saved' = saved
    BY <1>3 DEF Restart
  <2>2. ScanStart >= saved
    BY <1>1, HeightsAssumption DEF ScanStart
  <2> QED BY <1>1, <2>1, <2>2 DEF SavedInv
<1>4. CASE Exit \/ PeriodicCb
  <2>1. lastBlk' = lastBlk /\ saved' \in {lastBlk, 0, saved}
    BY <1>4 DEF Exit, Down, PeriodicCb, SaveLastblk
  <2> QED BY <1>1, <2>1 DEF SavedInv
<1>5. CASE \E p \in Peers : HandleCfilter(p)
  <2>1. PICK p \in Peers : HandleCfilter(p)
    BY <1>5
  <2>2. saved' = saved
    BY <2>1 DEF HandleCfilter
  <2>3. \/ lastBlk' = lastBlk
        \/ \E c, k, last : CompleteChunk(c, p, k, last)
    BY <2>1 DEF HandleCfilter
  <2>4. lastBlk' >= lastBlk /\ lastBlk' \in Int
    <3>1. CASE lastBlk' = lastBlk
      BY <3>1, <1>1
    <3>2. CASE \E c, k, last : CompleteChunk(c, p, k, last)
      <4>1. PICK c, k, last : CompleteChunk(c, p, k, last)
        BY <3>2
      <4>2. AdvanceLastblk(k, cfPending, last) /\ lastBlk' = last
        BY <4>1 DEF CompleteChunk, SetLastblk
      <4> QED BY <4>2, <1>1, AdvanceMonotone
    <3> QED BY <2>3, <3>1, <3>2
  <2> QED BY <1>1, <2>2, <2>4 DEF SavedInv
<1>6. CASE \E p \in Peers : HandleBlock(p)
  <2>1. PICK p \in Peers : HandleBlock(p)
    BY <1>6
  <2>2. PICK pend, last : AdvanceLastblk(contig, pend, last) /\ SetLastblk(last)
    BY <2>1 DEF HandleBlock
  <2>3. lastBlk' >= lastBlk /\ lastBlk' \in Int
    BY <2>2, <1>1, AdvanceMonotone DEF SetLastblk
  <2>4. saved' = saved
    BY <2>1 DEF HandleBlock
  <2> QED BY <1>1, <2>3, <2>4 DEF SavedInv
<1>7. \/ UNCHANGED <<saved, lastBlk>>
      \/ Restart \/ Exit \/ PeriodicCb
      \/ \E p \in Peers : HandleCfilter(p) \/ HandleBlock(p)
  BY DEF Next, vars, procVars, Crash, Down, ChunkTimeout, HandshakeOk, PeerDestroy,
         HandleNotfound, IgnoreGetdata, BlockTimeout
<1> QED BY <1>2, <1>3, <1>4, <1>5, <1>6, <1>7

\* Without --stop-after-height the saved resume pointer never moves back to an
\* earlier height, across crashes, restarts and saves that failed or were
\* interrupted: such a save keeps it or loses it altogether.
THEOREM ResumeMonotone ==
    ASSUME StopAfter = 0 PROVE Spec => ResumeKeptOrLost
<1>1. Init => SavedInv
  BY HeightsAssumption DEF Init, SavedInv
<1>2. IInv /\ SavedInv /\ [Next]_vars => SavedInv'
  BY SavedStep
<1>3. IInv /\ SavedInv /\ [Next]_vars => [saved' >= saved \/ saved' = 0]_vars
  BY SavedStep
<1>4. Spec => []IInv
  BY ScanInvariant
<1> QED BY <1>1, <1>2, <1>3, <1>4, PTL DEF Spec, ResumeKeptOrLost

-----------------------------------------------------------------------------
(* The chunks in flight *)

\* Peer p still sends n filters of chunk c, by one request alone.
Delivers(st, c, p, n) ==
    \E i \in DOMAIN st[p] : /\ st[p][i].stop = EndHeight(c)
                            /\ n =< st[p][i].stop - st[p][i].next + 1

\* The chunks in flight are held by different connected peers, that send what
\* the chunks wait for.
Held(sg, cn, st) ==
    \A c \in Live(sg) :
        /\ sg[c].assignedPeer \in cn
        /\ \A d \in Live(sg) \ {c} : sg[d].assignedPeer # sg[c].assignedPeer
        /\ Delivers(st, c, sg[c].assignedPeer, sg[c].remaining)

\* The part of a state's chunks in flight, for a process that runs.
FlightOK(sg, cn, st) == Cardinality(Live(sg)) =< MaxInflight /\ Held(sg, cn, st)

LiveInv == /\ Cardinality(Live(seg)) =< MaxInflight
           /\ state # "DOWN" => Held(seg, conn, stream)

\* The table is finite, and so is what is in flight.
LEMMA LiveFinite ==
    ASSUME RangeOK, NEW sg
    PROVE  /\ IsFiniteSet(Segs) /\ IsFiniteSet(Live(sg)) /\ Cardinality(Live(sg)) \in Nat
           /\ Live(sg) \subseteq Segs
<1>1. 0 \in Int /\ SegCount(floor, tip) - 1 \in Int
  BY SegCountNat
<1>2. IsFiniteSet(Segs)
  BY <1>1, FS_Interval DEF Segs, SegsOf
<1>3. Live(sg) \in SUBSET Segs
  BY DEF Live
<1> QED BY <1>2, <1>3, FS_Subset, FS_CardinalityType

\* A chunk ends where no other does.
LEMMA EndDiffers ==
    ASSUME RangeOK, NEW c \in Segs, NEW d \in Segs, EndHeight(c) = EndHeight(d)
    PROVE  c = d
<1>1. EndHeight(c) \in Heights(c) /\ EndHeight(d) \in Heights(d)
  BY ChunkFacts DEF Heights
<1> QED BY <1>1, IndexOfHeight

\* A longer stream delivers as much.
LEMMA DeliversAppend ==
    ASSUME NEW st \in StreamType, NEW st2 \in StreamType, NEW c, NEW p \in Peers, NEW n,
           NEW r \in RequestType, st2[p] = Append(st[p], r)
    PROVE  /\ Delivers(st, c, p, n) => Delivers(st2, c, p, n)
           /\ r.stop = EndHeight(c) /\ n =< r.stop - r.next + 1 => Delivers(st2, c, p, n)
<1>1. st[p] \in Seq(RequestType) /\ st2[p] \in Seq(RequestType)
  BY DEF StreamType
<1>2. /\ DOMAIN st[p] = 1..Len(st[p]) /\ DOMAIN st2[p] = 1..(Len(st[p]) + 1)
      /\ Len(st[p]) \in Nat
      /\ \A i \in 1..Len(st[p]) : st2[p][i] = st[p][i]
      /\ st2[p][Len(st[p]) + 1] = r
  BY <1>1, AppendProperties
<1>3. \A i \in DOMAIN st[p] : i \in DOMAIN st2[p] /\ st2[p][i] = st[p][i]
  BY <1>2
<1>4. Len(st[p]) + 1 \in DOMAIN st2[p]
  BY <1>2
<1>5. Delivers(st, c, p, n) => Delivers(st2, c, p, n)
  BY <1>3, Zenon DEF Delivers
<1>6. r.stop = EndHeight(c) /\ n =< r.stop - r.next + 1 => Delivers(st2, c, p, n)
  BY <1>2, <1>4, Zenon DEF Delivers
<1> QED BY <1>5, <1>6

\* The pass of peergroup_schedule_cfilters hands a chunk to a peer that holds
\* none, and no more chunks than may be in flight.
LEMMA HeldSchedule ==
    ASSUME RangeOK, NEW sg \in TableType, NEW cn, cn \subseteq Peers, NEW st \in StreamType,
           FlightOK(sg, cn, st), seg' \in TableType, stream' \in StreamType,
           ScheduleCfilters(sg, cn, st)
    PROVE  FlightOK(seg', cn, stream')
<1>1. PICK give \in [Peers -> Segs \cup {NoSeg}] :
        /\ ScheduleOutcome(sg, cn, give)
        /\ seg' = [c \in Segs |->
                      IF c \in Taken(give)
                      THEN Assigned(c, CHOOSE p \in Peers : give[p] = c)
                      ELSE sg[c]]
        /\ stream' = [p \in Peers |-> IF give[p] = NoSeg THEN st[p]
                                      ELSE Append(st[p], Request(give[p]))]
  BY DEF ScheduleCfilters
<1> DEFINE sg2 == seg'
           st2 == stream'
           T == Taken(give)
<1>2. sg2 \in TableType /\ st2 \in StreamType
  OBVIOUS
<1>3. T \subseteq Segs
  BY DEF Taken
<1>4. ASSUME NEW c \in T
      PROVE  \E q \in Peers : /\ give[q] = c /\ give[q] # NoSeg /\ q \in Candidates(sg, cn)
                              /\ sg2[c] = Assigned(c, q)
                              /\ st2[q] = Append(st[q], Request(c))
  <2> DEFINE q == CHOOSE p \in Peers : give[p] = c
  <2>1. q \in Peers /\ give[q] = c /\ c # NoSeg
    BY <1>4 DEF Taken
  <2>2. sg2[c] = Assigned(c, q)
    BY <1>1, <1>3, <1>4
  <2>3. st2[q] = Append(st[q], Request(c))
    BY <1>1, <2>1
  <2>4. q \in Candidates(sg, cn)
    BY <1>1, <2>1 DEF ScheduleOutcome
  <2> HIDE DEF q
  <2> QED BY <2>1, <2>2, <2>3, <2>4
<1>5. \A c \in Segs : c \notin T => sg2[c] = sg[c]
  BY <1>1
<1>6. \A c \in Segs : Request(c) \in RequestType
  BY ChunkFacts DEF Request, RequestType
<1>7. ASSUME NEW q \in Peers, NEW c, NEW n, Delivers(st, c, q, n) PROVE Delivers(st2, c, q, n)
  <2>1. CASE give[q] = NoSeg
    <3>1. st2[q] = st[q]
      BY <1>1, <2>1
    <3> QED BY <1>7, <3>1 DEF Delivers
  <2>2. CASE give[q] # NoSeg
    <3>1. st2[q] = Append(st[q], Request(give[q])) /\ Request(give[q]) \in RequestType
      BY <1>1, <1>6, <2>2
    <3> HIDE DEF st2
    <3> QED BY <1>2, <1>7, <3>1, DeliversAppend
  <2> QED BY <2>1, <2>2
<1>8. \A p, q \in Peers : give[p] = give[q] /\ give[p] # NoSeg => p = q
  BY <1>1 DEF ScheduleOutcome
<1>9. T # {} => Cardinality(Live(sg)) + Cardinality(T) =< MaxInflight
  BY <1>1 DEF ScheduleOutcome
<1> HIDE DEF sg2, st2, T
<1>10. ASSUME NEW c \in Live(sg2), c \notin T PROVE c \in Live(sg) /\ sg2[c] = sg[c]
  BY <1>5, <1>10 DEF Live
<1>11. Cardinality(Live(sg2)) =< MaxInflight
  <2>1. /\ IsFiniteSet(Segs) /\ IsFiniteSet(Live(sg)) /\ Cardinality(Live(sg)) \in Nat
        /\ Cardinality(Live(sg2)) \in Nat
    BY LiveFinite
  <2>2. IsFiniteSet(T) /\ Cardinality(T) \in Nat
    BY <1>3, <2>1, FS_Subset, FS_CardinalityType
  <2>3. Live(sg2) \in SUBSET (Live(sg) \cup T)
    BY <1>10
  <2>4. /\ IsFiniteSet(Live(sg) \cup T)
        /\ Cardinality(Live(sg) \cup T) = Cardinality(Live(sg)) + Cardinality(T) - Cardinality(Live(sg) \cap T)
    BY <2>1, <2>2, FS_Union
  <2>5. Cardinality(Live(sg) \cap T) \in Nat
    <3>1. Live(sg) \cap T \in SUBSET T
      OBVIOUS
    <3> QED BY <2>2, <3>1, FS_Subset, FS_CardinalityType
  <2>6. Cardinality(Live(sg2)) =< Cardinality(Live(sg) \cup T)
    BY <2>3, <2>4, FS_Subset
  <2>7. CASE T # {}
    BY <1>9, <2>1, <2>2, <2>4, <2>5, <2>6, <2>7, HeightsAssumption
  <2>8. CASE T = {}
    <3>1. Cardinality(T) = 0
      BY <2>8, FS_EmptySet
    <3> QED BY <2>1, <2>4, <2>5, <2>6, <3>1, HeightsAssumption DEF FlightOK
  <2> QED BY <2>7, <2>8
<1>12. ASSUME NEW c \in Live(sg2)
       PROVE  /\ sg2[c].assignedPeer \in cn
              /\ Delivers(st2, c, sg2[c].assignedPeer, sg2[c].remaining)
  <2>0. c \in Segs
    BY <1>12 DEF Live
  <2>1. CASE c \in T
    <3>1. PICK q \in Peers : /\ give[q] = c /\ q \in Candidates(sg, cn)
                             /\ sg2[c] = Assigned(c, q) /\ st2[q] = Append(st[q], Request(c))
      BY <1>4, <2>1
    <3>2. sg2[c].assignedPeer = q /\ sg2[c].remaining = SegSize(c) /\ q \in cn
      BY <3>1 DEF Assigned, Candidates
    <3>3. Request(c).stop = EndHeight(c) /\ SegSize(c) =< Request(c).stop - Request(c).next + 1
      BY <2>0, ChunkFacts DEF Request
    <3>4. Delivers(st2, c, q, SegSize(c))
      BY <1>2, <1>6, <2>0, <3>1, <3>3, DeliversAppend
    <3> QED BY <3>2, <3>4
  <2>2. CASE c \notin T
    <3>1. c \in Live(sg) /\ sg2[c] = sg[c]
      BY <1>10, <2>2
    <3>2. sg[c].assignedPeer \in cn /\ Delivers(st, c, sg[c].assignedPeer, sg[c].remaining)
      BY <3>1 DEF FlightOK, Held
    <3> QED BY <1>7, <3>1, <3>2
  <2> QED BY <2>1, <2>2
<1>13. ASSUME NEW c \in Live(sg2), NEW d \in Live(sg2), c # d, c \in T
       PROVE  sg2[d].assignedPeer # sg2[c].assignedPeer
  <2>1. PICK q \in Peers : /\ give[q] = c /\ give[q] # NoSeg /\ q \in Candidates(sg, cn)
                           /\ sg2[c] = Assigned(c, q)
    BY <1>4, <1>13
  <2>2. sg2[c].assignedPeer = q /\ ~Busy(sg, q)
    BY <2>1 DEF Assigned, Candidates
  <2>3. CASE d \in T
    <3>1. PICK r \in Peers : give[r] = d /\ give[r] # NoSeg /\ sg2[d] = Assigned(d, r)
      BY <1>4, <2>3
    <3>2. sg2[d].assignedPeer = r
      BY <3>1 DEF Assigned
    <3> QED BY <1>8, <1>13, <2>1, <2>2, <3>1, <3>2
  <2>4. CASE d \notin T
    <3>1. d \in Live(sg) /\ sg2[d] = sg[d]
      BY <1>10, <2>4
    <3> QED BY <2>2, <3>1 DEF Live, Busy
  <2> QED BY <2>3, <2>4
<1>14. ASSUME NEW c \in Live(sg2), NEW d \in Live(sg2), c # d
       PROVE  sg2[d].assignedPeer # sg2[c].assignedPeer
  <2>1. CASE c \in T \/ d \in T
    BY <1>13, <1>14, <2>1
  <2>2. CASE c \notin T /\ d \notin T
    BY <1>10, <1>14, <2>2 DEF FlightOK, Held
  <2> QED BY <2>1, <2>2
<1>15. Held(sg2, cn, st2)
  BY <1>12, <1>14 DEF Held
<1> QED BY <1>11, <1>15 DEF FlightOK, sg2, st2

\* Chunks taken away, the others left to the same peers.
LEMMA HeldFewer ==
    ASSUME RangeOK, NEW sg, NEW cn, NEW st, NEW sg0, NEW cn0, NEW st0, FlightOK(sg0, cn0, st0),
           \A c \in Live(sg) :
               /\ c \in Live(sg0) /\ sg[c].assignedPeer = sg0[c].assignedPeer
               /\ sg0[c].assignedPeer \in cn
               /\ Delivers(st, c, sg[c].assignedPeer, sg[c].remaining)
    PROVE  FlightOK(sg, cn, st)
<1>1. IsFiniteSet(Live(sg0)) /\ Cardinality(Live(sg0)) \in Nat /\ Cardinality(Live(sg)) \in Nat
  BY LiveFinite
<1>2. Live(sg) \in SUBSET Live(sg0)
  OBVIOUS
<1>3. Cardinality(Live(sg)) =< Cardinality(Live(sg0))
  BY <1>1, <1>2, FS_Subset
<1>4. Cardinality(Live(sg)) =< MaxInflight
  BY <1>1, <1>3, HeightsAssumption DEF FlightOK
<1>5. Held(sg, cn, st)
  BY DEF FlightOK, Held
<1> QED BY <1>4, <1>5 DEF FlightOK

\* One filter from p: what p sends of the chunk it is of is one less, what it
\* sends of the others is the same.
LEMMA DeliversStep ==
    ASSUME RangeOK, stream \in StreamType, StreamsOK(stream),
           NEW p \in Peers, stream[p] # <<>>, NEW c, c = CFChunkIndex(Head(stream[p]).next),
           NEW st, st = AfterOneFilter(p),
           NEW q \in Peers, NEW d \in Segs, NEW n \in Int, Delivers(stream, d, q, n)
    PROVE  /\ q # p \/ d # c => Delivers(st, d, q, n)
           /\ q = p /\ d = c /\ n > 1 => Delivers(st, d, q, n - 1)
<1> DEFINE s == stream[p]
           r == Head(s)
<1>1. s \in Seq(RequestType) /\ s # <<>> /\ \A x \in Peers : stream[x] \in Seq(RequestType)
  BY DEF StreamType
<1>2. r = s[1] /\ 1 \in DOMAIN s /\ r \in RequestType /\ DOMAIN s = 1..Len(s) /\ Len(s) \in Nat
  BY <1>1
<1>3. c \in Segs /\ r.stop = EndHeight(c)
  BY <1>2 DEF StreamsOK
<1>4. CASE q # p
  <2>1. st[q] = stream[q]
    BY <1>4 DEF AfterOneFilter, StreamType
  <2> QED BY <1>4, <2>1 DEF Delivers
<1>5. CASE q = p
  <2>1. PICK i \in DOMAIN s : s[i].stop = EndHeight(d) /\ n =< s[i].stop - s[i].next + 1
    BY <1>5 DEF Delivers
  <2>2. d # c => i # 1
    BY <1>2, <1>3, <2>1, EndDiffers
  <2>3. s[i] \in RequestType /\ s[i].stop \in Int /\ s[i].next \in Int /\ i \in Nat /\ i \in 1..Len(s)
    <3>1. s[i] \in RequestType /\ i \in 1..Len(s)
      BY <1>1, <1>2, <2>1
    <3> QED BY <3>1 DEF RequestType
  <2>4. ASSUME i # 1 PROVE Delivers(st, d, p, n)
    <3>1. CASE r.next = r.stop
      <4> DEFINE s2 == Tail(s)
      <4>1. s2 \in Seq(RequestType) /\ Len(s2) = Len(s) - 1 /\ \A j \in 1..Len(s2) : s2[j] = s[j + 1]
        BY <1>1, HeadTailProperties
      <4>2. st[p] = s2
        BY <3>1 DEF AfterOneFilter, StreamType
      <4> HIDE DEF s2
      <4>3. i - 1 \in 1..Len(s2) /\ (i - 1) + 1 = i
        BY <1>2, <2>3, <2>4, <4>1
      <4>4. i - 1 \in DOMAIN st[p] /\ st[p][i - 1] = s[i]
        BY <4>1, <4>2, <4>3, SMTT(30)
      <4> QED BY <2>1, <4>4 DEF Delivers
    <3>2. CASE r.next # r.stop
      <4>1. st[p] = [s EXCEPT ![1].next = r.next + 1]
        BY <3>2 DEF AfterOneFilter, StreamType
      <4>2. i \in DOMAIN st[p] /\ st[p][i] = s[i]
        BY <2>1, <2>4, <4>1
      <4> QED BY <2>1, <4>2 DEF Delivers
    <3> QED BY <3>1, <3>2
  <2>5. ASSUME n > 1 PROVE Delivers(st, d, p, n - 1)
    <3>1. CASE i # 1
      <4>1. PICK j \in DOMAIN st[p] : st[p][j].stop = EndHeight(d) /\ n =< st[p][j].stop - st[p][j].next + 1
        BY <2>4, <3>1 DEF Delivers
      <4>2. st[p][j].stop \in Int /\ st[p][j].next \in Int
        <5>1. st \in StreamType
          BY FilterStep
        <5>2. st[p][j] \in RequestType
          BY <4>1, <5>1 DEF StreamType
        <5> QED BY <5>2 DEF RequestType
      <4>3. n - 1 =< st[p][j].stop - st[p][j].next + 1
        BY <4>1, <4>2
      <4> QED BY <4>1, <4>3 DEF Delivers
    <3>2. CASE i = 1
      <4>1. r = s[i]
        BY <1>2, <3>2
      <4>2. r.next # r.stop
        BY <2>1, <2>3, <2>5, <4>1
      <4>3. st[p] = [s EXCEPT ![1].next = r.next + 1]
        BY <4>2 DEF AfterOneFilter, StreamType
      <4>4. 1 \in DOMAIN st[p] /\ st[p][1] = [s[1] EXCEPT !.next = r.next + 1]
        BY <1>2, <4>3
      <4>5. st[p][1].stop = r.stop /\ st[p][1].next = r.next + 1
        BY <1>2, <4>4 DEF RequestType
      <4>6. n - 1 =< st[p][1].stop - st[p][1].next + 1
        BY <2>1, <2>3, <4>1, <4>5, SMTT(30)
      <4> QED BY <2>1, <4>1, <4>4, <4>5, <4>6, ZenonT(60) DEF Delivers
    <3> QED BY <3>1, <3>2
  <2> QED BY <1>5, <2>2, <2>4, <2>5
<1> QED BY <1>4, <1>5

\* peergroup_assign_next_chunk_to: the chunk replaces the one that was done.
LEMMA HeldNext ==
    ASSUME RangeOK, NEW sg \in TableType, NEW st \in StreamType, NEW st2 \in StreamType,
           FlightOK(sg, conn, st), NEW p \in Peers, p \in conn, NEW d \in Segs,
           \A e \in Live(sg) : sg[e].assignedPeer # p,
           Cardinality(Live(sg)) + 1 =< MaxInflight,
           NEW sg2 \in TableType, sg2 = [sg EXCEPT ![d] = Assigned(d, p)],
           st2 = [st EXCEPT ![p] = Append(@, Request(d))]
    PROVE  FlightOK(sg2, conn, st2)
<1>1. sg2[d] = Assigned(d, p) /\ \A e \in Segs : e # d => sg2[e] = sg[e]
  BY DEF TableType
<1>2. sg2[d].assignedPeer = p /\ sg2[d].remaining = SegSize(d)
  BY <1>1 DEF Assigned
<1>3. Request(d) \in RequestType /\ Request(d).stop = EndHeight(d)
      /\ SegSize(d) =< Request(d).stop - Request(d).next + 1
  BY ChunkFacts DEF Request, RequestType
<1>4. st2[p] = Append(st[p], Request(d)) /\ \A q \in Peers : q # p => st2[q] = st[q]
  BY DEF StreamType
<1>5. \A e \in Live(sg2) : e # d => e \in Live(sg) /\ sg2[e] = sg[e]
  BY <1>1 DEF Live
<1>6. Cardinality(Live(sg2)) =< MaxInflight
  <2>1. /\ IsFiniteSet(Live(sg)) /\ Cardinality(Live(sg)) \in Nat
        /\ Cardinality(Live(sg2)) \in Nat
    BY LiveFinite
  <2>2. Live(sg2) \in SUBSET (Live(sg) \cup {d})
    BY <1>5
  <2>3. /\ IsFiniteSet(Live(sg) \cup {d})
        /\ Cardinality(Live(sg) \cup {d}) =< Cardinality(Live(sg)) + 1
        /\ Cardinality(Live(sg) \cup {d}) \in Nat
    <3>1. /\ IsFiniteSet(Live(sg) \cup {d})
          /\ Cardinality(Live(sg) \cup {d}) = IF d \in Live(sg) THEN Cardinality(Live(sg))
                                               ELSE Cardinality(Live(sg)) + 1
      BY <2>1, FS_AddElement
    <3> QED BY <2>1, <3>1
  <2>4. Cardinality(Live(sg2)) =< Cardinality(Live(sg) \cup {d})
    BY <2>2, <2>3, FS_Subset
  <2> QED BY <2>1, <2>3, <2>4, HeightsAssumption
<1>7. Delivers(st2, d, p, SegSize(d))
  BY <1>3, <1>4, DeliversAppend, ZenonT(60)
<1>8. ASSUME NEW e \in Live(sg2), e # d
      PROVE  /\ sg2[e].assignedPeer \in conn /\ sg2[e].assignedPeer # p
             /\ Delivers(st2, e, sg2[e].assignedPeer, sg2[e].remaining)
             /\ \A f \in Live(sg2) \ {e} : f # d => sg2[f].assignedPeer # sg2[e].assignedPeer
  <2>1. e \in Live(sg) /\ sg2[e] = sg[e] /\ e \in Segs
    BY <1>5, <1>8 DEF Live
  <2>2. /\ sg[e].assignedPeer \in conn /\ Delivers(st, e, sg[e].assignedPeer, sg[e].remaining)
        /\ sg[e].assignedPeer # p /\ sg[e].assignedPeer # NoPeer /\ sg[e].assignedPeer \in Peers
    <3>1. sg[e] \in SegEntry /\ sg[e].assignedPeer # NoPeer
      BY <2>1 DEF TableType, Live
    <3> QED BY <2>1, <3>1 DEF FlightOK, Held, SegEntry
  <2>3. st2[sg[e].assignedPeer] = st[sg[e].assignedPeer]
    BY <1>4, <2>2
  <2>4. Delivers(st2, e, sg[e].assignedPeer, sg[e].remaining)
    BY <2>2, <2>3 DEF Delivers
  <2>5. \A f \in Live(sg2) \ {e} : f # d => sg2[f].assignedPeer # sg2[e].assignedPeer
    BY <1>5, <2>1 DEF FlightOK, Held
  <2> QED BY <2>1, <2>2, <2>4, <2>5
<1>9. Held(sg2, conn, st2)
  BY <1>2, <1>7, <1>8, ZenonT(60) DEF Held
<1> QED BY <1>6, <1>9 DEF FlightOK

\* The invariant of a process that runs, put together again.
LEMMA FlightInv ==
    ASSUME floor' = floor, tip' = tip, FlightOK(seg', conn', stream') PROVE LiveInv'
<1>1. Segs' = Segs /\ \A c : EndHeight(c)' = EndHeight(c)
  BY DEF Segs, SegsOf, SegCount, EndHeight, StartHeight
<1>2. Live(seg)' = Live(seg')
  BY <1>1 DEF Live
<1>3. Held(seg, conn, stream)'
  BY <1>1, <1>2 DEF FlightOK, Held, Delivers
<1> QED BY <1>2, <1>3 DEF FlightOK, LiveInv

\* A new peer, and the chunks it is handed.
LEMMA LiveHandshake ==
    ASSUME IInv, IInv', LiveInv, NEW p \in Peers, HandshakeOk(p) PROVE LiveInv'
<1> USE Parts
<1>1. /\ Running /\ UNCHANGED <<floor, tip>> /\ conn' = conn \cup {p} /\ FlightOK(seg, conn, stream)
      /\ seg \in TableType /\ stream \in StreamType
  BY DEF HandshakeOk, Running, LiveInv, FlightOK, ScanPart
<1>2. FlightOK(seg, conn', stream)
  BY <1>1 DEF FlightOK, Held
<1>3. CASE UNCHANGED <<seg, stream>>
  BY <1>1, <1>2, <1>3, FlightInv
<1>4. CASE ScheduleCfilters(seg, conn', stream)
  <2>1. seg' \in TableType /\ stream' \in StreamType
    <3>1. StreamsOK(stream) /\ WaitOK(seg, stream, scanned)
      BY <1>1 DEF ScanPart, Running
    <3> QED BY <1>1, <1>4, <3>1, ScheduleKeeps
  <2>2. conn' \subseteq Peers
    BY <1>1
  <2>3. FlightOK(seg', conn', stream')
    BY <1>1, <1>2, <1>4, <2>1, <2>2, HeldSchedule
  <2> QED BY <1>1, <2>3, FlightInv
<1> QED BY <1>3, <1>4 DEF HandshakeOk

\* Chunks taken from their peers, and the pass that hands them out again.
LEMMA LiveReschedule ==
    ASSUME IInv, LiveInv, Running, NEW sg \in TableType, NEW cn, cn \subseteq Peers,
           NEW st \in StreamType, StreamsOK(st),
           \A c \in Segs : \/ sg[c].assignedPeer = NoPeer
                           \/ /\ sg[c] = seg[c]
                              /\ c \in Live(seg) => /\ seg[c].assignedPeer \in cn
                                                    /\ st[seg[c].assignedPeer] = stream[seg[c].assignedPeer],
           floor' = floor, tip' = tip, conn' = cn,
           \/ seg' = sg /\ stream' = st
           \/ ScheduleCfilters(sg, cn, st)
    PROVE  LiveInv'
<1>1. RangeOK /\ FlightOK(seg, conn, stream) /\ ScanPart(seg, stream, scanned, contig, lastBlk, TRUE)
  BY Parts DEF Running, LiveInv, FlightOK, ScanPart
<1>2. ASSUME NEW c \in Live(sg)
      PROVE  /\ c \in Live(seg) /\ sg[c] = seg[c] /\ seg[c].assignedPeer \in cn
             /\ Delivers(st, c, sg[c].assignedPeer, sg[c].remaining)
  <2>1. c \in Segs /\ sg[c].assignedPeer # NoPeer /\ ~sg[c].done
    BY <1>2 DEF Live
  <2>2. sg[c] = seg[c]
    BY <2>1
  <2>3. c \in Live(seg)
    BY <2>1, <2>2 DEF Live
  <2>4. seg[c].assignedPeer \in cn /\ st[seg[c].assignedPeer] = stream[seg[c].assignedPeer]
    BY <2>1, <2>3
  <2>5. Delivers(stream, c, seg[c].assignedPeer, seg[c].remaining)
    BY <1>1, <2>3 DEF FlightOK, Held
  <2> QED BY <2>2, <2>3, <2>4, <2>5 DEF Delivers
<1>3. FlightOK(sg, cn, st)
  BY <1>1, <1>2, HeldFewer
<1>4. CASE seg' = sg /\ stream' = st
  BY <1>3, <1>4, FlightInv
<1>5. CASE ScheduleCfilters(sg, cn, st)
  <2>1. WaitOK(sg, st, scanned)
    <3> SUFFICES ASSUME NEW c \in Segs, sg[c].assignedPeer # NoPeer, ~sg[c].done,
                        NEW h \in Heights(c) \ scanned
                 PROVE  Ahead(c, Position(st, sg[c].assignedPeer, c), h) < sg[c].remaining
      BY DEF WaitOK
    <3>1. c \in Live(seg) /\ sg[c] = seg[c]
      BY <1>2 DEF Live
    <3>2. st[seg[c].assignedPeer] = stream[seg[c].assignedPeer]
      BY <3>1
    <3>3. Position(st, seg[c].assignedPeer, c) = Position(stream, seg[c].assignedPeer, c)
      BY <3>2 DEF Position
    <3> QED BY <1>1, <3>1, <3>3 DEF ScanPart, WaitOK, Live
  <2>2. seg' \in TableType /\ stream' \in StreamType
    BY <1>1, <1>5, <2>1, ScheduleKeeps
  <2>3. FlightOK(seg', cn, stream')
    BY <1>1, <1>3, <1>5, <2>2, HeldSchedule
  <2> QED BY <2>3, FlightInv
<1> QED BY <1>4, <1>5

\* A peer goes, and its chunk goes back to the others.
LEMMA LiveDestroy ==
    ASSUME IInv, LiveInv, NEW p \in Peers, PeerDestroy(p) PROVE LiveInv'
<1> DEFINE st == [stream EXCEPT ![p] = <<>>]
           gone == {c \in Segs : seg[c].assignedPeer = p /\ ~seg[c].done}
           sg == [c \in Segs |-> IF c \in gone THEN Requeued(seg, c) ELSE seg[c]]
           cn == conn \ {p}
<1>1. /\ seg \in TableType /\ stream \in StreamType /\ StreamsOK(stream) /\ Running /\ RangeOK
      /\ conn \subseteq Peers /\ floor' = floor /\ tip' = tip /\ conn' = cn
  BY Parts DEF ScanPart, PeerDestroy
<1>2. st \in StreamType /\ StreamsOK(st) /\ \A q \in Peers : q # p => st[q] = stream[q]
  <2>1. st \in StreamType
    BY <1>1, EmptySeq DEF StreamType
  <2>2. st[p] = <<>> /\ \A q \in Peers : q # p => st[q] = stream[q]
    BY <1>1 DEF StreamType
  <2> HIDE DEF st
  <2> QED BY <2>1, <2>2, <1>1 DEF StreamsOK
<1>3. \A c \in Segs : sg[c] = IF seg[c].assignedPeer = p /\ ~seg[c].done
                              THEN Requeued(seg, c) ELSE seg[c]
  OBVIOUS
<1>4. sg \in TableType
  BY <1>1, RequeuedType DEF TableType
<1>5. \/ sg = seg /\ seg' = sg /\ stream' = st
      \/ ScheduleCfilters(sg, cn, st)
  <2>1. CASE gone = {}
    <3>1. seg' = seg /\ stream' = st
      BY <2>1 DEF PeerDestroy, RequeuePeerChunks
    <3>2. sg = seg
      BY <1>1, <2>1 DEF TableType
    <3> QED BY <3>1, <3>2
  <2>2. CASE gone # {}
    BY <1>1, <2>2 DEF PeerDestroy, RequeuePeerChunks
  <2> QED BY <2>1, <2>2
<1>6. \A c \in Live(seg) : seg[c].assignedPeer \in conn
  BY <1>1 DEF LiveInv, Held, Running
<1> HIDE DEF sg, st
<1>7. ASSUME NEW c \in Segs
      PROVE  \/ sg[c].assignedPeer = NoPeer
             \/ /\ sg[c] = seg[c]
                /\ c \in Live(seg) => /\ seg[c].assignedPeer \in cn
                                      /\ st[seg[c].assignedPeer] = stream[seg[c].assignedPeer]
  <2>1. CASE seg[c].assignedPeer = p /\ ~seg[c].done
    BY <1>1, <1>3, <2>1, RequeuedType
  <2>2. CASE ~(seg[c].assignedPeer = p /\ ~seg[c].done)
    <3>1. sg[c] = seg[c]
      BY <1>3, <2>2
    <3>2. c \in Live(seg) => seg[c].assignedPeer # p
      BY <2>2 DEF Live
    <3> QED BY <1>1, <1>2, <1>6, <3>1, <3>2
  <2> QED BY <2>1, <2>2
<1> HIDE DEF cn
<1>8. cn \subseteq Peers
  BY <1>1 DEF cn
<1> QED BY <1>1, <1>2, <1>4, <1>5, <1>7, <1>8, LiveReschedule

\* Stalled chunks are taken away from their peers.
LEMMA LiveTimeout == ASSUME IInv, LiveInv, ChunkTimeout PROVE LiveInv'
<1>1. /\ seg \in TableType /\ stream \in StreamType /\ StreamsOK(stream) /\ Running /\ RangeOK
      /\ conn \subseteq Peers /\ floor' = floor /\ tip' = tip /\ conn' = conn
  BY Parts DEF ScanPart, ChunkTimeout
<1>2. PICK stalled : ExpireChunks(stalled)
  BY DEF ChunkTimeout
<1> DEFINE sg == [c \in Segs |-> IF c \in stalled THEN Requeued(seg, c) ELSE seg[c]]
<1>3. sg \in TableType
  BY <1>1, RequeuedType DEF TableType
<1>4. \/ seg' = sg /\ stream' = stream
      \/ ScheduleCfilters(sg, conn, stream)
  <2>1. CASE stalled = {}
    <3>1. sg = seg
      BY <1>1, <2>1 DEF TableType
    <3> QED BY <1>2, <2>1, <3>1 DEF ExpireChunks
  <2>2. CASE stalled # {}
    BY <1>2, <2>2 DEF ExpireChunks
  <2> QED BY <2>1, <2>2
<1>5. \A c \in Live(seg) : seg[c].assignedPeer \in conn
  BY <1>1 DEF LiveInv, Held, Running
<1>6. \A c \in Segs : sg[c] = IF c \in stalled THEN Requeued(seg, c) ELSE seg[c]
  OBVIOUS
<1> HIDE DEF sg
<1>7. ASSUME NEW c \in Segs PROVE sg[c].assignedPeer = NoPeer \/ sg[c] = seg[c]
  BY <1>1, <1>6, RequeuedType
<1> QED BY <1>1, <1>3, <1>4, <1>5, <1>7, LiveReschedule

\* A filter arrives: the chunk waits for one less and so does its peer's
\* stream, or the chunk is done and its peer is handed another.
LEMMA LiveCfilter ==
    ASSUME IInv, IInv', LiveInv, NEW p \in Peers, HandleCfilter(p) PROVE LiveInv'
<1> DEFINE h == Head(stream[p]).next
           c == CFChunkIndex(h)
           st == AfterOneFilter(p)
<1>1. /\ Running /\ p \in conn /\ stream[p] # <<>> /\ stream \in StreamType /\ StreamsOK(stream)
      /\ seg \in TableType /\ RangeOK /\ FlightOK(seg, conn, stream)
      /\ floor' = floor /\ tip' = tip /\ conn' = conn
  BY Parts DEF HandleCfilter, ScanPart, Running, LiveInv, FlightOK
<1>2. c \in Segs /\ st \in StreamType
  <2> HIDE DEF h, c, st
  <2>1. h = Head(stream[p]).next /\ c = CFChunkIndex(h) /\ st = AfterOneFilter(p)
    BY DEF h, c, st
  <2> QED BY <2>1, <1>1, FilterStep
<1>3. \/ ~Mine(c, p) /\ stream' = st /\ seg' = seg
      \/ /\ Mine(c, p) /\ seg[c].remaining > 1
         /\ seg' = [seg EXCEPT ![c].remaining = @ - 1] /\ stream' = st
      \/ /\ Mine(c, p)
         /\ \E k, last : CompleteChunk(c, p, k, last)
  BY DEF HandleCfilter
<1>4. ASSUME NEW d \in Segs, NEW q \in Peers, NEW n \in Int, Delivers(stream, d, q, n)
      PROVE  /\ q # p \/ d # c => Delivers(st, d, q, n)
             /\ q = p /\ d = c /\ n > 1 => Delivers(st, d, q, n - 1)
  <2> HIDE DEF c, st
  <2>1. c = CFChunkIndex(Head(stream[p]).next) /\ st = AfterOneFilter(p)
    BY DEF c, st
  <2> QED BY <1>1, <1>4, <2>1, DeliversStep
<1> HIDE DEF h, c, st
<1>5. ASSUME NEW d \in Live(seg)
      PROVE  /\ d \in Segs /\ seg[d] \in SegEntry /\ seg[d].assignedPeer \in Peers
             /\ seg[d].assignedPeer \in conn /\ seg[d].remaining \in Int
             /\ Delivers(stream, d, seg[d].assignedPeer, seg[d].remaining)
             /\ d # c \/ seg[d].assignedPeer # p =>
                    Delivers(st, d, seg[d].assignedPeer, seg[d].remaining)
  <2>1. d \in Segs /\ seg[d].assignedPeer # NoPeer /\ seg[d] \in SegEntry
    BY <1>1 DEF Live, TableType
  <2>2. seg[d].assignedPeer \in Peers /\ seg[d].remaining \in Int
    BY <2>1 DEF SegEntry
  <2>3. seg[d].assignedPeer \in conn /\ Delivers(stream, d, seg[d].assignedPeer, seg[d].remaining)
    BY <1>1 DEF FlightOK, Held
  <2> QED BY <1>4, <2>1, <2>2, <2>3
<1>6. CASE ~Mine(c, p) /\ stream' = st /\ seg' = seg
  <2>1. \A d \in Live(seg) : d # c \/ seg[d].assignedPeer # p
    BY <1>6 DEF Mine, Live
  <2>2. FlightOK(seg, conn, st)
    BY <1>1, <1>5, <2>1, HeldFewer
  <2> QED BY <1>1, <1>6, <2>2, FlightInv
<1>7. ASSUME Mine(c, p) PROVE c \in Live(seg) /\ \A d \in Live(seg) \ {c} : seg[d].assignedPeer # p
  <2>1. c \in Live(seg) /\ seg[c].assignedPeer = p
    BY <1>2, <1>7, PeersAssumption DEF Mine, Live
  <2> QED BY <1>1, <2>1 DEF FlightOK, Held
<1>8. CASE /\ Mine(c, p) /\ seg[c].remaining > 1
           /\ seg' = [seg EXCEPT ![c].remaining = @ - 1] /\ stream' = st
  <2> DEFINE sg == seg'
  <2>1. seg[c] \in SegEntry
    BY <1>1, <1>2 DEF TableType
  <2>2. seg' = [seg EXCEPT ![c] = [seg[c] EXCEPT !.remaining = @ - 1]]
    BY <1>1, <1>2, <1>8 DEF TableType
  <2>3. /\ [seg[c] EXCEPT !.remaining = @ - 1].done = seg[c].done
        /\ [seg[c] EXCEPT !.remaining = @ - 1].assignedPeer = seg[c].assignedPeer
        /\ [seg[c] EXCEPT !.remaining = @ - 1].remaining = seg[c].remaining - 1
    BY <2>1 DEF SegEntry
  <2>4. /\ \A d \in Segs : /\ sg[d].done = seg[d].done
                           /\ sg[d].assignedPeer = seg[d].assignedPeer
                           /\ d # c => sg[d] = seg[d]
        /\ sg[c].remaining = seg[c].remaining - 1
    BY <1>1, <1>2, <2>2, <2>3 DEF TableType
  <2> HIDE DEF sg
  <2>5. ASSUME NEW d \in Live(sg)
        PROVE  /\ d \in Live(seg) /\ sg[d].assignedPeer = seg[d].assignedPeer
               /\ seg[d].assignedPeer \in conn
               /\ Delivers(st, d, sg[d].assignedPeer, sg[d].remaining)
    <3>1. d \in Live(seg) /\ d \in Segs
      BY <2>4, <2>5 DEF Live
    <3>2. CASE d = c
      <4>1. seg[c].assignedPeer = p /\ Delivers(stream, c, p, seg[c].remaining) /\ seg[c].remaining \in Int
        BY <1>5, <1>8, <3>1, <3>2 DEF Mine
      <4>2. Delivers(st, c, p, seg[c].remaining - 1)
        BY <1>2, <1>4, <1>8, <4>1
      <4> QED BY <1>5, <2>4, <3>1, <3>2, <4>1, <4>2
    <3>3. CASE d # c
      BY <1>5, <2>4, <3>1, <3>3
    <3> QED BY <3>2, <3>3
  <2>6. FlightOK(sg, conn, st)
    BY <1>1, <2>5, HeldFewer
  <2> QED BY <1>1, <1>8, <2>6, FlightInv DEF sg
<1>9. CASE Mine(c, p) /\ \E k, last : CompleteChunk(c, p, k, last)
  <2> DEFINE sg == [seg EXCEPT ![c].remaining = @ - 1, ![c].done = TRUE]
  <2>1. \/ seg' = sg /\ stream' = st
        \/ \E d \in Segs : /\ seg' = [sg EXCEPT ![d] = Assigned(d, p)]
                           /\ stream' = [st EXCEPT ![p] = Append(@, Request(d))]
    BY <1>9 DEF CompleteChunk, st
  <2>2. sg \in TableType /\ sg[c].done = TRUE /\ \A d \in Segs : d # c => sg[d] = seg[d]
    <3> DEFINE e == seg[c]
    <3>1. e \in SegEntry
      BY <1>1, <1>2 DEF TableType
    <3>2. sg = [seg EXCEPT ![c] = [e EXCEPT !.remaining = @ - 1, !.done = TRUE]]
      BY <1>1, <1>2 DEF TableType
    <3> HIDE DEF e, sg
    <3> DEFINE n == e.remaining - 1
    <3>3. n \in Int
      BY <3>1 DEF SegEntry
    <3>4. sg = [seg EXCEPT ![c] = [e EXCEPT !.remaining = n, !.done = TRUE]]
      BY <3>2
    <3> HIDE DEF n
    <3>5. /\ [e EXCEPT !.remaining = n, !.done = TRUE] \in SegEntry
          /\ [e EXCEPT !.remaining = n, !.done = TRUE].done = TRUE
      BY <3>1, <3>3, Zenon DEF SegEntry
    <3> QED BY <1>1, <1>2, <3>4, <3>5 DEF TableType
  <2> HIDE DEF sg
  <2>3. Live(sg) = Live(seg) \ {c}
    BY <2>2 DEF Live
  <2>4. \A d \in Live(sg) : sg[d] = seg[d] /\ d # c /\ d \in Live(seg)
    <3>1. \A d \in Live(sg) : d \in Segs
      BY DEF Live
    <3> QED BY <2>2, <2>3, <3>1
  <2>5. FlightOK(sg, conn, st)
    BY <1>1, <1>5, <2>4, HeldFewer
  <2>6. \A e \in Live(sg) : sg[e].assignedPeer # p
    BY <1>7, <1>9, <2>4
  <2>7. Cardinality(Live(sg)) + 1 =< MaxInflight
    <3>1. IsFiniteSet(Live(seg)) /\ Cardinality(Live(seg)) \in Nat /\ c \in Live(seg)
      BY <1>1, <1>7, <1>9, LiveFinite
    <3>2. Cardinality(Live(sg)) = Cardinality(Live(seg)) - 1
      BY <2>3, <3>1, FS_RemoveElement
    <3> QED BY <1>1, <3>1, <3>2, HeightsAssumption DEF FlightOK
  <2>8. CASE seg' = sg /\ stream' = st
    BY <1>1, <2>5, <2>8, FlightInv
  <2>9. ASSUME NEW d \in Segs, seg' = [sg EXCEPT ![d] = Assigned(d, p)],
               stream' = [st EXCEPT ![p] = Append(@, Request(d))]
        PROVE  LiveInv'
    <3> DEFINE sg2 == [sg EXCEPT ![d] = Assigned(d, p)]
               st2 == [st EXCEPT ![p] = Append(@, Request(d))]
    <3>1. sg2 \in TableType
      BY <1>1, <2>2, AssignedType DEF TableType
    <3>2. st2 \in StreamType
      <4>1. Request(d) \in RequestType
        BY <1>1, ChunkFacts DEF Request, RequestType
      <4>2. Append(st[p], Request(d)) \in Seq(RequestType)
        BY <1>2, <4>1, AppendProperties DEF StreamType
      <4> QED BY <1>2, <4>2 DEF StreamType
    <3>3. sg2 = [sg EXCEPT ![d] = Assigned(d, p)] /\ st2 = [st EXCEPT ![p] = Append(@, Request(d))]
      OBVIOUS
    <3> HIDE DEF sg2, st2
    <3>4. FlightOK(sg2, conn, st2)
      BY <1>1, <1>2, <2>2, <2>5, <2>6, <2>7, <3>1, <3>2, <3>3, HeldNext
    <3> QED BY <1>1, <2>9, <3>3, <3>4, FlightInv
  <2> QED BY <2>1, <2>8, <2>9
<1> QED BY <1>3, <1>6, <1>8, <1>9

\* A new run starts with nothing in flight.
LEMMA LiveFresh ==
    ASSUME NEW f \in Nat, NEW t \in Nat, f =< t, floor' = f, tip' = t, seg' = FreshSegs(f, t)
    PROVE  LiveInv'
<1>1. \A c \in SegsOf(f, t) : FreshSegs(f, t)[c].assignedPeer = NoPeer
  BY FreshTable
<1>2. Live(seg)' = {}
  BY <1>1 DEF Live, Segs
<1>3. Cardinality(Live(seg)') = 0
  BY <1>2, FS_EmptySet
<1> QED BY <1>2, <1>3, HeightsAssumption DEF LiveInv, Held

\* A step that leaves the scan alone, or ends the process.
LEMMA LiveAlone ==
    ASSUME LiveInv, UNCHANGED <<floor, tip, seg>>,
           state' = "DOWN" \/ (UNCHANGED <<conn, stream>> /\ (state = "DOWN" => state' = "DOWN"))
    PROVE  LiveInv'
BY DEF LiveInv, Live, Segs, SegsOf, SegCount, Held, Delivers, EndHeight, StartHeight

\* Every step keeps the chunks in flight answered.
LEMMA LiveNext == ASSUME IInv, IInv', LiveInv, [Next]_vars PROVE LiveInv'
<1>1. CASE Restart
  <2>1. PICK t \in tip..MaxTip : tip' = t /\ floor' = ScanStart /\ seg' = FreshSegs(ScanStart, t)
    BY <1>1 DEF Restart
  <2>2. ScanStart \in Nat /\ t \in Nat /\ ScanStart =< t
    BY <2>1, Parts, HeightsAssumption DEF ScanStart, RangeOK
  <2> QED BY <2>1, <2>2, LiveFresh
<1>2. CASE Crash \/ Exit
  BY <1>2, LiveAlone DEF Crash, Exit, Down
<1>3. CASE PeriodicCb
  BY <1>3, LiveAlone DEF PeriodicCb, netVars
<1>4. CASE \E p \in Peers : HandleBlock(p)
  <2>1. PICK p \in Peers : HandleBlock(p)
    BY <1>4
  <2>2. UNCHANGED <<floor, tip, seg, conn, stream>> /\ state # "DOWN"
    BY <2>1 DEF HandleBlock, Running
  <2> QED BY <2>2, LiveAlone
<1>5. CASE \E p \in Peers : HandleNotfound(p) \/ IgnoreGetdata(p)
  BY <1>5, LiveAlone DEF HandleNotfound, IgnoreGetdata, procVars
<1>6. CASE \E i \in DOMAIN cfPending : BlockTimeout(i)
  BY <1>6, LiveAlone DEF BlockTimeout
<1>7. CASE UNCHANGED vars
  BY <1>7, LiveAlone DEF vars, procVars, netVars
<1> QED BY <1>1, <1>2, <1>3, <1>4, <1>5, <1>6, <1>7, LiveTimeout, LiveHandshake, LiveDestroy,
           LiveCfilter DEF Next

\* A chunk in flight is held by a connected peer that holds no other and still
\* sends all the filters the chunk waits for, through requeues, late answers
\* and disconnections, and MAX_INFLIGHT_CHUNKS is never exceeded.
THEOREM LiveChunksAnswered == Spec => []LiveChunkAnswered
<1>1. Init => LiveInv
  <2> SUFFICES ASSUME Init PROVE LiveInv
    OBVIOUS
  <2>1. tip \in Nat /\ Birth \in Nat /\ Birth =< tip /\ floor = Birth /\ seg = FreshSegs(Birth, tip)
    BY HeightsAssumption DEF Init
  <2>2. \A c \in SegsOf(Birth, tip) : FreshSegs(Birth, tip)[c].assignedPeer = NoPeer
    BY <2>1, FreshTable
  <2>3. Live(seg) = {}
    BY <2>1, <2>2 DEF Live, Segs
  <2> QED BY <2>3, FS_EmptySet, HeightsAssumption DEF LiveInv, Held
<1>2. IInv /\ IInv' /\ LiveInv /\ [Next]_vars => LiveInv'
  BY LiveNext
<1>3. ASSUME IInv, LiveInv PROVE LiveChunkAnswered
  <2>1. RangeOK /\ seg \in TableType /\ stream \in StreamType
    BY <1>3, Parts DEF ScanPart
  <2> SUFFICES ASSUME NEW c \in Live(seg), state # "DOWN"
               PROVE  LET p == seg[c].assignedPeer
                          reqs == {i \in DOMAIN stream[p] : stream[p][i].stop = EndHeight(c)}
                      IN  /\ p \in conn
                          /\ \A d \in Live(seg) \ {c} : seg[d].assignedPeer # p
                          /\ \E i \in reqs :
                                seg[c].remaining =< stream[p][i].stop - stream[p][i].next + 1
                                     + Cardinality(reqs \ {i}) * SegSize(c)
    BY <1>3 DEF LiveChunkAnswered, LiveInv
  <2> DEFINE p == seg[c].assignedPeer
             reqs == {i \in DOMAIN stream[p] : stream[p][i].stop = EndHeight(c)}
  <2>2. p \in conn /\ (\A d \in Live(seg) \ {c} : seg[d].assignedPeer # p)
        /\ Delivers(stream, c, p, seg[c].remaining)
    BY <1>3 DEF LiveInv, Held
  <2>3. PICK i \in reqs : seg[c].remaining =< stream[p][i].stop - stream[p][i].next + 1
    BY <2>2 DEF Delivers
  <2>4. c \in Segs /\ p \in Peers /\ seg[c].remaining \in Int
    <3>1. c \in Segs /\ seg[c].assignedPeer # NoPeer
      BY DEF Live
    <3>2. seg[c] \in SegEntry
      BY <2>1, <3>1 DEF TableType
    <3> QED BY <3>1, <3>2 DEF SegEntry
  <2>5. stream[p] \in Seq(RequestType)
    BY <2>1, <2>4 DEF StreamType
  <2>6. stream[p][i].stop \in Int /\ stream[p][i].next \in Int
    <3>1. stream[p][i] \in RequestType
      BY <2>3, <2>5
    <3> QED BY <3>1 DEF RequestType
  <2>7. Cardinality(reqs \ {i}) \in Nat
    <3>1. DOMAIN stream[p] = 1..Len(stream[p]) /\ Len(stream[p]) \in Nat
      BY <2>5
    <3>2. IsFiniteSet(1..Len(stream[p]))
      <4>1. 1 \in Int /\ Len(stream[p]) \in Int
        BY <3>1
      <4> QED BY <4>1, FS_Interval
    <3>3. reqs \ {i} \in SUBSET (1..Len(stream[p]))
      BY <3>1
    <3> QED BY <3>2, <3>3, FS_Subset, FS_CardinalityType
  <2>8. SegSize(c) \in Nat
    BY <2>1, <2>4, ChunkFacts
  <2>9. ASSUME NEW m \in Nat, NEW s \in Nat PROVE m * s \in Nat
    BY <2>9
  <2>10. Cardinality(reqs \ {i}) * SegSize(c) \in Nat
    BY <2>7, <2>8, <2>9
  <2>11. seg[c].remaining =< stream[p][i].stop - stream[p][i].next + 1
                               + Cardinality(reqs \ {i}) * SegSize(c)
    <3> HIDE DEF reqs, p
    <3> QED BY <2>3, <2>4, <2>6, <2>10
  <2> QED BY <2>2, <2>3, <2>11
<1> QED BY <1>1, <1>2, <1>3, ScanInvariant, PTL DEF Spec

-----------------------------------------------------------------------------
(* The matched blocks.  The rest is about runs without --stop-after-height *)
(* in which two peers that serve every block are left whenever a fetch     *)
(* fails: with fewer, peergroup_retry_block_fetch drops the block.         *)

\* A set of numbers that is not empty has a least element.
LEMMA SmallestNumber ==
    ASSUME NEW T \in SUBSET Nat, T # {}
    PROVE  \E x \in T : \A y \in T : x =< y
<1>1. \E R : IsWellFoundedOn(R, Nat) /\ \A x, y \in Nat : <<y, x>> \in R <=> y < x
  <2>1. IsWellFoundedOn(OpToRel(<, Nat), Nat)
    BY NatLessThanWellFounded
  <2>2. \A x, y \in Nat : <<y, x>> \in OpToRel(<, Nat) <=> y < x
    BY DEF OpToRel
  <2> QED
    BY <2>1, <2>2, Zenon
<1>2. PICK R : IsWellFoundedOn(R, Nat) /\ \A x, y \in Nat : <<y, x>> \in R <=> y < x
  BY <1>1
<1>3. PICK x \in T : \A y \in T : ~(<<y, x>> \in R)
  BY <1>2, WFMin
<1>4. \A y \in T : ~(y < x)
  BY <1>2, <1>3, Zenon
<1>5. \A y \in T : x =< y
  BY <1>4
<1> QED
  BY <1>5

\* Removing an entry of one height leaves the others.
LEMMA RemoveKeeps ==
    ASSUME NEW S, NEW pend \in Seq(S), NEW h, NEW g \in PendingHeights(pend), g # h
    PROVE  g \in PendingHeights(RemovePendingBlock(pend, h))
<1>1. CASE h \notin PendingHeights(pend)
  BY <1>1 DEF RemovePendingBlock
<1>2. CASE h \in PendingHeights(pend)
  <2>1. Len(pend) \in Nat /\ DOMAIN pend = 1..Len(pend) /\ \A j \in 1..Len(pend) : pend[j] \in S
    BY LenProperties
  <2> DEFINE n == Len(pend)
             First(j) == /\ pend[j].height = h
                         /\ \A m \in 1..(j - 1) : pend[m].height # h
             i == CHOOSE j \in DOMAIN pend : First(j)
             p2 == [pend EXCEPT ![i] = pend[n]]
             left == SubSeq(p2, 1, n - 1)
  <2>2. RemovePendingBlock(pend, h) = left
    BY <1>2 DEF RemovePendingBlock
  <2>3. \E j \in DOMAIN pend : First(j)
    <3> DEFINE J == {j \in 1..n : pend[j].height = h}
    <3>1. J # {} /\ J \subseteq Nat
      BY <1>2, <2>1 DEF PendingHeights
    <3>2. PICK j \in J : \A m \in J : j =< m
      BY <3>1, SmallestNumber
    <3>3. First(j)
      <4>1. ASSUME NEW m \in 1..(j - 1), pend[m].height = h PROVE FALSE
        BY <2>1, <3>1, <3>2, <4>1
      <4> QED BY <3>2, <4>1
    <3> QED BY <2>1, <3>2, <3>3
  <2>4. i \in 1..n /\ pend[i].height = h
    <3>1. i \in DOMAIN pend /\ First(i)
      BY <2>3
    <3> QED BY <2>1, <3>1
  <2> HIDE DEF i, First
  <2>5. PICK j \in 1..n : pend[j].height = g
    BY <2>1 DEF PendingHeights
  <2>6. j # i
    BY <2>4, <2>5
  <2>7. \A m \in 1..n : p2[m] = IF m = i THEN pend[n] ELSE pend[m]
    BY <2>1, <2>4
  <2>8. \A m \in 1..(n - 1) : p2[m] \in S
    BY <2>1, <2>7
  <2> HIDE DEF p2, n
  <2>9. n - 1 \in Nat /\ n \in Nat
    BY <2>1, <2>4 DEF n
  <2>10. Len(left) = n - 1 /\ \A m \in 1..(n - 1) : left[m] = p2[m]
    BY <2>8, <2>9, SubSeqProperties
  <2>11. left \in Seq(S)
    BY <2>8, <2>9, SubSeqProperties
  <2> HIDE DEF left
  <2>12. DOMAIN left = 1..(n - 1)
    BY <2>10, <2>11
  <2>13. \E m \in 1..(n - 1) : left[m].height = g
    <3>1. CASE j < n
      BY <2>5, <2>6, <2>7, <2>9, <2>10, <3>1
    <3>2. CASE j = n
      <4>1. i \in 1..(n - 1)
        BY <2>4, <2>6, <2>9, <3>2
      <4>2. left[i] = pend[n]
        BY <2>4, <2>7, <2>10, <4>1
      <4> QED BY <2>5, <3>2, <4>1, <4>2
    <3> QED BY <2>5, <2>9, <3>1, <3>2
  <2> QED BY <2>2, <2>12, <2>13 DEF PendingHeights
<1> QED BY <1>1, <1>2

\* Adding one leaves them too.
LEMMA AddKeeps ==
    ASSUME NEW S, NEW pend \in Seq(S), NEW h, NEW q, [height |-> h, requestedFrom |-> q] \in S
    PROVE  PendingHeights(AddPendingBlock(pend, h, q)) = PendingHeights(pend) \cup {h}
<1> DEFINE e == [height |-> h, requestedFrom |-> q]
           more == Append(pend, e)
<1>1. /\ more \in Seq(S) /\ Len(more) = Len(pend) + 1 /\ Len(pend) \in Nat
      /\ \A i \in 1..Len(pend) : more[i] = pend[i]
      /\ more[Len(pend) + 1] = e
  BY AppendProperties, LenProperties
<1>2. DOMAIN pend = 1..Len(pend) /\ DOMAIN more = 1..(Len(pend) + 1)
  BY <1>1
<1>3. e.height = h
  OBVIOUS
<1> HIDE DEF more, e
<1>4. 1..(Len(pend) + 1) = (1..Len(pend)) \cup {Len(pend) + 1}
  BY <1>1
<1> QED BY <1>1, <1>2, <1>3, <1>4 DEF AddPendingBlock, PendingHeights, more, e

\* With enough peers there is another to ask for a block.
LEMMA RetryPossible ==
    ASSUME KeepConnected >= 2, EnoughPeers(conn), IsFiniteSet(conn), NEW failed
    PROVE  RetryPeers(failed) # {}
<1> DEFINE all == (conn \cap NetworkPeers) \ LimitedPeers
<1>1. all \in SUBSET conn /\ Cardinality(all) >= KeepConnected
  BY DEF EnoughPeers
<1>2. IsFiniteSet(all) /\ Cardinality(all) \in Nat
  BY <1>1, FS_Subset, FS_CardinalityType
<1> HIDE DEF all
<1>3. IsFiniteSet(all \ {failed}) /\ Cardinality(all \ {failed}) >= 1
  <2>1. /\ IsFiniteSet(all \ {failed})
        /\ Cardinality(all \ {failed}) = IF failed \in all THEN Cardinality(all) - 1 ELSE Cardinality(all)
    BY <1>2, FS_RemoveElement
  <2> QED BY <1>1, <1>2, <2>1, BoundsAssumption
<1>4. all \ {failed} # {}
  <2>1. Cardinality({}) = 0
    BY FS_EmptySet
  <2> QED BY <1>3, <2>1
<1>5. ((conn \cap NetworkPeers) \ {failed}) \ LimitedPeers # {}
  BY <1>4 DEF all
<1> QED BY <1>5 DEF RetryPeers

\* The fetch of a block asked for again is pending again; others stay pending.
LEMMA RetryKeeps ==
    ASSUME KeepConnected >= 2, EnoughPeers(conn), IsFiniteSet(conn), TypeOK,
           NEW failed, NEW h \in floor..tip,
           NEW pend \in Seq([height : floor..tip, requestedFrom : Peers]), NEW ft,
           RetryBlockFetch(failed, h, pend, ft)
    PROVE  PendingHeights(cfPending') = PendingHeights(pend) \cup {h}
<1>1. RetryPeers(failed) # {}
  BY RetryPossible
<1>2. PICK best \in RetryPeers(failed) : cfPending' = AddPendingBlock(pend, h, best)
  BY <1>1, Zenon DEF RetryBlockFetch
<1>3. best \in Peers
  BY <1>2 DEF RetryPeers, TypeOK
<1> DEFINE S == [height : floor..tip, requestedFrom : Peers]
<1>4. pend \in Seq(S) /\ [height |-> h, requestedFrom |-> best] \in S
  BY <1>3
<1> HIDE DEF S
<1>5. PendingHeights(AddPendingBlock(pend, h, best)) = PendingHeights(pend) \cup {h}
  BY <1>4, AddKeeps
<1> QED
  BY <1>2, <1>5

MatchInv == IsFiniteSet(conn) /\ MatchStaysPending

\* A step that only adds pending heights or processed ones keeps MatchInv.
LEMMA MatchKept ==
    ASSUME MatchInv, IsFiniteSet(conn'), processed \subseteq processed', state # "DOWN",
           \A h \in (scanned' \cap Matches) \ scanned :
               h \in processed' \/ h \in PendingHeights(cfPending'),
           \A h \in PendingHeights(cfPending) :
               h \in processed' \/ h \in PendingHeights(cfPending')
    PROVE  MatchInv'
<1>1. ASSUME NEW h \in (scanned' \cap Matches)
      PROVE  h \in processed' \/ h \in PendingHeights(cfPending')
  BY <1>1 DEF MatchInv, MatchStaysPending
<1>2. MatchStaysPending'
  BY <1>1 DEF MatchStaysPending
<1> QED
  BY <1>2 DEF MatchInv

\* peergroup_handle_cfilter, without --stop-after-height.
LEMMA MatchCfilter ==
    ASSUME StopAfter = 0, TypeOK, TypeOK', MatchInv, NEW p \in Peers, HandleCfilter(p)
    PROVE  MatchInv'
<1> DEFINE h == Head(stream[p]).next
<1>1. /\ scanned' = scanned \cup {h} /\ StopOrMatch(p, h)
      /\ conn' = conn /\ processed' = processed /\ floor' = floor /\ tip' = tip
  BY Zenon DEF HandleCfilter
<1>2. state # "DOWN"
  BY DEF HandleCfilter, Running
<1>3. h \in floor..tip
  BY <1>1 DEF TypeOK
<1> HIDE DEF h
<1>4. IF h \in Matches THEN cfPending' = AddPendingBlock(cfPending, h, p) ELSE cfPending' = cfPending
  BY <1>1 DEF StopOrMatch
<1>5. PendingHeights(cfPending') = IF h \in Matches THEN PendingHeights(cfPending) \cup {h}
                                                   ELSE PendingHeights(cfPending)
  <2> DEFINE S == [height : floor..tip, requestedFrom : Peers]
  <2>1. cfPending \in Seq(S) /\ [height |-> h, requestedFrom |-> p] \in S
    BY <1>3 DEF TypeOK
  <2> HIDE DEF S
  <2>2. PendingHeights(AddPendingBlock(cfPending, h, p)) = PendingHeights(cfPending) \cup {h}
    BY <2>1, AddKeeps
  <2> QED
    BY <1>4, <2>2, Zenon
<1>6. IsFiniteSet(conn')
  BY <1>1 DEF MatchInv
<1> QED
  BY <1>1, <1>2, <1>5, <1>6, MatchKept

\* peergroup_handle_block: the block that leaves the table is processed.
LEMMA MatchBlock ==
    ASSUME TypeOK, MatchInv, NEW p \in Peers, HandleBlock(p)
    PROVE  MatchInv'
<1> DEFINE h == Head(fetch[p])
<1>1. /\ processed' = processed \cup {h} /\ cfPending' = RemovePendingBlock(cfPending, h)
      /\ scanned' = scanned /\ conn' = conn
  BY Zenon DEF HandleBlock
<1>2. state # "DOWN"
  BY DEF HandleBlock, Running
<1> HIDE DEF h
<1>3. ASSUME NEW g \in PendingHeights(cfPending), g # h
      PROVE  g \in PendingHeights(cfPending')
  <2>1. cfPending \in Seq([height : floor..tip, requestedFrom : Peers])
    BY DEF TypeOK
  <2>2. g \in PendingHeights(RemovePendingBlock(cfPending, h))
    BY <1>3, <2>1, RemoveKeeps
  <2> QED BY <1>1, <2>2
<1>4. IsFiniteSet(conn')
  BY <1>1 DEF MatchInv
<1> QED
  BY <1>1, <1>2, <1>3, <1>4, MatchKept

\* peer_handle_notfound: the entry stays and another is added.
LEMMA MatchNotfound ==
    ASSUME KeepConnected >= 2, TypeOK, MatchInv, NEW p \in Peers, HandleNotfound(p)
    PROVE  MatchInv'
<1> DEFINE h == Head(fetch[p])
           ft == [fetch EXCEPT ![p] = Tail(@)]
<1>1. /\ RetryBlockFetch(p, h, cfPending, ft) /\ EnoughPeers(conn) /\ fetch[p] # <<>>
      /\ scanned' = scanned /\ conn' = conn /\ processed' = processed
  BY Zenon DEF HandleNotfound
<1>2. state # "DOWN"
  BY DEF HandleNotfound, Running
<1>3. h \in floor..tip /\ cfPending \in Seq([height : floor..tip, requestedFrom : Peers])
  <2>1. fetch[p] \in Seq(floor..tip) /\ cfPending \in Seq([height : floor..tip, requestedFrom : Peers])
    BY DEF TypeOK
  <2> QED BY <1>1, <2>1, HeadTailProperties
<1> HIDE DEF h, ft
<1>4. IsFiniteSet(conn)
  BY DEF MatchInv
<1>5. PendingHeights(cfPending') = PendingHeights(cfPending) \cup {h}
  BY <1>1, <1>3, <1>4, RetryKeeps
<1> QED
  BY <1>1, <1>2, <1>4, <1>5, MatchKept

\* peergroup_check_pending_blocks: what is taken out is asked for again.
LEMMA MatchTimeout ==
    ASSUME KeepConnected >= 2, TypeOK, MatchInv, NEW i \in DOMAIN cfPending, BlockTimeout(i)
    PROVE  MatchInv'
<1> DEFINE h == cfPending[i].height
           pend == RemovePendingBlock(cfPending, h)
           S == [height : floor..tip, requestedFrom : Peers]
<1>1. /\ RetryBlockFetch(cfPending[i].requestedFrom, h, pend, fetch) /\ EnoughPeers(conn)
      /\ scanned' = scanned /\ conn' = conn /\ processed' = processed
  BY Zenon DEF BlockTimeout, ExpireBlock
<1>2. state # "DOWN"
  BY DEF BlockTimeout, Running
<1>3. cfPending \in Seq(S)
  BY DEF TypeOK
<1>4. cfPending[i] \in S
  <2> HIDE DEF S
  <2> QED BY <1>3, ElementOfSeq, LenProperties
<1>5. h \in floor..tip
  BY <1>4
<1>6. pend \in Seq(S)
  BY <1>3, RemoveType
<1>7. IsFiniteSet(conn)
  BY DEF MatchInv
<1> HIDE DEF h, pend
<1>8. PendingHeights(cfPending') = PendingHeights(pend) \cup {h}
  BY <1>1, <1>5, <1>6, <1>7, RetryKeeps
<1>9. ASSUME NEW g \in PendingHeights(cfPending), g # h
      PROVE  g \in PendingHeights(pend)
  BY <1>3, <1>9, RemoveKeeps DEF pend
<1> QED
  BY <1>1, <1>2, <1>7, <1>8, <1>9, MatchKept

\* Every step keeps MatchInv.
LEMMA MatchNext ==
    ASSUME KeepConnected >= 2, StopAfter = 0, TypeOK, TypeOK', MatchInv, [Next]_vars
    PROVE  MatchInv'
<1>1. IsFiniteSet(conn) /\ MatchStaysPending
  BY DEF MatchInv
<1>2. CASE UNCHANGED vars
  BY <1>1, <1>2 DEF MatchInv, MatchStaysPending, vars, procVars, netVars
<1>3. CASE Restart
  <2>1. scanned' = {} /\ conn' = conn
    BY <1>3 DEF Restart, netVars
  <2> QED BY <1>1, <2>1 DEF MatchInv, MatchStaysPending
<1>4. CASE Crash \/ Exit
  <2>1. state' = "DOWN" /\ conn' = {}
    BY <1>4 DEF Crash, Exit, Down
  <2>2. IsFiniteSet(conn')
    BY <2>1, FS_EmptySet
  <2> QED BY <2>1, <2>2 DEF MatchInv, MatchStaysPending
<1>5. CASE PeriodicCb \/ ChunkTimeout \/ \E p \in Peers : IgnoreGetdata(p)
  <2>1. UNCHANGED <<scanned, processed, cfPending, conn, state>>
    BY <1>5 DEF PeriodicCb, ChunkTimeout, IgnoreGetdata, netVars, procVars
  <2> QED BY <1>1, <2>1 DEF MatchInv, MatchStaysPending
<1>6. ASSUME NEW p \in Peers, HandshakeOk(p) \/ PeerDestroy(p) PROVE MatchInv'
  <2>1. UNCHANGED <<scanned, processed, cfPending, state>>
    BY <1>6, Zenon DEF HandshakeOk, PeerDestroy
  <2>2. conn' = conn \cup {p} \/ conn' = conn \ {p}
    BY <1>6, Zenon DEF HandshakeOk, PeerDestroy
  <2>3. IsFiniteSet(conn')
    BY <1>1, <2>2, FS_AddElement, FS_RemoveElement
  <2>4. MatchStaysPending'
    BY <1>1, <2>1 DEF MatchStaysPending
  <2> QED BY <2>3, <2>4 DEF MatchInv
<1> QED
  BY <1>2, <1>3, <1>4, <1>5, <1>6, MatchCfilter, MatchBlock, MatchNotfound, MatchTimeout, Zenon
     DEF Next

LEMMA MatchInit == Init => MatchInv
<1> SUFFICES ASSUME Init PROVE MatchInv
  OBVIOUS
<1>1. scanned = {} /\ conn = {}
  BY DEF Init
<1>2. IsFiniteSet(conn)
  BY <1>1, FS_EmptySet
<1> QED
  BY <1>1, <1>2 DEF MatchInv, MatchStaysPending

\* A matched block is never forgotten (peergroup_retry_block_fetch: "the
\* fetch stays pending"): as long as two peers that serve every block are
\* connected whenever a fetch fails, and in a run without
\* --stop-after-height, whose filters beyond the height are not matched.
THEOREM MatchesStayPending ==
    ASSUME KeepConnected >= 2, StopAfter = 0
    PROVE  Spec => []MatchStaysPending
<1>1. Init => MatchInv
  BY MatchInit
<1>2. TypeOK /\ TypeOK' /\ MatchInv /\ [Next]_vars => MatchInv'
  BY MatchNext
<1>3. MatchInv => MatchStaysPending
  BY DEF MatchInv
<1> QED
  BY <1>1, <1>2, <1>3, TypeCorrect, PTL DEF Spec

-----------------------------------------------------------------------------
(* The resume pointer and the matched blocks *)

\* peergroup_handle_cfilter advances the resume pointer before it matches the
\* filter that completed the chunk.  This is a step where the order does not
\* matter: the pointer stays, or no block that the wallet lacks starts to be
\* fetched in the same step.
NoteFirst ==
    \/ lastBlk' = lastBlk
    \/ PendingHeights(cfPending') \subseteq PendingHeights(cfPending) \cup processed

\* What was below the floor, or is below the pointer, has reached the wallet.
SafeInv ==
    /\ \A h \in Matches : h \in Birth..(floor - 1) => h \in processed
    /\ lastBlk > floor => \A h \in Matches : h \in floor..lastBlk => h \in processed
    /\ stopRequested = FALSE
    /\ ResumeSafe
    /\ ReadyIsComplete

\* The pointer moves up, and stays below what is pending.
LEMMA AdvanceBelowPending ==
    ASSUME RangeOK, lastBlk \in floor..tip, NEW k, NEW pend, NEW last,
           AdvanceLastblk(k, pend, last), last # lastBlk
    PROVE  last > floor /\ last \in floor..tip /\ \A h \in PendingHeights(pend) : last < h
BY DEF AdvanceLastblk, RangeOK

\* Any instant is a good one to save the pointer.
LEMMA SafeToSave ==
    ASSUME TypeOK, SafeInv, NEW h \in Matches, h \in Birth..(lastBlk - 1)
    PROVE  h \in processed
<1>1. floor \in Int /\ lastBlk \in Int /\ Birth \in Int /\ h \in Int
  BY HeightsAssumption DEF TypeOK
<1>2. CASE h < floor
  BY <1>1, <1>2 DEF SafeInv
<1>3. CASE h >= floor
  BY <1>1, <1>3 DEF SafeInv
<1> QED
  BY <1>1, <1>2, <1>3

\* A step within a run that saves nothing.
LEMMA SafeKept ==
    ASSUME SafeInv, processed \subseteq processed', scanned \subseteq scanned',
           UNCHANGED <<floor, tip, saved, stopRequested>>,
           \/ lastBlk' = lastBlk
           \/ \A h \in Matches : h \in floor..lastBlk' => h \in processed',
           \/ state' # "READY"
           \/ state = "READY"
           \/ /\ floor..tip \subseteq scanned'
              /\ \A h \in Matches : h \in floor..tip => h \in processed'
    PROVE  SafeInv'
<1>1. (\A h \in Matches : h \in Birth..(floor - 1) => h \in processed)'
  BY DEF SafeInv
<1>2. (lastBlk > floor => \A h \in Matches : h \in floor..lastBlk => h \in processed)'
  BY DEF SafeInv
<1>3. ResumeSafe'
  BY DEF SafeInv, ResumeSafe
<1>4. ReadyIsComplete'
  BY DEF SafeInv, ReadyIsComplete
<1>5. stopRequested' = FALSE
  BY DEF SafeInv
<1> QED
  BY <1>1, <1>2, <1>3, <1>4, <1>5 DEF SafeInv

\* A filter arrives.
LEMMA SafeCfilter ==
    ASSUME StopAfter = 0, IInv, IInv', MatchInv', SafeInv, NEW p \in Peers, HandleCfilter(p),
           NoteFirst
    PROVE  SafeInv'
<1> DEFINE h == Head(stream[p]).next
<1>1. /\ scanned' = scanned \cup {h} /\ UNCHANGED <<floor, tip, saved, processed>>
      /\ StopOrMatch(p, h) /\ Running
  BY Zenon DEF HandleCfilter
<1>2. stopRequested' = stopRequested
  BY <1>1 DEF StopOrMatch
<1>3. RangeOK /\ lastBlk \in floor..tip /\ state # "DOWN" /\ UpdateAndExit \in BOOLEAN
  BY <1>1, TypeRange, HeightsAssumption DEF IInv, TypeOK, Running
<1>4. \/ /\ lastBlk' = lastBlk /\ DownloadComplete(StopNow(h), StopNow(h))
      \/ \E c, k, last : /\ CompleteChunk(c, p, k, last)
                         /\ DownloadComplete(\/ last # lastBlk /\ ScanComplete(k, cfPending, last)
                                             \/ StopNow(h), StopNow(h))
  BY Zenon DEF HandleCfilter
<1>5. StopNow(h) = FALSE
  BY DEF StopNow
<1> HIDE DEF h
<1>6. CASE lastBlk' = lastBlk
  <2>1. state' # "READY" \/ state = "READY"
    <3>1. CASE DownloadComplete(StopNow(h), StopNow(h))
      BY <1>5, <3>1 DEF DownloadComplete
    <3>2. ASSUME NEW c, NEW k, NEW last, CompleteChunk(c, p, k, last),
                 DownloadComplete(\/ last # lastBlk /\ ScanComplete(k, cfPending, last)
                                  \/ StopNow(h), StopNow(h))
          PROVE  state' # "READY" \/ state = "READY"
      <4>1. last = lastBlk
        BY <1>6, <3>2 DEF CompleteChunk, SetLastblk
      <4> QED
        BY <1>5, <3>2, <4>1 DEF DownloadComplete
    <3> QED
      BY <1>4, <3>1, <3>2
  <2> QED
    BY <1>1, <1>2, <1>6, <2>1, SafeKept
<1>7. CASE lastBlk' # lastBlk
  <2>1. PICK c, k, last : /\ CompleteChunk(c, p, k, last)
                          /\ DownloadComplete(\/ last # lastBlk /\ ScanComplete(k, cfPending, last)
                                              \/ StopNow(h), StopNow(h))
    BY <1>4, <1>7
  <2>2. AdvanceLastblk(k, cfPending, last) /\ lastBlk' = last
    BY <2>1 DEF CompleteChunk, SetLastblk
  <2>3. last > floor /\ last \in floor..tip /\ \A g \in PendingHeights(cfPending) : last < g
    BY <1>3, <1>7, <2>2, AdvanceBelowPending
  <2>4. floor..last \subseteq scanned'
    BY <1>1, <2>2, <2>3 DEF IInv, ResumeCovered
  <2>5. state' # "DOWN"
    BY <1>3, <2>1 DEF DownloadComplete
  <2>6. ASSUME NEW g \in Matches, g \in floor..last PROVE g \in processed
    <3>1. g \in processed' \/ g \in PendingHeights(cfPending')
      BY <2>4, <2>5, <2>6 DEF MatchInv, MatchStaysPending
    <3>2. g \in processed \/ g \in PendingHeights(cfPending)
      BY <1>1, <1>7, <3>1 DEF NoteFirst
    <3>3. ~(last < g)
      BY <1>3, <2>3, <2>6 DEF RangeOK
    <3> QED
      BY <2>3, <3>2, <3>3
  <2>7. state' = "READY" /\ state # "READY" => last = tip
    BY <1>5, <2>1 DEF DownloadComplete, ScanComplete
  <2> QED
    BY <1>1, <1>2, <2>2, <2>4, <2>6, <2>7, SafeKept
<1> QED
  BY <1>6, <1>7

\* A block arrives.
LEMMA SafeBlock ==
    ASSUME IInv, IInv', MatchInv', SafeInv, NEW p \in Peers, HandleBlock(p)
    PROVE  SafeInv'
<1> DEFINE h == Head(fetch[p])
           pend == RemovePendingBlock(cfPending, h)
<1>1. /\ processed' = processed \cup {h} /\ cfPending' = pend /\ Running
      /\ UNCHANGED <<floor, tip, seg, contig, stopRequested, saved, scanned>>
  BY Zenon DEF HandleBlock
<1>2. PICK last : /\ AdvanceLastblk(contig, pend, last) /\ SetLastblk(last)
                  /\ DownloadComplete((stopRequested /\ pend = <<>>) \/ ScanComplete(contig, pend, last),
                                      stopRequested /\ pend = <<>>)
  BY DEF HandleBlock
<1> HIDE DEF h, pend
<1>3. RangeOK /\ lastBlk \in floor..tip /\ state # "DOWN" /\ lastBlk' = last
  BY <1>1, <1>2, TypeRange DEF IInv, TypeOK, Running, SetLastblk
<1>4. state' # "DOWN"
  BY <1>2, <1>3 DEF DownloadComplete
<1>5. lastBlk' = lastBlk \/ \A g \in Matches : g \in floor..lastBlk' => g \in processed'
  <2> SUFFICES ASSUME last # lastBlk, NEW g \in Matches, g \in floor..last PROVE g \in processed'
    BY <1>3
  <2>1. last > floor /\ last \in floor..tip /\ \A x \in PendingHeights(pend) : last < x
    BY <1>2, <1>3, AdvanceBelowPending
  <2>2. floor..last \subseteq scanned'
    BY <1>1, <1>3, <2>1 DEF IInv, ResumeCovered
  <2>3. g \in processed' \/ g \in PendingHeights(pend)
    BY <1>1, <1>4, <2>2 DEF MatchInv, MatchStaysPending
  <2>4. ~(last < g)
    BY <1>3, <2>1 DEF RangeOK
  <2> QED
    BY <2>1, <2>3, <2>4
<1>6. ASSUME state' = "READY", state # "READY"
      PROVE  /\ floor..tip \subseteq scanned'
             /\ \A g \in Matches : g \in floor..tip => g \in processed'
  <2>1. contig = SegCount(floor, tip) /\ pend = <<>>
    BY <1>2, <1>6 DEF DownloadComplete, ScanComplete, SafeInv
  <2>2. ASSUME NEW g \in floor..tip PROVE g \in scanned
    <3>1. CFChunkIndex(g) \in Segs /\ g \in Heights(CFChunkIndex(g))
      BY <1>3, HeightHasChunk
    <3>2. seg[CFChunkIndex(g)].done
      BY <2>1, <3>1 DEF IInv, PrefixDone, Segs, SegsOf
    <3> QED
      BY <3>1, <3>2 DEF IInv, DoneMeansScanned
  <2>3. PendingHeights(cfPending') = {}
    BY <1>1, <2>1 DEF PendingHeights
  <2>4. ASSUME NEW g \in Matches, g \in floor..tip PROVE g \in processed'
    BY <1>1, <1>4, <2>2, <2>3, <2>4 DEF MatchInv, MatchStaysPending
  <2> QED
    BY <1>1, <2>2, <2>4
<1> QED
  BY <1>1, <1>5, <1>6, SafeKept

\* Every step keeps SafeInv.
LEMMA SafeNext ==
    ASSUME StopAfter = 0, IInv, IInv', MatchInv', SafeInv, [Next]_vars, [NoteFirst]_vars
    PROVE  SafeInv'
<1>1. TypeOK
  BY DEF IInv
<1>2. CASE Restart
  <2>1. /\ floor' = ScanStart /\ lastBlk' = ScanStart /\ state' = "UPDATE_TXDB"
        /\ UNCHANGED <<stopRequested, saved, processed>>
    BY <1>2 DEF Restart
  <2>2. ScanStart = Birth \/ ScanStart = saved
    BY DEF ScanStart
  <2>3. Birth \in Nat /\ saved \in Nat
    BY <1>1, HeightsAssumption DEF TypeOK
  <2>4. ASSUME NEW h \in Matches, h \in Birth..(floor' - 1) PROVE h \in processed
    BY <2>1, <2>2, <2>3, <2>4 DEF SafeInv, ResumeSafe
  <2>5. ~(lastBlk' > floor')
    BY <2>1, <2>2, <2>3
  <2>6. ResumeSafe' /\ ReadyIsComplete' /\ stopRequested' = FALSE
    BY <2>1 DEF SafeInv, ResumeSafe, ReadyIsComplete
  <2> QED
    BY <2>1, <2>4, <2>5, <2>6 DEF SafeInv
<1>3. CASE Crash \/ Exit \/ PeriodicCb
  <2>1. /\ UNCHANGED <<floor, tip, lastBlk, scanned, processed>>
        /\ saved' = saved \/ saved' = lastBlk \/ saved' = 0
        /\ stopRequested' = FALSE /\ (state' = "READY" => state = "READY")
    BY <1>3 DEF Crash, Exit, PeriodicCb, SaveLastblk, Down, SafeInv
  <2>2. ResumeSafe'
    <3>1. CASE saved' = saved
      BY <2>1, <3>1 DEF SafeInv, ResumeSafe
    <3>2. CASE saved' = lastBlk
      BY <1>1, <2>1, <3>2, SafeToSave DEF ResumeSafe
    <3>3. CASE saved' = 0
      BY <3>3, HeightsAssumption DEF ResumeSafe
    <3> QED
      BY <2>1, <3>1, <3>2, <3>3
  <2>3. ReadyIsComplete'
    BY <2>1 DEF SafeInv, ReadyIsComplete
  <2> QED
    BY <2>1, <2>2, <2>3 DEF SafeInv
<1>4. ASSUME NEW p \in Peers, HandleCfilter(p) PROVE SafeInv'
  <2>1. CASE NoteFirst
    BY <1>4, <2>1, SafeCfilter
  <2>2. CASE UNCHANGED vars
    <3>1. UNCHANGED <<floor, tip, lastBlk, scanned, processed, saved, stopRequested, state>>
      BY <2>2 DEF vars, procVars
    <3> QED
      BY <3>1, SafeKept
  <2> QED
    BY <2>1, <2>2
<1>5. ASSUME NEW p \in Peers, HandleBlock(p) PROVE SafeInv'
  BY <1>5, SafeBlock
<1>6. CASE UNCHANGED <<floor, tip, lastBlk, scanned, processed, saved, stopRequested, state>>
  BY <1>6, SafeKept
<1>7. \/ UNCHANGED <<floor, tip, lastBlk, scanned, processed, saved, stopRequested, state>>
      \/ Restart \/ Crash \/ Exit \/ PeriodicCb
      \/ \E p \in Peers : HandleCfilter(p) \/ HandleBlock(p)
  BY DEF Next, vars, procVars, ChunkTimeout, HandshakeOk, PeerDestroy, HandleNotfound,
         IgnoreGetdata, BlockTimeout
<1> QED
  BY <1>2, <1>3, <1>4, <1>5, <1>6, <1>7

LEMMA SafeInit == Init => SafeInv
<1> SUFFICES ASSUME Init PROVE SafeInv
  OBVIOUS
<1>1. floor = Birth /\ lastBlk = Birth /\ saved = 0 /\ stopRequested = FALSE /\ state # "READY"
  BY DEF Init
<1>2. Birth \in Nat \ {0}
  BY HeightsAssumption
<1> QED
  BY <1>1, <1>2 DEF SafeInv, ResumeSafe, ReadyIsComplete

LEMMA SafeAlways ==
    ASSUME KeepConnected >= 2, StopAfter = 0
    PROVE  Spec /\ [][NoteFirst]_vars => []SafeInv
<1>1. TypeOK /\ TypeOK' /\ MatchInv /\ [Next]_vars => MatchInv'
  BY MatchNext
<1>2. IInv /\ IInv' /\ MatchInv' /\ SafeInv /\ [Next]_vars /\ [NoteFirst]_vars => SafeInv'
  BY SafeNext
<1>3. IInv => TypeOK
  BY DEF IInv
<1>4. Init => MatchInv
  BY MatchInit
<1> QED
  BY <1>1, <1>2, <1>3, <1>4, SafeInit, ScanInvariant, PTL DEF Spec

\* Whatever instant the process dies at, the next run meets every matched
\* block that has not reached the wallet (peergroup_advance_lastblk), in every
\* behaviour in which no filter both moves the resume pointer and matches: the
\* flaw of run scan_last_filter is the only way to lose one.
THEOREM ResumeIsSafe ==
    ASSUME KeepConnected >= 2, StopAfter = 0
    PROVE  Spec /\ [][NoteFirst]_vars => []ResumeSafe
<1>1. SafeInv => ResumeSafe
  BY DEF SafeInv
<1> QED
  BY <1>1, SafeAlways, PTL

\* READY (peergroup_maybe_complete) means that every filter was scanned and
\* every matched block is in the wallet, under the same condition.
THEOREM ReadyMeansComplete ==
    ASSUME KeepConnected >= 2, StopAfter = 0
    PROVE  Spec /\ [][NoteFirst]_vars => []ReadyIsComplete
<1>1. SafeInv => ReadyIsComplete
  BY DEF SafeInv
<1> QED
  BY <1>1, SafeAlways, PTL

=============================================================================
