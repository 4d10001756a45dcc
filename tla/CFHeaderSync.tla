----------------------------- MODULE CFHeaderSync -----------------------------
(***************************************************************************)
(* The download of the filter headers: the checkpoint agreement and the    *)
(* single-driver cfheaders download of core/peergroup.c, and the file      *)
(* cfheaders.dat of core/cfheader-store.c they fill.                       *)
(*                                                                         *)
(* A filter header commits to the filter of its block and to the header    *)
(* before it, so it is named by the filter index it comes from and its     *)
(* height.  Peers with the same index serve the same headers.              *)
(*                                                                         *)
(* All handlers run on the one poll thread: each is one action.  The block *)
(* chain is fixed while a run lasts.  A peer that does not serve filters,  *)
(* or whose handshake is not over, never answers what it is sent.          *)
(***************************************************************************)
EXTENDS Integers, Sequences, FiniteSets

CONSTANTS
    Peers,          \* slots for peers
    FilterPeers,    \* those that advertise NODE_COMPACT_FILTERS
    NoPeer,         \* the NULL peer pointer
    Indexes,        \* the filter indexes peers may have
    NoIndex,        \* no filter index: the NULL and the zero hash
    Assignments,    \* the ways in which peers may have indexes
    Floors,         \* heights a scan may start at
    MinTip, MaxTip, \* bounds on the height of the block chain
    Batch,          \* CFHEADER_BATCH
    Interval,       \* BIP157_CHECKPOINT_INTERVAL
    CheckpointLag,  \* peers put checkpoint i at (i+1) * Interval - CheckpointLag
    MaxLeaves,      \* bound on connections that fail or end
    MaxCrashes,     \* bound on crashes and exits
    MaxFailures     \* bound on failed writes and opens of cfheaders.dat

ASSUME SyncPeersAssumption ==
    /\ FilterPeers \subseteq Peers /\ NoPeer \notin Peers
    /\ IsFiniteSet(Peers)
    /\ NoIndex \notin Indexes
    /\ Assignments \subseteq [Peers -> Indexes]

\* A batch holds more than the genesis block, whose hash
\* blockstore_get_block_at_height never finds.
ASSUME SyncHeightsAssumption ==
    /\ MinTip \in Nat \ {0} /\ MaxTip \in Nat /\ MinTip =< MaxTip
    /\ Floors \subseteq 1..MinTip
    /\ Batch \in Nat \ {0, 1} /\ Interval \in Nat \ {0}
    /\ CheckpointLag \in {0, 1}

ASSUME SyncBoundsAssumption ==
    MaxLeaves \in Nat /\ MaxCrashes \in Nat /\ MaxFailures \in Nat

VARIABLES
    state,       \* btc->state: "HEADERS", "TXDB", "READY", or "DOWN"
    conn,        \* per peer: "free", "open" until the handshake, "up" after it
    pg,          \* the fields of struct peergroup the sync uses
    tip,         \* height of the best block
    index,       \* the index of each peer
    entries,     \* cfs->entries: records [height, header]
    hasStore,    \* pg->cfStore # NULL
    disk,        \* cfheaders.dat: its count field and its records
    ckReq,       \* per peer: getcfcheckpt messages not answered
    hdrReq,      \* per peer: getcfheaders messages not answered
    panic,       \* the handler whose ASSERT ended the process, if one did
    budget       \* what is left of the environment's bounds

netVars   == <<conn, ckReq, hdrReq>>
storeVars == <<entries, hasStore, disk>>
vars == <<state, pg, tip, index, netVars, storeVars, panic, budget>>

-----------------------------------------------------------------------------
(* Filter headers and the store *)

ZeroHeader == [ix |-> NoIndex, height |-> -1]
\* cfheader_calc along an index: the header of height h.
Header(k, h) == IF h < 0 THEN ZeroHeader ELSE [ix |-> k, height |-> h]

\* cfheaderstore_get_tip_height
TipHeight == IF entries = <<>> THEN -1 ELSE entries[Len(entries)].height

\* Mutant: loads one record less than the file has.
LoadedShort(d) == SubSeq(d.recs, 1, (IF d.count < Len(d.recs) THEN d.count ELSE Len(d.recs)) - 1)
\* cfheaderstore_init: the records that count and file agree on.
Loaded(d) == SubSeq(d.recs, 1, IF d.count < Len(d.recs) THEN d.count ELSE Len(d.recs))

\* cfheaderstore_get_header: baseHeight is the height of the first record.
GetHeader(h) == entries[h - entries[1].height + 1].header

\* The heights cfheaderstore_get_hash finds a filter hash for.
Stored == {entries[i].height : i \in 1..Len(entries)}

\* The first n records of a batch that peer p numbers from r.start, stored
\* from height h on.
Records(p, r, h, n) ==
    [i \in 1..n |-> [height |-> h + i - 1, header |-> Header(index[p], r.start + i - 1)]]

\* cfheaderstore_append, record after record until the store is es: a record
\* is written to the file, then the count.  The records of rest are written
\* and not counted.
Appended(es, rest) ==
    disk' = [count |-> IF es = entries THEN disk.count ELSE Len(es),
             recs  |-> IF es \o rest = entries THEN disk.recs ELSE es \o rest]

-----------------------------------------------------------------------------
(* The steps of the sync.  g is the peergroup as the caller left it.       *)

Up == {p \in Peers : conn[p] = "up"}

FreshPg == [driver |-> NoPeer, ckPeers |-> 0, agreed |-> 0, verified |-> FALSE,
            expected |-> NoIndex, counted |-> FALSE, start |-> -1, hdrTip |-> -1,
            prev |-> ZeroHeader, syncStarted |-> FALSE, floor |-> -1, scanning |-> FALSE]

BatchEnd(g) == IF g.start + Batch - 1 < g.hdrTip THEN g.start + Batch - 1 ELSE g.hdrTip

\* A message to p is answered when p serves filters and can take it.
Sent(reqs, p, r, up) == IF p \in FilterPeers \cap up
                        THEN [reqs EXCEPT ![p] = Append(@, r)] ELSE reqs

\* Mutant: asks again while a batch is under way.
RequestCfheadersAgain(g, p, reqs, up) ==
    \/ /\ g.start > g.hdrTip
       /\ pg' = [g EXCEPT !.syncStarted = TRUE, !.scanning = TRUE]
       /\ hdrReq' = reqs
    \/ /\ g.start =< g.hdrTip
       /\ pg' = [g EXCEPT !.syncStarted = TRUE]
       /\ hdrReq' = Sent(reqs, p, [start |-> g.start, stop |-> BatchEnd(g)], up)

\* peergroup_request_cfheaders
RequestCfheaders(g, p, reqs, up) ==
    \/ /\ g.syncStarted
       /\ pg' = g /\ hdrReq' = reqs
    \/ /\ ~g.syncStarted
       /\ g.start > g.hdrTip
       /\ pg' = [g EXCEPT !.syncStarted = TRUE, !.scanning = TRUE]
       /\ hdrReq' = reqs
    \/ /\ ~g.syncStarted
       /\ g.start =< g.hdrTip
       /\ pg' = [g EXCEPT !.syncStarted = TRUE]
       /\ hdrReq' = Sent(reqs, p, [start |-> g.start, stop |-> BatchEnd(g)], up)

\* Checkpoints in the answer of a peer.
Checkpoints == (tip + CheckpointLag) \div Interval
\* cfcheckptCount
Count(g)  == IF g.counted THEN Checkpoints ELSE 0
Anchor(g) == (g.floor \div Interval) * Interval

\* Mutant: the checkpoint before the one the code takes.
BirthdayBoundEarlier(g) ==
    IF TipHeight >= 0 \/ Anchor(g) =< 0 \/ Anchor(g) \div Interval > Count(g)
    THEN g
    ELSE [g EXCEPT !.start = Anchor(g), !.prev = Header(g.expected, Anchor(g) - 1)]

\* peergroup_maybe_birthday_bound_cfheaders
BirthdayBound(g) ==
    IF TipHeight >= 0 \/ Anchor(g) =< 0 \/ Anchor(g) \div Interval > Count(g)
    THEN g
    ELSE [g EXCEPT !.start = Anchor(g),
                   !.prev = Header(g.expected, Anchor(g) - CheckpointLag)]

\* peergroup_cfcheckpt_maybe_complete
Complete(g) == g.agreed >= 1 /\ g.agreed >= g.ckPeers
MaybeComplete(g, p, reqs, up) ==
    \/ /\ g.verified \/ ~Complete(g)
       /\ pg' = g /\ hdrReq' = reqs
    \/ /\ ~g.verified /\ Complete(g)
       /\ RequestCfheaders(BirthdayBound([g EXCEPT !.verified = TRUE]), p, reqs, up)

\* The condition under which peergroup_notify_peer_gone lowers the target.
Awaiting(g) == ~g.verified /\ g.ckPeers > 0 /\ g.agreed < g.ckPeers

\* Mutant: the target stays when a peer goes.
LoweredNot(g) == g
Lowered(g) == [g EXCEPT !.ckPeers = @ - 1]

\* peer_destroy and peergroup_notify_peer_gone.  The peer that takes over is
\* the first of the list that has a connection, its handshake over or not.
Gone(g, p) ==
    LET g0   == [g EXCEPT !.driver = IF @ = p THEN NoPeer ELSE @]
        reqs == [hdrReq EXCEPT ![p] = <<>>]
        up   == Up \ {p}
    IN  /\ conn' = [conn EXCEPT ![p] = "free"]
        /\ ckReq' = [ckReq EXCEPT ![p] = 0]
        /\ \/ /\ ~Awaiting(g0)
              /\ pg' = g0 /\ hdrReq' = reqs
           \/ /\ Awaiting(g0)
              /\ g0.agreed = 0 \/ up = {}
              /\ pg' = Lowered(g0) /\ hdrReq' = reqs
           \/ /\ Awaiting(g0)
              /\ g0.agreed >= 1
              /\ \E q \in Peers \ {p} :
                    conn[q] # "free" /\ MaybeComplete(Lowered(g0), q, reqs, up)

\* peergroup_verify_cfcheckpts, called for p with the peers up connected.
VerifyCfcheckpts(g, p, up) ==
    LET asked == FilterPeers \cap up
        g0    == [g EXCEPT !.ckPeers = Cardinality(asked), !.agreed = 0,
                           !.verified = (asked = {}), !.syncStarted = FALSE,
                           !.expected = NoIndex, !.counted = FALSE]
    IN  /\ ckReq' = [q \in Peers |-> IF q \in asked THEN ckReq[q] + 1 ELSE ckReq[q]]
        /\ \/ asked # {} /\ pg' = g0 /\ hdrReq' = hdrReq
           \/ asked = {} /\ RequestCfheaders(g0, p, hdrReq, up)

\* The cfilter scan and the sync are laid out once, after the last header.
LaidOut(g, f) == [g EXCEPT !.floor = f, !.hdrTip = tip, !.start = TipHeight + 1,
                           !.prev = IF TipHeight >= 0 THEN GetHeader(TipHeight)
                                    ELSE ZeroHeader]

\* peergroup_download_filtered_blocks for p.
DownloadFilteredBlocks(p, up) ==
    \/ /\ pg.driver \notin {NoPeer, p}
       /\ pg' = IF state = "TXDB" /\ pg.verified /\ pg.start > pg.hdrTip
                THEN [pg EXCEPT !.scanning = TRUE] ELSE pg
       /\ UNCHANGED <<state, ckReq, hdrReq>>
    \/ /\ pg.driver \in {NoPeer, p}
       /\ state' = "TXDB"
       /\ \E f \in IF state = "HEADERS" THEN Floors ELSE {pg.floor} :
             LET g0 == [pg EXCEPT !.driver = p]
                 g  == IF state = "HEADERS" THEN LaidOut(g0, f) ELSE g0
             IN  \/ /\ ~g.verified
                    /\ VerifyCfcheckpts(g, p, up)
                 \/ /\ g.verified
                    /\ g.start =< g.hdrTip
                    /\ RequestCfheaders(g, p, hdrReq, up)
                    /\ UNCHANGED ckReq
                 \/ /\ g.verified
                    /\ g.start > g.hdrTip
                    /\ pg' = [g EXCEPT !.scanning = TRUE]
                    /\ UNCHANGED <<ckReq, hdrReq>>

Panic(where) ==
    /\ panic' = where
    /\ state' = "DOWN"
    /\ conn' = [p \in Peers |-> "free"]
    /\ ckReq' = [p \in Peers |-> 0]
    /\ hdrReq' = [p \in Peers |-> <<>>]
    /\ UNCHANGED pg

-----------------------------------------------------------------------------
(* Messages and connections *)

Running == state # "DOWN"

\* peergroup_refill
Dial(p) ==
    /\ Running
    /\ conn[p] = "free"
    /\ conn' = [conn EXCEPT ![p] = "open"]
    /\ UNCHANGED <<state, pg, tip, index, ckReq, hdrReq, storeVars, panic, budget>>

\* peergroup_handle_handshake_ok
HandshakeOk(p) ==
    /\ Running
    /\ conn[p] = "open"
    /\ conn' = [conn EXCEPT ![p] = "up"]
    /\ \/ /\ state = "HEADERS"
          /\ pg' = [pg EXCEPT !.driver = IF @ = NoPeer THEN p ELSE @]
          /\ UNCHANGED <<state, ckReq, hdrReq>>
       \/ /\ state = "TXDB"
          /\ DownloadFilteredBlocks(p, Up \cup {p})
       \/ /\ state = "READY"
          /\ UNCHANGED <<state, pg, ckReq, hdrReq>>
    /\ UNCHANGED <<tip, index, storeVars, panic, budget>>

\* peergroup_handle_headers: the driver has no more headers.
LastHeaders(p) ==
    /\ state = "HEADERS"
    /\ conn[p] = "up"
    /\ pg.driver = p
    /\ DownloadFilteredBlocks(p, Up)
    /\ UNCHANGED <<tip, index, conn, storeVars, panic, budget>>

\* A connection fails or ends.
Leave(p) ==
    /\ Running
    /\ conn[p] # "free"
    /\ budget.leaves > 0
    /\ budget' = [budget EXCEPT !.leaves = @ - 1]
    /\ Gone(pg, p)
    /\ UNCHANGED <<state, tip, index, storeVars, panic>>

\* What p answers: nothing tells indexes apart below the first checkpoint.
Answer(p) == IF Checkpoints = 0 THEN NoIndex ELSE index[p]

\* peergroup_handle_cfcheckpt
HandleCfcheckpt(p) ==
    /\ Running
    /\ ckReq[p] > 0
    /\ \/ /\ state # "TXDB"
          /\ Panic("cfcheckpt")
       \/ /\ state = "TXDB"
          /\ ~pg.counted \/ pg.expected = Answer(p)
          /\ MaybeComplete([pg EXCEPT !.counted = TRUE, !.expected = Answer(p),
                                      !.agreed = @ + 1], p, hdrReq, Up)
          /\ ckReq' = [ckReq EXCEPT ![p] = @ - 1]
          /\ UNCHANGED <<state, conn, panic>>
       \/ /\ state = "TXDB"
          /\ pg.counted /\ pg.expected # Answer(p)
          /\ Gone(pg, p)
          /\ UNCHANGED <<state, panic>>
    /\ UNCHANGED <<tip, index, storeVars, budget>>

\* Mutant: takes the last height for one that needs no header.
NextBatchShort(p, r, h) ==
    LET n == r.stop - r.start + 1
        g == [pg EXCEPT !.prev = Header(index[p], r.stop), !.start = h + n,
                        !.syncStarted = FALSE]
        reqs == [hdrReq EXCEPT ![p] = Tail(@)]
    IN  \/ /\ g.start < g.hdrTip
           /\ RequestCfheaders(g, p, reqs, Up)
        \/ /\ g.start >= g.hdrTip
           /\ pg' = [g EXCEPT !.scanning = TRUE]
           /\ hdrReq' = reqs

\* peergroup_handle_cfheaders once the batch r is stored from height h on.
NextBatch(p, r, h) ==
    LET n == r.stop - r.start + 1
        g == [pg EXCEPT !.prev = Header(index[p], r.stop), !.start = h + n,
                        !.syncStarted = FALSE]
        reqs == [hdrReq EXCEPT ![p] = Tail(@)]
    IN  \/ /\ g.start =< g.hdrTip
           /\ RequestCfheaders(g, p, reqs, Up)
        \/ /\ g.start > g.hdrTip
           /\ pg' = [g EXCEPT !.scanning = TRUE]
           /\ hdrReq' = reqs

\* The batch follows the header the sync has reached.
Follows(p, r) == pg.prev \in {ZeroHeader, Header(index[p], r.start - 1)}

HandleCfheaders(p) ==
    /\ Running
    /\ hdrReq[p] # <<>>
    /\ LET r == Head(hdrReq[p])
           h == TipHeight + 1
           n == r.stop - r.start + 1
       IN  \/ /\ state # "TXDB"
              /\ Panic("cfheaders")
              /\ UNCHANGED <<storeVars, budget>>
           \/ /\ state = "TXDB"
              /\ ~Follows(p, r) \/ ~hasStore
              /\ Gone(pg, p)
              /\ UNCHANGED <<state, storeVars, panic, budget>>
           \/ /\ state = "TXDB"
              /\ Follows(p, r) /\ hasStore
              /\ entries' = entries \o Records(p, r, h, n)
              /\ Appended(entries', <<>>)
              /\ NextBatch(p, r, h)
              /\ UNCHANGED <<state, conn, ckReq, hasStore, panic, budget>>
    /\ UNCHANGED <<tip, index>>

\* The file refuses a write after k records of a batch.  With inStore, the
\* record k + 1 is in the store and only the count in the file is not.
WriteFails(p) ==
    /\ state = "TXDB" /\ hasStore
    /\ hdrReq[p] # <<>>
    /\ budget.failures > 0
    /\ budget' = [budget EXCEPT !.failures = @ - 1]
    /\ LET r == Head(hdrReq[p])
           h == TipHeight + 1
       IN  /\ Follows(p, r)
           /\ \E k \in 0..(r.stop - r.start), inStore \in BOOLEAN :
                 LET es   == entries \o Records(p, r, h, k)
                     more == entries \o Records(p, r, h, k + 1)
                 IN  /\ entries' = IF inStore THEN more ELSE es
                     /\ Appended(es, IF inStore THEN <<more[Len(more)]>> ELSE <<>>)
    /\ Gone(pg, p)
    /\ UNCHANGED <<state, tip, index, hasStore, panic>>

\* The scan reaches its end and the wallet is ready (CFilterScan).
ScanDone ==
    /\ state = "TXDB"
    /\ pg.scanning
    /\ state' = "READY"
    /\ UNCHANGED <<pg, tip, index, netVars, storeVars, panic, budget>>

-----------------------------------------------------------------------------
(* The process *)

Down ==
    /\ budget.crashes > 0
    /\ budget' = [budget EXCEPT !.crashes = @ - 1]
    /\ state' = "DOWN"
    /\ conn' = [p \in Peers |-> "free"]
    /\ ckReq' = [p \in Peers |-> 0]
    /\ hdrReq' = [p \in Peers |-> <<>>]
    /\ UNCHANGED <<pg, tip, index, entries, hasStore, panic>>

Crash ==
    /\ Running
    /\ Down
    /\ UNCHANGED disk

\* The process ends inside the loop of peergroup_handle_cfheaders, after k
\* records or between the record k + 1 and its count.
CrashInBatch(p) ==
    /\ state = "TXDB" /\ hasStore
    /\ hdrReq[p] # <<>>
    /\ LET r == Head(hdrReq[p])
           h == TipHeight + 1
       IN  /\ Follows(p, r)
           /\ \E k \in 0..(r.stop - r.start), torn \in BOOLEAN :
                 Appended(entries \o Records(p, r, h, k),
                          IF torn THEN <<Records(p, r, h, k + 1)[k + 1]>> ELSE <<>>)
    /\ Down

\* cfheaderstore_init, or its failure, and an empty peer group.
Start ==
    /\ state = "DOWN"
    /\ state' = "HEADERS" /\ panic' = "none"
    /\ pg' = FreshPg
    /\ tip' \in tip..MaxTip
    /\ \/ /\ hasStore' = TRUE
          /\ entries' = Loaded(disk)
          /\ disk' = [disk EXCEPT !.count = Len(Loaded(disk))]
          /\ UNCHANGED budget
       \/ /\ budget.failures > 0
          /\ budget' = [budget EXCEPT !.failures = @ - 1]
          /\ hasStore' = FALSE
          /\ entries' = <<>>
          /\ UNCHANGED disk
    /\ UNCHANGED <<index, netVars>>

Init ==
    /\ state = "DOWN"
    /\ conn = [p \in Peers |-> "free"]
    /\ pg = FreshPg
    /\ tip = MinTip
    /\ index \in Assignments
    /\ entries = <<>> /\ hasStore = FALSE
    /\ disk = [count |-> 0, recs |-> <<>>]
    /\ ckReq = [p \in Peers |-> 0]
    /\ hdrReq = [p \in Peers |-> <<>>]
    /\ panic = "none"
    /\ budget = [leaves |-> MaxLeaves, crashes |-> MaxCrashes, failures |-> MaxFailures]

PeerStep(p) ==
    \/ Dial(p) \/ HandshakeOk(p) \/ Leave(p) \/ LastHeaders(p)
    \/ HandleCfcheckpt(p) \/ HandleCfheaders(p) \/ WriteFails(p) \/ CrashInBatch(p)

Next ==
    \/ \E p \in Peers : PeerStep(p)
    \/ ScanDone \/ Crash \/ Start

\* A run is started again, connections are made, a connected peer answers,
\* and an answer is handled.
Fairness ==
    /\ WF_vars(Start)
    /\ \A p \in Peers : /\ WF_vars(Dial(p)) /\ WF_vars(HandshakeOk(p))
                        /\ WF_vars(LastHeaders(p))
                        /\ WF_vars(HandleCfcheckpt(p)) /\ WF_vars(HandleCfheaders(p))

Spec == Init /\ [][Next]_vars /\ Fairness

-----------------------------------------------------------------------------
(* Properties *)

RecordType == [height : 0..MaxTip,
               header : [ix : Indexes \cup {NoIndex}, height : -1..MaxTip]]

\* Every variable has its type: the messages under way are for heights of the
\* chain and the store keeps at most one record for each height.
TypeOK ==
    /\ state \in {"HEADERS", "TXDB", "READY", "DOWN"}
    /\ conn \in [Peers -> {"free", "open", "up"}]
    /\ pg.driver \in Peers \cup {NoPeer}
    /\ pg.ckPeers \in 0..Cardinality(Peers) /\ pg.agreed \in Nat
    /\ pg.start \in -1..(MaxTip + 1)
    /\ tip \in MinTip..MaxTip
    /\ entries \in Seq(RecordType) /\ Len(entries) =< MaxTip + 1
    /\ disk.count \in 0..(MaxTip + 1) /\ disk.recs \in Seq(RecordType)
    /\ ckReq \in [Peers -> Nat]
    /\ hdrReq \in [Peers -> Seq([start : 0..MaxTip, stop : 0..MaxTip])]
    /\ panic \in {"none", "cfcheckpt", "cfheaders"}

\* peergroup_request_cfheaders: one batch at most is under way, and while it
\* is, no other may be asked for.
SingleDriver ==
    /\ \A p, q \in Peers : hdrReq[p] # <<>> /\ hdrReq[q] # <<>> => p = q
    /\ \A p \in Peers : hdrReq[p] # <<>> =>
          /\ Len(hdrReq[p]) = 1 /\ pg.syncStarted
          /\ hdrReq[p][1].start = pg.start

\* The record at a height is the filter header of the block at that height,
\* what peergroup_handle_cfilter looks up to verify a filter, and each commits
\* to the one before, whichever peers the batches came from: in the store and
\* in what a new run would load of its file (cfheaderstore_append).
HeadersAtTheirHeights ==
    \A es \in {entries, Loaded(disk)} : \A i \in 1..Len(es) :
        /\ es[i].header.height = es[i].height
        /\ i > 1 => /\ es[i].height = es[i - 1].height + 1
                    /\ es[i].header = Header(es[i - 1].header.ix, es[i].height)

\* No step takes back a record a new run would have found.
NothingLost ==
    [][/\ Len(Loaded(disk)) =< Len(Loaded(disk)')
       /\ SubSeq(Loaded(disk)', 1, Len(Loaded(disk))) = Loaded(disk)]_vars

\* The filter scan starts when every height it will look up is in the store.
ScanCovered == pg.scanning /\ hasStore => pg.floor..pg.hdrTip \subseteq Stored

\* The batches are all answered before the wallet is ready: the ASSERT of
\* peergroup_handle_cfheaders holds.
NoLateHeaders == panic # "cfheaders"

\* The environment that lets the sync through: whoever was asked for filter
\* headers serves them, stays and is not dropped, and the driver serves filters.
Helpful ==
    /\ Running /\ pg.syncStarted /\ ~pg.scanning => \E p \in Peers : hdrReq[p] # <<>>
    /\ pg.driver \in FilterPeers \cup {NoPeer}

\* In such an environment every run that goes on starts its scan, whoever
\* leaves during the checkpoint agreement (peergroup_notify_peer_gone).
SyncCompletes == []Helpful => []<>pg.scanning
=============================================================================
