----------------------------- MODULE CFilterScan -----------------------------
(***************************************************************************)
(* The parallel BIP157 compact-filter scan of core/peergroup.c.            *)
(*                                                                         *)
(* The heights floor..tip of the (fixed) header chain are cut into chunks. *)
(* Every filter-capable peer streams the filters of one chunk at a time; a *)
(* filter that matches the wallet makes the full block be fetched.  The    *)
(* resume pointer lastBlk follows the contiguous prefix of finished chunks *)
(* and is what a later run of the process starts from.                     *)
(*                                                                         *)
(* All handlers run on the one poll thread, so each is one atomic action;  *)
(* the concurrency is between the peers, the timers and process crashes.   *)
(* A peer is named by its struct peer: a slot that disconnects may be used *)
(* again by a later connection, as malloc may reuse a freed peer.          *)
(***************************************************************************)
EXTENDS Integers, Sequences, FiniteSets

CONSTANTS
    Peers,           \* slots for connected peers
    FilterPeers,     \* those that advertise NODE_COMPACT_FILTERS
    NetworkPeers,    \* those that advertise NODE_NETWORK
    LimitedPeers,    \* those that advertise NODE_NETWORK_LIMITED
    NoPeer,          \* the NULL peer pointer
    Birth,           \* height of the wallet's birth block
    MinTip,          \* height of the chain at the first scan, at least
    MaxTip,          \* bound on the height of the chain
    Batch,           \* CFILTER_BATCH
    MaxInflight,     \* MAX_INFLIGHT_CHUNKS
    Matches,         \* heights whose filter matches the wallet
    StopAfter,       \* --stop-after-height, 0 when not given
    UpdateAndExit,   \* --update-and-exit
    KeepConnected,   \* environment: archival peers left when something fails
    MaxStalls,       \* bound on chunk timeouts
    MaxSlowBlocks,   \* bound on block timeouts that hit a peer still answering
    MaxFetch,        \* bound on getdata requests waiting at one peer
    MaxDisconnects,  \* bound on disconnections
    MaxCrashes       \* bound on crashes and exits of the process

ASSUME PeersAssumption ==
    /\ FilterPeers \subseteq Peers
    /\ NetworkPeers \subseteq Peers
    /\ LimitedPeers \subseteq Peers
    /\ NoPeer \notin Peers

\* blockstore_get_block_at_height never finds height 0, so a scan starts
\* above genesis.
ASSUME HeightsAssumption ==
    /\ Birth \in Nat \ {0}
    /\ MinTip \in Nat /\ MaxTip \in Nat
    /\ Birth =< MinTip /\ MinTip =< MaxTip
    /\ Batch \in Nat \ {0}
    /\ MaxInflight \in Nat \ {0}
    /\ Matches \subseteq Nat
    /\ StopAfter \in Nat
    /\ UpdateAndExit \in BOOLEAN

ASSUME BoundsAssumption ==
    /\ KeepConnected \in Nat
    /\ MaxStalls \in Nat /\ MaxSlowBlocks \in Nat
    /\ MaxFetch \in Nat
    /\ MaxDisconnects \in Nat
    /\ MaxCrashes \in Nat

VARIABLES
    \* the process
    state,           \* btc->state, or "DOWN" while the process is not running
    stop,            \* btc->stop: the main loop has been asked to end
    floor,           \* cfScanFloor
    tip,             \* cfTipHeight, also the height of the best block
    seg,             \* cfSeg
    contig,          \* cfDoneContig
    lastBlk,         \* height of peergroup.lastBlk
    needWrite,       \* configNeedWrite
    cfPending,       \* matched blocks asked for and not yet received
    stopRequested,   \* cfStopRequested
    \* the peers and the streams from them
    conn,            \* peers for which peer_is_connected holds
    stream,          \* per peer: getcfilters requests not fully answered
    fetch,           \* per peer: getdata(MSG_BLOCK) requests not answered
    \* what survives the process
    saved,           \* "peergroup.lastblk" in the config file, 0 if absent
    \* observation
    scanned,         \* heights whose filter was verified in this run
    processed,       \* heights whose block was handed to the wallet
    budget           \* what is left of the environment's bounds

procVars == <<state, stop, floor, tip, seg, contig, lastBlk, needWrite,
              cfPending, stopRequested>>
netVars  == <<conn, stream, fetch>>
vars     == <<procVars, netVars, saved, scanned, processed, budget>>

-----------------------------------------------------------------------------
(* The chunk table *)

SegCount(f, t) == (t - f) \div Batch + 1
SegsOf(f, t)   == 0..(SegCount(f, t) - 1)
Segs           == SegsOf(floor, tip)

StartHeight(c) == floor + c * Batch
EndHeight(c)   == IF StartHeight(c) + Batch - 1 < tip
                  THEN StartHeight(c) + Batch - 1
                  ELSE tip
SegSize(c)     == EndHeight(c) - StartHeight(c) + 1
Heights(c)     == StartHeight(c)..EndHeight(c)

CFChunkIndex(h) == (h - floor) \div Batch

\* The chunks carved at the start of a scan of f..t.
FreshSegs(f, t) ==
    [c \in SegsOf(f, t) |->
        [assignedPeer |-> NoPeer, avoidPeer |-> NoPeer, done |-> FALSE,
         remaining |-> IF f + c * Batch + Batch - 1 < t
                       THEN Batch ELSE t - (f + c * Batch) + 1]]

Live(sg)      == {c \in Segs : sg[c].assignedPeer # NoPeer /\ ~sg[c].done}
Busy(sg, p)   == \E c \in Segs : sg[c].assignedPeer = p /\ ~sg[c].done
\* The chunk may be handed to p.
Open(sg, c, p) == /\ sg[c].assignedPeer = NoPeer
                  /\ ~sg[c].done
                  /\ sg[c].avoidPeer # p

\* peergroup_assign_chunk: the chunk's new entry and the request sent.
Assigned(c, p) == [assignedPeer |-> p, avoidPeer |-> NoPeer, done |-> FALSE,
                   remaining |-> SegSize(c)]
Request(c)     == [next |-> StartHeight(c), stop |-> EndHeight(c)]

\* A chunk taken away from the peer that held it.
Requeued(sg, c) == [sg[c] EXCEPT !.avoidPeer = sg[c].assignedPeer,
                                 !.assignedPeer = NoPeer,
                                 !.remaining = SegSize(c)]

-----------------------------------------------------------------------------
(* peergroup_schedule_cfilters.  give says which chunk each peer is handed *)
(* by one pass over the peer list, in whatever order the list has: a peer  *)
(* takes the first chunk open to it that the peers before it have left.    *)

NoSeg == -1
Candidates(sg, cn) == {p \in cn \cap FilterPeers : ~Busy(sg, p)}
Taken(give)        == {give[p] : p \in Peers} \ {NoSeg}

ScheduleOutcome(sg, cn, give) ==
    LET inflight == Cardinality(Live(sg)) + Cardinality(Taken(give))
    IN  /\ \A p \in Peers : give[p] # NoSeg =>
              /\ p \in Candidates(sg, cn)
              /\ Open(sg, give[p], p)
              /\ \A c \in Segs : c < give[p] /\ Open(sg, c, p) => c \in Taken(give)
        /\ \A p, q \in Peers : give[p] = give[q] /\ give[p] # NoSeg => p = q
        /\ Taken(give) # {} => inflight =< MaxInflight
        /\ \/ inflight >= MaxInflight
           \/ \A p \in Candidates(sg, cn) : give[p] = NoSeg =>
                  \A c \in Segs : Open(sg, c, p) => c \in Taken(give)

\* The pass: sg and st are the chunk table and the streams it starts from.
ScheduleCfilters(sg, cn, st) ==
    \E give \in [Peers -> Segs \cup {NoSeg}] :
        /\ ScheduleOutcome(sg, cn, give)
        /\ seg' = [c \in Segs |->
                      IF c \in Taken(give)
                      THEN Assigned(c, CHOOSE p \in Peers : give[p] = c)
                      ELSE sg[c]]
        /\ stream' = [p \in Peers |-> IF give[p] = NoSeg THEN st[p]
                                      ELSE Append(st[p], Request(give[p]))]

-----------------------------------------------------------------------------
(* The resume pointer *)

PendingHeights(pend) == {pend[i].height : i \in DOMAIN pend}

\* Mutant: takes the end of the first chunk that is not done.
AdvanceLastblkOffByOne(k, pend, last) ==
    \E safe \in (floor - 1)..tip :
        /\ safe =< EndHeight(k)
        /\ \A h \in PendingHeights(pend) : safe < h
        /\ safe = EndHeight(k) \/ safe + 1 \in PendingHeights(pend)
        /\ last = IF safe < floor \/ safe =< lastBlk THEN lastBlk ELSE safe

\* Mutant: ignores the blocks still being fetched.
AdvanceLastblkIgnorePending(k, pend, last) ==
    last = IF k = 0 \/ EndHeight(k - 1) =< lastBlk THEN lastBlk ELSE EndHeight(k - 1)

\* peergroup_advance_lastblk with k contiguous chunks done and pend pending:
\* last is the resume pointer afterwards.
AdvanceLastblk(k, pend, last) ==
    IF k = 0 THEN last = lastBlk
    ELSE \E safe \in (floor - 1)..tip :
            /\ safe =< EndHeight(k - 1)
            /\ \A h \in PendingHeights(pend) : safe < h
            /\ safe = EndHeight(k - 1) \/ safe + 1 \in PendingHeights(pend)
            /\ last = IF safe < floor \/ safe =< lastBlk THEN lastBlk ELSE safe

SetLastblk(last) ==
    /\ lastBlk' = last
    /\ needWrite' = (needWrite \/ last # lastBlk)

\* Mutant: looks at the pending fetches only.
ScanCompleteNoneMissing(k, pend, last) == pend = <<>>

\* What peergroup_maybe_complete looks at.
ScanComplete(k, pend, last) ==
    k = SegCount(floor, tip) /\ pend = <<>> /\ last = tip

\* peergroup_download_complete, when completes; bitc_req_stop, when stopNow.
DownloadComplete(completes, stopNow) ==
    LET fires == completes /\ state = "UPDATE_TXDB"
    IN  /\ state' = IF fires /\ ~UpdateAndExit THEN "READY" ELSE state
        /\ stop' = (stop \/ stopNow \/ (fires /\ UpdateAndExit))

-----------------------------------------------------------------------------
(* The pending full-block fetches *)

AddPendingBlock(pend, h, p) ==
    Append(pend, [height |-> h, requestedFrom |-> p])

\* The first entry for h goes; the last entry takes its place.
RemovePendingBlock(pend, h) ==
    IF h \notin PendingHeights(pend) THEN pend
    ELSE LET i == CHOOSE j \in DOMAIN pend :
                     /\ pend[j].height = h
                     /\ \A m \in 1..(j - 1) : pend[m].height # h
         IN  SubSeq([pend EXCEPT ![i] = pend[Len(pend)]], 1, Len(pend) - 1)

\* peergroup_retry_block_fetch after failed: any connected NODE_NETWORK peer,
\* one that is not NODE_NETWORK_LIMITED if there is one.
RetryPeers(failed) ==
    LET cands == (conn \cap NetworkPeers) \ {failed}
        full  == cands \ LimitedPeers
    IN  IF full # {} THEN full ELSE cands

\* Mutant: asks another peer without noting that the block is pending again.
RetryBlockFetchForget(failed, h, pend, ft) ==
    /\ cfPending' = pend
    /\ \/ RetryPeers(failed) = {} /\ fetch' = ft
       \/ \E best \in RetryPeers(failed) :
             Len(ft[best]) < MaxFetch /\ fetch' = [ft EXCEPT ![best] = Append(@, h)]

RetryBlockFetch(failed, h, pend, ft) ==
    \/ /\ RetryPeers(failed) = {}
       /\ cfPending' = pend
       /\ fetch' = ft
    \/ \E best \in RetryPeers(failed) :
          /\ Len(ft[best]) < MaxFetch
          /\ cfPending' = AddPendingBlock(pend, h, best)
          /\ fetch' = [ft EXCEPT ![best] = Append(@, h)]

-----------------------------------------------------------------------------
(* Start of a scan: the first run, and every run after a crash or an exit. *)

\* Mutant: every run starts at the wallet's birth.
ScanStartAtBirth == Birth

\* peergroup_download_filtered_blocks picks the younger of the wallet's birth
\* and the saved pointer (the birth alone under --stop-after-height).
ScanStart == IF StopAfter > 0 \/ saved < Birth THEN Birth ELSE saved

Init ==
    /\ state = "UPDATE_TXDB" /\ stop = FALSE
    /\ floor = Birth
    /\ tip \in MinTip..MaxTip
    /\ seg = FreshSegs(Birth, tip)
    /\ contig = 0
    /\ lastBlk = Birth /\ needWrite = TRUE /\ saved = 0
    /\ cfPending = <<>> /\ stopRequested = FALSE
    /\ conn = {}
    /\ stream = [p \in Peers |-> <<>>]
    /\ fetch = [p \in Peers |-> <<>>]
    /\ scanned = {} /\ processed = {}
    /\ budget = [stalls |-> MaxStalls, slowBlocks |-> MaxSlowBlocks,
                 disconnects |-> MaxDisconnects, crashes |-> MaxCrashes]

\* The process comes back, catches up with the headers (the chain may have
\* grown) and with the filter headers, and begins a new scan.
Restart ==
    /\ state = "DOWN"
    /\ \E t \in tip..MaxTip :
          /\ tip' = t
          /\ floor' = ScanStart
          /\ seg' = FreshSegs(ScanStart, t)
    /\ contig' = 0
    /\ lastBlk' = ScanStart
    /\ needWrite' = (ScanStart # saved)
    /\ state' = "UPDATE_TXDB" /\ stop' = FALSE
    /\ scanned' = {}
    /\ UNCHANGED <<cfPending, stopRequested, netVars, saved, processed, budget>>

\* What the end of the process leaves behind.
Down ==
    /\ state' = "DOWN"
    /\ cfPending' = <<>> /\ stopRequested' = FALSE
    /\ conn' = {}
    /\ stream' = [p \in Peers |-> <<>>]
    /\ fetch' = [p \in Peers |-> <<>>]
    /\ UNCHANGED <<stop, floor, tip, seg, contig, lastBlk, scanned, processed>>

Running == state \in {"UPDATE_TXDB", "READY"}

\* peergroup_save_lastblk, whose result nobody looks at: config_write opens the
\* settings file, cuts it to nothing and writes it again line by line.  The
\* pointer is written; or it is gone, because a write failed or the kill that
\* comes next fell in between; or the file could not be opened or cut and is
\* as it was.  A line is one pwrite and is not torn (a file with a torn line
\* is refused by config_load, and the user has to mend it before a next run).
SaveLastblk == saved' \in {lastBlk, 0, saved}

\* A hard kill: the resume pointer is whatever the last save left.
Crash ==
    /\ Running
    /\ budget.crashes > 0
    /\ budget' = [budget EXCEPT !.crashes = @ - 1]
    /\ Down
    /\ UNCHANGED <<needWrite, saved>>

\* peergroup_exit, after a stop request or on the user's: saves the pointer.
Exit ==
    /\ Running
    /\ \/ stop /\ UNCHANGED budget
       \/ /\ ~stop
          /\ budget.crashes > 0
          /\ budget' = [budget EXCEPT !.crashes = @ - 1]
    /\ IF needWrite THEN SaveLastblk ELSE UNCHANGED saved
    /\ needWrite' = FALSE
    /\ Down

\* peergroup_periodic_cb: the part of the tick that changes the scan's state.
PeriodicCb ==
    /\ Running
    /\ needWrite
    /\ SaveLastblk
    /\ needWrite' = FALSE
    /\ UNCHANGED <<state, stop, floor, tip, seg, contig, lastBlk, cfPending,
                   stopRequested, netVars, scanned, processed, budget>>

-----------------------------------------------------------------------------
(* Peers coming and going *)

\* Environment assumption of an instance: things fail only while at least
\* KeepConnected peers that serve every block are (still) connected.
EnoughPeers(cn) ==
    Cardinality((cn \cap NetworkPeers) \ LimitedPeers) >= KeepConnected

\* peergroup_handle_handshake_ok: a new peer joins the scan.
HandshakeOk(p) ==
    /\ Running
    /\ p \notin conn
    /\ conn' = conn \cup {p}
    /\ \/ state = "UPDATE_TXDB" /\ ScheduleCfilters(seg, conn', stream)
       \/ state = "READY" /\ UNCHANGED <<seg, stream>>
    /\ UNCHANGED <<state, stop, floor, tip, contig, lastBlk, needWrite, cfPending,
                   stopRequested, fetch, saved, scanned, processed, budget>>

\* Mutant: the chunk of a peer that left stays assigned to it.
RequeuePeerChunksNot(p, cn, st) == seg' = seg /\ stream' = st

\* peergroup_requeue_peer_chunks, with the peer already out of cn.
RequeuePeerChunks(p, cn, st) ==
    LET gone == {c \in Segs : seg[c].assignedPeer = p /\ ~seg[c].done}
        sg   == [c \in Segs |-> IF c \in gone THEN Requeued(seg, c) ELSE seg[c]]
    IN  IF gone = {} THEN seg' = seg /\ stream' = st
        ELSE ScheduleCfilters(sg, cn, st)

\* peer_destroy: the connection fails or is closed, whatever was in flight on
\* it is lost, and the chunk it held goes back to the others.  A peer whose
\* filter does not hash to the stored value is dropped the same way.
PeerDestroy(p) ==
    /\ Running
    /\ p \in conn
    /\ budget.disconnects > 0
    /\ budget' = [budget EXCEPT !.disconnects = @ - 1]
    /\ conn' = conn \ {p}
    /\ EnoughPeers(conn')
    /\ fetch' = [fetch EXCEPT ![p] = <<>>]
    /\ RequeuePeerChunks(p, conn', [stream EXCEPT ![p] = <<>>])
    /\ UNCHANGED <<state, stop, floor, tip, contig, lastBlk, needWrite, cfPending,
                   stopRequested, saved, scanned, processed>>

-----------------------------------------------------------------------------
(* Compact filters *)

\* p's stream after it has sent one more filter.
AfterOneFilter(p) ==
    LET r == Head(stream[p])
    IN  [stream EXCEPT ![p] = IF r.next = r.stop THEN Tail(@)
                              ELSE [@ EXCEPT ![1].next = r.next + 1]]

\* Mutant: filters count whoever sends them.
MineFromAnyone(c, p) == c \in Segs /\ ~seg[c].done

\* The filter of height h from p counts for the chunk c that covers h.
Mine(c, p) == /\ c \in Segs
              /\ seg[c].assignedPeer = p
              /\ ~seg[c].done

\* The last filter of chunk c has come from p: the contiguous prefix grows to
\* k chunks and p is handed the first chunk open to it.
CompleteChunk(c, p, k, last) ==
    LET sg == [seg EXCEPT ![c].remaining = @ - 1, ![c].done = TRUE]
        st == AfterOneFilter(p)
    IN  /\ \A i \in contig..(k - 1) : sg[i].done
        /\ k \in Segs => ~sg[k].done
        /\ contig' = k
        /\ AdvanceLastblk(k, cfPending, last)
        /\ SetLastblk(last)
        /\ \/ /\ \A d \in Segs : ~Open(sg, d, p)
              /\ seg' = sg
              /\ stream' = st
           \/ \E d \in Segs :
                 /\ Open(sg, d, p)
                 /\ \A e \in Segs : e < d => ~Open(sg, e, p)
                 /\ seg' = [sg EXCEPT ![d] = Assigned(d, p)]
                 /\ stream' = [st EXCEPT ![p] = Append(@, Request(d))]

\* The end of peergroup_handle_cfilter: beyond --stop-after-height the filter
\* only requests the stop, otherwise it is matched against the wallet.
StopOrMatch(p, h) ==
    IF StopAfter > 0 /\ h >= StopAfter
    THEN /\ stopRequested' = TRUE
         /\ UNCHANGED <<cfPending, fetch>>
    ELSE /\ UNCHANGED stopRequested
         /\ IF h \in Matches
            THEN /\ cfPending' = AddPendingBlock(cfPending, h, p)
                 /\ fetch' = [fetch EXCEPT ![p] = Append(@, h)]
            ELSE UNCHANGED <<cfPending, fetch>>

StopNow(h) == StopAfter > 0 /\ h >= StopAfter /\ cfPending = <<>>

\* peergroup_handle_cfilter, for a filter that matches the stored filter hash.
HandleCfilter(p) ==
    /\ Running
    /\ p \in conn
    /\ stream[p] # <<>>
    /\ LET h == Head(stream[p]).next
           c == CFChunkIndex(h)
       IN  /\ scanned' = scanned \cup {h}
           /\ \/ /\ ~Mine(c, p)
                 /\ stream' = AfterOneFilter(p)
                 /\ DownloadComplete(StopNow(h), StopNow(h))
                 /\ UNCHANGED <<seg, contig, lastBlk, needWrite>>
              \/ /\ Mine(c, p)
                 /\ seg[c].remaining > 1
                 /\ seg' = [seg EXCEPT ![c].remaining = @ - 1]
                 /\ stream' = AfterOneFilter(p)
                 /\ DownloadComplete(StopNow(h), StopNow(h))
                 /\ UNCHANGED <<contig, lastBlk, needWrite>>
              \/ /\ Mine(c, p)
                 /\ seg[c].remaining =< 1
                 /\ \E k \in contig..SegCount(floor, tip), last \in floor..tip :
                       /\ CompleteChunk(c, p, k, last)
                       /\ DownloadComplete(\/ last # lastBlk /\ ScanComplete(k, cfPending, last)
                                           \/ StopNow(h),
                                           StopNow(h))
           /\ StopOrMatch(p, h)
    /\ UNCHANGED <<floor, tip, conn, saved, processed, budget>>

-----------------------------------------------------------------------------
(* Full blocks *)

\* peergroup_handle_block: the block p was asked for first arrives.
HandleBlock(p) ==
    /\ Running
    /\ p \in conn
    /\ fetch[p] # <<>>
    /\ LET h    == Head(fetch[p])
           pend == RemovePendingBlock(cfPending, h)
       IN  /\ fetch' = [fetch EXCEPT ![p] = Tail(@)]
           /\ processed' = processed \cup {h}
           /\ cfPending' = pend
           /\ \E last \in floor..tip :
                 /\ AdvanceLastblk(contig, pend, last)
                 /\ SetLastblk(last)
                 /\ LET drained == stopRequested /\ pend = <<>>
                    IN  DownloadComplete(drained \/ ScanComplete(contig, pend, last),
                                         drained)
    /\ UNCHANGED <<floor, tip, seg, contig, stopRequested, conn, stream, saved,
                   scanned, budget>>

\* A pruned peer says it does not have the block: peer_handle_notfound.
HandleNotfound(p) ==
    /\ Running
    /\ EnoughPeers(conn)
    /\ p \in conn \cap LimitedPeers
    /\ fetch[p] # <<>>
    /\ RetryBlockFetch(p, Head(fetch[p]), cfPending, [fetch EXCEPT ![p] = Tail(@)])
    /\ UNCHANGED <<state, stop, floor, tip, seg, contig, lastBlk, needWrite,
                   stopRequested, conn, stream, saved, scanned, processed, budget>>

\* A pruned peer drops the request without a word.
IgnoreGetdata(p) ==
    /\ Running
    /\ EnoughPeers(conn)
    /\ p \in conn \cap LimitedPeers
    /\ fetch[p] # <<>>
    /\ fetch' = [fetch EXCEPT ![p] = Tail(@)]
    /\ UNCHANGED <<procVars, conn, stream, saved, scanned, processed, budget>>

-----------------------------------------------------------------------------
(* peergroup_pending_blocks_cb.  Time is abstract: any outstanding fetch or *)
(* chunk may be found expired.  Expiries of what is really lost are free,   *)
(* those of what a peer would still answer are bounded by MaxStalls.  A     *)
(* tick that expires several things equals several ticks in a row, each     *)
(* expiring some of them, so blocks and chunks have an action each.         *)

\* No peer will ever answer this pending entry.
Lost(e) == \A i \in DOMAIN fetch[e.requestedFrom] : fetch[e.requestedFrom][i] # e.height

\* peergroup_check_pending_blocks, for one expired entry.
ExpireBlock(i) ==
    LET e == cfPending[i]
    IN  RetryBlockFetch(e.requestedFrom, e.height,
                        RemovePendingBlock(cfPending, e.height), fetch)

\* Mutant: requeues the stalled chunks and waits for an event to hand them out.
ExpireChunksUnscheduled(stalled) ==
    /\ seg' = [c \in Segs |-> IF c \in stalled THEN Requeued(seg, c) ELSE seg[c]]
    /\ UNCHANGED stream

\* peergroup_check_pending_chunks, with the chunks of stalled expired.
ExpireChunks(stalled) ==
    LET sg == [c \in Segs |-> IF c \in stalled THEN Requeued(seg, c) ELSE seg[c]]
    IN  IF stalled = {} THEN UNCHANGED <<seg, stream>>
        ELSE ScheduleCfilters(sg, conn, stream)

BlockTimeout(i) ==
    /\ Running
    /\ EnoughPeers(conn)
    /\ i \in DOMAIN cfPending
    /\ \/ Lost(cfPending[i]) /\ UNCHANGED budget
       \/ /\ ~Lost(cfPending[i])
          /\ budget.slowBlocks > 0
          /\ budget' = [budget EXCEPT !.slowBlocks = @ - 1]
    /\ ExpireBlock(i)
    /\ UNCHANGED <<state, stop, floor, tip, seg, contig, lastBlk, needWrite,
                   stopRequested, conn, stream, saved, scanned, processed>>

ChunkTimeout ==
    /\ Running
    /\ budget.stalls > 0
    /\ budget' = [budget EXCEPT !.stalls = @ - 1]
    /\ \E stalled \in SUBSET Live(seg) \ {{}} : ExpireChunks(stalled)
    /\ UNCHANGED <<state, stop, floor, tip, contig, lastBlk, needWrite, cfPending,
                   stopRequested, conn, fetch, saved, scanned, processed>>

-----------------------------------------------------------------------------
Next ==
    \/ Restart \/ Crash \/ Exit \/ PeriodicCb \/ ChunkTimeout
    \/ \E p \in Peers :
          \/ HandshakeOk(p) \/ PeerDestroy(p) \/ HandleCfilter(p)
          \/ HandleBlock(p) \/ HandleNotfound(p) \/ IgnoreGetdata(p)
    \/ \E i \in DOMAIN cfPending : BlockTimeout(i)

Spec == Init /\ [][Next]_vars

\* Connected peers answer, the two timers keep firing, the address book keeps
\* supplying peers (peergroup_refill), a process asked to stop stops, and the
\* user runs the program again.
Fairness ==
    /\ \A p \in Peers :
          /\ WF_vars(HandshakeOk(p))
          /\ WF_vars(HandleCfilter(p))
          /\ WF_vars(HandleBlock(p) \/ HandleNotfound(p) \/ IgnoreGetdata(p))
    /\ WF_vars(\E i \in DOMAIN cfPending : BlockTimeout(i))
    /\ WF_vars(PeriodicCb)
    /\ WF_vars(stop /\ Exit) /\ WF_vars(Restart)

FairSpec == Spec /\ Fairness

-----------------------------------------------------------------------------
(* Correctness *)

SegEntry == [assignedPeer : Peers \cup {NoPeer}, avoidPeer : Peers \cup {NoPeer},
             done : BOOLEAN, remaining : Int]

\* The state has the shape the C structures give it.
TypeOK ==
    /\ state \in {"UPDATE_TXDB", "READY", "DOWN"}
    /\ stop \in BOOLEAN /\ needWrite \in BOOLEAN /\ stopRequested \in BOOLEAN
    /\ floor \in Birth..MaxTip /\ tip \in floor..MaxTip
    /\ lastBlk \in floor..tip
    /\ saved \in 0..tip
    /\ contig \in 0..SegCount(floor, tip)
    /\ seg \in [Segs -> SegEntry]
    /\ cfPending \in Seq([height : floor..tip, requestedFrom : Peers])
    /\ conn \subseteq Peers
    /\ stream \in [Peers -> Seq([next : Int, stop : Int])]
    /\ fetch \in [Peers -> Seq(floor..tip)]
    /\ scanned \subseteq floor..tip
    /\ processed \subseteq Birth..tip
    /\ budget \in [stalls : Nat, slowBlocks : Nat, disconnects : Nat, crashes : Nat]

\* A chunk is marked done only when the filter of every height in it has been
\* verified in this run, however often it was requeued, reassigned to a peer
\* with answers to an earlier request still on the way, or answered late
\* (the "double-decrementing 'remaining'" hazard of peergroup_handle_cfilter).
DoneMeansScanned ==
    \A c \in Segs : seg[c].done => Heights(c) \subseteq scanned

\* The resume pointer never moves past a height that nobody has scanned in
\* this run, although chunks complete out of order (peergroup_advance_lastblk).
ResumeCovered ==
    lastBlk > floor => floor..lastBlk \subseteq scanned

\* Whatever instant the process dies at, no matched block that has not reached
\* the wallet lies below the saved resume pointer: the next run, which scans
\* that height again, meets it (comment of peergroup_advance_lastblk).
ResumeSafe ==
    \A h \in Matches : h \in Birth..(saved - 1) => h \in processed

\* A matched block stays in the pending table until the wallet has it,
\* through timeouts, notfound answers, retries and disconnections
\* (peergroup_retry_block_fetch: "the fetch stays pending").
MatchStaysPending ==
    \A h \in scanned \cap Matches :
        h \in processed \/ h \in PendingHeights(cfPending) \/ state = "DOWN"

\* A chunk in flight is held by a connected peer that holds no other and still
\* has to send at least as many of its filters as the chunk waits for:
\* bookkeeping and stream cannot drift apart so that the chunk waits for filters
\* nobody sends.  And no more than MAX_INFLIGHT_CHUNKS are in flight, counting
\* the ones of peergroup_assign_next_chunk_to, which does not look.
LiveChunkAnswered ==
    /\ Cardinality(Live(seg)) =< MaxInflight
    /\ \A c \in Live(seg) :
        LET p == seg[c].assignedPeer
            reqs == {i \in DOMAIN stream[p] : stream[p][i].stop = EndHeight(c)}
        IN  state = "DOWN" \/
            /\ p \in conn
            /\ \A d \in Live(seg) \ {c} : seg[d].assignedPeer # p
            /\ \E i \in reqs :
                  seg[c].remaining =< stream[p][i].stop - stream[p][i].next + 1
                       + Cardinality(reqs \ {i}) * SegSize(c)

\* READY is reported only when all heights have been scanned and every matched
\* block has reached the wallet (peergroup_maybe_complete).
ReadyIsComplete ==
    state = "READY" => /\ floor..tip \subseteq scanned
                       /\ Matches \cap (floor..tip) \subseteq processed

\* Once the peers stop failing, the scan reaches the tip and every matched
\* block reaches the wallet: no chunk is left to nobody by the avoidPeer rule
\* and no fetch is forgotten.
ScanCompletes ==
    <>(/\ state = "READY" \/ (UpdateAndExit /\ state = "DOWN")
       /\ Matches \cap (Birth..tip) \subseteq processed)

\* The saved resume pointer never goes back to an earlier height, across
\* crashes, restarts, failed and interrupted saves: a save writes a pointer at
\* or above the one in the file, or loses the file's content, after which the
\* next run scans from the wallet's birth (peergroup_save_lastblk, config_write).
ResumeKeptOrLost == [][saved' >= saved \/ saved' = 0]_vars

-----------------------------------------------------------------------------
(* Claims of the code's comments that do not hold *)

\* What a save stored is there for the next run, whatever instant the process
\* dies at: "any progress made since the last save would otherwise be silently
\* lost and re-scanned from scratch" (peergroup_periodic_cb), the "crash-safe
\* resume pointer" (peergroup_advance_lastblk).
ResumeNeverRegresses == [][saved' >= saved]_vars

=============================================================================
