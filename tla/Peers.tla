-------------------------------- MODULE Peers --------------------------------
(***************************************************************************)
(* Connections: the life cycle of a peer (core/peer.c), the address book   *)
(* (core/addrbook.c), the record of proven peers (core/peerstats.c) and    *)
(* the parts of core/peergroup.c that fill the group, drive the download   *)
(* of the block headers and replace a download peer that stalls.           *)
(*                                                                         *)
(* A struct peer_addr is named by its address and by which of two objects  *)
(* for that address it is; an object is allocated exactly while the book   *)
(* points to it.  A struct peer is named by the object it was made from.   *)
(* Handlers run on the one poll thread, each is one action.  A connect     *)
(* that fails inside netasync_connect is one that fails in the next step.  *)
(* Time is reduced to the one thing the code asks about it: whether the    *)
(* header download has been without progress for SYNC_STALL_USEC.          *)
(***************************************************************************)
EXTENDS Integers, Sequences, FiniteSets

CONSTANTS
    Addr,           \* addresses of nodes
    Books,          \* sets of addresses peers.dat may hold at first
    FilterAddr,     \* those that serve compact filters
    SeedLists,      \* what the DNS seeds may resolve to: sequences over Addr
    NoPtr,          \* the NULL pointer
    MaxActive,      \* pg->maxActive
    MinActiveInit,  \* pg->minActiveInit
    SaveThreshold,  \* unsaved entries that make addrbook_add_entry save
    Chain,          \* number of headers the peers have
    Batch,          \* headers in one message at most
    MaxGossip,      \* bound on getaddr, and on addr with a new address
    MaxStops,       \* bound on exits and crashes
    MaxLosses,      \* bound on established connections that fail
    MaxChunks       \* bound on chunks a peer serves or loses

ASSUME PeersAssumption ==
    /\ IsFiniteSet(Addr) /\ Books \subseteq SUBSET Addr /\ FilterAddr \subseteq Addr
    /\ SeedLists \subseteq Seq(Addr)
    /\ NoPtr \notin Addr \X {1, 2}
    /\ \A l \in SeedLists : Len(l) < SaveThreshold

ASSUME PeersBoundsAssumption ==
    /\ MaxActive \in Nat \ {0} /\ MinActiveInit \in Nat
    /\ SaveThreshold \in Nat \ {0} /\ Chain \in Nat /\ Batch \in Nat \ {0}
    /\ MaxGossip \in Nat /\ MaxStops \in Nat /\ MaxLosses \in Nat /\ MaxChunks \in Nat

VARIABLES
    state,      \* btc->state, "DOWN" when the process is not running
    net,        \* the address book and the peer group, see NetType
    hdrs,       \* headers in the block store
    quiet,      \* no header progress for SYNC_STALL_USEC
    stats,      \* per address: what peerstats knows of its filters
    bookFile,   \* the addresses in peers.dat
    statsFile,  \* peerstats.dat
    connectOnly,\* btc->connectHost: the group is never refilled
    panic,      \* the ASSERT that ended the process, if one did
    budget      \* what is left of the bounds

files == <<bookFile, statsFile>>
vars  == <<state, net, hdrs, quiet, stats, files, connectOnly, panic, budget>>

Ptrs   == Addr \X {1, 2}
Phases == {"none", "connecting", "open", "version", "up"}
\* "open": connected, "version": got_version, "up": got_verack too.
NetType == [entry   : [Addr -> 0..2],      \* hash_addr; 0: no entry
            conn    : SUBSET Ptrs,         \* paddr->connected
            tried   : SUBSET Ptrs,         \* paddr->triedalready
            phase   : [Ptrs -> Phases],    \* peer_list and the flags of struct peer
            active  : Nat,
            dl      : Ptrs \union {NoPtr}, \* pg->downloadPeer
            asked   : SUBSET Ptrs,         \* getheaders not answered
            volunteers : SUBSET Ptrs,      \* of them, those asked without a download peer
            unsent  : SUBSET Ptrs,         \* peer->sendBuf left behind
            unsaved : Nat]

Running == state \notin {"DOWN"} /\ panic = "none"
Exiting == state = "EXITING"

-----------------------------------------------------------------------------
(* The address book *)

Known(n)    == {a \in Addr : n.entry[a] # 0}
Live(n)     == {q \in Ptrs : n.entry[q[1]] = q[2]}
Count(n)    == Cardinality(Known(n))
PtrOf(n, a) == <<a, n.entry[a]>>

\* An object for a that no peer and no entry uses.
FreeObject(n, a) == IF n.phase[<<a, 1>>] = "none" /\ n.entry[a] # 1 THEN 1 ELSE 2

\* A new object in the book: calloc'ed, so neither connected nor tried.
Fresh(n, a) == LET k == FreeObject(n, a) IN
    [n EXCEPT !.entry[a] = k, !.conn = @ \ {<<a, k>>}, !.tried = @ \ {<<a, k>>}]

\* addrbook_add_entry without the save: an address that is known is left alone.
AddEntry(n, a) == IF n.entry[a] # 0 THEN n ELSE [Fresh(n, a) EXCEPT !.unsaved = @ + 1]

\* addrbook_save resets the counter.  TRUE when addrbook_add_entry would save.
MustSave(n) == n.unsaved >= SaveThreshold
Saved(n)    == IF MustSave(n) THEN [n EXCEPT !.unsaved = 0] ELSE n

\* addrbook_remove_entry
RemoveEntry(n, a) == [n EXCEPT !.entry[a] = 0]

-----------------------------------------------------------------------------
(* Peers *)

PeerList(n)  == {q \in Ptrs : n.phase[q] # "none"}
UpPeers(n)   == {q \in Ptrs : n.phase[q] = "up"}
\* peergroup_count_connected
CountConnected(n) == Cardinality(UpPeers(n))

\* peergroup_add_peer and peer_add
AddPeer(n, q) == [n EXCEPT !.active = @ + 1, !.conn = @ \union {q}, !.tried = @ \union {q},
                           !.phase[q] = "connecting"]

AddPeers(n, S) ==
    [n EXCEPT !.active = @ + Cardinality(S), !.conn = @ \union S, !.tried = @ \union S,
              !.phase = [q \in Ptrs |-> IF q \in S THEN "connecting" ELSE n.phase[q]]]

\* Addresses peergroup_refill may use: services has NODE_NETWORK for all of them.
Eligible(n) == {q \in Live(n) : q \notin n.tried /\ q \notin n.conn}

\* peerstats_get_best: proven and never failed.
Preferred(n) == {q \in Eligible(n) : stats[q[1]] = "good"}

Smaller(a, b) == IF a < b THEN a ELSE b
Larger(a, b)  == IF a > b THEN a ELSE b

Target(init) == IF init THEN Larger(MaxActive, MinActiveInit) ELSE MaxActive
CanRefill(n, init) == /\ ~connectOnly
                      /\ Count(n) > 2 * n.active
                      /\ n.active < Target(init)
                      /\ Eligible(n) # {}

\* The results of peergroup_refill: proven peers first, then peers drawn at
\* random; 2000 draws are taken to find every eligible address of the instance.
Refills(n, init) ==
    IF ~CanRefill(n, init) THEN {n}
    ELSE LET room  == Target(init) - n.active
             picks == {S \in SUBSET Eligible(n) :
                         /\ Cardinality(S) = Smaller(room, Cardinality(Eligible(n)))
                         /\ Preferred(n) \subseteq S \/ S \subseteq Preferred(n)}
         IN {AddPeers(n, S) : S \in picks}

\* peer_remove_addr: the errors that leave the address in the book.
Keeps == {"success", "unreachable", "timeout"}

\* Mutant: the pointer to the download peer is left behind.
DestroyedDangling(n, q, err) ==
    LET gone == [n EXCEPT !.conn = @ \ {q}, !.asked = @ \ {q}, !.volunteers = @ \ {q},
                          !.unsent = @ \ {q}, !.phase[q] = "none", !.active = @ - 1]
    IN IF err \in Keeps THEN gone ELSE RemoveEntry(gone, q[1])

\* Mutant: the flag of the address stays set.
DestroyedStillConnected(n, q, err) ==
    LET gone == [n EXCEPT !.asked = @ \ {q}, !.volunteers = @ \ {q}, !.unsent = @ \ {q},
                          !.phase[q] = "none",
                          !.dl = IF @ = q THEN NoPtr ELSE @, !.active = @ - 1]
    IN IF err \in Keeps THEN gone ELSE RemoveEntry(gone, q[1])

\* peer_destroy up to peergroup_notify_destroy, for a peer that is connected.
Destroyed(n, q, err) ==
    LET gone == [n EXCEPT !.conn = @ \ {q}, !.asked = @ \ {q}, !.volunteers = @ \ {q},
                          !.unsent = @ \ {q}, !.phase[q] = "none", !.active = @ - 1,
                          !.dl = IF @ = q THEN NoPtr ELSE @]
    IN IF err \in Keeps THEN gone ELSE RemoveEntry(gone, q[1])

\* peer_destroy: a peer whose address is not connected was destroyed before;
\* peergroup_notify_destroy refills the group unless the process is exiting.
Destroys(n, q, err) ==
    IF q \notin n.conn THEN {n}
    ELSE IF Exiting THEN {Destroyed(n, q, err)}
    ELSE Refills(Destroyed(n, q, err), FALSE)

\* What a message sent to q leaves of its send buffer: nothing.
SentTo(n, S) == [n EXCEPT !.unsent = @ \ S]

-----------------------------------------------------------------------------
(* Start and end of the process *)

EmptyNet == [entry |-> [a \in Addr |-> 0], conn |-> {}, tried |-> {},
             phase |-> [q \in Ptrs |-> "none"], active |-> 0, dl |-> NoPtr,
             asked |-> {}, volunteers |-> {}, unsent |-> {}, unsaved |-> 0]

\* addrbook_open
Opened(file) == [EmptyNet EXCEPT !.entry = [a \in Addr |-> IF a \in file THEN 1 ELSE 0]]

\* addrbook_replace_entry: the old object is freed even when a peer uses it.
ReplaceEntry(n, a) == [Fresh(RemoveEntry(n, a), a) EXCEPT !.unsaved = @ + 1]

\* peergroup_add_peer_from_str
Seed(n, a) == LET m == IF n.entry[a] = 0 THEN AddEntry(n, a) ELSE ReplaceEntry(n, a)
              IN AddPeer(m, PtrOf(m, a))

\* peergroup_seed: one after the other.
Seeded(n, seeds) ==
    LET s[i \in 0..Len(seeds)] == IF i = 0 THEN n ELSE Seed(s[i - 1], seeds[i])
    IN  s[Len(seeds)]

Init == /\ state = "DOWN" /\ net = EmptyNet /\ hdrs = 0 /\ quiet = FALSE
        /\ stats = [a \in Addr |-> "unproven"] /\ statsFile = stats
        /\ bookFile \in Books
        /\ connectOnly \in BOOLEAN
        /\ panic = "none"
        /\ budget = [gossip |-> MaxGossip, stops |-> MaxStops, losses |-> MaxLosses,
                     chunks |-> MaxChunks]

\* bitc_init and bitc_daemon: addrbook_open, peergroup_init with peerstats_init,
\* peergroup_seed, peergroup_refill(TRUE).
Start ==
    /\ state = "DOWN" /\ panic = "none"
    /\ state' = "STARTING"
    /\ stats' = statsFile
    /\ quiet' = FALSE
    /\ \E seeds \in SeedLists :
         LET n == Seeded(Opened(bookFile), seeds)
             proven == {q \in Eligible(n) : statsFile[q[1]] = "good"}
         IN IF ~CanRefill(n, TRUE) THEN net' = n
            ELSE \E S \in SUBSET Eligible(n) :
                   /\ Cardinality(S) = Smaller(Target(TRUE) - n.active, Cardinality(Eligible(n)))
                   /\ proven \subseteq S \/ S \subseteq proven
                   /\ net' = AddPeers(n, S)
    /\ UNCHANGED <<hdrs, files, connectOnly, panic, budget>>

\* bitc_req_stop handled: BITC_STATE_EXITING
Stop ==
    /\ Running /\ ~Exiting
    /\ state' = "EXITING"
    /\ UNCHANGED <<net, hdrs, quiet, stats, files, connectOnly, panic, budget>>

\* addrbook_close: saves when something was added since the last save.
ClosedBook(n) == IF n.unsaved > 0 THEN Known(n) ELSE bookFile

\* bitc_exit: peergroup_exit destroys the peers and flushes the statistics,
\* addrbook_close saves the book and asserts that it is not empty.
BitcExit ==
    /\ Exiting /\ panic = "none"
    /\ budget.stops > 0
    /\ budget' = [budget EXCEPT !.stops = @ - 1]
    /\ statsFile' = stats
    /\ net' = EmptyNet
    /\ IF net.unsaved > 0 /\ Count(net) = 0
       THEN panic' = "addrbook_save" /\ UNCHANGED <<state, bookFile>>
       ELSE bookFile' = ClosedBook(net) /\ state' = "DOWN" /\ UNCHANGED panic
    /\ quiet' = FALSE
    /\ UNCHANGED <<hdrs, stats, connectOnly>>

\* The process is killed; inside addrbook_save what was written of the book
\* remains, a part of it or nothing.
Crash ==
    /\ Running /\ budget.stops > 0
    /\ budget' = [budget EXCEPT !.stops = @ - 1]
    /\ state' = "DOWN" /\ net' = EmptyNet /\ quiet' = FALSE
    /\ \/ UNCHANGED bookFile
       \/ /\ net.unsaved > 0
          /\ bookFile' \in SUBSET Known(net)
    /\ UNCHANGED <<hdrs, stats, statsFile, connectOnly, panic>>

-----------------------------------------------------------------------------
(* Connections *)

\* peer_connect_cb without an error: receiving starts, "version" is sent.
Connected(q) ==
    /\ Running /\ net.phase[q] = "connecting"
    /\ net' = [SentTo(net, {q}) EXCEPT !.phase[q] = "open"]
    /\ UNCHANGED <<state, hdrs, quiet, stats, files, connectOnly, panic, budget>>

\* peer_connect_cb with an error.
ConnectFails(q) ==
    /\ Running /\ net.phase[q] = "connecting"
    /\ \E err \in {"refused", "unreachable", "timeout"} : net' \in Destroys(net, q, err)
    /\ UNCHANGED <<state, hdrs, quiet, stats, files, connectOnly, panic, budget>>

\* peer_error_cb: a send or a receive failed, or the peer closed (success).
\* So does peer_receive_cb with a message it cannot accept: a bad header or
\* checksum, getblocks, getdata for a block (EINVAL).
Disconnected(q) ==
    /\ Running /\ net.phase[q] \in {"open", "version", "up"}
    /\ budget.losses > 0
    /\ budget' = [budget EXCEPT !.losses = @ - 1]
    /\ \E err \in {"success", "timeout", "invalid"} : net' \in Destroys(net, q, err)
    /\ UNCHANGED <<state, hdrs, quiet, stats, files, connectOnly, panic>>

\* A message can be received and is handled.
Hears(q, phase) == Running /\ ~Exiting /\ net.phase[q] = phase

\* peer_handle_version: a node without NODE_NETWORK, with height 0 or too old
\* a protocol is dropped, any other is sent "verack".
ReceiveVersion(q) ==
    /\ Hears(q, "open")
    /\ \/ net' = [SentTo(net, {q}) EXCEPT !.phase[q] = "version"]
       \/ net' \in Destroys(net, q, "invalid")
    /\ UNCHANGED <<state, hdrs, quiet, stats, files, connectOnly, panic, budget>>

\* peer_handle_verack before "version" arrived.
EarlyVerack(q) ==
    /\ Hears(q, "open") /\ budget.losses > 0
    /\ budget' = [budget EXCEPT !.losses = @ - 1]
    /\ net' \in Destroys(net, q, "invalid")
    /\ UNCHANGED <<state, hdrs, quiet, stats, files, connectOnly, panic>>

\* peergroup_download_headers: only the download peer is asked.
DownloadHeaders(n, q) ==
    IF n.dl \in {NoPtr, q} THEN [n EXCEPT !.dl = q, !.asked = @ \union {q}] ELSE n

\* The part of peergroup_download_filtered_blocks that picks the driver.
FilterDriver(n, q) == IF n.dl = NoPtr THEN [n EXCEPT !.dl = q] ELSE n

\* Mutant: lets one more in.
TooManyLate(n) == CountConnected(n) > MaxActive + 1
\* The first test of peergroup_handle_handshake_ok
TooMany(n) == CountConnected(n) > MaxActive

\* peer_handle_verack, peer_handshake_ok and peergroup_handle_handshake_ok
ReceiveVerack(q) ==
    /\ Hears(q, "version")
    /\ LET n == [SentTo(net, {q}) EXCEPT !.phase[q] = "up"] IN
         \/ /\ TooMany(n)
            /\ net' \in Destroys(n, q, "invalid")
            /\ UNCHANGED <<state, quiet>>
         \/ /\ ~TooMany(n)
            /\ state \in {"STARTING", "HEADERS"}
            /\ net' = DownloadHeaders(n, q)
            /\ IF net'.dl = q THEN state' = "HEADERS" /\ quiet' = FALSE
                              ELSE UNCHANGED <<state, quiet>>
         \/ /\ ~TooMany(n)
            /\ state = "TXDB"
            /\ net' = FilterDriver(n, q)
            /\ UNCHANGED <<state, quiet>>
         \/ /\ ~TooMany(n)
            /\ state = "READY"
            /\ net' = n
            /\ UNCHANGED <<state, quiet>>
    /\ UNCHANGED <<hdrs, stats, files, connectOnly, panic, budget>>

\* The message answers what q was asked, if it was.
Answered(n, q) == [n EXCEPT !.asked = @ \ {q}, !.volunteers = @ \ {q}]

\* peer_send_getheaders to q, which does not become the download peer.
AskAgain(n, q) == [n EXCEPT !.asked = @ \union {q},
                            !.volunteers = IF n.dl = NoPtr THEN @ \union {q} ELSE @]

\* peer_handle_headers and peergroup_handle_headers: m of the headers are new.
\* Nobody needs to be asked: without a download peer anybody's headers are taken.
ReceiveHeaders(q) ==
    /\ Hears(q, "up")
    /\ LET n == Answered(net, q) IN
         \/ /\ net.dl \notin {NoPtr, q}
            /\ net' = n /\ UNCHANGED <<state, hdrs, quiet>>
         \/ /\ net.dl \in {NoPtr, q}
            /\ \E m \in 0..Smaller(Batch, Chain - hdrs) :
                 /\ hdrs' = hdrs + m /\ quiet' = FALSE
                 /\ \/ /\ m > 0 /\ state = "HEADERS"
                       /\ net' = SentTo(AskAgain(n, q), {q}) /\ UNCHANGED state
                    \/ /\ (m = 0 /\ state = "HEADERS") \/ state = "TXDB"
                       /\ net' = FilterDriver(n, q) /\ state' = "TXDB"
                    \/ /\ state \notin {"HEADERS", "TXDB"}
                       /\ net' = n /\ UNCHANGED state
    /\ UNCHANGED <<stats, files, connectOnly, panic, budget>>

\* peer_handle_addr and peergroup_handle_addr, one new address at a time.
ReceiveAddr(q) ==
    /\ Hears(q, "up") /\ budget.gossip > 0
    /\ budget' = [budget EXCEPT !.gossip = @ - 1]
    /\ \E a \in Addr \ Known(net) :
         LET n == AddEntry(net, a) IN
         /\ net' = Saved(n)
         /\ bookFile' = IF MustSave(n) THEN Known(n) ELSE bookFile
    /\ UNCHANGED <<state, hdrs, quiet, stats, statsFile, connectOnly, panic>>

\* peer_handle_getaddr: the answer is built in sendBuf and never sent.
ReceiveGetaddr(q) ==
    /\ Hears(q, "up") /\ budget.gossip > 0
    /\ budget' = [budget EXCEPT !.gossip = @ - 1]
    /\ net' = [net EXCEPT !.unsent = @ \union {q}]
    /\ UNCHANGED <<state, hdrs, quiet, stats, files, connectOnly, panic>>

\* Messages that only make peer_receive_cb answer: ping, and in READY an inv of
\* what the wallet does not know.
ReceiveAnswered(q) ==
    /\ Hears(q, "up")
    /\ net' = SentTo(net, {q})
    /\ UNCHANGED <<state, hdrs, quiet, stats, files, connectOnly, panic, budget>>

-----------------------------------------------------------------------------
(* Timers and the rest of the program *)

\* No progress for SYNC_STALL_USEC.
Stall ==
    /\ state = "HEADERS" /\ panic = "none" /\ net.dl # NoPtr /\ ~quiet
    /\ quiet' = TRUE
    /\ UNCHANGED <<state, net, hdrs, stats, files, connectOnly, panic, budget>>

\* Mutant: the stall is noticed and the peer kept.
StallChecksIgnored(n) == {n}
\* peergroup_check_download_stall
StallChecks(n) == IF quiet /\ state = "HEADERS" /\ n.dl # NoPtr
                  THEN Destroys(n, n.dl, "timeout") ELSE {n}

\* peergroup_periodic_cb: refill, pings to idle peers, the stall check, and the
\* statistics are flushed.
Periodic ==
    /\ Running /\ ~Exiting
    /\ \E n \in Refills(net, FALSE) :
         \E idle \in {{}, {q \in PeerList(n) : n.phase[q] \in {"open", "version", "up"}}} :
           net' \in StallChecks(SentTo(n, idle))
    /\ quiet' = (quiet /\ (state # "HEADERS" \/ net.dl = NoPtr))
    /\ statsFile' = stats
    /\ UNCHANGED <<state, hdrs, stats, bookFile, connectOnly, panic, budget>>

\* peerstats_record_cfilter_ok and peerstats_record_cfilter_fail, called from the
\* scan; one failure outweighs any success (peerstats_score).
ChunkDone(q) ==
    /\ state = "TXDB" /\ panic = "none" /\ net.phase[q] = "up" /\ q[1] \in FilterAddr
    /\ budget.chunks > 0
    /\ budget' = [budget EXCEPT !.chunks = @ - 1]
    /\ \/ stats' = [stats EXCEPT ![q[1]] = "bad"]
       \/ stats[q[1]] = "unproven" /\ stats' = [stats EXCEPT ![q[1]] = "good"]
    /\ UNCHANGED <<state, net, hdrs, quiet, files, connectOnly, panic>>

\* The scan is over: peergroup_download_complete and peergroup_on_ready.
ScanDone ==
    /\ state = "TXDB" /\ panic = "none"
    /\ state' = "READY"
    /\ net' = SentTo(net, UpPeers(net))
    /\ UNCHANGED <<hdrs, quiet, stats, files, connectOnly, panic, budget>>

\* peergroup_broadcast_inv: peer_send_inv to every peer of the list asserts that
\* its send buffer is empty.
BroadcastTx ==
    /\ state = "READY" /\ panic = "none"
    /\ net.unsent # {}
    /\ panic' = "peer_send_inv"
    /\ UNCHANGED <<state, net, hdrs, quiet, stats, files, connectOnly, budget>>

Handshake(q) == ReceiveVersion(q) \/ ReceiveVerack(q)
Connect(q)   == Connected(q) \/ ConnectFails(q)

Next == \/ Start \/ Stop \/ BitcExit \/ Crash \/ Stall \/ Periodic \/ ScanDone \/ BroadcastTx
        \/ \E q \in Ptrs : \/ Connect(q) \/ Handshake(q)
                           \/ Disconnected(q) \/ EarlyVerack(q) \/ ReceiveHeaders(q)
                           \/ ReceiveAddr(q) \/ ReceiveGetaddr(q) \/ ReceiveAnswered(q)
                           \/ ChunkDone(q)

\* A connect succeeds, fails or times out, and timers fire.  Nothing is assumed
\* of what a node sends once it is connected.
Fairness == /\ WF_vars(Stall) /\ WF_vars(Periodic)
            /\ \A q \in Ptrs : WF_vars(Connect(q))

Spec == Init /\ [][Next]_vars /\ Fairness

-----------------------------------------------------------------------------
(* Properties *)

TypeOK ==
    /\ state \in {"DOWN", "STARTING", "HEADERS", "TXDB", "READY", "EXITING"}
    /\ net \in NetType
    /\ hdrs \in 0..Chain /\ quiet \in BOOLEAN /\ connectOnly \in BOOLEAN
    /\ stats \in [Addr -> {"unproven", "good", "bad"}] /\ statsFile \in [Addr -> {"unproven", "good", "bad"}]
    /\ bookFile \subseteq Addr
    /\ panic \in {"none", "addrbook_save", "peer_send_inv"}

(* The peer list, the active count, the flags in the address book and the   *)
(* book's own table agree: every peer holds an address that is still         *)
(* allocated, marked connected and tried, and nothing else is marked         *)
(* connected.  Otherwise an address would never be used again, or a peer     *)
(* would use freed memory, peer_destroy's guard included.                    *)
BookAgrees ==
    /\ PeerList(net) \subseteq Live(net)
    /\ net.conn \intersect Live(net) = PeerList(net)
    /\ PeerList(net) \subseteq net.tried
    /\ net.active = Cardinality(PeerList(net))

(* pg->downloadPeer is NULL or a peer whose handshake is over, whatever      *)
(* destroyed peers in between; and while the headers are downloaded, whoever *)
(* is asked for more of them is that peer, or sent headers of its own accord *)
(* while there was no download peer.                                         *)
DownloadPeerAsked ==
    /\ net.dl # NoPtr => net.phase[net.dl] = "up"
    /\ state \in {"STARTING", "HEADERS"} => net.asked \subseteq {net.dl} \union net.volunteers

(* However many connections are opened at once (the initial refill opens     *)
(* minActiveInit of them), no more than maxActive get past the handshake.    *)
EstablishedBound == CountConnected(net) =< MaxActive

(* The header download ends, or there is nobody left to take it over: the    *)
(* download peer is gone, no connection is under way and the group cannot be *)
(* refilled.  Peers that are connected and idle are not asked again, and one *)
(* that never finishes its handshake keeps its place.                        *)
Stuck == /\ net.dl = NoPtr /\ ~CanRefill(net, FALSE)
         /\ \A q \in PeerList(net) : net.phase[q] # "connecting"
HeadersEnd == (state = "HEADERS" /\ panic = "none") ~> (state # "HEADERS" \/ panic # "none" \/ Stuck)

-----------------------------------------------------------------------------
(* Claims of the code that do not hold: see README.md *)

(* peergroup_check_download_stall drops a silent download peer "so another   *)
(* connected peer can take over".                                            *)
AnotherTakesOver ==
    (state = "HEADERS" /\ net.dl = NoPtr /\ UpPeers(net) # {})
        ~> (net.dl # NoPtr \/ UpPeers(net) = {} \/ state # "HEADERS" \/ panic # "none")

(* peergroup_handle_headers ignores headers "from any peer other than the    *)
(* designated download peer, so we never process two header streams": of the *)
(* peers asked for headers, one at most is listened to.                      *)
OneStream ==
    state = "HEADERS" => Cardinality({q \in net.asked : net.dl \in {NoPtr, q}}) =< 1

(* addrbook_save asserts that the book it writes is not empty.               *)
SaveNonEmpty == panic # "addrbook_save"

=============================================================================
