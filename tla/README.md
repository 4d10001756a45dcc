# A TLA+ verification project for bitc

bitc is a thin Bitcoin client in C: it downloads the header chain, verifies
BIP157/158 compact filters, fetches the blocks whose filter matches the wallet,
keeps the wallet's transactions, and shows everything in an ncurses interface.
This directory holds TLA+ models of its core, translated from the source, the
TLC configurations that check them on small instances, and TLAPS proofs of what
matters most for every instance.

Contents

1. the system: parts, state, interaction, what is hard
2. the modules and how they correspond to the code
3. the runs: what each checks, bounds, fairness
4. the proofs
5. what the models show to be wrong
6. what is not modelled, and the plan

Run a model with `tlc -config <run>.cfg <module>` and a proof with
`tlapm <module>.tla`; `PROJECT.json` lists the runs, the mutants that show that
each property can fail, and the source lines behind each definition.

## 1. The system

All protocol work happens in callbacks of one poll loop on the main thread, so
handlers never interleave with each other. The hard part is what happens
*between* them: messages of several peers in any order, timers, connections that
come and go, and a process that may die at any instant and resume from what it
has on disk. Real threads exist only around the main thread: the UI thread and
ten pool workers.

| part | state | operations | correct when |
|---|---|---|---|
| filter scan (`core/peergroup.c`) | chunk table `cfSeg`, contiguous count, pending block fetches, resume pointer `lastBlk`, saved copy | filter, block, notfound, handshake, disconnect, two timers, exit | every height is scanned, every matched block reaches the wallet, a crash loses nothing, the scan ends |
| header store (`core/block-store.c`) | tree of headers in two tables, links, heights, best chain, `headers.dat` | add header, reorganize, write, load | the best chain is the longest known and consistently linked; the file replays to it |
| filter-header sync and store (`core/peergroup.c`, `core/cfheader-store.c`) | checkpoints agreed, next height, driver, file of records | cfcheckpt, cfheaders, peer gone, append, load | filter headers are stored at their own heights, agree with the checkpoints, and the sync ends |
| peers (`core/peer.c`, `core/addrbook.c`, `core/peerstats.c`) | connection, handshake, services, tried and connected flags | connect, version, verack, ping, destroy, refill | no peer is used after it is gone; the group refills |
| wallet, transactions (`core/wallet.c`, `core/txdb.c`) | keys, coins, transactions, LevelDB | block and loose transactions, confirm, craft, broadcast, load | the balance equals what the chain says, coins are spent once |
| event loop, sockets (`lib/poll`, `lib/netasync`) | time queue, device table with reference counts, send queue, connect state | register, remove, fire; connect, send, receive, close | a removed callback never fires; closing from a callback is safe |
| threads (`apps/cli/main.c`, `apps/cli/bitc_ui.c`) | two request lists, two pipes, `stop`, `state` | requests, notifications, start, exit | every request is handled, nothing is used after it is freed, exit ends |
| pool (`lib/poolworker`) | queue, active list, counters, two condition variables | create, queue, wait, destroy | each job runs once, waits return when they should |
| key file (`core/wallet.c`, `lib/file`) | `wallet.dat`, `wallet.dat.0` | first launch, new address, encrypt, open | a crash at any step of a save loses no key, while `file_rotate` works |
| codecs (`gcs.c`, `serialize.c`, `btc-message.c`, `script.c`, `base58.c`, `config.c`, `hashtable.c`) | none, or a sequential container | encode, decode, look up | they compute what they should |

Interaction. `peer.c` parses messages and calls `peergroup_handle_*`; the group
calls the header store, the filter-header store and the wallet directly, and
sends through `peer_send_*`, `netasync` and `poll`. A peer is one TCP stream, so
what one peer sends arrives in order; different peers are not ordered at all.
`peer_destroy` may be called from a network error, a failed handler or a timer,
and calls back into the group. The main thread and the UI thread talk through
lists under a lock and a byte in a pipe; pool jobs report to the UI the same
way. `ASSERT` is always compiled in and ends the process.

The behaviours that are hard to test here are listed as hazards, at their lines,
in `PROJECT.json`.

## 2. The modules

| module | models | state and actions |
|---|---|---|
| `CFilterScan` | the filter scan | below |
| `MCCFilterScan` | | model values and the symmetry of peers with equal services |
| `CFilterScanProofs` | | theorems about `CFilterScan` |
| `CFHeaderSync` | the filter-header sync and its store | below |
| `MCCFHeaderSync` | | two filter peers that may disagree and one that serves none |
| `CFHeaderSyncProofs` | | theorems about `CFHeaderSync` |
| `BlockStore` | the header store and the headers message that drives it | below |
| `MCBlockStore` | | a tree of nine blocks with four branches, and a junk block |
| `BlockStoreProofs` | | theorems about `BlockStore` |
| `PoolWorker` | the thread pool | below |
| `PoolWorkerProofs` | | theorems about `PoolWorker` |
| `AppThreads` | main thread, UI thread, resolver jobs | below |
| `AppThreadsProofs` | | theorems about `AppThreads` |
| `Peers`, `MCPeers` | connections, address book, header download, peer statistics | below |
| `PeersProofs` | | theorems about `Peers` |
| `Ledger` | | what the wallet promises: the abstract specification of `TxDb` |
| `TxDb`, `MCTxDb` | transaction database, balance, payments, relaying | below |
| `WalletFile` | the key file and the commands that use it | below |
| `WalletProofs` | | theorems about `WalletFile` and `TxDb` |
| `NetLoop` | event loop and sockets | below |
| `NetLoopProofs` | | theorems about `NetLoop` |
| `Gcs`, `Wire`, `Script`, `Base58`, `HashTable`, `Config` | codecs and containers, as operators | below |
| `MCCodecs` | | inputs and calls for all of them |

### CFilterScan

The heights `floor..tip` are cut into chunks of `Batch` (1000 in the code). Each
chunk has the holder (`assignedPeer`), the peer that failed it last
(`avoidPeer`), the number of filters it waits for (`remaining`) and `done`, as in
`struct cf_segment`. `stream[p]` is what peer `p` still has to send, request by
request: a peer that lost a chunk goes on sending the rest of it, and may be
handed the same chunk again behind those. `fetch[p]` are the block requests it
has not answered.

One action is one handler with everything it calls: `HandleCfilter` counts,
completes the chunk, advances the resume pointer, reports READY, hands out the
next chunk, and only then matches the filter, in this order, because the code
does. `ScheduleCfilters` is one pass of `peergroup_schedule_cfilters`, for every
order the peer list may have. `PeerDestroy`, `HandshakeOk`, `ChunkTimeout`,
`BlockTimeout`, `HandleBlock`, `HandleNotfound`, `IgnoreGetdata`, `PeriodicCb`
and `Exit` are the others; `Crash` and `Restart` are the process dying and the
next run, whose chain may be longer. A save of the pointer (`SaveLastblk`) writes
it, loses it or leaves the file as it was: `config_write` truncates first. A line
of the file is one `pwrite` and is not torn. `--stop-after-height` and
`--update-and-exit` are constants.

Abstracted: hashes are heights (the chain does not change during a scan: blocks
announced meanwhile are not added to the header store); filters are verified,
and a peer that sends a wrong one is destroyed like one that disconnects; time is
an arbitrary expiry. A peer is a slot that a later connection may reuse, as a
freed `struct peer` may be: the pointers `avoidPeer` and `requestedFrom` then
mean the new peer, as they do in C. A failure of `peer_send_*` is a disconnection
just before.

### CFHeaderSync

The phase before the scan. `pg` holds the fields of `struct peergroup` the sync
uses: the driver (`syncPeer`), how many peers were asked for checkpoints and how
many agreed, the next height and the header before it, `cfhdrSyncStarted`, and
whether the scan was started. A filter header is named by the index it comes from
and its height, which is all that `cfheader_calc` tells apart; two peers with
different indexes disagree at every height.

`HandshakeOk`, `LastHeaders`, `HandleCfcheckpt`, `HandleCfheaders` and `Leave`
are the handlers with everything they call; `Gone` is `peer_destroy` with
`peergroup_notify_peer_gone`, which any of them may end in. `entries` is the
store in memory and `disk` its file: `cfheaderstore_append` writes a record and
then the count, and `CrashInBatch` and `WriteFails` fall between any two of these
writes. `Start` loads the file, or fails to open it (`hasStore`).

A message to a peer that serves no filters, or whose handshake is not over, is
never answered; the code sends such messages. `CheckpointLag` is where peers put
a checkpoint: the comment at `peergroup.c:1507` says at `(i+1)*1000 - 1` (lag 1),
BIP157 itself says at multiples of 1000 (lag 0). Both are instances.

Abstracted: the block chain and the stored filter headers are not reorganized; the
tip moves only between runs; a failed send is a disconnection just before; the two
versions of the file are one; `--sync-and-exit` is left out.

### BlockStore

Blocks form a fixed tree (`Parent`, with `Depth` and `Path` derived from it).
`AddEntry` has the four cases of `blockstore_add_entry`: genesis, extension,
orphan, reorganization; `AddEntryAsserts` is when one of its ASSERTs fails.
`prev` and `next` are the C pointers, stale ones included, and the entries that
leave the best chain are found by following `next`, as the code does.
`AddHeader` adds one header of a message, `EndOfMessage` writes what is
unwritten; a crash can fall between any two and cut the write short, between two
headers or inside one. `file` is what can be read back; `tail` is empty, or a torn
header and what later runs appended behind it (`Stored`). `LoadHeader` replays the
file through `AddEntry`, `LoadMisread` the misaligned cells of the tail: a cell is
the end of one header and the start of the next, its hash is nobody's, and only
the first one can name a known parent (`Junk`: the cut left the torn header's
`prevBlock` whole). A second tear behind the first is left out. Peers send headers that connect
to what we have, parents first (they answer our locator); proof of work is not
checked by the code and not modelled.

### PoolWorker

A step is what a thread does between two points where others can notice. A
critical section is one step; a thread that has tested its condition and is
about to call `pthread_cond_wait` still holds the mutex in a state of its own,
because `poolworker_queue_work`, the workers and `poolworker_destroy` signal, and
set `exit`, without the mutex. Spurious wakeups are possible. One client thread
at a time calls the pool, as in the application.

### AppThreads

`mpc` and `upc` are where the main thread and the UI thread are. Each request is
a list entry and then a byte; `bitc_req_cb` and `bitcui_notify_cb` empty the pipe
and then the list. On the exit path `bitc_process_events` runs without the lock:
`FinalEvents` reads the list and `FinalUnlink` removes its head, with the outcome
of the race left open. `Sigint` interrupts the main thread anywhere. The
descriptor `fd` is 0 before the pipe exists and -1 after it was closed. Jobs are
seen from outside, as `PoolWorker` guarantees them.

### Peers

A `struct peer_addr` is an address and which of two objects for it (the book may
replace an entry that a peer still points to), a `struct peer` the object it was
made from. `net` holds the book's table and flags, the phase of each peer, the
active count, `downloadPeer`, who was asked for headers and whose send buffer is
still full. The operators of the first half map it to the next one as the C
functions do: `Destroyed` is `peer_destroy`, `Refills` what `peergroup_refill` may
choose (the order of a hash table is a choice; proven peers go first, as
`peerstats` orders them). `Destroys` is a destruction with the refill it causes,
from inside whatever handler called it. `Start`, `Stop`, `BitcExit` and `Crash` are
the process; `bookFile` and `statsFile` what it leaves. `quiet` is the only thing
the code asks of time: no header progress for `SYNC_STALL_USEC`. An established
peer may send headers whether it was asked or not; `volunteers` are those who did
while there was no download peer and were asked for more.

### TxDb and Ledger

`mem` is `hash_tx` and `hash_txo`, `db` the LevelDB records in order, `bcast` the
set that is relayed. A transaction has at most one output for the wallet, so a
coin is named by its transaction. `HandleTx`, `HandleBlockTx`, `CraftTx`, `Start`,
`Synced`, `Stop` and `Zap` are the operations; every write may fail (`MaxFails`),
an ASSERT that fails ends the process (`Panic`) and the next start rebuilds
everything from `db` (`Reload`). Amounts wrap at `Word`.

`Ledger` says what this is for: a book of transactions, each learned once, each
spending only coins that are unspent, pending or confirmed, never unconfirmed
again; a restart changes nothing as long as no write has failed. `TxDb` implements
it (`LedgerSpec`, `AbstractLedger == INSTANCE Ledger WITH ...`): the book is the
memory, the coins those not marked spent, `stored` what is in `db`, `intact` that
no write failed.

### WalletFile

A save is five steps on the file system, as in `wallet_save_keys`, `file_rotate`
and `config_write`: unlink `wallet.dat.0`, rename, create, write the keys, write
`numKeys` (the lines are sorted by name). The first two may fail without the save
noticing (`wallet.c:526`); then `wallet.dat` is truncated in place, which `inPlace`
marks until it is complete again. Any other failed call ends the save like a crash.
`given` are the keys of the saves that were completed. `damaged` marks runs in which a save was cut short *and* the program was
run again, after which nothing can be promised.

### NetLoop

A poll entry is an object with a reference count; `Poll` takes a reference on every
entry that is ready, `Fire` calls their callbacks one by one, skipping those that
were removed meanwhile. A callback does what `netasync.c` and, above it, `peer.c`
do: finish a connect, step through SOCKS5, send part of a buffer, receive, close
this socket or another, open a new one that gets the same descriptor. Time queue
callbacks (the connect timeout, the periodic drop) run between the iterations.

### Codecs

Pure functions as operators: `Gcs` (bit reader, Golomb-Rice, the match), `Wire`
(readers and writers of the messages; a reader takes a payload and a position),
`Script` (parse, classify, generate), `Base58`, `HashTable` (buckets, resizing) and
`Config` (the list of settings, its file). Each ends with the definition of what
it should compute, independent of the algorithm: the set of items, the content
that was written, the ops the script was made of, a map. Bytes have a small base,
so that varints, overflow of a byte and sign bits appear at small sizes. Hash
functions are constants. `MCCodecs` chooses an input, or calls on a table or on
settings, and computes.

## 3. The runs

| run | instance | shows |
|---|---|---|
| `scan_chunks` | 2 peers, heights 1..5, chunks of 2, no match, 2 stalls, 2 disconnections, stop-after-height 5, update-and-exit | `DoneMeansScanned`, `ResumeCovered`, `LiveChunkAnswered`: chunk accounting never drifts from the streams |
| `scan_resume` | 3 peers (one pruned, one without filters), heights 1..4, chunks of 3, a match at 2, 1 stall, 1 slow block, 1 disconnection, 1 crash or exit | `ResumeSafe`, `MatchStaysPending`, `ReadyIsComplete`, `ResumeKeptOrLost`, and `ScanCompletes` under fairness |
| `cfheaders` | 2 filter peers with equal or different indexes and 1 other, tip 3 then 4, batches and checkpoint intervals of 2, scans from 1 or 3, 1 lost connection, 1 crash or exit, 1 failed write or open | `SingleDriver`, `HeadersAtTheirHeights`, `ScanCovered`, `NoLateHeaders`, `NothingLost`, and `SyncCompletes` under fairness |
| `block_store` | 9 blocks and a junk one, messages of 2, 2 crashes or exits, 1 torn header with up to 3 headers in the tail when a message begins, 1 failed write | `ChainLinked`, `LongestKnown`, `ReloadAgrees` |
| `pool` | 3 workers, 3 jobs, 1 spurious wakeup | `ExactlyOnce`, `WaitMeansDone`, `OwnSlot`, and `CallsReturn`: waits and destruction end |
| `threads` | 1 job, 2 updates, 2 keys, 1 CTRL-C, with and without UI | `RequestsReachMain`, `JobsSeeLiveUi`, `StopEnds` |
| `peers` | 3 addresses (one serves filters), at most 2 established of 3 opened at once, 1 stop or crash, 1 lost connection, 1 gossip, 1 chunk | `BookAgrees`, `DownloadPeerAsked`, `EstablishedBound`, and `HeadersEnd` under fairness |
| `txdb` | 3 transactions of others (a credit that two blocks may have, a spend of it, a pending watch-only coin), 1 payment of 1 or 3, 1 stop, 1 failed write | `LedgerSpec` (the refinement), `RelayedUntilConfirmed` |
| `wallet_file` | 3 keys, 2 passphrases, 2 crashes | `KeysRecoverable`, `SessionComplete` |
| `net` | 2 descriptors, 8 entries, 2 connections, 2 buffers each | `AssertsHold`, `LoopMatchesSockets`, and `ConnectEnds` under fairness |
| `codecs` | all filters of up to 3 items of 3 bits and queries of 2; all messages with lists up to one too long, cut short by up to 12 bytes or with one more; scripts of up to 5 ops; addresses of up to 3 bytes with a character put in; 9 keys in the table, all sequences of calls; files of 2 lines of settings and all sequences of calls | `FiltersMatch`, `MessagesAgree`, `ScriptsAgree`, `TextAgrees`, `TablesAreMaps` |
| `scan_last_filter` | minimal | the first disagreement of section 5 |

Bounds. Two stalls of a chunk put two dead requests for it in front of the live
one, which is where counting could go wrong; three chunks let them complete out
of order with one in between; a last chunk of one height exercises the cut at
the tip. Two batches and a checkpoint between them are enough for a batch that
continues what another peer or an earlier run stored, and a crash, a failed write
and a lost peer can fall into the same batch. The tree has a branch that overtakes, one that ties, one at genesis
and one below a reorganized block, so that reorganizing back and forth over stale
links happens. Three workers leave one waiting, one between test and wait and one
running. `PipeCap` is never reached in the `threads` instance: a full pipe blocks
the UI thread for ever (a hazard listed without a claim). `EnoughPeers` keeps the
instance of `scan_resume` from losing the peers that the code's retry needs;
section 5 says what happens otherwise. Three addresses and two established peers
are enough for a handshake that is one too many, for a download peer that is
replaced and for an address whose object is replaced while it is in use. A payment
next to a coin that cannot be spent and a transaction that two blocks may have are
what selection and confirmation can go wrong on. Two crashes cut a save and the
save after it. Two descriptors let a callback close the other socket and reuse
either. The keys of the table collide before a resize and part after it, in both
directions. Every budget
(`MaxStalls`, `MaxCrashes`, ...) limits how often the environment does something,
never what the program does; `MaxFetch` limits the requests queued at one peer.

Deadlock is checked for the pool. The other instances end when their budgets are
spent and the work is done.

Fairness. `scan_resume`: the program is started again after a crash, connected peers answer, the address book supplies new
ones (`peergroup_refill` runs every 15 seconds), the two timers fire, and a stop
request is obeyed; a chunk stall or a disconnection is never required.
`cfheaders`: the program is started again, connections are made and handshakes
end, peers answer. `SyncCompletes` says only what the code can keep: it assumes
(`Helpful`) that the driver serves filters and that a peer asked for filter
headers stays, because the code does not ask another one (section 5); whoever
leaves during the checkpoint agreement does not matter. `peers`: a connect
succeeds, fails or times out and the timers fire; nothing is assumed of what a
node sends. `HeadersEnd` says what the code can keep with that: the download ends
or nobody is left to take it over. `net`: the loop goes on, so entries that were
taken are fired and a timer that is due runs; `ConnectEnds` is about connect(2)
alone, since the SOCKS handshake that follows has no timer. `pool` and
`threads`: every thread that can run does; keys, signals and updates are never
required to happen. `pool` also assumes that a job's function returns, which is
up to the caller of the pool. `threads` does not: `ipinfo_resolve_geo_cb` sets no
`CURLOPT_TIMEOUT`, so a silent server can hold `poolworker_wait`
(`bitc_ui.c:589`), and with it the exit, for as long as it likes. `StopEnds`
says that nothing else can.

Every module with state has a type invariant `TypeOK`; TLC finds it true in every
instance above, and those of the scan, the header store, the thread pool, the
threads, the connections, the key file (`FileTypeOK`) and the event loop are
theorems. Every property has a mutant: a plausible slip in one definition, next
to it in the module and marked as such, under which TLC finds the property
violated.

## 4. The proofs

Each theorem holds for every value of the constants that the module's named
assumptions allow; a further condition is in the theorem's ASSUME and below. None
of the invariants is inductive as it stands. What is, is given here; TLC checked
it on the instances of section 3 before it was proved.

**The scan** (`CFilterScanProofs`): any set of peers, chain, chunk size, in-flight
limit and set of matches.

- `TypeCorrect`, `DoneIsScanned`, `ResumeIsCovered`: `Spec => []TypeOK`,
  `[]DoneMeansScanned`, `[]ResumeCovered`. That `remaining` filters came from the
  holder says nothing about *which*: the holder may be sending the rest of an old
  request for the chunk, then a whole new one. What is invariant (`WaitOK`, part
  of `IInv`) is that the heights of a live chunk not yet scanned are among the
  next `remaining` filters of that chunk that its holder will send, counted around
  the chunk: an old answer from the middle to the end followed by a new one from
  the start. Each filter takes one height off both sides; with `remaining = 0`
  nothing is unscanned. `StreamsOK` says that a stream consists of requests for
  whole chunks, the first one perhaps begun. The resume pointer follows from
  `done` over the contiguous prefix.
- `ResumeMonotone`: without `--stop-after-height` (`StopAfter = 0`) the saved
  resume pointer never goes back to an earlier height (`[]ResumeKeptOrLost`):
  `saved =< lastBlk` within a run, and the choice of the start in the next. A
  save that fails or is interrupted keeps it or loses it (`SaveLastblk`); a lost
  pointer is a scan from the wallet's birth, never a height that is skipped.
- `LiveChunksAnswered`: `[]LiveChunkAnswered`. `LiveInv` is stronger than the
  property: one request of the holder alone (`Delivers`) covers what the chunk
  waits for. A requeue takes the chunk from its holder before somebody else is
  given it, so holders stay distinct (`Held`), and the bound on the number in
  flight is a count of `Live` before and after each assignment.
- `MatchesStayPending`: `[]MatchStaysPending` for `KeepConnected >= 2` and
  `StopAfter = 0`. With two peers that serve every block connected whenever a
  fetch fails, the retry always finds one that is not the one that failed. With
  fewer the code gives up (section 5), and beyond the height given to
  `--stop-after-height` it does not match at all.
- `ResumeIsSafe`, `ReadyMeansComplete`: `[]ResumeSafe`, `[]ReadyIsComplete` for
  `KeepConnected >= 2`, `StopAfter = 0` and behaviours that satisfy
  `[][NoteFirst]_vars`: no step both moves the resume pointer and begins to fetch
  a block that the wallet lacks. Without `NoteFirst` both are false (run
  `scan_last_filter`); with it they hold whatever the heights of the matches, so
  the order of these two things in `peergroup_handle_cfilter` is the only flaw.
  `SafeInv`: matched blocks below the floor of the scan, and once the pointer has
  moved those up to it, are in the wallet. What is below the new pointer has been
  scanned (`IInv`), so it is in the wallet or pending (`MatchInv`), and the
  pointer stays below what is pending.

**The filter headers** (`CFHeaderSyncProofs`): any set of peers and indexes,
chain, batch and checkpoint interval.

- `OneBatchAtATime`, `HeadersInTime`: `[]SingleDriver`, `[]NoLateHeaders`. That a
  batch in flight excludes another needs that it comes with `cfhdrSyncStarted`,
  with the agreement over (the verification that would clear the flag does not
  run again) and with a start that is not past the tip; that its answer finds the
  state `UPDATE_TXDB` needs that a started scan has a start past the tip, so
  READY and a batch exclude each other (`AskedOK`, `PhaseOK` of `IInv`; `StoreOK`
  and `PgOK` are the types they rest on).
- `FileNeverShrinks`: `NothingLost`, an action property. `FileInv`: a new run
  would load what the store holds, until a write fails; then the peer that was
  asked is gone and this run asks for nothing more (`Dead`), which is why no later
  append can overwrite what the failed one left.
- `HeadersPlaced`, `ScanHasItsHeaders`: `[]HeadersAtTheirHeights`,
  `[]ScanCovered`, for `CheckpointLag = 0`, checkpoints at the heights where
  BIP157 puts them; for 1, where the code's comment puts them, the first is
  false (section 5). `ChainInv`: the store and the file are one chain of headers, the
  next batch follows its last record (`Synced`), or the birthday bound set a start
  that no batch can follow (`Refused`), or nobody was left to ask (`Dead`).

**The header store** (`BlockStoreProofs`): any tree of blocks, crashes, torn
and failed writes.

- `BlockStoreTypeOK`, `BlockStoreChainLinked`, `BlockStoreLongestKnown`,
  `BlockStoreReloadAgrees`. In memory (`StoreInv`) a reorganization moves out
  exactly the chain above the junction, and the walk that collects the new branch
  ends on the best chain. In the file (`FileInv`, `CleanInv`) what
  `blockstore_write_headers` appends keeps parents before children, and puts the
  best block first among the headers of its depth: the replay takes the first
  header of each new depth, so it ends there. The last two theorems, like the
  properties, hold as long as no write was lost (`NoLostWrite`): none failed and
  none went behind a torn header. A torn header alone changes nothing: the first
  replay after it stops before it.

**The thread pool** (`PoolWorkerProofs`): any number of threads and jobs.

- `SlotsAreOwn`: ids are distinct. The invariant `CreateInv` says that while
  threads are created at most the last one has not counted itself, so the
  counter a worker reads equals the number created before it.
- `JobsRunOnce`, `WaitIsQuiescent`: a queued job is in the queue once, or held by
  one worker and active, or has run once and is in neither (`JobInv`); after a
  wait both lists are empty.
- `PoolTypeOK`: the types. The one that needs an argument is `numRunning`, which
  every worker increments and decrements and `poolworker_destroy` polls: it is the
  number of workers between the two (`CountInv`, a cardinality), so it stays in
  `0..NumThreads`.

**The threads** (`AppThreadsProofs`): any number of jobs, pipe capacity, keys,
signals and updates.

- `ThreadsTypeOK`, `ThreadsRequestsReachMain`, `ThreadsJobsSeeLiveUi`.
  `ControlInv` says how far each thread can be when the other is at a given place;
  `AnnounceInv` extends the announcement to the places between the list and the
  pipe; `PaymentInv` counts the payments: the exit path copies the list without
  its lock and may drop what is added meanwhile, but `stop` was set before, so
  every payment asked for earlier is in its copy.

**The connections** (`PeersProofs`): any addresses, limits and book, for starts
whose seeds are different addresses (`DistinctSeeds`). With two equal seeds
`peergroup_add_peer_from_str` frees the entry of a peer it has just opened
(section 5).

- `PeersTypeOK`, `PeersBookAgrees`, `PeersDownloadPeerAsked`,
  `PeersEstablishedBound`.
  A handler may destroy its own peer or another, and each destruction may open new
  ones, so the invariant is kept by the operators on `net` one by one before it is
  kept by the actions. `BookOK`: the entry of every peer in the list is the one in
  the book, marked connected and tried; the active count is their number;
  everything marked connected has a peer. It is why `peergroup_refill`, which skips
  entries marked tried, cannot open a second connection to an address in use.
  `StreamOK`: the download peer and whoever was asked for headers are peers whose
  handshake is over, so that `peer_destroy` clears every pointer to what it frees.
  `Driven`: during the download nobody else is asked but the volunteers.
  The bound counts those peers alone: connections that are being opened may
  exceed it, and the handshake that is one too many is dropped in the same step.

**The transaction database** (`WalletProofs`): any transactions of others, with
any inputs, any payments and blocks, any number of stops and failed writes.

- `WalletLedger`: `Spec => LedgerSpec`, that `TxDb` implements `Ledger`. Each
  action is shown to be one step of the ledger or none: learning is `Learn`,
  `txdb_confirm_one_tx` of a pending transaction `Confirm`, a stop or a failed
  ASSERT `Restart` if a write has failed and otherwise nothing, `-z` is `Zap`. The
  invariant `TxInv` says, while no write has failed, that the memory and what
  `txdb_open` would build from the records are alike (`Disk`): the same relevant
  transactions, with the same block, the same coins, the same of them spent, and
  one record for each relevant transaction. They are not equal: memory also
  knows transactions that are not the wallet's, and a coin that was confirmed
  keeps block 0 until the next start. That one more record, and a record
  rewritten in place, keep them alike (`DiskAppend`, `DiskConfirm`) is an
  induction over the records (`ReloadIs`, `ReloadAlike`). At all times the coins
  are those of the relevant transactions that pay the wallet (`Shaped`), and a
  payment not made yet is known to nobody.
- `WalletRelays`: `RelayedUntilConfirmed`, from the same invariant: a start finds
  the pending transactions by the block in the record.

**The key file** (`WalletProofs`): any set of keys and passphrases, crashes
anywhere.

- `WalletTypeOK`, `WalletKeysRecoverable`, `WalletSessionComplete`. Which of the
  two files holds the keys depends on the step of the save: the old file until it
  is renamed, the backup from then on, and if the rotation failed, the old file
  until it is truncated (`SaveInv`). `SessionInv` ties what was
  loaded to the file.

**The event loop** (`NetLoopProofs`): any number of descriptors, buffer sizes and
queue lengths.

- `NetLoopTypeOK`, `NetLoopAssertsHold`, `NetLoopMatchesSockets`. `NetInv`: an
  entry has one reference for being in the table and one for being among those
  the round still has to fire; keys are unique in each (`LoopOK`); what a socket
  waits for fits its state, down to the step of the SOCKS handshake (`Fits`). The
  model has at least `4 * |Fd|` entry objects; uniqueness of keys bounds the table and the
  round by `2 * |Fd|` each, and when a new entry is made one of those is missing,
  so that one is always free: the bound of the model is no restriction.
  `BadProxy` is the exception of the two assertions that depend on the proxy alone,
  a connection to it that is made at once and its last answer (section 5), after
  which the process is gone.

What stays with TLC:

- liveness: `ScanCompletes`, `SyncCompletes`, `CallsReturn`, `StopEnds`,
  `HeadersEnd`, `ConnectEnds`;
- that `ResumeSafe` and `ReadyIsComplete` hold when stalls, crashes and the
  heights of the matches are such that `NoteFirst` does (the instance of
  `scan_resume`, which does not assume it);
- the type invariants of `TxDb` and `CFHeaderSync`. That of `TxDb` is about sums
  over sets of coins, which have no finite unfolding; what the proofs need of
  the types is in `TxInv`, `StoreOK` and `PgOK`;
- what the codecs compute: `Base58`, `Script` and `HashTable` declare recursive
  operators. Induction as a scheme is not available to the provers; where a proof
  needed it (the depth of a block, the position in a stream, the value of a
  recursive function) it is by a least counterexample, from the well-foundedness
  of the naturals in the library.

## 5. What the models show to be wrong

The first is a run of its own. The others are definitions at the end of their
modules, under "claims that do not hold": put the name into the run's cfg, as an
INVARIANT or PROPERTY, with the change of constants given.

- **A match can be passed by the resume pointer** (run `scan_last_filter`).
  `peergroup_handle_cfilter` advances `lastBlk` before it matches the same
  filter. If that filter completes a chunk below chunks already done, `lastBlk`
  jumps past the block; saved by the timer, it makes the next run skip the block
  if the process dies before the block arrives. At the tip, READY is reported too
  early.
- **Saving the resume pointer can lose it** (`CFilterScan.ResumeNeverRegresses`, in
  `CFilterScanResume.cfg`). `config_write` cuts the settings file to nothing and
  writes it line by line, and nobody looks at its result; a kill or a failed write
  in between leaves no `peergroup.lastblk`, and what was scanned under earlier
  saves is scanned again. No block is lost.
- **A torn header ruins `headers.dat`** (`BlockStore.LoadsWhatItWrote`,
  `MaxCrashes = 3`). The size of a file that ends in a piece of a header is kept,
  and later runs append behind the piece. What they append is read back as other
  bytes: it is fetched and appended again by every run, until the same bytes come
  twice and an ASSERT of `blockstore_add_entry` fails at every start.
- **Two header streams** (`Peers.OneStream`, `MaxActive = 3` and `Chain = 2`).
  While `downloadPeer` is NULL `peergroup_handle_headers` ignores nobody, and it
  asks the sender for more without making it the download peer: after the download
  peer is lost, every connected peer that sends headers unasked gets a stream of
  its own, which no stall check watches.
- **The proxy's last answer is asserted** (`NetLoop.ProxyReplyOK`).
  `netasync_socks_handler` takes a wrong version or status for a failed
  connection, but ASSERTs that the reserved byte after them is 0.
- **A script may end with the length of a push** (`MCCodecs.ScriptsRead`).
  `script_parse_one_op` asks `buff_curptr` for the data before it looks whether
  there is any, and `buff_curptr` ASSERTs that a byte is left: a script with an
  empty push at its end stops the program where it should be read, one cut right
  after a length where it should be refused. `ScriptsAgree` says that no other
  script does.
- **A timed-out fetch may be forgotten** (`CFilterScan.MatchStaysPending`, in
  `CFilterScan.cfg` with `Peers`, `FilterPeers` and `NetworkPeers` all `{p1}` and
  `Matches = {3}`, `MaxSlowBlocks = 1`). With no other peer connected the entry is
  removed and not added again, against the comment and the log message of
  `peergroup_retry_block_fetch`.
- **The batch cap** (`BlockStore.WriteWithinCap`, `WriteCap = 3`). Orphans of
  several messages are written together by the message that makes them the best
  chain and can exceed the cap that one message respects.
- **'q' can panic** (`AppThreads.NotifyDelivered`). `bitc_req_stop` sets `stop`
  first; the main thread can close the request pipe before the UI thread writes to
  it.
- **A birthday-bounded store is numbered from 0**
  (`CFHeaderSync.HeadersAtTheirHeights`, `CheckpointLag = 1`). With an empty store
  and a wallet born above the first checkpoint the sync starts at the checkpoint,
  but `peergroup_handle_cfheaders` stores the batch from height 0; no later batch
  fits. With checkpoints where BIP157 has them the first batch does not match the
  header it is compared with, and its sender is dropped.
- **The launch after a cut save takes itself for the first**
  (`WalletFile.FirstLaunchOnly`). Between the rename and the creation of
  `wallet.dat` there is none; the next launch generates a new key and its save
  unlinks `wallet.dat.0`, the only copy of the old ones.
- **Coins that cannot be selected are counted** (`TxDb.SelectionCovers`).
  `wallet_craft_tx` compares with a balance that includes pending and watch-only
  coins; the selection then fails an ASSERT, or, between the amount and the amount
  plus fee, wraps the change around.
- **Nobody takes over a stalled header download** (`Peers.AnotherTakesOver`).
  Connected, idle peers are not asked; only a new handshake starts the download
  again, and if the addresses left refuse, there is none.
- **Saving an empty address book** (`Peers.SaveNonEmpty`) fails an ASSERT when
  every address was removed after a refused connection.

Also in the models, without a claim to refute: a save whose `file_rotate` failed
truncates `wallet.dat` in place, and a crash then loses the keys; a short `pwrite`
ends a save of the settings or the keys and is reported as success; a fork at
genesis fails an ASSERT;
after a failed write of `headers.dat` later runs may lack the branch or panic
while loading; `bitcui_start` can miss the signal it waits for; with one
filter peer a stalled chunk waits for another one to connect; a driver that leaves
during the download of filter headers leaves `cfhdrSyncStarted` set, and nobody
asks for the rest in this run; a driver that serves no filters is asked and never
answers; a checkpoint answer that comes after READY fails an ASSERT; a getaddr
whose answer is not sent yet makes the next announcement fail an ASSERT
(`BroadcastTx`); a peer that never finishes its handshake keeps its place; two
seeds with the same address free the entry of a connected peer; a second spend of
a coin, and a confirmation in another block, panic; a proxy that connects at once
is not expected by `netasync.c`; the address of a script is valid for
`b58_pubkey_is_valid` and fails the ASSERT of `b58_pubkey_to_uint160`; an output to
a bare public key is counted but cannot be signed and is not asked of the filters;
an empty text in a settings file (the description given with `-a ""`, for one)
makes the file unreadable; a key that a user gave twice changes its value with
every run.

## 6. Not modelled, and the plan

Out of scope: cryptography and hashes (opaque), ncurses layout (most of `ncui.c`,
the longest file), HTTP and JSON (`fx.c`, `rpc.c`), LevelDB's internals, logging,
strings and time (`util.c`), third-party code and self-tests.

Left out of modelled parts: the message envelope and its checksum; the answer to
getdata; listening sockets; the order of timers; reorganizations during a scan,
which the code does not handle either (the resume pointer may name a block that
was reorganized away, and `blockstore_get_block_height` then panics); what a
reorganization does to the coins of `TxDb` (a coin of an orphaned block still
counts, see the comment at `txdb.c:658`).

Theorems to add: that `Worth` and `Balance` add up what they should, so that the type
invariant of `TxDb` and what a payment costs can be proved.

To model next: the scan and the header store composed, for the resume pointer
above; the relay of a payment down to the peers' getdata.
