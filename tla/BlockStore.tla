------------------------------ MODULE BlockStore ------------------------------
(***************************************************************************)
(* The header store of core/block-store.c, driven by the headers messages  *)
(* of peergroup_handle_headers.                                            *)
(*                                                                         *)
(* A header is linked to the best chain, or kept as an orphan until its    *)
(* branch becomes longer than the best chain; then the branch is linked in *)
(* and what it replaces becomes orphans.  Headers of the best chain are    *)
(* appended to headers.dat once per headers message, and the next run      *)
(* replays that file through the same code.                                *)
(*                                                                         *)
(* The headers of a message are added one action at a time, so that a      *)
(* crash may fall between any two of them, and a write may be cut short at *)
(* any byte: the header it was cut in stays in the file as a fragment, and *)
(* what later runs append behind it is misaligned.  A failed ASSERT is a   *)
(* Panic: it ends the process as a crash does.                             *)
(***************************************************************************)
EXTENDS Integers, Sequences, FiniteSets

CONSTANTS
    Blocks,        \* block hashes
    Junk,          \* hashes of misaligned bytes that begin like a header
    Genesis,       \* genesis_hash
    NoBlock,       \* the NULL entry pointer
    Parent,        \* header.prevBlock
    Depth,         \* distance from genesis
    Path,          \* the blocks from genesis to a block
    Checkpoint,    \* block_cpt_main: from some heights to the block there
    MaxBatch,      \* headers in a headers message (2000)
    WriteCap,      \* blockstore_write_headers writes fewer than this (2048)
    MaxCrashes,    \* bound on crashes and exits
    MaxFailures,   \* bound on failed writes of headers.dat
    MaxTail        \* bound on the tail when a headers message begins

ASSUME TreeAssumption ==
    /\ Genesis \in Blocks /\ NoBlock \notin Blocks
    /\ Parent \in [Blocks \ {Genesis} -> Blocks]
    /\ Depth \in [Blocks -> Nat]
    /\ Path \in [Blocks -> SUBSET Blocks]
    /\ Depth[Genesis] = 0 /\ Path[Genesis] = {Genesis}
    /\ \A b \in Blocks \ {Genesis} : /\ Depth[b] = Depth[Parent[b]] + 1
                                     /\ Path[b] = Path[Parent[b]] \cup {b}

\* Nobody but the replay of the file has met junk: no header builds on it.
ASSUME JunkAssumption ==
    /\ Junk \subseteq Blocks \ {Genesis}
    /\ \A b \in Blocks \ {Genesis} : Parent[b] \notin Junk

ASSUME StoreBoundsAssumption ==
    /\ MaxBatch \in Nat /\ WriteCap \in Nat
    /\ MaxCrashes \in Nat /\ MaxFailures \in Nat /\ MaxTail \in Nat

VARIABLES
    phase,         \* "loading" in blockset_open_file, "running", or "down"
    best,          \* best_chain (and best_hash)
    height,        \* bs->height
    blk,           \* keys of hash_blk
    orphans,       \* keys of hash_orphans
    hgt,           \* be->height
    prev, next,    \* be->prev, be->next
    written,       \* blocks with be->written set
    added,         \* headers added from the message being handled
    file,          \* headers.dat, as far as its headers are whole
    tail,          \* what follows: a torn header and those appended behind it
    pos,           \* headers of the file already replayed
    durable,       \* best_chain when the file was last written in full
    panic,         \* the ASSERT that ended the process, if one did
    budget         \* crashes and failed writes left

entryVars == <<best, height, blk, orphans, hgt, prev, next>>
vars == <<phase, entryVars, written, added, file, tail, pos, durable, panic, budget>>

-----------------------------------------------------------------------------
(* Lookups *)

Known == blk \cup orphans

\* blockstore_validate_chkpt
ValidateChkpt(b, h) == h \in DOMAIN Checkpoint => Checkpoint[h] = b

\* The orphans met by following prevBlock from b, itself a new orphan, up to
\* the first entry of the best chain or an unknown block.
Branch(b) == {a \in Path[b] :
                 \A x \in Path[b] : Depth[x] >= Depth[a] => x \in orphans \cup {b}}

\* The member of the branch where that walk ends.
BranchRoot(b) == CHOOSE r \in Branch(b) : \A a \in Branch(b) : Depth[r] =< Depth[a]

\* Mutant: counts the branch from its root, whatever height it forks at.
FindAlternateChainHeightRootless(b) == Depth[b] - Depth[BranchRoot(b)]

\* blockstore_find_alternate_chain_height
FindAlternateChainHeight(b) ==
    LET r == BranchRoot(b)
    IN  (IF Parent[r] \in blk THEN hgt[Parent[r]] + 1 ELSE 0) + Depth[b] - Depth[r]

\* The decision of blockstore_set_best_chain.
Overtakes(b) == FindAlternateChainHeight(b) > height

-----------------------------------------------------------------------------
(* blockstore_add_entry *)

\* The first entry is genesis.
AddGenesis(b) ==
    /\ best = NoBlock
    /\ b = Genesis
    /\ best' = b /\ height' = 0
    /\ blk' = blk \cup {b}
    /\ hgt' = [hgt EXCEPT ![b] = 0]
    /\ UNCHANGED <<orphans, prev, next>>

Extends(b) == best # NoBlock /\ b # Genesis /\ Parent[b] = best

\* The entry extends the best chain.
AddNext(b) ==
    /\ Extends(b)
    /\ best' = b /\ height' = height + 1
    /\ blk' = blk \cup {b}
    /\ hgt' = [hgt EXCEPT ![b] = height + 1]
    /\ next' = [next EXCEPT ![best] = b]
    /\ prev' = [prev EXCEPT ![b] = best]
    /\ UNCHANGED orphans

Forks(b) == best # NoBlock /\ b # Genesis /\ Parent[b] # best

\* The walk of find_alternate_chain_height ends at genesis, whose height 0 it
\* does not take for a height of the best chain: ASSERT(be->height == -1).
ForksAtGenesis(b) == Forks(b) /\ Parent[BranchRoot(b)] = Genesis /\ Genesis \in blk

\* The entry stays an orphan: its branch is not longer than the best chain.
AddOrphan(b) ==
    /\ Forks(b) /\ ~ForksAtGenesis(b)
    /\ ~Overtakes(b)
    /\ orphans' = orphans \cup {b}
    /\ hgt' = [hgt EXCEPT ![b] = -1]
    /\ UNCHANGED <<best, height, blk, prev, next>>

\* The entries found by following next from j.
FollowsNext(s, j) ==
    /\ \A x \in {j} \cup s : next[x] # NoBlock => next[x] \in s
    /\ \A x \in s : \E y \in {j} \cup s : next[y] = x

\* Mutant: the entries of the old chain keep their place in hash_blk.
MovedOutNot(j, s) == s = {}

\* The entries blockstore_set_chain_links moves from hash_blk to hash_orphans
\* when it has reached the junction j.
MovedOut(j, s) == s \in SUBSET blk /\ FollowsNext(s, j)

\* The branch of b becomes the best chain: blockstore_set_chain_links.
Reorganize(b) ==
    /\ Forks(b) /\ ~ForksAtGenesis(b)
    /\ Overtakes(b)
    /\ Parent[BranchRoot(b)] \in blk
    /\ LET j  == Parent[BranchRoot(b)]
           up == Branch(b)
       IN  \E s \in SUBSET blk :
              /\ MovedOut(j, s)
              /\ blk' = (blk \ s) \cup up
              /\ orphans' = (orphans \ up) \cup s
              /\ hgt' = [a \in Blocks |-> IF a \in up THEN hgt[j] + Depth[a] - Depth[j]
                                          ELSE IF a \in s THEN -1 ELSE hgt[a]]
              /\ next' = [a \in Blocks |->
                             IF \E x \in up : Parent[x] = a
                             THEN CHOOSE x \in up : Parent[x] = a ELSE next[a]]
              /\ prev' = [a \in Blocks |-> IF a \in up THEN Parent[a] ELSE prev[a]]
    /\ best' = b
    /\ height' = FindAlternateChainHeight(b)

AddEntry(b) == AddGenesis(b) \/ AddNext(b) \/ AddOrphan(b) \/ Reorganize(b)

\* The ASSERTs of blockstore_add_entry and what it calls.
AddEntryAsserts(b) ==
    \/ best = NoBlock /\ b # Genesis
    \/ ForksAtGenesis(b)
    \/ /\ Forks(b) /\ ~ForksAtGenesis(b)
       /\ Overtakes(b)
       /\ Parent[BranchRoot(b)] \notin blk

-----------------------------------------------------------------------------
(* The life of the process *)

EmptyStore ==
    /\ best' = NoBlock /\ height' = -1
    /\ blk' = {} /\ orphans' = {}
    /\ hgt' = [b \in Blocks |-> -1]
    /\ prev' = [b \in Blocks |-> NoBlock]
    /\ next' = [b \in Blocks |-> NoBlock]
    /\ written' = {} /\ added' = 0 /\ pos' = 0

Init ==
    /\ phase = "down"
    /\ best = NoBlock /\ height = -1
    /\ blk = {} /\ orphans = {}
    /\ hgt = [b \in Blocks |-> -1]
    /\ prev = [b \in Blocks |-> NoBlock]
    /\ next = [b \in Blocks |-> NoBlock]
    /\ written = {} /\ added = 0 /\ pos = 0
    /\ file = <<>> /\ tail = <<>> /\ durable = NoBlock /\ panic = "none"
    /\ budget = [crashes |-> MaxCrashes, failures |-> MaxFailures]

\* blockstore_init: headers.dat is opened.
Open ==
    /\ phase = "down"
    /\ phase' = "loading"
    /\ panic' = "none"
    /\ UNCHANGED <<entryVars, written, added, file, tail, pos, durable, budget>>

\* The process ends; what it had in memory is gone.
Die(cause) ==
    /\ phase' = "down"
    /\ panic' = cause
    /\ EmptyStore

\* One header of the file: blockset_open_file.  A checkpoint that does not
\* match makes blockstore_init fail.
LoadHeader ==
    /\ phase = "loading"
    /\ pos < Len(file)
    /\ LET b == file[pos + 1]
       IN  \/ /\ ~ValidateChkpt(b, height + 1)
              /\ Die("chkpt")
           \/ /\ ValidateChkpt(b, height + 1)
              /\ AddEntryAsserts(b)
              /\ Die("load")
           \/ /\ ValidateChkpt(b, height + 1)
              /\ AddEntry(b)
              /\ written' = written \cup {b}
              /\ pos' = pos + 1
              /\ UNCHANGED <<phase, added, panic>>
    /\ UNCHANGED <<file, tail, durable, budget>>

\* The 80-byte cells from the torn header on that blockset_open_file reads: as
\* many as there are headers behind it (the size is divided, rounding down).
Behind == IF tail = <<>> THEN 0 ELSE Len(tail) - 1

\* Cell i holds the end of one header and the start of the next, at the same
\* offset in all but the first: the same two headers make the same bytes.
SeenBefore(i) == \E k \in 2..(i - 1) : tail[k] = tail[i] /\ tail[k + 1] = tail[i + 1]

\* One misaligned cell.  Its hash is no checkpoint.  Its prevBlock is no
\* header's, which makes it an orphan without a branch that nothing refers to;
\* only the first cell, when the cut left more than prevBlock of the torn
\* header, passes for another child of that header's parent.
LoadMisread ==
    /\ phase = "loading"
    /\ pos >= Len(file) /\ pos < Len(file) + Behind
    /\ \/ /\ height + 1 \in DOMAIN Checkpoint
          /\ Die("chkpt")
       \/ /\ height + 1 \notin DOMAIN Checkpoint
          /\ best = NoBlock \/ SeenBefore(pos - Len(file) + 1)
          /\ Die("load")
       \/ /\ height + 1 \notin DOMAIN Checkpoint
          /\ best # NoBlock /\ ~SeenBefore(pos - Len(file) + 1)
          /\ pos' = pos + 1
          /\ UNCHANGED <<phase, entryVars, written, added, panic>>
       \/ /\ height + 1 \notin DOMAIN Checkpoint
          /\ pos = Len(file) /\ tail[1] # Genesis
          /\ \E j \in Junk \ Known :
                /\ Parent[j] = Parent[tail[1]]
                /\ \/ AddEntryAsserts(j) /\ Die("load")
                   \/ /\ AddEntry(j)
                      /\ written' = written \cup {j}
                      /\ pos' = pos + 1
                      /\ UNCHANGED <<phase, added, panic>>
    /\ UNCHANGED <<file, tail, durable, budget>>

LoadDone ==
    /\ phase = "loading"
    /\ pos = Len(file) + Behind
    /\ phase' = "running"
    /\ UNCHANGED <<entryVars, written, added, file, tail, pos, durable, panic, budget>>

\* blockstore_add_header, for the next header of a headers message.  A peer
\* answers our locator with headers that connect to it, parents first.
AddHeader(b) ==
    /\ phase = "running"
    /\ added < MaxBatch /\ Len(tail) =< MaxTail
    /\ b \notin Known /\ b \notin Junk
    /\ b # Genesis => /\ Path[b] \ {b} \subseteq Known
                      /\ best # NoBlock
    /\ \/ /\ ~ValidateChkpt(b, height + 1) \/ AddEntryAsserts(b)
          /\ Die("add")
       \/ /\ ValidateChkpt(b, height + 1)
          /\ AddEntry(b)
          /\ added' = added + 1
          /\ UNCHANGED <<phase, written, pos, panic>>
    /\ UNCHANGED <<file, tail, durable, budget>>

-----------------------------------------------------------------------------
(* blockstore_write_headers *)

\* Mutant: only the newest entry.
UnwrittenTip == IF best = NoBlock \/ best \in written THEN <<>> ELSE <<best>>

\* The unwritten entries met by following prev from best_chain, oldest first.
Unwritten ==
    LET walk[e \in Blocks \cup {NoBlock}] ==
            IF e = NoBlock \/ e \in written THEN <<>> ELSE Append(walk[prev[e]], e)
    IN  walk[best]

Elements(s) == {s[i] : i \in DOMAIN s}

\* Headers are appended at bs->filesize, behind a torn header if there is one.
Stored(s) ==
    IF tail = <<>> THEN file' = file \o s /\ tail' = tail
                   ELSE file' = file /\ tail' = tail \o s

\* The entries are marked as written before the write; a failed write leaves
\* them out of the file (bs->filesize stays, the next write goes over it).
WriteHeaders ==
    /\ written' = written \cup Elements(Unwritten)
    /\ \/ /\ Stored(Unwritten)
          /\ durable' = best
          /\ UNCHANGED budget
       \/ /\ Unwritten # <<>>
          /\ budget.failures > 0
          /\ budget' = [budget EXCEPT !.failures = @ - 1]
          /\ UNCHANGED <<file, tail, durable>>

\* The end of a headers message that added headers: they are written at once.
EndOfMessage ==
    /\ phase = "running"
    /\ added > 0
    /\ \/ /\ Len(Unwritten) >= WriteCap
          /\ Die("cap")
          /\ UNCHANGED <<file, tail, durable, budget>>
       \/ /\ Len(Unwritten) < WriteCap
          /\ WriteHeaders
          /\ added' = 0
          /\ UNCHANGED <<phase, entryVars, pos, panic>>

\* blockstore_exit: what is not written yet is written, then all is freed.
Exit ==
    /\ phase = "running"
    /\ added = 0
    /\ budget.crashes > 0
    /\ Len(Unwritten) < WriteCap
    /\ Stored(Unwritten)
    /\ durable' = best
    /\ budget' = [budget EXCEPT !.crashes = @ - 1]
    /\ Die("none")

\* A hard kill, at any moment.  During the write it leaves the first n of the
\* headers in the file, and perhaps a piece of the one after them (once: a
\* second tear behind the first would shift the cells behind it again).
Crash ==
    /\ phase # "down"
    /\ budget.crashes > 0
    /\ budget' = [budget EXCEPT !.crashes = @ - 1]
    /\ \/ UNCHANGED <<file, tail>>
       \/ /\ phase = "running" /\ added > 0 /\ Len(Unwritten) < WriteCap
          /\ \E n \in 1..Len(Unwritten) : Stored(SubSeq(Unwritten, 1, n))
       \/ /\ phase = "running" /\ added > 0 /\ Len(Unwritten) < WriteCap
          /\ tail = <<>>
          /\ \E n \in 0..(Len(Unwritten) - 1) :
                /\ file' = file \o SubSeq(Unwritten, 1, n)
                /\ tail' = <<Unwritten[n + 1]>>
    /\ Die("none")
    /\ UNCHANGED durable

Next ==
    \/ Open \/ LoadHeader \/ LoadMisread \/ LoadDone \/ EndOfMessage \/ Exit \/ Crash
    \/ \E b \in Blocks : AddHeader(b)

Spec == Init /\ [][Next]_vars

-----------------------------------------------------------------------------
(* Correctness *)

\* The state has the shape the C structures give it.
TypeOK ==
    /\ phase \in {"loading", "running", "down"}
    /\ best \in Blocks \cup {NoBlock} /\ durable \in Blocks \cup {NoBlock}
    /\ height \in Int
    /\ blk \subseteq Blocks /\ orphans \subseteq Blocks /\ written \subseteq Blocks
    /\ hgt \in [Blocks -> Int]
    /\ prev \in [Blocks -> Blocks \cup {NoBlock}]
    /\ next \in [Blocks -> Blocks \cup {NoBlock}]
    /\ added \in 0..MaxBatch /\ pos \in 0..(Len(file) + Behind)
    /\ file \in Seq(Blocks) /\ tail \in Seq(Blocks)
    /\ panic \in {"none", "load", "chkpt", "add", "cap"}
    /\ budget \in [crashes : Nat, failures : Nat]

\* After any sequence of forks and reorganizations hash_blk is exactly the
\* chain from genesis to best_chain, every entry of it has its height, prev
\* and next link neighbours of that chain and nothing else, and everything
\* else known is an orphan.
ChainLinked ==
    best # NoBlock =>
        /\ blk = Path[best]
        /\ height = Depth[best]
        /\ blk \cap orphans = {}
        /\ \A b \in blk : hgt[b] = Depth[b]
        /\ \A b \in orphans : hgt[b] = -1
        /\ \A b \in blk \ {Genesis} : prev[b] = Parent[b] /\ next[Parent[b]] = b
        /\ next[best] = NoBlock

\* Every write so far went into the file, where it can be read: none failed,
\* and nothing stands behind a torn header.
NoLostWrite == budget.failures = MaxFailures /\ Len(tail) =< 1

\* The best chain is as long as any chain known: no longer branch is left
\* among the orphans (unless a write was lost before: its gap hides a branch).
LongestKnown ==
    NoLostWrite => \A b \in Known : Depth[b] =< height

\* Replaying the file brings back the chain the last complete write stood for,
\* or a longer one of which a write cut short at any byte left enough.  (Once a
\* write was lost this is not so: see LoadsWhatItWrote.)
ReloadAgrees ==
    NoLostWrite /\ phase = "loading" /\ pos = Len(file) =>
        best = durable \/ (best # NoBlock /\ durable # NoBlock /\ Depth[best] > Depth[durable])
        \/ durable = NoBlock

-----------------------------------------------------------------------------
(* Claims of the code that do not hold: see README.md *)

\* A headers message has at most MaxBatch headers, so the write at its end
\* stays under the cap of blockstore_write_headers (comment of
\* peergroup_handle_headers).
WriteWithinCap == panic # "cap"

\* A file that only this code has written, with no write failed, is loaded
\* again: no ASSERT of blockstore_add_entry fails in blockset_open_file.
LoadsWhatItWrote == budget.failures = MaxFailures => panic # "load"

=============================================================================
