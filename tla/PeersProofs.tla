----------------------------- MODULE PeersProofs -----------------------------
(***************************************************************************)
(* Proofs about the connections, for any set of addresses, address book    *)
(* and limits, and any number of failures, restarts and messages: the      *)
(* group, the address book and the download peer agree (BookAgrees,        *)
(* DownloadPeerAsked), and the group does not outgrow its limit            *)
(* (EstablishedBound).                                                     *)
(*                                                                         *)
(* They hold if no two seeds of a start have the same address: with two,   *)
(* peergroup_add_peer_from_str frees the entry of a peer it has just       *)
(* added.                                                                  *)
(*                                                                         *)
(* BookOK is what every operation on the group keeps: the peers are the    *)
(* addresses marked connected, they are in the book and marked tried.  It  *)
(* is why a refill cannot pick an address that is in use, so that a peer   *)
(* that is up stays the one it was until peer_destroy.                     *)
(***************************************************************************)
EXTENDS Peers, FiniteSetTheorems, SequenceTheorems, NaturalsInduction,
        WellFoundedInduction, TLAPS

\* The seeds of a start are different addresses.
DistinctSeeds ==
    \A l \in SeedLists : \A i, j \in 1..Len(l) : i # j => l[i] # l[j]

BookOK(n) ==
    /\ n \in NetType
    /\ n.conn = PeerList(n)
    /\ PeerList(n) \subseteq Live(n)
    /\ PeerList(n) \subseteq n.tried
    /\ n.active = Cardinality(PeerList(n))

\* The download peer is up, and so is whoever has headers to send.
StreamOK(n) ==
    /\ n.dl # NoPtr => n.dl \in UpPeers(n)
    /\ n.asked \subseteq UpPeers(n)

\* Whoever is asked for headers is the download peer or sent some while there
\* was none.
Driven(n) == n.asked \subseteq {n.dl} \union n.volunteers

GroupInv ==
    /\ TypeOK
    /\ BookOK(net) /\ StreamOK(net)
    /\ state \in {"STARTING", "HEADERS"} => Driven(net)
    /\ CountConnected(net) =< MaxActive

-----------------------------------------------------------------------------
(* Updates of the record *)

\* There are finitely many peers.
LEMMA PeersFinite ==
    /\ IsFiniteSet(Ptrs)
    /\ \A n : /\ IsFiniteSet(PeerList(n)) /\ Cardinality(PeerList(n)) \in Nat
              /\ IsFiniteSet(UpPeers(n)) /\ Cardinality(UpPeers(n)) \in Nat
<1>1. IsFiniteSet({1, 2})
  <2>1. IsFiniteSet(({} \cup {1}) \cup {2})
    BY FS_EmptySet, FS_AddElement
  <2>2. ({} \cup {1}) \cup {2} = {1, 2}
    OBVIOUS
  <2> QED BY <2>1, <2>2, Zenon
<1>2. IsFiniteSet(Ptrs)
  BY <1>1, PeersAssumption, FS_Product DEF Ptrs
<1>3. ASSUME NEW T \in SUBSET Ptrs PROVE IsFiniteSet(T) /\ Cardinality(T) \in Nat
  BY <1>2, FS_Subset, FS_CardinalityType
<1>4. \A n : PeerList(n) \in SUBSET Ptrs /\ UpPeers(n) \in SUBSET Ptrs
  BY DEF PeerList, UpPeers
<1> QED
  BY <1>2, <1>3, <1>4

\* Nothing the download of headers looks at differs.
SameStream(n, r) == /\ UpPeers(r) = UpPeers(n) /\ r.dl = n.dl /\ r.asked = n.asked
                    /\ r.volunteers = n.volunteers

\* The fields of a group.
LEMMA NetFields ==
    ASSUME NEW n \in NetType
    PROVE  /\ n.entry \in [Addr -> 0..2] /\ n.phase \in [Ptrs -> Phases]
           /\ n.conn \subseteq Ptrs /\ n.tried \subseteq Ptrs /\ n.asked \subseteq Ptrs
           /\ n.unsent \subseteq Ptrs /\ n.volunteers \subseteq Ptrs
           /\ n.active \in Nat /\ n.unsaved \in Nat /\ n.dl \in Ptrs \union {NoPtr}
BY DEF NetType

\* peergroup_add_peer for addresses of the book that are not in use.
LEMMA AddPeersKeeps ==
    ASSUME NEW n, BookOK(n), NEW S \in SUBSET Live(n), S \cap n.conn = {}
    PROVE  BookOK(AddPeers(n, S)) /\ SameStream(n, AddPeers(n, S))
<1> DEFINE r == AddPeers(n, S)
           ph == [q \in Ptrs |-> IF q \in S THEN "connecting" ELSE n.phase[q]]
<1>1. /\ n \in NetType /\ n.phase \in [Ptrs -> Phases] /\ n.active \in Nat
      /\ n.conn \subseteq Ptrs /\ n.tried \subseteq Ptrs
      /\ S \subseteq Ptrs
  BY NetFields DEF BookOK, Live
<1>2. IsFiniteSet(S) /\ Cardinality(S) \in Nat
  BY <1>1, PeersFinite, FS_Subset, FS_CardinalityType
<1>3. ph \in [Ptrs -> Phases]
  BY <1>1 DEF Phases
<1>4. /\ r.entry = n.entry /\ r.conn = n.conn \union S /\ r.tried = n.tried \union S
      /\ r.phase = ph /\ r.active = n.active + Cardinality(S)
      /\ r.dl = n.dl /\ r.asked = n.asked /\ r.volunteers = n.volunteers
  BY <1>1 DEF AddPeers, NetType
<1>5. r \in NetType
  <2>1. n.active + Cardinality(S) \in Nat
    BY <1>1, <1>2
  <2> HIDE DEF ph
  <2>2. r = [n EXCEPT !.active = n.active + Cardinality(S), !.conn = n.conn \union S,
                      !.tried = n.tried \union S, !.phase = ph]
    BY DEF AddPeers, ph
  <2> QED
    BY <1>1, <1>3, <2>1, <2>2 DEF NetType
<1> HIDE DEF r
<1>6. PeerList(r) = PeerList(n) \union S /\ PeerList(n) \cap S = {}
  BY <1>1, <1>4 DEF PeerList, BookOK
<1>7. UpPeers(r) = UpPeers(n)
  <2>1. S \cap UpPeers(n) = {}
    BY <1>1 DEF UpPeers, BookOK, PeerList
  <2> QED
    BY <1>1, <1>4, <2>1 DEF UpPeers
<1>8. Live(r) = Live(n)
  BY <1>4 DEF Live
<1>9. Cardinality(PeerList(r)) = Cardinality(PeerList(n)) + Cardinality(S)
  <2>1. IsFiniteSet(PeerList(n)) /\ Cardinality(PeerList(n)) \in Nat
    BY PeersFinite
  <2>2. Cardinality(PeerList(n) \cap S) = 0
    BY <1>6, FS_EmptySet
  <2>3. Cardinality(PeerList(n) \union S)
          = Cardinality(PeerList(n)) + Cardinality(S) - Cardinality(PeerList(n) \cap S)
    BY <1>2, <2>1, FS_Union
  <2> QED
    BY <1>2, <1>6, <2>1, <2>2, <2>3
<1>10. BookOK(r)
  BY <1>4, <1>5, <1>6, <1>8, <1>9 DEF BookOK
<1> QED
  BY <1>4, <1>7, <1>10 DEF SameStream, r

\* peergroup_refill
LEMMA RefillsKeep ==
    ASSUME NEW n, BookOK(n), NEW init, NEW r \in Refills(n, init)
    PROVE  BookOK(r) /\ SameStream(n, r)
<1>1. CASE r = n
  BY <1>1 DEF SameStream
<1>2. CASE r # n
  <2>1. PICK S \in SUBSET Eligible(n) : r = AddPeers(n, S)
    BY <1>2 DEF Refills
  <2>2. S \in SUBSET Live(n) /\ S \cap n.conn = {}
    BY DEF Eligible
  <2> QED
    BY <2>1, <2>2, AddPeersKeeps
<1> QED
  BY <1>1, <1>2

\* The part of peer_destroy that takes a peer out of the group.
LEMMA DestroyedKeeps ==
    ASSUME NEW n, BookOK(n), NEW q \in PeerList(n), NEW err
    PROVE  LET r == Destroyed(n, q, err) IN
           /\ BookOK(r)
           /\ UpPeers(r) = UpPeers(n) \ {q} /\ r.asked = n.asked \ {q}
           /\ r.volunteers = n.volunteers \ {q}
           /\ r.dl = IF n.dl = q THEN NoPtr ELSE n.dl
<1> DEFINE r == Destroyed(n, q, err)
           ph == [n.phase EXCEPT ![q] = "none"]
           en == IF err \in Keeps THEN n.entry ELSE [n.entry EXCEPT ![q[1]] = 0]
           dl == IF n.dl = q THEN NoPtr ELSE n.dl
<1>1. /\ n \in NetType /\ n.phase \in [Ptrs -> Phases] /\ n.active \in Nat
      /\ n.conn \subseteq Ptrs /\ n.tried \subseteq Ptrs /\ n.entry \in [Addr -> 0..2]
      /\ n.asked \subseteq Ptrs /\ n.unsent \subseteq Ptrs /\ n.dl \in Ptrs \union {NoPtr}
      /\ n.volunteers \subseteq Ptrs
      /\ q \in Ptrs /\ q[1] \in Addr
  BY NetFields DEF BookOK, PeerList, Ptrs
<1>2. ph \in [Ptrs -> Phases] /\ en \in [Addr -> 0..2] /\ dl \in Ptrs \union {NoPtr}
  BY <1>1 DEF Phases
<1>3. /\ IsFiniteSet(PeerList(n)) /\ Cardinality(PeerList(n)) \in Nat
      /\ Cardinality(PeerList(n) \ {q}) = Cardinality(PeerList(n)) - 1
      /\ Cardinality(PeerList(n) \ {q}) \in Nat
  BY PeersFinite, FS_RemoveElement, FS_CardinalityType
<1>4. n.active - 1 \in Nat /\ n.active - 1 = Cardinality(PeerList(n) \ {q})
  BY <1>1, <1>3 DEF BookOK
<1>5. r = [n EXCEPT !.conn = n.conn \ {q}, !.asked = n.asked \ {q},
                    !.volunteers = n.volunteers \ {q}, !.unsent = n.unsent \ {q},
                    !.phase = ph, !.active = n.active - 1, !.dl = dl, !.entry = en]
  BY <1>1 DEF Destroyed, RemoveEntry, NetType
<1> HIDE DEF r, ph, en, dl
<1>6. /\ r.entry = en /\ r.conn = n.conn \ {q} /\ r.tried = n.tried /\ r.phase = ph
      /\ r.active = n.active - 1 /\ r.dl = dl /\ r.asked = n.asked \ {q}
      /\ r.volunteers = n.volunteers \ {q}
  BY <1>1, <1>5 DEF NetType
<1>7. r \in NetType
  BY <1>1, <1>2, <1>4, <1>5 DEF NetType
<1>8. PeerList(r) = PeerList(n) \ {q} /\ UpPeers(r) = UpPeers(n) \ {q}
  BY <1>1, <1>6 DEF PeerList, UpPeers, ph
<1>9. ASSUME NEW p \in PeerList(n) \ {q} PROVE p \in Live(r)
  <2>1. p \in Ptrs /\ p[1] \in Addr /\ n.entry[p[1]] = p[2] /\ n.entry[q[1]] = q[2]
    BY <1>9 DEF BookOK, Live, PeerList, Ptrs
  <2>2. p[1] # q[1]
    <3>1. p = <<p[1], p[2]>> /\ q = <<q[1], q[2]>>
      BY <1>1, <2>1 DEF Ptrs
    <3> QED
      BY <2>1, <3>1, <1>9
  <2>3. en[p[1]] = p[2]
    BY <1>1, <2>1, <2>2 DEF en
  <2> QED
    BY <2>1, <2>3, <1>6 DEF Live
<1>10. BookOK(r)
  BY <1>4, <1>6, <1>7, <1>8, <1>9 DEF BookOK
<1> QED
  BY <1>6, <1>8, <1>10 DEF r, dl

\* What peer_destroy of q leaves: q is gone, and if it was the download peer
\* there is none.
After(n, q, r) ==
    /\ BookOK(r) /\ StreamOK(r)
    /\ UpPeers(r) = UpPeers(n) \ {q}
    /\ Driven(n) => Driven(r)

\* peer_destroy
LEMMA DestroysKeep ==
    ASSUME NEW n, BookOK(n), StreamOK(n), NEW q \in PeerList(n), NEW err,
           NEW r \in Destroys(n, q, err)
    PROVE  After(n, q, r)
<1> DEFINE d == Destroyed(n, q, err)
<1>1. /\ BookOK(d) /\ UpPeers(d) = UpPeers(n) \ {q} /\ d.asked = n.asked \ {q}
      /\ d.volunteers = n.volunteers \ {q}
      /\ d.dl = IF n.dl = q THEN NoPtr ELSE n.dl
  BY DestroyedKeeps
<1>2. q \in n.conn
  BY DEF BookOK
<1>3. r = d \/ r \in Refills(d, FALSE)
  BY <1>2 DEF Destroys
<1> HIDE DEF d
<1>4. BookOK(r) /\ SameStream(d, r)
  BY <1>1, <1>3, RefillsKeep DEF SameStream
<1> QED
  BY <1>1, <1>4 DEF After, StreamOK, SameStream, Driven

\* A message sent: only the send buffers change.
LEMMA SentKeeps ==
    ASSUME NEW n, BookOK(n), NEW S
    PROVE  /\ BookOK(SentTo(n, S)) /\ SameStream(n, SentTo(n, S))
           /\ SentTo(n, S).phase = n.phase
<1> DEFINE r == SentTo(n, S)
<1>1. n \in NetType /\ n.unsent \subseteq Ptrs
  BY NetFields DEF BookOK
<1>2. /\ r.entry = n.entry /\ r.conn = n.conn /\ r.tried = n.tried /\ r.phase = n.phase
      /\ r.active = n.active /\ r.dl = n.dl /\ r.asked = n.asked
      /\ r.volunteers = n.volunteers
  BY <1>1 DEF NetType, SentTo
<1>3. r \in NetType
  BY <1>1 DEF NetType, SentTo
<1> HIDE DEF r
<1>4. BookOK(r) /\ SameStream(n, r)
  BY <1>2, <1>3 DEF BookOK, SameStream, PeerList, UpPeers, Live
<1> QED
  BY <1>2, <1>4 DEF r

\* The handshake of a peer goes on.
LEMMA PhaseKeeps ==
    ASSUME NEW n, BookOK(n), NEW q \in PeerList(n), NEW ph \in Phases \ {"none"}
    PROVE  LET r == [n EXCEPT !.phase[q] = ph] IN
           /\ BookOK(r) /\ r.dl = n.dl /\ r.asked = n.asked /\ r.volunteers = n.volunteers
           /\ UpPeers(r) = IF ph = "up" THEN UpPeers(n) \union {q} ELSE UpPeers(n) \ {q}
<1> DEFINE r == [n EXCEPT !.phase[q] = ph]
<1>1. n \in NetType /\ n.phase \in [Ptrs -> Phases] /\ q \in Ptrs
  BY NetFields DEF BookOK, PeerList
<1>2. /\ r.entry = n.entry /\ r.conn = n.conn /\ r.tried = n.tried
      /\ r.phase = [n.phase EXCEPT ![q] = ph]
      /\ r.active = n.active /\ r.dl = n.dl /\ r.asked = n.asked
      /\ r.volunteers = n.volunteers
  BY <1>1 DEF NetType
<1>3. r \in NetType
  <2>1. [n.phase EXCEPT ![q] = ph] \in [Ptrs -> Phases]
    BY <1>1
  <2> QED
    BY <1>1, <2>1 DEF NetType
<1> HIDE DEF r
<1>4. PeerList(r) = PeerList(n) /\ Live(r) = Live(n)
  BY <1>1, <1>2 DEF PeerList, Live
<1>5. UpPeers(r) = IF ph = "up" THEN UpPeers(n) \union {q} ELSE UpPeers(n) \ {q}
  BY <1>1, <1>2 DEF UpPeers
<1>6. BookOK(r)
  BY <1>2, <1>3, <1>4 DEF BookOK
<1> QED
  BY <1>2, <1>5, <1>6 DEF r

\* peergroup_download_headers and the choice of a driver change dl and asked.
LEMMA StreamChange ==
    ASSUME NEW n, BookOK(n), NEW r \in NetType,
           r.entry = n.entry, r.conn = n.conn, r.tried = n.tried, r.phase = n.phase,
           r.active = n.active
    PROVE  BookOK(r) /\ UpPeers(r) = UpPeers(n)
BY DEF BookOK, PeerList, UpPeers, Live

-----------------------------------------------------------------------------
(* The start *)

\* No peer uses the address a.
Idle(n, a) == \A q \in PeerList(n) : q[1] # a

\* n with a new object for a in its book.
Entered(n, a) ==
    [n EXCEPT !.entry = [n.entry EXCEPT ![a] = 1], !.conn = n.conn \ {<<a, 1>>},
              !.tried = n.tried \ {<<a, 1>>}, !.unsaved = n.unsaved + 1]

\* An address without a peer gets its first object.
LEMMA EnteredKeeps ==
    ASSUME NEW n, BookOK(n), NEW a \in Addr, Idle(n, a)
    PROVE  LET r == Entered(n, a) IN
           /\ BookOK(r) /\ SameStream(n, r) /\ PeerList(r) = PeerList(n)
           /\ <<a, 1>> \in Live(r) /\ <<a, 1>> \notin r.conn /\ r.entry[a] = 1
<1> DEFINE r == Entered(n, a)
           en == [n.entry EXCEPT ![a] = 1]
<1>1. /\ n \in NetType /\ n.entry \in [Addr -> 0..2] /\ n.conn \subseteq Ptrs
      /\ n.tried \subseteq Ptrs /\ n.unsaved \in Nat /\ n.phase \in [Ptrs -> Phases]
  BY NetFields DEF BookOK
<1>2. en \in [Addr -> 0..2] /\ n.unsaved + 1 \in Nat
  BY <1>1
<1>3. /\ r.entry = en /\ r.conn = n.conn \ {<<a, 1>>} /\ r.tried = n.tried \ {<<a, 1>>}
      /\ r.phase = n.phase /\ r.active = n.active /\ r.dl = n.dl /\ r.asked = n.asked
      /\ r.volunteers = n.volunteers
  BY <1>1 DEF NetType, Entered
<1>4. r \in NetType
  <2> HIDE DEF en
  <2>1. r = [n EXCEPT !.entry = en, !.conn = n.conn \ {<<a, 1>>},
                      !.tried = n.tried \ {<<a, 1>>}, !.unsaved = n.unsaved + 1]
    BY DEF Entered, en
  <2> QED
    BY <1>1, <1>2, <2>1 DEF NetType
<1> HIDE DEF r
<1>5. PeerList(r) = PeerList(n) /\ SameStream(n, r)
  BY <1>3 DEF PeerList, SameStream, UpPeers
<1>6. <<a, 1>> \in Ptrs /\ <<a, 1>> \notin PeerList(n) /\ <<a, 1>> \notin n.conn
  BY DEF Idle, Ptrs, BookOK
<1>7. ASSUME NEW p \in PeerList(n) PROVE p \in Live(r)
  <2>1. p \in Ptrs /\ p[1] \in Addr /\ n.entry[p[1]] = p[2] /\ p[1] # a
    BY <1>7 DEF BookOK, Live, Idle, Ptrs
  <2> QED
    BY <1>1, <1>3, <2>1 DEF Live
<1>8. <<a, 1>> \in Live(r) /\ r.entry[a] = 1
  BY <1>1, <1>3, <1>6 DEF Live
<1>9. BookOK(r)
  BY <1>3, <1>4, <1>5, <1>6, <1>7 DEF BookOK
<1> QED
  BY <1>3, <1>5, <1>6, <1>8, <1>9 DEF r

\* The two ways an address gets a new object.
LEMMA EntryIs ==
    ASSUME NEW n, BookOK(n), NEW a \in Addr, Idle(n, a)
    PROVE  /\ n.entry[a] = 0 => AddEntry(n, a) = Entered(n, a)
           /\ ReplaceEntry(n, a) = Entered(n, a)
<1>1. n \in NetType /\ n.entry \in [Addr -> 0..2] /\ n.phase \in [Ptrs -> Phases]
  BY NetFields DEF BookOK
<1>2. <<a, 1>> \in Ptrs /\ n.phase[<<a, 1>>] = "none"
  BY DEF Idle, PeerList, Ptrs
<1>3. ASSUME n.entry[a] = 0 PROVE AddEntry(n, a) = Entered(n, a)
  <2>1. FreeObject(n, a) = 1
    BY <1>2, <1>3 DEF FreeObject
  <2>2. Fresh(n, a) = [n EXCEPT !.entry = [n.entry EXCEPT ![a] = 1],
             !.conn = n.conn \ {<<a, 1>>}, !.tried = n.tried \ {<<a, 1>>}]
    BY <1>1, <2>1 DEF Fresh, NetType
  <2> QED
    BY <1>1, <1>3, <2>2 DEF AddEntry, Entered, NetType
<1>4. ReplaceEntry(n, a) = Entered(n, a)
  <2> DEFINE m == RemoveEntry(n, a)
  <2>1. m.entry = [n.entry EXCEPT ![a] = 0] /\ m.phase = n.phase /\ m.conn = n.conn
        /\ m.tried = n.tried /\ m.unsaved = n.unsaved /\ m \in NetType
    BY <1>1 DEF RemoveEntry, NetType
  <2>2. FreeObject(m, a) = 1
    BY <1>1, <1>2, <2>1 DEF FreeObject
  <2>3. [m.entry EXCEPT ![a] = 1] = [n.entry EXCEPT ![a] = 1]
    BY <1>1, <2>1
  <2>4. ReplaceEntry(n, a) = [m EXCEPT !.entry = [m.entry EXCEPT ![a] = 1],
             !.conn = m.conn \ {<<a, 1>>}, !.tried = m.tried \ {<<a, 1>>},
             !.unsaved = m.unsaved + 1]
    BY <2>1, <2>2 DEF ReplaceEntry, Fresh, NetType
  <2>5. ReplaceEntry(n, a) = [m EXCEPT !.entry = [n.entry EXCEPT ![a] = 1],
             !.conn = n.conn \ {<<a, 1>>}, !.tried = n.tried \ {<<a, 1>>},
             !.unsaved = n.unsaved + 1]
    BY <2>1, <2>3, <2>4
  <2>6. m = [n EXCEPT !.entry = m.entry]
    BY <1>1, <2>1 DEF RemoveEntry, NetType
  <2> HIDE DEF m
  <2> QED
    BY <1>1, <2>5, <2>6 DEF Entered, NetType
<1> QED
  BY <1>3, <1>4

\* peergroup_add_peer_from_str for an address without a peer.
LEMMA SeedKeeps ==
    ASSUME NEW n, BookOK(n), NEW a \in Addr, Idle(n, a)
    PROVE  /\ BookOK(Seed(n, a)) /\ SameStream(n, Seed(n, a))
           /\ \A q \in PeerList(Seed(n, a)) : q \in PeerList(n) \/ q[1] = a
<1> DEFINE m == Entered(n, a)
           q == <<a, 1>>
           r == AddPeers(m, {q})
<1>1. /\ BookOK(m) /\ SameStream(n, m) /\ PeerList(m) = PeerList(n)
      /\ q \in Live(m) /\ q \notin m.conn /\ m.entry[a] = 1
  BY EnteredKeeps
<1>2. Seed(n, a) = AddPeer(m, q)
  <2>1. m = IF n.entry[a] = 0 THEN AddEntry(n, a) ELSE ReplaceEntry(n, a)
    BY EntryIs
  <2> HIDE DEF m
  <2> QED
    BY <1>1, <2>1 DEF Seed, PtrOf
<1> HIDE DEF m
<1>3. AddPeer(m, q) = r
  <2>1. m.phase \in [Ptrs -> Phases] /\ q \in Ptrs
    BY <1>1, NetFields DEF BookOK, Live
  <2>2. [m.phase EXCEPT ![q] = "connecting"]
          = [p \in Ptrs |-> IF p \in {q} THEN "connecting" ELSE m.phase[p]]
    BY <2>1
  <2>3. Cardinality({q}) = 1
    BY FS_Singleton
  <2>4. m \in NetType
    BY <1>1 DEF BookOK
  <2> QED
    BY <2>2, <2>3, <2>4 DEF AddPeer, AddPeers, NetType
<1>4. BookOK(r) /\ SameStream(m, r)
  BY <1>1, AddPeersKeeps
<1>5. ASSUME NEW p \in PeerList(r), p # q PROVE p \in PeerList(m)
  <2>1. m.phase \in [Ptrs -> Phases] /\ m \in NetType
    BY <1>1, NetFields DEF BookOK
  <2>2. r.phase = [x \in Ptrs |-> IF x \in {q} THEN "connecting" ELSE m.phase[x]]
    BY <2>1 DEF AddPeers, NetType
  <2> HIDE DEF r, q
  <2> QED
    BY <1>5, <2>2 DEF PeerList
<1> QED
  BY <1>1, <1>2, <1>3, <1>4, <1>5 DEF SameStream

\* A set of numbers that is not empty has a least element.
LEMMA LeastNumber ==
    ASSUME NEW T \in SUBSET Nat, T # {}
    PROVE  \E x \in T : \A y \in T : x =< y
<1>1. \E R : IsWellFoundedOn(R, Nat) /\ \A x, y \in Nat : <<y, x>> \in R <=> y < x
  <2>1. IsWellFoundedOn(OpToRel(<, Nat), Nat)
    BY NatLessThanWellFounded
  <2>2. \A x, y \in Nat : <<y, x>> \in OpToRel(<, Nat) <=> y < x
    BY DEF OpToRel
  <2> QED
    BY <2>1, <2>2, Zenon
<1>2. PICK R : IsWellFoundedOn(R, Nat) /\ \A x, y \in Nat : <<y, x>> \in R <=> y < x
  BY <1>1
<1>3. PICK x \in T : \A y \in T : ~(<<y, x>> \in R)
  BY <1>2, WFMin
<1>4. \A y \in T : ~(y < x)
  BY <1>2, <1>3, Zenon
<1>5. \A y \in T : x =< y
  BY <1>4
<1> QED
  BY <1>5

\* The first k groups of peergroup_seed, from n on.
Seeds(s, n, l, k) == s[0] = n /\ \A i \in 1..k : s[i] = Seed(s[i - 1], l[i])

\* The recursive definition of Seeded has a solution.
LEMMA SeededIs ==
    ASSUME NEW n, NEW l \in SeedLists
    PROVE  \E s : Seeds(s, n, l, Len(l)) /\ Seeded(n, l) = s[Len(l)]
<1>0. Len(l) \in Nat
  BY PeersAssumption, LenProperties
<1> DEFINE N == Len(l)
           Bad == {k \in Nat : k =< N /\ ~ \E s : s = [i \in 0..N |-> s[i]] /\ Seeds(s, n, l, k)}
<1>1. Bad = {}
  <2> SUFFICES ASSUME Bad # {} PROVE FALSE
    OBVIOUS
  <2>1. PICK k \in Bad : \A j \in Bad : k =< j
    <3>1. Bad \in SUBSET Nat
      OBVIOUS
    <3> HIDE DEF Bad
    <3> QED
      BY <3>1, LeastNumber
  <2>2. CASE k = 0
    <3> DEFINE t == [i \in 0..N |-> n]
    <3>1. t = [i \in 0..N |-> t[i]] /\ t[0] = n /\ \A i \in 1..0 : t[i] = Seed(t[i - 1], l[i])
      BY <1>0
    <3> HIDE DEF t
    <3> QED
      BY <2>1, <2>2, <3>1 DEF Seeds
  <2>3. CASE k # 0
    <3>1. k - 1 \in Nat /\ k \in 1..N /\ k - 1 \notin Bad
      BY <1>0, <2>1, <2>3
    <3>2. PICK s : s = [i \in 0..N |-> s[i]] /\ Seeds(s, n, l, k - 1)
      BY <1>0, <3>1
    <3> DEFINE t == [i \in 0..N |-> IF i < k THEN s[i] ELSE Seed(s[k - 1], l[k])]
    <3>3. t = [i \in 0..N |-> t[i]]
      OBVIOUS
    <3>4. t[0] = n
      BY <1>0, <3>1, <3>2 DEF Seeds
    <3>5. ASSUME NEW i \in 1..k PROVE t[i] = Seed(t[i - 1], l[i])
      <4>1. i \in 0..N /\ i - 1 \in 0..N /\ i - 1 < k
        BY <1>0, <3>1
      <4>2. t[i - 1] = s[i - 1]
        BY <4>1
      <4>3. CASE i < k
        <5>1. i \in 1..(k - 1) /\ t[i] = s[i]
          BY <3>1, <4>1, <4>3
        <5> QED
          BY <3>2, <4>2, <5>1 DEF Seeds
      <4>4. CASE i = k
        <5>1. t[i] = Seed(s[k - 1], l[k])
          BY <3>1, <4>1, <4>4
        <5> QED
          BY <4>2, <4>4, <5>1
      <4> QED
        BY <3>1, <4>3, <4>4
    <3> HIDE DEF t
    <3>6. Seeds(t, n, l, k)
      BY <3>4, <3>5 DEF Seeds
    <3> QED
      BY <2>1, <3>3, <3>6
  <2> QED
    BY <2>2, <2>3
<1>2. \E s : s = [i \in 0..N |-> s[i]] /\ Seeds(s, n, l, N)
  <2>1. N \notin Bad
    BY <1>1
  <2> QED
    BY <1>0, <2>1
<1> DEFINE Eqn(s) == s = [i \in 0..N |-> IF i = 0 THEN n ELSE Seed(s[i - 1], l[i])]
<1>3. \E s : Eqn(s)
  <2>1. PICK s : s = [i \in 0..N |-> s[i]] /\ Seeds(s, n, l, N)
    BY <1>2
  <2>2. \A i \in 0..N : s[i] = IF i = 0 THEN n ELSE Seed(s[i - 1], l[i])
    BY <1>0, <2>1 DEF Seeds
  <2>3. Eqn(s)
    BY <2>1, <2>2
  <2> QED
    BY <2>3
<1>4. Eqn(CHOOSE s : Eqn(s))
  <2> HIDE DEF Eqn
  <2> QED
    BY <1>3
<1>5. Seeded(n, l) = (CHOOSE s : Eqn(s))[N]
  BY DEF Seeded
<1> DEFINE u == CHOOSE s : Eqn(s)
<1>6. Seeds(u, n, l, N)
  <2>1. Eqn(u)
    BY <1>4
  <2> HIDE DEF u
  <2>2. \A i \in 0..N : u[i] = IF i = 0 THEN n ELSE Seed(u[i - 1], l[i])
    BY <2>1
  <2> QED
    BY <1>0, <2>2 DEF Seeds
<1> QED
  BY <1>5, <1>6

\* peergroup_seed with different addresses, on a group without peers.
LEMMA SeededKeeps ==
    ASSUME DistinctSeeds, NEW l \in SeedLists, NEW n, BookOK(n), PeerList(n) = {}
    PROVE  BookOK(Seeded(n, l)) /\ SameStream(n, Seeded(n, l))
<1>1. PICK s : Seeds(s, n, l, Len(l)) /\ Seeded(n, l) = s[Len(l)]
  BY SeededIs
<1>2. Len(l) \in Nat /\ l \in Seq(Addr)
  BY PeersAssumption, LenProperties
<1> DEFINE OK(k) == /\ BookOK(s[k]) /\ SameStream(n, s[k])
                    /\ \A q \in PeerList(s[k]) : \E i \in 1..k : q[1] = l[i]
           Bad == {k \in 0..Len(l) : ~OK(k)}
<1>3. Bad = {}
  <2> SUFFICES ASSUME Bad # {} PROVE FALSE
    OBVIOUS
  <2>1. PICK k \in Bad : \A j \in Bad : k =< j
    <3>1. Bad \in SUBSET Nat
      BY <1>2
    <3> HIDE DEF Bad
    <3> QED
      BY <3>1, LeastNumber
  <2>2. CASE k = 0
    <3>1. s[0] = n
      BY <1>1 DEF Seeds
    <3>2. OK(0)
      BY <3>1 DEF SameStream
    <3> QED
      BY <2>1, <2>2, <3>2
  <2>3. CASE k # 0
    <3>1. k \in 1..Len(l) /\ k - 1 \in 0..Len(l) /\ k - 1 \notin Bad
      BY <1>2, <2>1, <2>3
    <3>2. OK(k - 1)
      BY <3>1
    <3>3. l[k] \in Addr
      BY <1>2, <3>1, ElementOfSeq
    <3>4. s[k] = Seed(s[k - 1], l[k])
      BY <1>1, <3>1 DEF Seeds
    <3>5. Idle(s[k - 1], l[k])
      <4> SUFFICES ASSUME NEW q \in PeerList(s[k - 1]), q[1] = l[k] PROVE FALSE
        BY DEF Idle
      <4>1. PICK i \in 1..(k - 1) : q[1] = l[i]
        BY <3>2
      <4>2. i \in 1..Len(l) /\ i # k
        BY <1>2, <3>1
      <4> QED
        BY <3>1, <4>1, <4>2 DEF DistinctSeeds
    <3>6. /\ BookOK(s[k]) /\ SameStream(s[k - 1], s[k])
          /\ \A q \in PeerList(s[k]) : q \in PeerList(s[k - 1]) \/ q[1] = l[k]
      BY <3>2, <3>3, <3>4, <3>5, SeedKeeps
    <3>7. ASSUME NEW q \in PeerList(s[k]) PROVE \E i \in 1..k : q[1] = l[i]
      <4>1. CASE q[1] = l[k]
        BY <3>1, <4>1
      <4>2. CASE q \in PeerList(s[k - 1])
        <5>1. PICK i \in 1..(k - 1) : q[1] = l[i]
          BY <3>2, <4>2
        <5>2. i \in 1..k
          BY <3>1
        <5> QED
          BY <5>1, <5>2
      <4> QED
        BY <3>6, <4>1, <4>2
    <3>8. OK(k)
      BY <3>2, <3>6, <3>7 DEF SameStream
    <3> QED
      BY <2>1, <3>8
  <2> QED
    BY <2>2, <2>3
<1>4. OK(Len(l))
  <2>1. Len(l) \in 0..Len(l)
    BY <1>2
  <2> QED
    BY <1>3, <2>1
<1> QED
  BY <1>1, <1>4

-----------------------------------------------------------------------------
(* The steps *)

\* A good group in the state st.
Good(n, st) ==
    /\ BookOK(n) /\ StreamOK(n)
    /\ st \in {"STARTING", "HEADERS"} => Driven(n)
    /\ CountConnected(n) =< MaxActive

\* An empty group is one, with whatever was in the book.
LEMMA EmptyGood ==
    /\ \A st : Good(EmptyNet, st)
    /\ \A file \in SUBSET Addr :
          /\ BookOK(Opened(file)) /\ PeerList(Opened(file)) = {}
          /\ UpPeers(Opened(file)) = {} /\ Opened(file).asked = {} /\ Opened(file).dl = NoPtr
<1> DEFINE none == [q \in Ptrs |-> "none"]
           Blank(en) == [entry |-> en, conn |-> {}, tried |-> {}, phase |-> none, active |-> 0,
                         dl |-> NoPtr, asked |-> {}, volunteers |-> {}, unsent |-> {},
                         unsaved |-> 0]
<1>1. ASSUME NEW en \in [Addr -> 0..2]
      PROVE  /\ BookOK(Blank(en)) /\ PeerList(Blank(en)) = {}
             /\ UpPeers(Blank(en)) = {} /\ Blank(en).asked = {} /\ Blank(en).dl = NoPtr
  <2>1. none \in [Ptrs -> Phases]
    BY DEF Phases
  <2>2. PeerList(Blank(en)) = {} /\ UpPeers(Blank(en)) = {}
    BY DEF PeerList, UpPeers
  <2>3. Blank(en) \in NetType
    BY <2>1 DEF NetType
  <2> QED
    BY <2>2, <2>3, FS_EmptySet DEF BookOK
<1>2. EmptyNet = Blank([a \in Addr |-> 0]) /\ [a \in Addr |-> 0] \in [Addr -> 0..2]
  BY DEF EmptyNet
<1>3. ASSUME NEW file \in SUBSET Addr
      PROVE  LET en == [a \in Addr |-> IF a \in file THEN 1 ELSE 0] IN
             Opened(file) = Blank(en) /\ en \in [Addr -> 0..2]
  BY DEF EmptyNet, Opened
<1> HIDE DEF Blank
<1>4. CountConnected(EmptyNet) =< MaxActive
  BY <1>1, <1>2, FS_EmptySet, PeersBoundsAssumption DEF CountConnected
<1>5. ASSUME NEW st PROVE Good(EmptyNet, st)
  <2>1. /\ BookOK(EmptyNet) /\ UpPeers(EmptyNet) = {}
        /\ EmptyNet.asked = {} /\ EmptyNet.dl = NoPtr
    BY <1>1, <1>2
  <2> QED
    BY <1>4, <2>1 DEF Good, StreamOK, Driven
<1>6. ASSUME NEW file \in SUBSET Addr
      PROVE  /\ BookOK(Opened(file)) /\ PeerList(Opened(file)) = {}
             /\ UpPeers(Opened(file)) = {} /\ Opened(file).asked = {}
             /\ Opened(file).dl = NoPtr
  <2> DEFINE en == [a \in Addr |-> IF a \in file THEN 1 ELSE 0]
  <2>1. Opened(file) = Blank(en) /\ en \in [Addr -> 0..2]
    BY <1>3
  <2> HIDE DEF en
  <2> QED
    BY <1>1, <2>1
<1> QED
  BY <1>5, <1>6

\* A group with the same stream is as good.
LEMMA SameGood ==
    ASSUME NEW n, NEW r, NEW st, Good(n, st), BookOK(r), SameStream(n, r)
    PROVE  Good(r, st)
BY DEF Good, StreamOK, SameStream, CountConnected, Driven

\* So is one that a peer left.
LEMMA AfterGood ==
    ASSUME NEW n, NEW q, NEW r, NEW st, Good(n, st), After(n, q, r)
    PROVE  Good(r, st)
<1>1. CountConnected(r) =< CountConnected(n)
  BY PeersFinite, FS_Subset DEF After, CountConnected
<1>2. CountConnected(r) \in Nat /\ CountConnected(n) \in Nat
  BY PeersFinite DEF CountConnected
<1> QED
  BY <1>1, <1>2, PeersBoundsAssumption DEF Good, After

\* peer_destroy in a good group.
LEMMA DestroysGood ==
    ASSUME NEW n, NEW st, Good(n, st), NEW q \in PeerList(n), NEW err,
           NEW r \in Destroys(n, q, err)
    PROVE  Good(r, st)
BY DestroysKeep, AfterGood DEF Good

\* Where a peer is in its handshake changes nothing if it is not up yet.
LEMMA HandshakeGood ==
    ASSUME NEW n, NEW st, Good(n, st), NEW q \in PeerList(n), q \notin UpPeers(n),
           NEW ph \in Phases \ {"none", "up"}
    PROVE  Good([n EXCEPT !.phase[q] = ph], st)
<1> DEFINE r == [n EXCEPT !.phase[q] = ph]
<1>1. BookOK(r) /\ r.dl = n.dl /\ r.asked = n.asked /\ r.volunteers = n.volunteers
      /\ UpPeers(r) = UpPeers(n) \ {q}
  <2>1. BookOK(n) /\ ph \in Phases \ {"none"} /\ ph # "up"
    BY DEF Good
  <2> QED
    BY <2>1, PhaseKeeps, ZenonT(60)
<1> HIDE DEF r
<1>2. SameStream(n, r)
  BY <1>1 DEF SameStream
<1>3. Good(r, st)
  BY <1>1, <1>2, SameGood
<1> QED
  BY <1>3 DEF r

\* A peer that is not up is in the group until its handshake is over.
LEMMA Hearing ==
    ASSUME GroupInv, NEW q \in Ptrs, NEW ph \in Phases \ {"none"}, net.phase[q] = ph
    PROVE  q \in PeerList(net) /\ (ph # "up" => q \notin UpPeers(net))
           /\ (ph = "up" => q \in UpPeers(net))
BY DEF PeerList, UpPeers

LEMMA InvGood == GroupInv => Good(net, state)
BY DEF GroupInv, Good

\* peergroup_refill, the pings and the stall check of the timer.
LEMMA PeriodicGood == ASSUME GroupInv, Periodic PROVE Good(net', state')
<1>1. Good(net, state) /\ state' = state
  BY InvGood DEF Periodic
<1>2. PICK n \in Refills(net, FALSE) : \E idle : net' \in StallChecks(SentTo(n, idle))
  BY DEF Periodic
<1>3. PICK idle : net' \in StallChecks(SentTo(n, idle))
  BY <1>2
<1> DEFINE m == SentTo(n, idle)
<1>4. Good(n, state)
  BY <1>1, RefillsKeep, SameGood DEF Good
<1>5. BookOK(m) /\ SameStream(n, m)
  BY <1>4, SentKeeps DEF Good
<1> HIDE DEF m
<1>6. Good(m, state)
  BY <1>4, <1>5, SameGood
<1>7. CASE net' = m
  BY <1>1, <1>6, <1>7
<1>8. CASE net' # m
  <2>1. m.dl # NoPtr /\ net' \in Destroys(m, m.dl, "timeout")
    BY <1>3, <1>8 DEF StallChecks, m
  <2>2. m.dl \in PeerList(m)
    BY <1>6, <2>1 DEF Good, StreamOK, UpPeers, PeerList
  <2> QED
    BY <1>1, <1>6, <2>1, <2>2, DestroysGood
<1> QED
  BY <1>7, <1>8

\* The end of the scan, and answers: messages are sent.
LEMMA SentGood ==
    ASSUME NEW n, NEW st, Good(n, st), NEW S
    PROVE  Good(SentTo(n, S), st)
BY SentKeeps, SameGood DEF Good

\* peergroup_seed and the first refill.
LEMMA StartGood == ASSUME DistinctSeeds, GroupInv, Start PROVE Good(net', state')
<1> DEFINE o == Opened(bookFile)
<1>1. /\ BookOK(o) /\ PeerList(o) = {} /\ UpPeers(o) = {} /\ o.asked = {} /\ o.dl = NoPtr
  BY EmptyGood DEF GroupInv, TypeOK
<1> HIDE DEF o
<1>2. PICK seeds \in SeedLists :
        LET n == Seeded(o, seeds) IN
        \/ net' = n
        \/ \E S \in SUBSET Eligible(n) : net' = AddPeers(n, S)
  BY DEF Start, o
<1> DEFINE n == Seeded(o, seeds)
<1>3. BookOK(n) /\ SameStream(o, n)
  BY <1>1, SeededKeeps
<1> HIDE DEF n
<1>4. BookOK(net') /\ SameStream(n, net')
  <2>1. CASE net' = n
    BY <1>3, <2>1 DEF SameStream
  <2>2. CASE net' # n
    <3>1. PICK S \in SUBSET Eligible(n) : net' = AddPeers(n, S)
      BY <1>2, <2>2 DEF n
    <3>2. S \in SUBSET Live(n) /\ S \cap n.conn = {}
      BY DEF Eligible
    <3> QED
      BY <1>3, <3>1, <3>2, AddPeersKeeps
  <2> QED
    BY <2>1, <2>2
<1>5. UpPeers(net') = {} /\ net'.asked = {} /\ net'.dl = NoPtr
  BY <1>1, <1>3, <1>4 DEF SameStream
<1>6. CountConnected(net') =< MaxActive
  BY <1>5, FS_EmptySet, PeersBoundsAssumption DEF CountConnected
<1> QED
  BY <1>4, <1>5, <1>6 DEF Good, StreamOK, Driven

\* peer_connect_cb
LEMMA ConnectGood ==
    ASSUME GroupInv, NEW q \in Ptrs, Connect(q)
    PROVE  Good(net', state')
<1>1. Good(net, state) /\ state' = state /\ net.phase[q] = "connecting"
  BY InvGood DEF Connect, Connected, ConnectFails
<1>2. q \in PeerList(net) /\ q \notin UpPeers(net)
  BY <1>1, Hearing DEF Phases
<1>3. CASE Connected(q)
  <2> DEFINE m == SentTo(net, {q})
  <2>1. Good(m, state) /\ m.phase = net.phase
    BY <1>1, SentGood, SentKeeps DEF Good
  <2>2. net' = [m EXCEPT !.phase[q] = "open"]
    BY <1>3 DEF Connected
  <2> HIDE DEF m
  <2>3. q \in PeerList(m) /\ q \notin UpPeers(m)
    BY <1>2, <2>1 DEF PeerList, UpPeers
  <2> QED
    BY <1>1, <2>1, <2>2, <2>3, HandshakeGood DEF Phases
<1>4. CASE ConnectFails(q)
  BY <1>1, <1>2, <1>4, DestroysGood DEF ConnectFails
<1> QED
  BY <1>3, <1>4 DEF Connect

\* Losing a connection that was open, and a "verack" too early.
LEMMA LostGood ==
    ASSUME GroupInv, NEW q \in Ptrs, Disconnected(q) \/ EarlyVerack(q)
    PROVE  Good(net', state')
<1>1. /\ Good(net, state) /\ state' = state /\ net.phase[q] # "none"
      /\ \E err : net' \in Destroys(net, q, err)
  BY InvGood DEF Disconnected, EarlyVerack, Hears
<1>2. q \in PeerList(net)
  BY <1>1 DEF PeerList
<1> QED
  BY <1>1, <1>2, DestroysGood

\* peer_handle_version
LEMMA VersionGood ==
    ASSUME GroupInv, NEW q \in Ptrs, ReceiveVersion(q)
    PROVE  Good(net', state')
<1>1. Good(net, state) /\ state' = state /\ net.phase[q] = "open"
  BY InvGood DEF ReceiveVersion, Hears
<1>2. q \in PeerList(net) /\ q \notin UpPeers(net)
  BY <1>1, Hearing DEF Phases
<1> DEFINE m == SentTo(net, {q})
<1>3. CASE net' = [m EXCEPT !.phase[q] = "version"]
  <2>1. Good(m, state) /\ m.phase = net.phase
    BY <1>1, SentGood, SentKeeps DEF Good
  <2> HIDE DEF m
  <2>2. q \in PeerList(m) /\ q \notin UpPeers(m)
    BY <1>2, <2>1 DEF PeerList, UpPeers
  <2> QED
    BY <1>1, <1>3, <2>1, <2>2, HandshakeGood DEF Phases
<1>4. CASE net' \in Destroys(net, q, "invalid")
  BY <1>1, <1>2, <1>4, DestroysGood
<1> QED
  BY <1>3, <1>4 DEF ReceiveVersion

\* The download peer or what is asked of whom changes.
LEMMA StreamGood ==
    ASSUME NEW n, BookOK(n), CountConnected(n) =< MaxActive, NEW st,
           NEW d \in Ptrs \union {NoPtr}, NEW A \in SUBSET UpPeers(n), NEW V \in SUBSET Ptrs,
           d = NoPtr \/ d \in UpPeers(n),
           st \in {"STARTING", "HEADERS"} => A \subseteq {d} \union V
    PROVE  Good([n EXCEPT !.dl = d, !.asked = A, !.volunteers = V], st)
<1> DEFINE r == [n EXCEPT !.dl = d, !.asked = A, !.volunteers = V]
<1>1. n \in NetType /\ A \subseteq Ptrs
  BY DEF BookOK, UpPeers
<1>2. /\ r.entry = n.entry /\ r.conn = n.conn /\ r.tried = n.tried /\ r.phase = n.phase
      /\ r.active = n.active /\ r.dl = d /\ r.asked = A /\ r.volunteers = V
  BY <1>1 DEF NetType
<1>3. r \in NetType
  BY <1>1 DEF NetType
<1> HIDE DEF r
<1>4. BookOK(r) /\ UpPeers(r) = UpPeers(n)
  BY <1>2, <1>3, StreamChange
<1>5. Good(r, st)
  BY <1>2, <1>4 DEF Good, StreamOK, CountConnected, Driven
<1> QED
  BY <1>5 DEF r

\* peer_handle_verack: one too many is dropped at once, so the bound holds when
\* the handler returns.
LEMMA VerackGood ==
    ASSUME GroupInv, NEW q \in Ptrs, ReceiveVerack(q)
    PROVE  Good(net', state')
<1>1. Good(net, state) /\ net.phase[q] = "version"
  BY InvGood DEF ReceiveVerack, Hears
<1>2. q \in PeerList(net) /\ q \notin UpPeers(net)
  BY <1>1, Hearing DEF Phases
<1> DEFINE m == SentTo(net, {q})
           n == [m EXCEPT !.phase[q] = "up"]
<1>3. Good(m, state) /\ SameStream(net, m) /\ m.phase = net.phase
  BY <1>1, SentGood, SentKeeps DEF Good
<1>4. /\ \/ TooMany(n) /\ net' \in Destroys(n, q, "invalid") /\ state' = state
         \/ /\ ~TooMany(n) /\ state \in {"STARTING", "HEADERS"}
            /\ net' = DownloadHeaders(n, q) /\ state' \in {"STARTING", "HEADERS"}
         \/ ~TooMany(n) /\ state = "TXDB" /\ net' = FilterDriver(n, q) /\ state' = state
         \/ ~TooMany(n) /\ state = "READY" /\ net' = n /\ state' = state
  BY DEF ReceiveVerack
<1> HIDE DEF m
<1>5. q \in PeerList(m) /\ q \notin UpPeers(m)
  BY <1>2, <1>3 DEF PeerList, UpPeers
<1>6. /\ BookOK(n) /\ n.dl = m.dl /\ n.asked = m.asked /\ n.volunteers = m.volunteers
      /\ UpPeers(n) = UpPeers(m) \union {q}
  BY <1>3, <1>5, PhaseKeeps DEF Good, Phases
<1> HIDE DEF n
<1>7. StreamOK(n) /\ q \in PeerList(n)
  BY <1>3, <1>6 DEF Good, StreamOK, UpPeers, PeerList
<1>8. /\ n \in NetType /\ n.dl \in Ptrs \union {NoPtr} /\ n.asked \subseteq Ptrs
      /\ n.volunteers \subseteq Ptrs
  BY <1>6 DEF BookOK, NetType
<1>9. CASE TooMany(n) /\ net' \in Destroys(n, q, "invalid") /\ state' = state
  <2>1. After(n, q, net')
    BY <1>6, <1>7, <1>9, DestroysKeep
  <2>2. UpPeers(net') = UpPeers(m)
    BY <1>5, <1>6, <2>1 DEF After
  <2>3. CountConnected(net') =< MaxActive
    BY <1>3, <2>2 DEF Good, CountConnected
  <2> QED
    BY <1>3, <1>6, <1>9, <2>1, <2>3 DEF Good, After, Driven
<1>10. CASE ~TooMany(n)
  <2>1. CountConnected(n) =< MaxActive
    <3>1. CountConnected(n) \in Nat
      BY PeersFinite DEF CountConnected
    <3> QED
      BY <1>10, <3>1, PeersBoundsAssumption DEF TooMany
  <2>2. state \in {"STARTING", "HEADERS"} => Driven(n)
    BY <1>3, <1>6 DEF Good, Driven
  <2>3. NoPtr \notin Ptrs
    BY PeersAssumption DEF Ptrs
  <2>4. CASE state \in {"STARTING", "HEADERS"} /\ net' = DownloadHeaders(n, q)
    <3>1. CASE n.dl \in {NoPtr, q}
      <4> DEFINE A == n.asked \union {q}
                 V == n.volunteers
      <4>1. net' = [n EXCEPT !.dl = q, !.asked = A, !.volunteers = V]
        BY <1>8, <2>4, <3>1 DEF DownloadHeaders, NetType
      <4>2. n.asked \subseteq UpPeers(n) /\ n.asked \subseteq {n.dl} \union V
        BY <1>7, <2>2, <2>4 DEF StreamOK, Driven
      <4>3. A \subseteq {q} \union V
        BY <1>8, <2>3, <3>1, <4>2
      <4>4. /\ A \in SUBSET UpPeers(n) /\ V \in SUBSET Ptrs
            /\ q \in Ptrs \union {NoPtr} /\ q \in UpPeers(n)
        BY <1>6, <1>7, <1>8, <4>2 DEF PeerList
      <4> HIDE DEF A, V
      <4>5. Good([n EXCEPT !.dl = q, !.asked = A, !.volunteers = V], state')
        BY <1>6, <2>1, <4>3, <4>4, StreamGood
      <4> QED
        BY <4>1, <4>5
    <3>2. CASE n.dl \notin {NoPtr, q}
      <4>1. net' = n
        BY <2>4, <3>2 DEF DownloadHeaders
      <4> QED
        BY <1>6, <1>7, <2>1, <2>2, <2>4, <4>1 DEF Good
    <3> QED
      BY <3>1, <3>2
  <2>5. CASE state = "TXDB" /\ net' = FilterDriver(n, q) /\ state' = state
    <3>1. CASE n.dl = NoPtr
      <4> DEFINE A == n.asked
                 V == n.volunteers
      <4>1. net' = [n EXCEPT !.dl = q, !.asked = A, !.volunteers = V]
        BY <1>8, <2>5, <3>1 DEF FilterDriver, NetType
      <4>2. /\ q \in UpPeers(n) /\ A \in SUBSET UpPeers(n) /\ V \in SUBSET Ptrs
            /\ q \in Ptrs \union {NoPtr} /\ state \notin {"STARTING", "HEADERS"}
        BY <1>6, <1>7, <1>8, <2>5 DEF StreamOK
      <4> HIDE DEF A, V
      <4>3. Good([n EXCEPT !.dl = q, !.asked = A, !.volunteers = V], state)
        BY <1>6, <2>1, <4>2, StreamGood
      <4> QED
        BY <2>5, <4>1, <4>3
    <3>2. CASE n.dl # NoPtr
      <4>1. net' = n
        BY <2>5, <3>2 DEF FilterDriver
      <4> QED
        BY <1>6, <1>7, <2>1, <2>5, <4>1 DEF Good
    <3> QED
      BY <3>1, <3>2
  <2>6. CASE state = "READY" /\ net' = n /\ state' = state
    BY <1>6, <1>7, <2>1, <2>6 DEF Good
  <2> QED
    BY <1>4, <1>10, <2>4, <2>5, <2>6
<1> QED
  BY <1>4, <1>9, <1>10

\* peer_handle_headers: a peer that is asked again is the download peer, or
\* becomes a volunteer.
LEMMA HeadersGood ==
    ASSUME GroupInv, NEW q \in Ptrs, ReceiveHeaders(q)
    PROVE  Good(net', state')
<1>1. Good(net, state) /\ net.phase[q] = "up"
  BY InvGood DEF ReceiveHeaders, Hears
<1>2. q \in UpPeers(net) /\ CountConnected(net) =< MaxActive /\ BookOK(net)
      /\ net.asked \in SUBSET UpPeers(net) /\ (net.dl # NoPtr => net.dl \in UpPeers(net))
  BY <1>1 DEF Good, StreamOK, UpPeers
<1>3. net \in NetType /\ net.dl \in Ptrs \union {NoPtr} /\ net.volunteers \subseteq Ptrs
  BY <1>1, NetFields DEF Good, BookOK
<1>4. state \in {"STARTING", "HEADERS"} => net.asked \subseteq {net.dl} \union net.volunteers
  BY <1>1 DEF Good, Driven
<1> DEFINE n == Answered(net, q)
           A == net.asked \ {q}
           V == net.volunteers \ {q}
<1>5. /\ A \in SUBSET UpPeers(net) /\ V \in SUBSET Ptrs
      /\ state \in {"STARTING", "HEADERS"} => A \subseteq {net.dl} \union V
  BY <1>2, <1>3, <1>4
<1>6. n = [net EXCEPT !.dl = net.dl, !.asked = A, !.volunteers = V]
  BY <1>3 DEF NetType, Answered
<1>7. \/ net' = n /\ state' = state
      \/ /\ net.dl \in {NoPtr, q} /\ state' = state /\ state = "HEADERS"
         /\ net' = SentTo(AskAgain(n, q), {q})
      \/ net.dl \in {NoPtr, q} /\ net' = FilterDriver(n, q) /\ state' = "TXDB"
  BY DEF ReceiveHeaders
<1> HIDE DEF A, V
<1>8. CASE net' = n /\ state' = state
  <2> DEFINE d == net.dl
  <2>1. /\ d \in Ptrs \union {NoPtr} /\ (d = NoPtr \/ d \in UpPeers(net))
        /\ state \in {"STARTING", "HEADERS"} => A \subseteq {d} \union V
    BY <1>2, <1>3, <1>5
  <2>2. net' = [net EXCEPT !.dl = d, !.asked = A, !.volunteers = V]
    BY <1>6, <1>8
  <2> HIDE DEF d, n
  <2>3. Good([net EXCEPT !.dl = d, !.asked = A, !.volunteers = V], state)
    BY <1>2, <1>5, <2>1, StreamGood
  <2> QED
    BY <1>8, <2>2, <2>3
<1>9. CASE /\ net.dl \in {NoPtr, q} /\ state' = state /\ state = "HEADERS"
           /\ net' = SentTo(AskAgain(n, q), {q})
  <2> DEFINE d == net.dl
             B == A \union {q}
             W == IF net.dl = NoPtr THEN V \union {q} ELSE V
             r == [net EXCEPT !.dl = d, !.asked = B, !.volunteers = W]
  <2>1. AskAgain(n, q) = r
    BY <1>3, <1>6 DEF NetType, AskAgain
  <2>2. /\ B \in SUBSET UpPeers(net) /\ W \in SUBSET Ptrs /\ B \subseteq {d} \union W
        /\ d \in Ptrs \union {NoPtr} /\ (d = NoPtr \/ d \in UpPeers(net))
    BY <1>2, <1>3, <1>5, <1>9
  <2> HIDE DEF d, B, W, n
  <2>3. Good(r, state)
    BY <1>2, <2>2, StreamGood
  <2> QED
    BY <1>9, <2>1, <2>3, SentGood
<1>10. CASE net.dl \in {NoPtr, q} /\ net' = FilterDriver(n, q) /\ state' = "TXDB"
  <2>1. net' = [net EXCEPT !.dl = q, !.asked = A, !.volunteers = V]
    BY <1>3, <1>6, <1>10 DEF FilterDriver, NetType
  <2>2. q \in Ptrs \union {NoPtr} /\ "TXDB" \notin {"STARTING", "HEADERS"}
    OBVIOUS
  <2> HIDE DEF n
  <2>3. Good([net EXCEPT !.dl = q, !.asked = A, !.volunteers = V], "TXDB")
    BY <1>2, <1>5, <2>2, StreamGood
  <2> QED
    BY <1>10, <2>1, <2>3
<1> QED
  BY <1>7, <1>8, <1>9, <1>10

\* peer_handle_addr: an address that is not in the book has no peer.
LEMMA AddrGood ==
    ASSUME GroupInv, NEW q \in Ptrs, ReceiveAddr(q)
    PROVE  Good(net', state') /\ bookFile' \subseteq Addr
<1>1. Good(net, state) /\ state' = state
  BY InvGood DEF ReceiveAddr
<1>2. PICK a \in Addr \ Known(net) :
        LET n == AddEntry(net, a) IN
        net' = Saved(n) /\ bookFile' = IF MustSave(n) THEN Known(n) ELSE bookFile
  BY DEF ReceiveAddr
<1> DEFINE n == AddEntry(net, a)
<1>3. BookOK(net) /\ net.entry[a] = 0
  BY <1>1 DEF Good, Known
<1>4. Idle(net, a)
  <2> SUFFICES ASSUME NEW p \in PeerList(net), p[1] = a PROVE FALSE
    BY DEF Idle
  <2>1. p \in Live(net) /\ p \in Ptrs
    BY <1>3 DEF BookOK, Live
  <2>2. net.entry[a] = p[2] /\ p[2] \in {1, 2}
    BY <2>1 DEF Live, Ptrs
  <2> QED
    BY <1>3, <2>2
<1>5. BookOK(n) /\ SameStream(net, n)
  <2>1. n = Entered(net, a)
    BY <1>3, <1>4, EntryIs
  <2>2. BookOK(Entered(net, a)) /\ SameStream(net, Entered(net, a))
    BY <1>3, <1>4, EnteredKeeps
  <2> QED
    BY <2>1, <2>2
<1> HIDE DEF n
<1>6. net' = n \/ net' = [n EXCEPT !.unsaved = 0]
  BY <1>2 DEF Saved, n
<1> DEFINE r == [n EXCEPT !.unsaved = 0]
<1>7. /\ r.entry = n.entry /\ r.conn = n.conn /\ r.tried = n.tried /\ r.phase = n.phase
      /\ r.active = n.active /\ r.dl = n.dl /\ r.asked = n.asked /\ r \in NetType
      /\ r.volunteers = n.volunteers
  BY <1>5 DEF BookOK, NetType
<1> HIDE DEF r
<1>8. BookOK(r) /\ SameStream(n, r)
  BY <1>5, <1>7, StreamChange DEF SameStream
<1>9. Good(n, state) /\ Good(r, state)
  BY <1>1, <1>5, <1>8, SameGood
<1>10. bookFile' \subseteq Addr
  BY <1>2 DEF Known, GroupInv, TypeOK
<1> QED
  BY <1>1, <1>6, <1>9, <1>10 DEF r

\* peer_handle_getaddr leaves something in a send buffer.
LEMMA GetaddrGood ==
    ASSUME GroupInv, NEW q \in Ptrs, ReceiveGetaddr(q)
    PROVE  Good(net', state')
<1> DEFINE r == [net EXCEPT !.unsent = @ \union {q}]
<1>1. Good(net, state) /\ state' = state /\ net' = r
  BY InvGood DEF ReceiveGetaddr
<1>2. net \in NetType /\ net.unsent \subseteq Ptrs /\ BookOK(net)
  BY <1>1, NetFields DEF Good, BookOK
<1>3. /\ r.entry = net.entry /\ r.conn = net.conn /\ r.tried = net.tried
      /\ r.phase = net.phase /\ r.active = net.active /\ r.dl = net.dl
      /\ r.asked = net.asked /\ r.volunteers = net.volunteers /\ r \in NetType
  BY <1>2 DEF NetType
<1> HIDE DEF r
<1>4. BookOK(r) /\ SameStream(net, r)
  BY <1>2, <1>3, StreamChange DEF SameStream
<1> QED
  BY <1>1, <1>4, SameGood

-----------------------------------------------------------------------------
(* The theorems *)

\* TypeOK without the group.
RestOK ==
    /\ state \in {"DOWN", "STARTING", "HEADERS", "TXDB", "READY", "EXITING"}
    /\ hdrs \in 0..Chain /\ quiet \in BOOLEAN /\ connectOnly \in BOOLEAN
    /\ stats \in [Addr -> {"unproven", "good", "bad"}]
    /\ statsFile \in [Addr -> {"unproven", "good", "bad"}]
    /\ bookFile \subseteq Addr
    /\ panic \in {"none", "addrbook_save", "peer_send_inv"}

LEMMA GroupInvIs == GroupInv <=> RestOK /\ Good(net, state)
BY DEF GroupInv, RestOK, TypeOK, Good, BookOK

LEMMA GroupInit == Init => GroupInv
<1> SUFFICES ASSUME Init PROVE GroupInv
  OBVIOUS
<1>1. RestOK
  <2>1. stats \in [Addr -> {"unproven", "good", "bad"}] /\ statsFile = stats
    BY DEF Init
  <2>2. bookFile \subseteq Addr /\ hdrs \in 0..Chain
    BY PeersAssumption, PeersBoundsAssumption DEF Init
  <2> QED
    BY <2>1, <2>2 DEF Init, RestOK
<1>2. Good(net, state)
  BY EmptyGood DEF Init
<1> QED
  BY <1>1, <1>2, GroupInvIs

\* Nothing leaves its type.
LEMMA RestStep == ASSUME GroupInv, Next PROVE RestOK'
<1>1. RestOK
  BY GroupInvIs
<1>2. CASE Start \/ Stop \/ Stall \/ ScanDone \/ BroadcastTx
  BY <1>1, <1>2 DEF Start, Stop, Stall, ScanDone, BroadcastTx, RestOK, files
<1>3. CASE BitcExit \/ Crash
  <2>1. bookFile' \subseteq Addr
    BY <1>1, <1>3 DEF BitcExit, Crash, RestOK, ClosedBook, Known
  <2> QED
    BY <1>1, <1>3, <2>1 DEF BitcExit, Crash, RestOK, files
<1>4. CASE Periodic
  BY <1>1, <1>4 DEF Periodic, RestOK
<1>5. ASSUME NEW q \in Ptrs, Connect(q) \/ ReceiveVersion(q) \/ Disconnected(q)
                             \/ EarlyVerack(q) \/ ReceiveGetaddr(q) \/ ReceiveAnswered(q)
      PROVE  RestOK'
  BY <1>1, <1>5 DEF Connect, Connected, ConnectFails, ReceiveVersion, Disconnected,
       EarlyVerack, ReceiveGetaddr, ReceiveAnswered, RestOK, files
<1>6. ASSUME NEW q \in Ptrs, ReceiveVerack(q) PROVE RestOK'
  BY <1>1, <1>6 DEF ReceiveVerack, RestOK, files
<1>7. ASSUME NEW q \in Ptrs, ReceiveHeaders(q) PROVE RestOK'
  <2>1. hdrs' \in 0..Chain
    BY <1>1, <1>7, PeersBoundsAssumption DEF ReceiveHeaders, Smaller, RestOK
  <2> QED
    BY <1>1, <1>7, <2>1 DEF ReceiveHeaders, RestOK, files
<1>8. ASSUME NEW q \in Ptrs, ReceiveAddr(q) PROVE RestOK'
  <2>1. bookFile' \subseteq Addr
    BY <1>8, AddrGood
  <2> QED
    BY <1>1, <1>8, <2>1 DEF ReceiveAddr, RestOK
<1>9. ASSUME NEW q \in Ptrs, ChunkDone(q) PROVE RestOK'
  BY <1>1, <1>9 DEF ChunkDone, RestOK, files
<1> QED
  BY <1>2, <1>3, <1>4, <1>5, <1>6, <1>7, <1>8, <1>9 DEF Next, Handshake

\* One step per action.
LEMMA GroupStep == ASSUME DistinctSeeds, GroupInv, Next PROVE Good(net', state')
<1>1. Good(net, state)
  BY InvGood
<1>2. CASE Start
  BY <1>2, StartGood
<1>3. CASE Stop
  BY <1>1, <1>3 DEF Stop, Good
<1>4. CASE BitcExit \/ Crash
  BY <1>4, EmptyGood DEF BitcExit, Crash
<1>5. CASE Stall \/ BroadcastTx
  BY <1>1, <1>5 DEF Stall, BroadcastTx
<1>6. CASE Periodic
  BY <1>6, PeriodicGood
<1>7. CASE ScanDone
  <2>1. Good(net', state)
    BY <1>1, <1>7, SentGood DEF ScanDone
  <2> QED
    BY <1>7, <2>1 DEF ScanDone, Good
<1>8. ASSUME NEW q \in Ptrs,
             \/ Connect(q) \/ Handshake(q) \/ Disconnected(q) \/ EarlyVerack(q)
             \/ ReceiveHeaders(q) \/ ReceiveAddr(q) \/ ReceiveGetaddr(q)
      PROVE  Good(net', state')
  BY <1>8, ConnectGood, VersionGood, VerackGood, LostGood, HeadersGood, AddrGood,
     GetaddrGood DEF Handshake
<1>9. ASSUME NEW q \in Ptrs, ReceiveAnswered(q) PROVE Good(net', state')
  BY <1>1, <1>9, SentGood DEF ReceiveAnswered
<1>10. ASSUME NEW q \in Ptrs, ChunkDone(q) PROVE Good(net', state')
  BY <1>1, <1>10 DEF ChunkDone
<1> QED
  BY <1>2, <1>3, <1>4, <1>5, <1>6, <1>7, <1>8, <1>9, <1>10 DEF Next

(* Whatever connects, fails, is dropped, gossips or restarts, the group, the *)
(* book and the stream of headers stay what GroupInv says.                   *)
LEMMA GroupAlways == ASSUME DistinctSeeds PROVE Spec => []GroupInv
<1>1. Init => GroupInv
  BY GroupInit
<1>2. GroupInv /\ [Next]_vars => GroupInv'
  <2> SUFFICES ASSUME GroupInv, [Next]_vars PROVE GroupInv'
    OBVIOUS
  <2>1. CASE Next
    <3>1. RestOK' /\ Good(net', state')
      BY <2>1, RestStep, GroupStep
    <3> QED
      BY <3>1 DEF RestOK, GroupInv, TypeOK, Good, BookOK
  <2>2. CASE UNCHANGED vars
    BY <2>2 DEF vars, files, GroupInv, TypeOK, BookOK, StreamOK, Driven, CountConnected, PeerList,
         UpPeers, Live
  <2> QED
    BY <2>1, <2>2
<1> QED
  BY <1>1, <1>2, PTL DEF Spec

(* The peers' variables keep their types; in particular the active count of  *)
(* the group never goes below zero.                                          *)
THEOREM PeersTypeOK == ASSUME DistinctSeeds PROVE Spec => []TypeOK
<1>1. GroupInv => TypeOK
  BY DEF GroupInv
<1> QED
  BY <1>1, GroupAlways, PTL

(* The peer list, the active count, the connected and tried flags and the    *)
(* address book agree: a peer never uses an entry that was freed, and no     *)
(* address is left marked connected.                                         *)
THEOREM PeersBookAgrees == ASSUME DistinctSeeds PROVE Spec => []BookAgrees
<1>1. GroupInv => BookAgrees
  BY DEF GroupInv, BookOK, BookAgrees
<1> QED
  BY <1>1, GroupAlways, PTL

(* The download peer is NULL or up, and while the headers are downloaded     *)
(* nobody else is asked for them but those who sent some while there was no  *)
(* download peer.                                                            *)
THEOREM PeersDownloadPeerAsked == ASSUME DistinctSeeds PROVE Spec => []DownloadPeerAsked
<1>1. GroupInv => DownloadPeerAsked
  BY DEF GroupInv, StreamOK, UpPeers, DownloadPeerAsked, Driven
<1> QED
  BY <1>1, GroupAlways, PTL

(* No more than maxActive connections get past the handshake, however many   *)
(* peergroup_refill opened.                                                  *)
THEOREM PeersEstablishedBound == ASSUME DistinctSeeds PROVE Spec => []EstablishedBound
<1>1. GroupInv => EstablishedBound
  BY DEF GroupInv, EstablishedBound
<1> QED
  BY <1>1, GroupAlways, PTL

=============================================================================
