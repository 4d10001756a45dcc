---------------------------- MODULE NetLoopProofs ----------------------------
(***************************************************************************)
(* Proofs about the event loop and its sockets, for any number of          *)
(* descriptors and connections, any buffer sizes and queue lengths.        *)
(*                                                                         *)
(* NetInv is inductive.  It says what the loop and each socket look like   *)
(* between two callbacks: every poll entry has one reference for being in  *)
(* the table and one for being among the entries poll_run_device_queue     *)
(* still has to look at, no two entries of either have the same key, and   *)
(* the kinds of events a socket waits for fit its state, down to the step  *)
(* of the SOCKS handshake.  Inside a callback this holds of all sockets    *)
(* but one; Moves describes what an operation does to that one.            *)
(***************************************************************************)
EXTENDS NetLoop, FiniteSetTheorems, SequenceTheorems, NaturalsInduction,
        WellFoundedInduction, TLAPS

\* What each socket waits for.
Waiting(n) ==
    [g \in Fd |-> {k \in Kinds : \E e \in Object :
                      n.obj[e].queued /\ n.obj[e].fd = g /\ n.obj[e].kind = k}]

\* T are the entries that poll_run_device_queue holds a reference on.
EntryOK(n, T) ==
    \A e \in Object :
        /\ n.obj[e].refs = (IF n.obj[e].queued THEN 1 ELSE 0) + (IF e \in T THEN 1 ELSE 0)
        /\ n.obj[e].refs # 0 => n.obj[e].fd \in Fd

SameKey(n, e, f) ==
    n.obj[e].fd = n.obj[f].fd /\ Key(n.obj[e].kind) = Key(n.obj[f].kind)

QueuedOnce(n) ==
    \A e, f \in Object : n.obj[e].queued /\ n.obj[f].queued /\ SameKey(n, e, f) => e = f

TakenOnce(n, T) == \A e, f \in T : SameKey(n, e, f) => e = f

LoopOK(n, T) ==
    /\ n \in NetType /\ T \subseteq Object
    /\ EntryOK(n, T) /\ QueuedOnce(n) /\ TakenOnce(n, T)

\* What a socket s waits for, ws, is what its state needs.
Fits(s, ws) ==
    /\ "connect" \in ws <=> s.st = "connecting"
    /\ "send" \in ws <=> s.sendq # <<>>
    /\ "receive" \in ws <=> s.recv
    /\ s.timer <=> s.st = "connecting"
    /\ s.st \in {"closed", "connecting"} => s.sendq = <<>> /\ ~s.recv
    /\ s.st = "connecting" => s.socks = IF s.proxy THEN 1 ELSE 0
    /\ s.st = "socks" => \/ s.socks \in {2, 4} /\ Len(s.sendq) = 1 /\ ~s.recv
                         \/ s.socks \in {3, 5} /\ s.sendq = <<>> /\ s.recv

FitsAll(n, S) == \A g \in S : Fits(n.sock[g], Waiting(n)[g])

Good(n, T) == n.panic = "none" /\ LoopOK(n, T) /\ FitsAll(n, Fd)

\* The two assertions that depend on the proxy alone, see AssertsHold.
BadProxy(n) == n \in NetType /\ n.panic \in {"proxy", "reply"}

NetInv ==
    /\ Good(net, todo) \/ BadProxy(net)
    /\ todo \subseteq Object /\ phase \in {"time", "fire"}
    /\ phase = "time" => todo = {}

\* r is n but for the socket fd, which is s and waits for ws in r.
Moves(n, r, T, fd, s, ws) ==
    /\ LoopOK(r, T) /\ r.panic = "none"
    /\ r.sock = [n.sock EXCEPT ![fd] = s]
    /\ Waiting(r) = [Waiting(n) EXCEPT ![fd] = ws]

-----------------------------------------------------------------------------
(* Updates of the record *)

\* A step that leaves the poll entries alone leaves the loop alone.
LEMMA SameEntries ==
    ASSUME NEW n, NEW T, LoopOK(n, T), NEW r \in NetType, r.obj = n.obj
    PROVE  LoopOK(r, T) /\ Waiting(r) = Waiting(n)
<1>1. EntryOK(r, T) /\ QueuedOnce(r) /\ TakenOnce(r, T)
  BY DEF LoopOK, EntryOK, QueuedOnce, TakenOnce, SameKey
<1> QED
  BY <1>1 DEF LoopOK, Waiting

Puts(n, e, o) == [n EXCEPT !.obj[e] = o]

Replaced(n, r, e, o) ==
    /\ r \in NetType /\ r.sock = n.sock /\ r.panic = n.panic
    /\ r.obj[e] = o /\ \A f \in Object \ {e} : r.obj[f] = n.obj[f]

\* A state in which one poll entry was replaced.
LEMMA EntryUpdate ==
    ASSUME NEW n \in NetType, NEW e \in Object, NEW o \in ObjType
    PROVE  Replaced(n, Puts(n, e, o), e, o)
<1> DEFINE r == Puts(n, e, o)
<1>1. /\ r.obj = [n.obj EXCEPT ![e] = o]
      /\ r.sock = n.sock /\ r.panic = n.panic /\ r.wire = n.wire /\ r.connects = n.connects
  BY DEF NetType, Puts
<1>2. n.obj \in [Object -> ObjType]
  BY DEF NetType
<1>3. r.obj \in [Object -> ObjType]
  BY <1>1, <1>2
<1>4. r \in NetType
  BY <1>1, <1>3 DEF NetType, Puts
<1> HIDE DEF r
<1>5. Replaced(n, r, e, o)
  BY <1>1, <1>2, <1>4 DEF Replaced
<1> QED
  BY <1>5 DEF r

SetSock(n, fd, s) == [n EXCEPT !.sock[fd] = s]

\* A state in which one socket was replaced.
LEMMA SocketUpdate ==
    ASSUME NEW n, NEW T, LoopOK(n, T), n.panic = "none", NEW fd \in Fd, NEW s \in SockType
    PROVE  Moves(n, SetSock(n, fd, s), T, fd, s, Waiting(n)[fd])
<1> DEFINE r == SetSock(n, fd, s)
<1>1. n \in NetType
  BY DEF LoopOK
<1>2. /\ r.sock = [n.sock EXCEPT ![fd] = s]
      /\ r.obj = n.obj /\ r.panic = n.panic /\ r.wire = n.wire /\ r.connects = n.connects
  BY <1>1 DEF NetType, SetSock
<1>3. n.sock \in [Fd -> SockType]
  BY <1>1 DEF NetType
<1>4. r.sock \in [Fd -> SockType]
  BY <1>2, <1>3
<1>5. r \in NetType
  BY <1>1, <1>2, <1>4 DEF NetType, SetSock
<1> HIDE DEF r
<1>6. LoopOK(r, T) /\ Waiting(r) = Waiting(n)
  BY <1>2, <1>5, SameEntries
<1>7. Waiting(n) = [Waiting(n) EXCEPT ![fd] = Waiting(n)[fd]]
  BY DEF Waiting
<1>8. Moves(n, r, T, fd, s, Waiting(n)[fd])
  BY <1>2, <1>6, <1>7 DEF Moves
<1> QED
  BY <1>8 DEF r

\* Two operations on the same socket.
LEMMA MovesTwice ==
    ASSUME NEW n, NEW T, NEW fd \in Fd, NEW m, NEW s, NEW ws, Moves(n, m, T, fd, s, ws),
           LoopOK(n, T), NEW r, NEW s2, NEW ws2, Moves(m, r, T, fd, s2, ws2)
    PROVE  Moves(n, r, T, fd, s2, ws2)
<1>1. n.sock \in [Fd -> SockType] /\ DOMAIN Waiting(n) = Fd
  BY DEF LoopOK, NetType, Waiting
<1> QED
  BY <1>1, Zenon DEF Moves

\* What a socket looks like after an operation.
LEMMA MovesHere ==
    ASSUME NEW n, NEW T, NEW fd \in Fd, NEW r, NEW s, NEW ws, LoopOK(n, T),
           Moves(n, r, T, fd, s, ws)
    PROVE  r.sock[fd] = s /\ Waiting(r)[fd] = ws /\ LoopOK(r, T) /\ r.panic = "none"
           /\ r \in NetType
<1>1. n.sock \in [Fd -> SockType] /\ DOMAIN Waiting(n) = Fd
  BY DEF LoopOK, NetType, Waiting
<1> QED
  BY <1>1 DEF Moves, LoopOK

\* The other sockets still fit; when the one that moved does too, all do.
LEMMA MovesFit ==
    ASSUME NEW n, NEW T, LoopOK(n, T), NEW fd \in Fd, FitsAll(n, Fd \ {fd}),
           NEW r, NEW s, NEW ws, Moves(n, r, T, fd, s, ws)
    PROVE  /\ FitsAll(r, Fd \ {fd})
           /\ Fits(s, ws) => Good(r, T)
<1>1. n.sock \in [Fd -> SockType] /\ DOMAIN Waiting(n) = Fd
  BY DEF LoopOK, NetType, Waiting
<1>2. \A g \in Fd \ {fd} : r.sock[g] = n.sock[g] /\ Waiting(r)[g] = Waiting(n)[g]
  BY <1>1 DEF Moves
<1>3. r.sock[fd] = s /\ Waiting(r)[fd] = ws
  BY MovesHere
<1> QED
  BY <1>2, <1>3 DEF Moves, Good, FitsAll

-----------------------------------------------------------------------------
(* poll.c *)

\* A set of numbers that is not empty has a least element.
LEMMA LeastObject ==
    ASSUME NEW T \in SUBSET Nat, T # {}
    PROVE  \E x \in T : \A y \in T : x =< y
<1>1. \E R : IsWellFoundedOn(R, Nat) /\ \A x, y \in Nat : <<y, x>> \in R <=> y < x
  <2>1. IsWellFoundedOn(OpToRel(<, Nat), Nat)
    BY NatLessThanWellFounded
  <2>2. \A x, y \in Nat : <<y, x>> \in OpToRel(<, Nat) <=> y < x
    BY DEF OpToRel
  <2> QED
    BY <2>1, <2>2, Zenon
<1>2. PICK R : IsWellFoundedOn(R, Nat) /\ \A x, y \in Nat : <<y, x>> \in R <=> y < x
  BY <1>1
<1>3. PICK x \in T : \A y \in T : ~(<<y, x>> \in R)
  BY <1>2, WFMin
<1>4. \A y \in T : ~(y < x)
  BY <1>2, <1>3, Zenon
<1>5. \A y \in T : x =< y
  BY <1>4
<1> QED
  BY <1>5

\* The least free poll entry is one.
LEMMA MinIsFree ==
    ASSUME NEW S \in SUBSET Object, S # {} PROVE Min(S) \in S
<1>1. S \in SUBSET Nat
  BY NetLoopAssumption
<1>2. \E x \in S : \A y \in S : x =< y
  BY <1>1, LeastObject
<1> QED
  BY <1>2, Zenon DEF Min

\* Entries with different keys are at most as many as the keys.
LEMMA FewEntries ==
    ASSUME NEW S \in SUBSET Object, NEW K, IsFiniteSet(K), NEW n,
           \A e \in S : <<n.obj[e].fd, Key(n.obj[e].kind)>> \in K,
           \A e, f \in S : SameKey(n, e, f) => e = f
    PROVE  IsFiniteSet(S) /\ Cardinality(S) =< Cardinality(K)
<1> DEFINE F == [e \in S |-> <<n.obj[e].fd, Key(n.obj[e].kind)>>]
<1>1. F \in [S -> K]
  OBVIOUS
<1>2. ASSUME NEW e \in S, NEW f \in S, F[e] = F[f] PROVE e = f
  <2>1. n.obj[e].fd = n.obj[f].fd /\ Key(n.obj[e].kind) = Key(n.obj[f].kind)
    BY <1>2
  <2> QED BY <2>1 DEF SameKey
<1> HIDE DEF F
<1>3. F \in Injection(S, K)
  BY <1>1, <1>2, Zenon DEF Injection, IsInjective
<1> QED
  BY <1>3, FS_Injection

\* There is a free poll entry for a key that is not in the table.
LEMMA FreeEntry ==
    ASSUME NEW n, NEW T, LoopOK(n, T), NEW fd \in Fd, NEW kind \in Kinds,
           Find(n, fd, Key(kind)) = {}
    PROVE  \E e \in Object : n.obj[e].refs = 0
<1> SUFFICES ASSUME \A e \in Object : n.obj[e].refs # 0 PROVE FALSE
  OBVIOUS
<1> DEFINE Q == {e \in Object : n.obj[e].queued}
           K == Fd \X {"read", "write"}
           c == Cardinality(Fd)
           x == <<fd, Key(kind)>>
<1>1. n.obj \in [Object -> ObjType] /\ T \subseteq Object
  BY DEF LoopOK, NetType
<1>2. \A e \in Object : n.obj[e].fd \in Fd /\ Key(n.obj[e].kind) \in {"read", "write"}
  BY <1>1 DEF LoopOK, EntryOK, Key
<1>3. Object \subseteq Q \cup T
  BY <1>1 DEF LoopOK, EntryOK
<1>4. IsFiniteSet(K) /\ Cardinality(K) = 2 * c /\ c \in Nat
  <2>1. IsFiniteSet({"read", "write"}) /\ Cardinality({"read", "write"}) = 2
    <3>1. IsFiniteSet({"read"}) /\ Cardinality({"read"}) = 1
      BY FS_Singleton
    <3>2. {"read", "write"} = {"read"} \cup {"write"} /\ "write" \notin {"read"}
      OBVIOUS
    <3> QED BY <3>1, <3>2, FS_AddElement
  <2>2. IsFiniteSet(Fd) /\ c \in Nat
    BY NetLoopAssumption, FS_CardinalityType
  <2> HIDE DEF c
  <2>3. IsFiniteSet(K) /\ Cardinality(K) = Cardinality(Fd) * Cardinality({"read", "write"})
    BY <2>1, <2>2, FS_Product
  <2> QED BY <2>1, <2>2, <2>3 DEF c
<1>5. x \in K
  BY DEF Key
<1>6. IsFiniteSet(K \ {x}) /\ Cardinality(K \ {x}) = 2 * c - 1
  <2> HIDE DEF K, x, c
  <2> QED BY <1>4, <1>5, FS_RemoveElement
<1>7. IsFiniteSet(Q) /\ Cardinality(Q) =< 2 * c - 1
  <2>1. \A e \in Q : <<n.obj[e].fd, Key(n.obj[e].kind)>> \in K \ {x}
    BY <1>2 DEF Find
  <2>2. \A e, f \in Q : SameKey(n, e, f) => e = f
    BY DEF LoopOK, QueuedOnce
  <2>3. Q \in SUBSET Object
    OBVIOUS
  <2> HIDE DEF Q, K, x, c
  <2>4. IsFiniteSet(Q) /\ Cardinality(Q) =< Cardinality(K \ {x})
    BY <1>6, <2>1, <2>2, <2>3, FewEntries
  <2> QED BY <1>6, <2>4
<1>8. IsFiniteSet(T) /\ Cardinality(T) =< 2 * c
  <2>1. \A e \in T : <<n.obj[e].fd, Key(n.obj[e].kind)>> \in K
    BY <1>1, <1>2
  <2>2. \A e, f \in T : SameKey(n, e, f) => e = f
    BY DEF LoopOK, TakenOnce
  <2> HIDE DEF K, c
  <2>3. IsFiniteSet(T) /\ Cardinality(T) =< Cardinality(K)
    BY <1>1, <1>4, <2>1, <2>2, FewEntries
  <2> QED BY <1>4, <2>3
<1> HIDE DEF Q, K, x, c
<1>9. /\ IsFiniteSet(Q \cup T)
      /\ Cardinality(Q \cup T) = Cardinality(Q) + Cardinality(T) - Cardinality(Q \cap T)
  BY <1>7, <1>8, FS_Union
<1>10. IsFiniteSet(Q \cap T) /\ Cardinality(Q \cap T) \in Nat /\ Cardinality(Q) \in Nat
       /\ Cardinality(T) \in Nat /\ Cardinality(Object) \in Nat
  <2>1. IsFiniteSet(Q \cap T)
    BY <1>7, FS_Subset
  <2> QED BY <1>7, <1>8, <2>1, FS_CardinalityType, NetLoopAssumption
<1>11. Cardinality(Object) =< Cardinality(Q \cup T)
  BY <1>3, <1>9, FS_Subset
<1>12. Cardinality(Object) >= 4 * c
  BY NetLoopAssumption DEF c
<1> QED
  BY <1>4, <1>7, <1>8, <1>9, <1>10, <1>11, <1>12

\* poll_callback_device for a key that is not in the table.
LEMMA RegisterMoves ==
    ASSUME NEW n, NEW T, LoopOK(n, T), n.panic = "none", NEW fd \in Fd, NEW kind \in Kinds,
           \A k \in Waiting(n)[fd] : Key(k) # Key(kind)
    PROVE  Moves(n, Register(n, fd, kind), T, fd, n.sock[fd], Waiting(n)[fd] \cup {kind})
<1>1. n \in NetType /\ n.obj \in [Object -> ObjType] /\ n.sock \in [Fd -> SockType]
  BY DEF LoopOK, NetType
<1>2. Find(n, fd, Key(kind)) = {}
  <2> SUFFICES ASSUME NEW e \in Find(n, fd, Key(kind)) PROVE FALSE
    OBVIOUS
  <2>1. n.obj[e].kind \in Waiting(n)[fd] /\ Key(n.obj[e].kind) = Key(kind)
    BY <1>1 DEF Find, Waiting, ObjType
  <2> QED BY <2>1
<1> DEFINE F == {o \in Object : n.obj[o].refs = 0}
           e == Min(F)
           o == [refs |-> 1, queued |-> TRUE, fd |-> fd, kind |-> kind]
           r == [n EXCEPT !.obj[e] = o]
<1>3. e \in Object /\ n.obj[e].refs = 0
  <2>1. F # {} /\ F \in SUBSET Object
    BY <1>2, FreeEntry
  <2>2. Min(F) \in F
    BY <2>1, MinIsFree
  <2> QED BY <2>2
<1>4. Register(n, fd, kind) = r
  BY <1>2 DEF Register
<1>5. o \in ObjType
  BY DEF ObjType
<1> HIDE DEF e, F, r
<1>6. /\ r \in NetType /\ r.sock = n.sock /\ r.panic = n.panic
      /\ r.obj[e] = o /\ \A f \in Object \ {e} : r.obj[f] = n.obj[f]
  <2> HIDE DEF o
  <2>1. r = Puts(n, e, o)
    BY DEF r, Puts
  <2>2. Replaced(n, Puts(n, e, o), e, o)
    BY <1>1, <1>3, <1>5, EntryUpdate
  <2>3. Replaced(n, r, e, o)
    BY <2>1, <2>2
  <2> QED BY <2>3 DEF Replaced
<1>7. ~n.obj[e].queued /\ e \notin T
  BY <1>1, <1>3 DEF LoopOK, EntryOK
<1>8. EntryOK(r, T)
  BY <1>6, <1>7 DEF LoopOK, EntryOK
<1>9. QueuedOnce(r)
  <2> SUFFICES ASSUME NEW f \in Object, NEW g \in Object, r.obj[f].queued, r.obj[g].queued,
                      SameKey(r, f, g), f # g
               PROVE  FALSE
    BY DEF QueuedOnce
  <2>1. CASE f # e /\ g # e
    BY <1>6, <2>1 DEF LoopOK, QueuedOnce, SameKey
  <2>2. ASSUME NEW h \in Object \ {e}, r.obj[h].queued, r.obj[h].fd = fd,
               Key(r.obj[h].kind) = Key(kind)
        PROVE  FALSE
    <3>1. h \in Find(n, fd, Key(kind))
      BY <1>6, <2>2 DEF Find
    <3> QED BY <1>2, <3>1
  <2>3. CASE f = e
    BY <1>6, <2>2, <2>3 DEF SameKey
  <2>4. CASE g = e
    BY <1>6, <2>2, <2>4 DEF SameKey
  <2> QED BY <2>1, <2>3, <2>4
<1>10. TakenOnce(r, T)
  BY <1>6, <1>7 DEF LoopOK, TakenOnce, SameKey
<1>11. Waiting(r) = [Waiting(n) EXCEPT ![fd] = Waiting(n)[fd] \cup {kind}]
  <2>1. ASSUME NEW g \in Fd, NEW k \in Kinds
        PROVE  k \in Waiting(r)[g] <=> k \in Waiting(n)[g] \/ (g = fd /\ k = kind)
    <3>1. k \in Waiting(r)[g] <=> \E f \in Object : r.obj[f].queued /\ r.obj[f].fd = g /\ r.obj[f].kind = k
      BY DEF Waiting
    <3>2. k \in Waiting(n)[g] <=> \E f \in Object : n.obj[f].queued /\ n.obj[f].fd = g /\ n.obj[f].kind = k
      BY DEF Waiting
    <3>3. r.obj[e].queued /\ r.obj[e].fd = fd /\ r.obj[e].kind = kind
      BY <1>6
    <3> QED BY <1>3, <1>6, <1>7, <3>1, <3>2, <3>3
  <2>2. \A g \in Fd : Waiting(r)[g] \subseteq Kinds /\ Waiting(n)[g] \subseteq Kinds
    BY DEF Waiting
  <2>3. ASSUME NEW g \in Fd
        PROVE  Waiting(r)[g] = IF g = fd THEN Waiting(n)[fd] \cup {kind} ELSE Waiting(n)[g]
    BY <2>1, <2>2
  <2>4. Waiting(r) = [g \in Fd |-> Waiting(r)[g]] /\ DOMAIN Waiting(n) = Fd
    BY DEF Waiting
  <2> QED BY <2>3, <2>4
<1>12. n.sock = [n.sock EXCEPT ![fd] = n.sock[fd]]
  BY <1>1
<1> QED
  BY <1>4, <1>6, <1>8, <1>9, <1>10, <1>11, <1>12 DEF Moves, LoopOK

\* poll_entry_unref: the entry with one reference less.
LEMMA UnrefFields ==
    ASSUME NEW n \in NetType, NEW e \in Object, n.obj[e].refs # 0
    PROVE  LET u == Unref(n, e)
           IN  /\ u \in NetType /\ u.sock = n.sock /\ u.panic = n.panic
               /\ \A f \in Object \ {e} : u.obj[f] = n.obj[f]
               /\ u.obj[e].refs = n.obj[e].refs - 1
               /\ u.obj[e].refs # 0 => /\ u.obj[e].queued = n.obj[e].queued
                                       /\ u.obj[e].fd = n.obj[e].fd
                                       /\ u.obj[e].kind = n.obj[e].kind
               /\ u.obj[e].refs = 0 => ~u.obj[e].queued
<1>1. n.obj \in [Object -> ObjType]
  BY DEF NetType
<1>2. n.obj[e] \in ObjType /\ n.obj[e].refs \in {1, 2}
  BY <1>1 DEF ObjType
<1> DEFINE o == IF n.obj[e].refs = 2 THEN [n.obj[e] EXCEPT !.refs = 1] ELSE NoObj
           u == Unref(n, e)
<1>3. /\ o \in ObjType /\ o.refs = n.obj[e].refs - 1
      /\ n.obj[e].refs = 2 => /\ o.queued = n.obj[e].queued
                              /\ o.fd = n.obj[e].fd /\ o.kind = n.obj[e].kind
      /\ n.obj[e].refs = 1 => ~o.queued
  <2>1. NoObj \in ObjType /\ NoObj.queued = FALSE /\ NoObj.refs = 0
    BY DEF NoObj, ObjType, Kinds
  <2> QED BY <1>2, <2>1 DEF ObjType
<1>4. u = Puts(n, e, o)
  <2>1. CASE n.obj[e].refs = 2
    <3>1. u = [n EXCEPT !.obj[e].refs = n.obj[e].refs - 1]
      BY <2>1 DEF Unref
    <3> QED BY <1>1, <2>1, <3>1 DEF Puts
  <2>2. CASE n.obj[e].refs = 1
    BY <2>2 DEF Unref, Puts
  <2> QED BY <1>2, <2>1, <2>2
<1> HIDE DEF o, u
<1>5. /\ u \in NetType /\ u.sock = n.sock /\ u.panic = n.panic
      /\ u.obj[e] = o /\ \A f \in Object \ {e} : u.obj[f] = n.obj[f]
  <2>1. Replaced(n, Puts(n, e, o), e, o)
    BY <1>3, EntryUpdate
  <2>2. Replaced(n, u, e, o)
    BY <1>4, <2>1
  <2> QED BY <2>2 DEF Replaced
<1> QED
  BY <1>2, <1>3, <1>5 DEF u

\* poll_entry_unref of an entry that is taken out of the table.
LEMMA UnqueueMoves ==
    ASSUME NEW n, NEW T, LoopOK(n, T), n.panic = "none", NEW e \in Object, n.obj[e].queued,
           NEW fd, fd = n.obj[e].fd, NEW kind, kind = n.obj[e].kind
    PROVE  /\ fd \in Fd /\ kind \in Waiting(n)[fd]
           /\ Moves(n, Unref([n EXCEPT !.obj[e].queued = FALSE], e), T, fd, n.sock[fd],
                    Waiting(n)[fd] \ {kind})
<1>1. n \in NetType /\ n.obj \in [Object -> ObjType] /\ n.sock \in [Fd -> SockType]
  BY DEF LoopOK, NetType
<1>2. n.obj[e].refs = (IF e \in T THEN 2 ELSE 1) /\ fd \in Fd /\ kind \in Kinds
  BY <1>1 DEF LoopOK, EntryOK, ObjType
<1> DEFINE o1 == [n.obj[e] EXCEPT !.queued = FALSE]
           q == [n EXCEPT !.obj[e].queued = FALSE]
           u == Unref(q, e)
<1>3. /\ o1 \in ObjType /\ o1.queued = FALSE /\ o1.refs = n.obj[e].refs
      /\ o1.fd = fd /\ o1.kind = kind
  <2>1. n.obj[e] \in ObjType
    BY <1>1
  <2> QED BY <2>1 DEF ObjType
<1>4. q = Puts(n, e, o1)
  BY <1>1 DEF Puts
<1> HIDE DEF o1, q
<1>5. /\ q \in NetType /\ q.sock = n.sock /\ q.panic = n.panic
      /\ q.obj[e] = o1 /\ \A f \in Object \ {e} : q.obj[f] = n.obj[f]
  <2>1. Replaced(n, Puts(n, e, o1), e, o1)
    BY <1>1, <1>3, EntryUpdate
  <2>2. Replaced(n, q, e, o1)
    BY <1>4, <2>1
  <2> QED BY <2>2 DEF Replaced
<1>6. q.obj[e].refs = (IF e \in T THEN 2 ELSE 1) /\ q.obj[e].queued = FALSE
      /\ q.obj[e].fd = fd /\ q.obj[e].kind = kind
  BY <1>2, <1>3, <1>5
<1>7. /\ u \in NetType /\ u.sock = q.sock /\ u.panic = q.panic
      /\ \A f \in Object \ {e} : u.obj[f] = q.obj[f]
      /\ u.obj[e].refs = q.obj[e].refs - 1
      /\ u.obj[e].refs # 0 => /\ u.obj[e].queued = q.obj[e].queued
                              /\ u.obj[e].fd = q.obj[e].fd
                              /\ u.obj[e].kind = q.obj[e].kind
      /\ u.obj[e].refs = 0 => ~u.obj[e].queued
  <2>1. q \in NetType /\ q.obj[e].refs # 0
    BY <1>5, <1>6
  <2> QED BY <2>1, UnrefFields
<1> HIDE DEF u
<1>8. /\ u \in NetType /\ u.sock = n.sock /\ u.panic = n.panic
      /\ \A f \in Object \ {e} : u.obj[f] = n.obj[f]
      /\ ~u.obj[e].queued /\ u.obj[e].refs = IF e \in T THEN 1 ELSE 0
      /\ e \in T => u.obj[e].fd = fd /\ u.obj[e].kind = kind
  BY <1>5, <1>6, <1>7
<1>9. EntryOK(u, T)
  BY <1>2, <1>8 DEF LoopOK, EntryOK
<1>10. QueuedOnce(u)
  <2> SUFFICES ASSUME NEW f \in Object, NEW g \in Object, u.obj[f].queued, u.obj[g].queued,
                      SameKey(u, f, g)
               PROVE  f = g
    BY DEF QueuedOnce
  <2>1. f # e /\ g # e
    BY <1>8
  <2> QED BY <1>8, <2>1 DEF LoopOK, QueuedOnce, SameKey
<1>11. TakenOnce(u, T)
  <2>1. \A f \in T : u.obj[f].fd = n.obj[f].fd /\ u.obj[f].kind = n.obj[f].kind
    BY <1>8 DEF LoopOK
  <2> QED BY <2>1 DEF LoopOK, TakenOnce, SameKey
<1>12. kind \in Waiting(n)[fd]
  BY <1>2 DEF Waiting
<1>13. Waiting(u) = [Waiting(n) EXCEPT ![fd] = Waiting(n)[fd] \ {kind}]
  <2>1. ASSUME NEW g \in Fd, NEW k \in Kinds
        PROVE  k \in Waiting(u)[g] <=> k \in Waiting(n)[g] /\ ~(g = fd /\ k = kind)
    <3>1. k \in Waiting(u)[g] <=> \E f \in Object : u.obj[f].queued /\ u.obj[f].fd = g /\ u.obj[f].kind = k
      BY DEF Waiting
    <3>2. k \in Waiting(n)[g] <=> \E f \in Object : n.obj[f].queued /\ n.obj[f].fd = g /\ n.obj[f].kind = k
      BY DEF Waiting
    <3>3. \A f \in Object : n.obj[f].queued /\ n.obj[f].fd = fd /\ n.obj[f].kind = kind => f = e
      BY DEF LoopOK, QueuedOnce, SameKey
    <3> QED BY <1>8, <3>1, <3>2, <3>3
  <2>2. \A g \in Fd : Waiting(u)[g] \subseteq Kinds /\ Waiting(n)[g] \subseteq Kinds
    BY DEF Waiting
  <2>3. ASSUME NEW g \in Fd
        PROVE  Waiting(u)[g] = IF g = fd THEN Waiting(n)[fd] \ {kind} ELSE Waiting(n)[g]
    BY <2>1, <2>2
  <2>4. Waiting(u) = [g \in Fd |-> Waiting(u)[g]] /\ DOMAIN Waiting(n) = Fd
    BY DEF Waiting
  <2> QED BY <2>3, <2>4
<1>14. n.sock = [n.sock EXCEPT ![fd] = n.sock[fd]]
  BY <1>1
<1>15. Moves(n, u, T, fd, n.sock[fd], Waiting(n)[fd] \ {kind})
  BY <1>8, <1>9, <1>10, <1>11, <1>13, <1>14 DEF Moves, LoopOK
<1> QED
  BY <1>2, <1>12, <1>15 DEF u, q

\* poll_callback_device_remove of an entry that is in the table, or whose key
\* is not there.
LEMMA RemoveMoves ==
    ASSUME NEW n, NEW T, LoopOK(n, T), n.panic = "none", NEW fd \in Fd, NEW kind \in Kinds,
           \A k \in Waiting(n)[fd] : Key(k) = Key(kind) => k = kind
    PROVE  Moves(n, Remove(n, fd, kind), T, fd, n.sock[fd], Waiting(n)[fd] \ {kind})
<1>1. n \in NetType /\ n.obj \in [Object -> ObjType] /\ n.sock \in [Fd -> SockType]
  BY DEF LoopOK, NetType
<1>2. \A e \in Find(n, fd, Key(kind)) :
          /\ e \in Object /\ n.obj[e].queued /\ n.obj[e].fd = fd
          /\ n.obj[e].kind \in Waiting(n)[fd] /\ n.obj[e].kind = kind
  <2> TAKE e \in Find(n, fd, Key(kind))
  <2>1. e \in Object /\ n.obj[e].queued /\ n.obj[e].fd = fd /\ Key(n.obj[e].kind) = Key(kind)
    BY DEF Find
  <2>2. n.obj[e].kind \in Kinds
    BY <1>1, <2>1 DEF ObjType
  <2>3. n.obj[e].kind \in Waiting(n)[fd]
    BY <2>1, <2>2 DEF Waiting
  <2> QED BY <2>1, <2>3
<1>3. CASE Find(n, fd, Key(kind)) = {}
  <2>1. Remove(n, fd, kind) = n
    BY <1>3 DEF Remove
  <2>2. kind \notin Waiting(n)[fd]
    BY <1>3 DEF Waiting, Find
  <2>3. Waiting(n)[fd] \ {kind} = Waiting(n)[fd]
    BY <2>2
  <2>4. /\ n.sock = [n.sock EXCEPT ![fd] = n.sock[fd]]
        /\ Waiting(n) = [Waiting(n) EXCEPT ![fd] = Waiting(n)[fd]]
    BY <1>1 DEF Waiting
  <2> QED BY <2>1, <2>3, <2>4 DEF Moves
<1>4. CASE Find(n, fd, Key(kind)) # {}
  <2> DEFINE e == CHOOSE o \in Find(n, fd, Key(kind)) : TRUE
  <2>1. e \in Find(n, fd, Key(kind))
    BY <1>4
  <2>2. e \in Object /\ n.obj[e].queued /\ n.obj[e].fd = fd /\ n.obj[e].kind = kind
    BY <1>2, <2>1
  <2>3. Remove(n, fd, kind) = Unref([n EXCEPT !.obj[e].queued = FALSE], e)
    BY <1>4, <2>2 DEF Remove
  <2> HIDE DEF e
  <2> QED BY <2>2, <2>3, UnqueueMoves
<1> QED
  BY <1>3, <1>4

\* The last reference poll_run_device_queue held on an entry goes.
LEMMA UnrefTaken ==
    ASSUME NEW n, NEW T, LoopOK(n, T), n.panic = "none", NEW e \in T
    PROVE  /\ LoopOK(Unref(n, e), T \ {e}) /\ Unref(n, e).panic = "none"
           /\ Unref(n, e).sock = n.sock /\ Waiting(Unref(n, e)) = Waiting(n)
<1>1. n \in NetType /\ n.obj \in [Object -> ObjType] /\ e \in Object
  BY DEF LoopOK, NetType
<1> DEFINE u == Unref(n, e)
<1>2. n.obj[e].refs = IF n.obj[e].queued THEN 2 ELSE 1
  BY <1>1 DEF LoopOK, EntryOK
<1>3. /\ u \in NetType /\ u.sock = n.sock /\ u.panic = n.panic
      /\ \A f \in Object \ {e} : u.obj[f] = n.obj[f]
      /\ u.obj[e].refs = n.obj[e].refs - 1
      /\ u.obj[e].refs # 0 => /\ u.obj[e].queued = n.obj[e].queued
                              /\ u.obj[e].fd = n.obj[e].fd
                              /\ u.obj[e].kind = n.obj[e].kind
      /\ u.obj[e].refs = 0 => ~u.obj[e].queued
  BY <1>1, <1>2, UnrefFields
<1> HIDE DEF u
<1>4. u.obj \in [Object -> ObjType]
  BY <1>3 DEF NetType
<1>5. n.obj[e].queued \in BOOLEAN /\ u.obj[e].queued \in BOOLEAN
  BY <1>1, <1>4 DEF ObjType
<1>6. EntryOK(u, T \ {e})
  BY <1>2, <1>3, <1>5 DEF LoopOK, EntryOK
<1>7. \A f \in Object : /\ u.obj[f].queued = n.obj[f].queued
                        /\ f # e \/ n.obj[f].queued => u.obj[f].fd = n.obj[f].fd /\ u.obj[f].kind = n.obj[f].kind
  BY <1>2, <1>3, <1>5
<1>8. QueuedOnce(u) /\ TakenOnce(u, T \ {e})
  <2>1. QueuedOnce(u)
    BY <1>7 DEF LoopOK, QueuedOnce, SameKey
  <2>2. TakenOnce(u, T \ {e})
    BY <1>7 DEF LoopOK, TakenOnce, SameKey
  <2> QED BY <2>1, <2>2
<1>9. Waiting(u) = Waiting(n)
  <2>1. ASSUME NEW g \in Fd, NEW k \in Kinds
        PROVE  (\E f \in Object : u.obj[f].queued /\ u.obj[f].fd = g /\ u.obj[f].kind = k)
               <=> (\E f \in Object : n.obj[f].queued /\ n.obj[f].fd = g /\ n.obj[f].kind = k)
    BY <1>7
  <2> QED BY <2>1 DEF Waiting
<1> QED
  BY <1>3, <1>6, <1>8, <1>9 DEF LoopOK, u

\* After a failed assertion nothing is said but that it was this one.
LEMMA UnrefBad ==
    ASSUME NEW n, BadProxy(n), NEW e \in Object PROVE BadProxy(Unref(n, e))
<1>1. n \in NetType /\ n.panic \in {"proxy", "reply"} /\ n.obj \in [Object -> ObjType]
  BY DEF BadProxy, NetType
<1>2. n.obj[e] \in ObjType /\ n.obj[e].refs \in 0..2
  BY <1>1 DEF ObjType
<1>3. CASE n.obj[e].refs = 0
  BY <1>1, <1>3 DEF Unref, Fails, BadProxy
<1>4. CASE n.obj[e].refs # 0
  BY <1>1, <1>4, UnrefFields DEF BadProxy
<1> QED
  BY <1>3, <1>4

-----------------------------------------------------------------------------
(* netasync.c *)

\* What is known of a queue of buffers that is not empty.
LEMMA QueueFacts ==
    ASSUME NEW S, NEW q \in Seq(S), q # <<>>
    PROVE  /\ Len(q) \in Nat \ {0} /\ q[1] \in S
           /\ Tail(q) \in Seq(S) /\ (Tail(q) = <<>> <=> Len(q) =< 1)
           /\ \A l \in S : LET p == [q EXCEPT ![1] = l]
                           IN  p \in Seq(S) /\ p # <<>> /\ Len(p) = Len(q)
<1>1. Len(q) \in Nat \ {0}
  BY EmptySeq, LenProperties
<1>2. q[1] \in S
  BY <1>1, ElementOfSeq
<1>3. Tail(q) \in Seq(S) /\ Len(Tail(q)) = Len(q) - 1
  BY HeadTailProperties
<1>4. Tail(q) = <<>> <=> Len(q) =< 1
  <2> DEFINE t == Tail(q)
  <2>1. t = <<>> <=> Len(t) = 0
    <3>1. t \in Seq(S)
      BY <1>3
    <3> HIDE DEF t
    <3> QED BY <3>1, EmptySeq
  <2> QED BY <1>1, <1>3, <2>1
<1>5. ASSUME NEW l \in S
      PROVE  LET p == [q EXCEPT ![1] = l]
             IN  p \in Seq(S) /\ p # <<>> /\ Len(p) = Len(q)
  <2> DEFINE p == [q EXCEPT ![1] = l]
  <2>1. p \in Seq(S) /\ Len(p) = Len(q)
    BY <1>1, ExceptSeq
  <2> HIDE DEF p
  <2>2. p # <<>>
    BY <1>1, <2>1, EmptySeq
  <2> QED BY <2>1, <2>2 DEF p
<1> QED
  BY <1>1, <1>2, <1>3, <1>4, <1>5

\* A queue to which a buffer was added is not empty.
LEMMA QueueGrows ==
    ASSUME NEW S, NEW q \in Seq(S), NEW l \in S PROVE Append(q, l) # <<>>
BY AppendProperties

\* netasync_send
LEMMA SendMoves ==
    ASSUME NEW n, NEW T, LoopOK(n, T), n.panic = "none", NEW fd \in Fd, NEW len \in 1 .. MaxLen,
           NEW s, s = n.sock[fd], NEW ws, ws = Waiting(n)[fd],
           s.st # "connecting", "connect" \notin ws, s.sendq = <<>> => "send" \notin ws
    PROVE  Moves(n, Send(n, fd, len), T, fd, [s EXCEPT !.sendq = Append(s.sendq, len)],
                 IF s.sendq = <<>> THEN ws \cup {"send"} ELSE ws)
<1>1. n \in NetType /\ n.sock \in [Fd -> SockType] /\ s \in SockType
  BY DEF LoopOK, NetType
<1> DEFINE s1 == [s EXCEPT !.sendq = Append(s.sendq, len)]
           m == [n EXCEPT !.sock[fd].sendq = Append(@, len)]
<1>2. s1 \in SockType
  <2>1. s.sendq \in Seq(1 .. MaxLen)
    BY <1>1 DEF SockType
  <2>2. Append(s.sendq, len) \in Seq(1 .. MaxLen)
    BY <2>1, AppendProperties
  <2> QED BY <1>1, <2>2 DEF SockType
<1>3. m = SetSock(n, fd, s1)
  BY <1>1 DEF SetSock, NetType
<1>4. Send(n, fd, len) = IF s.sendq = <<>> THEN Register(m, fd, "send") ELSE m
  BY DEF Send
<1> HIDE DEF s1, m
<1>5. Moves(n, m, T, fd, s1, ws)
  BY <1>2, <1>3, SocketUpdate
<1>6. CASE s.sendq # <<>>
  BY <1>4, <1>5, <1>6 DEF s1
<1>7. CASE s.sendq = <<>>
  <2>1. LoopOK(m, T) /\ m.panic = "none" /\ m.sock[fd] = s1 /\ Waiting(m)[fd] = ws
    BY <1>5, MovesHere
  <2>2. \A k \in Waiting(m)[fd] : Key(k) # Key("send")
    <3>1. ws \subseteq Kinds
      BY DEF Waiting
    <3>2. \A k \in ws : k = "receive"
      BY <1>7, <3>1 DEF Kinds
    <3> QED BY <2>1, <3>2 DEF Key
  <2>3. "send" \in Kinds
    BY DEF Kinds
  <2>4. Moves(m, Register(m, fd, "send"), T, fd, m.sock[fd], Waiting(m)[fd] \cup {"send"})
    BY <2>1, <2>2, <2>3, RegisterMoves
  <2>5. Moves(m, Register(m, fd, "send"), T, fd, s1, ws \cup {"send"})
    BY <2>1, <2>4
  <2>6. Moves(n, Register(m, fd, "send"), T, fd, s1, ws \cup {"send"})
    BY <1>5, <2>5, MovesTwice
  <2> QED BY <1>4, <1>7, <2>6 DEF s1
<1> QED
  BY <1>6, <1>7

\* netasync_receive
LEMMA ReceiveMoves ==
    ASSUME NEW n, NEW T, LoopOK(n, T), n.panic = "none", NEW fd \in Fd,
           NEW s, s = n.sock[fd], NEW ws, ws = Waiting(n)[fd],
           ~s.recv, "receive" \notin ws
    PROVE  Moves(n, Receive(n, fd), T, fd, [s EXCEPT !.recv = TRUE], ws \cup {"receive"})
<1>1. n \in NetType /\ n.sock \in [Fd -> SockType] /\ s \in SockType
  BY DEF LoopOK, NetType
<1> DEFINE s1 == [s EXCEPT !.recv = TRUE]
           m == [n EXCEPT !.sock[fd].recv = TRUE]
<1>2. s1 \in SockType
  BY <1>1 DEF SockType
<1>3. m = SetSock(n, fd, s1)
  BY <1>1 DEF SetSock, NetType
<1>4. Receive(n, fd) = Register(m, fd, "receive")
  BY DEF Receive
<1> HIDE DEF s1, m
<1>5. Moves(n, m, T, fd, s1, ws)
  BY <1>2, <1>3, SocketUpdate
<1>6. LoopOK(m, T) /\ m.panic = "none" /\ m.sock[fd] = s1 /\ Waiting(m)[fd] = ws
  BY <1>5, MovesHere
<1>7. \A k \in Waiting(m)[fd] : Key(k) # Key("receive")
  <2>1. ws \subseteq Kinds
    BY DEF Waiting
  <2>2. \A k \in ws : k # "receive"
    OBVIOUS
  <2> QED BY <1>6, <2>1, <2>2 DEF Key
<1>8. "receive" \in Kinds
  BY DEF Kinds
<1>9. Moves(m, Register(m, fd, "receive"), T, fd, s1, ws \cup {"receive"})
  BY <1>6, <1>7, <1>8, RegisterMoves
<1>10. Moves(n, Register(m, fd, "receive"), T, fd, s1, ws \cup {"receive"})
  BY <1>5, <1>9, MovesTwice
<1> QED
  BY <1>4, <1>10 DEF s1

\* A socket from which netasync_close takes out all it waits for: it waits for
\* nothing that its state does not show.  A callback may close a socket whose
\* one-shot entry is already gone.
Closable(s, ws) ==
    /\ "send" \in ws => s.sendq # <<>>
    /\ "receive" \in ws => s.recv
    /\ "connect" \in ws <=> s.st = "connecting"
    /\ s.st = "connecting" => s.sendq = <<>>

\* netasync_connect_stop
LEMMA ConnectStopMoves ==
    ASSUME NEW n, NEW T, LoopOK(n, T), n.panic = "none", NEW fd \in Fd,
           "connect" \in Waiting(n)[fd], "send" \notin Waiting(n)[fd]
    PROVE  Moves(n, ConnectStop(n, fd), T, fd, n.sock[fd], Waiting(n)[fd] \ {"connect"})
<1>1. Find(n, fd, "write") # {}
  <2>1. PICK e \in Object : n.obj[e].queued /\ n.obj[e].fd = fd /\ n.obj[e].kind = "connect"
    BY DEF Waiting
  <2> QED BY <2>1 DEF Find, Key
<1>2. ConnectStop(n, fd) = Remove(n, fd, "connect")
  BY <1>1 DEF ConnectStop
<1>3. "connect" \in Kinds /\ Waiting(n)[fd] \subseteq Kinds
  BY DEF Kinds, Waiting
<1>4. \A k \in Waiting(n)[fd] : Key(k) = Key("connect") => k = "connect"
  BY <1>3 DEF Key, Kinds
<1> QED
  BY <1>2, <1>3, <1>4, RemoveMoves, SMTT(30)

\* netasync_close
LEMMA CloseMoves ==
    ASSUME NEW n, NEW T, LoopOK(n, T), n.panic = "none", NEW fd \in Fd,
           Closable(n.sock[fd], Waiting(n)[fd])
    PROVE  Moves(n, Close(n, fd), T, fd, NoSock, {})
<1> DEFINE s == n.sock[fd]
           ws == Waiting(n)[fd]
           a == IF s.sendq # <<>> THEN Remove(n, fd, "send") ELSE n
           b == IF s.st = "connecting" THEN ConnectStop(a, fd) ELSE a
           c == IF s.recv THEN Remove(b, fd, "receive") ELSE b
           v == ws \ {"send"}
           w == v \ {"connect"}
<1>1. n \in NetType /\ n.sock \in [Fd -> SockType] /\ s \in SockType /\ ws \subseteq Kinds
  BY DEF LoopOK, NetType, Waiting
<1>2. Close(n, fd) = [c EXCEPT !.sock[fd] = NoSock]
  BY DEF Close
<1>3. Closable(s, ws) /\ s = n.sock[fd] /\ ws = Waiting(n)[fd]
  OBVIOUS
<1>4. Moves(n, n, T, fd, s, ws)
  <2>1. n.sock = [n.sock EXCEPT ![fd] = s] /\ Waiting(n) = [Waiting(n) EXCEPT ![fd] = ws]
    BY <1>1 DEF Waiting
  <2> QED BY <2>1 DEF Moves
<1> HIDE DEF s, ws
<1>5. Moves(n, a, T, fd, s, v)
  <2>1. CASE s.sendq # <<>>
    <3>1. \A k \in ws : Key(k) = Key("send") => k = "send"
      BY <1>1, <1>3, <2>1 DEF Closable, Key, Kinds
    <3>2. "send" \in Kinds
      BY DEF Kinds
    <3> QED BY <1>3, <2>1, <3>1, <3>2, RemoveMoves
  <2>2. CASE s.sendq = <<>>
    <3>1. v = ws
      BY <1>3, <2>2 DEF Closable
    <3> QED BY <1>4, <2>2, <3>1
  <2> QED BY <2>1, <2>2
<1> HIDE DEF a, v
<1>6. LoopOK(a, T) /\ a.panic = "none" /\ a.sock[fd] = s /\ Waiting(a)[fd] = v
  BY <1>5, MovesHere
<1>7. Moves(n, b, T, fd, s, w)
  <2>1. CASE s.st = "connecting"
    <3>1. "connect" \in v /\ "send" \notin v
      BY <1>3, <2>1 DEF Closable, v
    <3>2. Moves(a, b, T, fd, s, w)
      BY <1>6, <2>1, <3>1, ConnectStopMoves
    <3> QED BY <1>5, <3>2, MovesTwice
  <2>2. CASE s.st # "connecting"
    <3>1. w = v
      BY <1>3, <2>2 DEF Closable, v
    <3> QED BY <1>5, <2>2, <3>1
  <2> QED BY <2>1, <2>2
<1> HIDE DEF b, w
<1>8. LoopOK(b, T) /\ b.panic = "none" /\ b.sock[fd] = s /\ Waiting(b)[fd] = w
  BY <1>7, MovesHere
<1>9. Moves(n, c, T, fd, s, {})
  <2>1. w \subseteq {"receive"}
    BY <1>1 DEF w, v, Kinds
  <2>2. CASE s.recv
    <3>1. \A k \in w : Key(k) = Key("receive") => k = "receive"
      BY <2>1
    <3>2. "receive" \in Kinds /\ w \ {"receive"} = {}
      BY <2>1 DEF Kinds
    <3>3. Moves(b, c, T, fd, s, w \ {"receive"})
      BY <1>8, <2>2, <3>1, <3>2, RemoveMoves
    <3>4. Moves(b, c, T, fd, s, {})
      BY <3>2, <3>3
    <3> QED BY <1>7, <3>4, MovesTwice
  <2>3. CASE ~s.recv
    <3>1. w = {}
      BY <1>3, <2>1, <2>3 DEF Closable, w, v
    <3> QED BY <1>7, <2>3, <3>1
  <2> QED BY <2>2, <2>3
<1> HIDE DEF c
<1>10. LoopOK(c, T) /\ c.panic = "none" /\ Waiting(c)[fd] = {}
  BY <1>9, MovesHere
<1>11. NoSock \in SockType
  <2>1. <<>> \in Seq(1 .. MaxLen)
    OBVIOUS
  <2> QED BY <2>1 DEF NoSock, SockType
<1>12. Moves(c, SetSock(c, fd, NoSock), T, fd, NoSock, {})
  BY <1>10, <1>11, SocketUpdate
<1>13. Moves(n, SetSock(c, fd, NoSock), T, fd, NoSock, {})
  BY <1>9, <1>12, MovesTwice
<1> QED
  BY <1>2, <1>13 DEF SetSock

\* The socket has been moved to a state that fits what it waits for.
Settles(n, r, T, fd) == \E s, ws : Fits(s, ws) /\ Moves(n, r, T, fd, s, ws)

\* An operation that settles after one that does not.
LEMMA SettlesLater ==
    ASSUME NEW n, NEW T, LoopOK(n, T), NEW fd \in Fd, NEW m, NEW s, NEW ws,
           Moves(n, m, T, fd, s, ws), NEW r, Settles(m, r, T, fd)
    PROVE  Settles(n, r, T, fd)
<1>1. PICK s2, ws2 : Fits(s2, ws2) /\ Moves(m, r, T, fd, s2, ws2)
  BY DEF Settles
<1>2. Moves(n, r, T, fd, s2, ws2)
  BY <1>1, MovesTwice
<1> QED
  BY <1>1, <1>2 DEF Settles

\* When one socket settles and the others fit, all fit.
LEMMA SettlesGood ==
    ASSUME NEW n, NEW T, LoopOK(n, T), NEW fd \in Fd, FitsAll(n, Fd \ {fd}),
           NEW r, Settles(n, r, T, fd)
    PROVE  Good(r, T)
<1>1. PICK s, ws : Fits(s, ws) /\ Moves(n, r, T, fd, s, ws)
  BY DEF Settles
<1> QED
  BY <1>1, MovesFit

\* A socket that waits for nothing, and has nothing to do.
Idle(s, ws) == ws = {} /\ s.sendq = <<>> /\ ~s.recv /\ ~s.timer

\* peer_connect_cb
LEMMA PeerConnectedSettles ==
    ASSUME NEW n, NEW T, LoopOK(n, T), n.panic = "none", NEW fd \in Fd,
           Idle(n.sock[fd], Waiting(n)[fd])
    PROVE  Settles(n, PeerConnected(n, fd), T, fd)
<1> DEFINE s == n.sock[fd]
           s1 == [s EXCEPT !.st = "up"]
           s2 == [s1 EXCEPT !.recv = TRUE]
           s3 == [s2 EXCEPT !.sendq = Append(s2.sendq, MaxLen)]
           m == [n EXCEPT !.sock[fd].st = "up"]
           q == Receive(m, fd)
           r == Send(q, fd, MaxLen)
<1>1. n \in NetType /\ n.sock \in [Fd -> SockType] /\ s \in SockType
  BY DEF LoopOK, NetType
<1>2. s.sendq = <<>> /\ ~s.recv /\ ~s.timer /\ Waiting(n)[fd] = {}
  BY DEF Idle
<1>3. /\ s1 \in SockType /\ s1.st = "up" /\ s1.sendq = <<>> /\ ~s1.recv /\ ~s1.timer
      /\ s2.st = "up" /\ s2.sendq = <<>> /\ s2.recv /\ ~s2.timer
      /\ s3.st = "up" /\ s3.sendq = Append(<<>>, MaxLen) /\ s3.recv /\ ~s3.timer
  BY <1>1, <1>2 DEF SockType
<1>4. m = SetSock(n, fd, s1)
  BY <1>1 DEF SetSock, NetType
<1>5. PeerConnected(n, fd) = r
  BY DEF PeerConnected
<1> HIDE DEF s, s1, m
<1>6. Moves(n, m, T, fd, s1, {})
  <2>1. s1 \in SockType
    BY <1>3
  <2> QED BY <1>2, <1>4, <2>1, SocketUpdate
<1>7. LoopOK(m, T) /\ m.panic = "none" /\ m.sock[fd] = s1 /\ Waiting(m)[fd] = {}
  BY <1>6, MovesHere
<1>8. Moves(m, q, T, fd, s2, {"receive"})
  <2>1. Moves(m, Receive(m, fd), T, fd, [s1 EXCEPT !.recv = TRUE], {} \cup {"receive"})
    BY <1>3, <1>7, ReceiveMoves
  <2>2. {} \cup {"receive"} = {"receive"}
    OBVIOUS
  <2> QED BY <2>1, <2>2
<1> HIDE DEF q, s2
<1>9. LoopOK(q, T) /\ q.panic = "none" /\ q.sock[fd] = s2 /\ Waiting(q)[fd] = {"receive"}
  BY <1>7, <1>8, MovesHere
<1>10. Moves(q, r, T, fd, s3, {"receive", "send"})
  <2>1. MaxLen \in 1 .. MaxLen
    BY NetLoopAssumption
  <2>2. Moves(q, Send(q, fd, MaxLen), T, fd, [s2 EXCEPT !.sendq = Append(s2.sendq, MaxLen)],
              IF s2.sendq = <<>> THEN {"receive"} \cup {"send"} ELSE {"receive"})
    BY <1>3, <1>9, <2>1, SendMoves
  <2>3. (IF s2.sendq = <<>> THEN {"receive"} \cup {"send"} ELSE {"receive"}) = {"receive", "send"}
    BY <1>3
  <2> QED BY <2>2, <2>3
<1> HIDE DEF r, s3
<1>11. Moves(n, r, T, fd, s3, {"receive", "send"})
  <2>1. Moves(n, q, T, fd, s2, {"receive"})
    BY <1>6, <1>8, MovesTwice
  <2> QED BY <1>10, <2>1, MovesTwice
<1>12. Fits(s3, {"receive", "send"})
  <2>1. Append(<<>>, MaxLen) # <<>>
    <3>1. <<>> \in Seq(1 .. MaxLen) /\ MaxLen \in 1 .. MaxLen
      BY NetLoopAssumption
    <3>2. Len(Append(<<>>, MaxLen)) = 1
      BY <3>1, AppendProperties
    <3> QED BY <3>2
  <2> QED BY <1>3, <2>1 DEF Fits
<1> QED
  BY <1>5, <1>11, <1>12 DEF Settles

\* netasync_socks_handler, in a state of the handshake.
LEMMA SocksHandlerSettles ==
    ASSUME NEW n, NEW T, LoopOK(n, T), n.panic = "none", NEW fd \in Fd,
           Idle(n.sock[fd], Waiting(n)[fd]), n.sock[fd].socks # 0
    PROVE  Settles(n, SocksHandler(n, fd), T, fd)
<1> DEFINE s == n.sock[fd]
           k == s.socks
           s1 == [[s EXCEPT !.socks = k + 1] EXCEPT !.st = "socks"]
           m == [n EXCEPT !.sock[fd].socks = k + 1, !.sock[fd].st = "socks"]
<1>1. n \in NetType /\ n.sock \in [Fd -> SockType] /\ s \in SockType
  BY DEF LoopOK, NetType
<1>2. s.sendq = <<>> /\ ~s.recv /\ ~s.timer /\ Waiting(n)[fd] = {} /\ k \in 1..5
  BY <1>1 DEF Idle, SockType
<1>3. CASE k = 5
  <2>1. SocksHandler(n, fd) = PeerConnected(n, fd)
    BY <1>3 DEF SocksHandler
  <2> QED BY <2>1, PeerConnectedSettles
<1>4. CASE k \in 1..4
  <2>1. /\ s1 \in SockType /\ s1.st = "socks" /\ s1.sendq = <<>> /\ ~s1.recv /\ ~s1.timer
        /\ s1.socks = k + 1
    <3>1. k + 1 \in 0..5
      BY <1>4
    <3> DEFINE j == k + 1
    <3> HIDE DEF j
    <3>2. /\ [[s EXCEPT !.socks = j] EXCEPT !.st = "socks"] \in SockType
          /\ [[s EXCEPT !.socks = j] EXCEPT !.st = "socks"].st = "socks"
          /\ [[s EXCEPT !.socks = j] EXCEPT !.st = "socks"].sendq = s.sendq
          /\ [[s EXCEPT !.socks = j] EXCEPT !.st = "socks"].recv = s.recv
          /\ [[s EXCEPT !.socks = j] EXCEPT !.st = "socks"].timer = s.timer
          /\ [[s EXCEPT !.socks = j] EXCEPT !.st = "socks"].socks = j
      BY <1>1, <3>1 DEF SockType, j
    <3> QED BY <1>2, <3>2 DEF j
  <2>2. m = SetSock(n, fd, s1)
    BY <1>1 DEF SetSock, NetType
  <2>3. SocksHandler(n, fd) = IF k \in {1, 3} THEN Send(m, fd, 1) ELSE Receive(m, fd)
    BY <1>4 DEF SocksHandler
  <2> HIDE DEF s1, m
  <2>4. Moves(n, m, T, fd, s1, {})
    BY <1>2, <2>1, <2>2, SocketUpdate
  <2>5. LoopOK(m, T) /\ m.panic = "none" /\ m.sock[fd] = s1 /\ Waiting(m)[fd] = {}
    BY <2>4, MovesHere
  <2>6. CASE k \in {1, 3}
    <3> DEFINE s2 == [s1 EXCEPT !.sendq = Append(s1.sendq, 1)]
    <3>1. 1 \in 1 .. MaxLen
      BY NetLoopAssumption
    <3>2. Moves(m, Send(m, fd, 1), T, fd, s2, IF s1.sendq = <<>> THEN {} \cup {"send"} ELSE {})
      BY <2>1, <2>5, <3>1, SendMoves
    <3>3. (IF s1.sendq = <<>> THEN {} \cup {"send"} ELSE {}) = {"send"}
      BY <2>1
    <3>4. Moves(m, Send(m, fd, 1), T, fd, s2, {"send"})
      BY <3>2, <3>3
    <3>5. /\ s2.st = "socks" /\ s2.sendq = Append(<<>>, 1) /\ ~s2.recv /\ ~s2.timer
          /\ s2.socks = k + 1
      BY <2>1 DEF SockType
    <3>6. Append(<<>>, 1) # <<>> /\ Len(Append(<<>>, 1)) = 1
      <4>1. <<>> \in Seq(1 .. MaxLen) /\ 1 \in 1 .. MaxLen
        BY NetLoopAssumption
      <4>2. Len(Append(<<>>, 1)) = 1
        BY <4>1, AppendProperties
      <4> QED BY <4>2
    <3> HIDE DEF s2
    <3>7. Fits(s2, {"send"})
      BY <2>6, <3>5, <3>6 DEF Fits
    <3>8. Settles(m, Send(m, fd, 1), T, fd)
      BY <3>4, <3>7 DEF Settles
    <3>9. Settles(n, Send(m, fd, 1), T, fd)
      BY <2>4, <3>8, SettlesLater
    <3> QED BY <2>3, <2>6, <3>9
  <2>7. CASE k \in {2, 4}
    <3> DEFINE s2 == [s1 EXCEPT !.recv = TRUE]
    <3>1. Moves(m, Receive(m, fd), T, fd, s2, {} \cup {"receive"})
      BY <2>1, <2>5, ReceiveMoves
    <3>2. Moves(m, Receive(m, fd), T, fd, s2, {"receive"})
      <4>1. {} \cup {"receive"} = {"receive"}
        OBVIOUS
      <4> QED BY <3>1, <4>1
    <3>3. s2.st = "socks" /\ s2.sendq = <<>> /\ s2.recv /\ ~s2.timer /\ s2.socks = k + 1
      BY <2>1 DEF SockType
    <3> HIDE DEF s2
    <3>4. Fits(s2, {"receive"})
      BY <2>7, <3>3 DEF Fits
    <3>5. Settles(m, Receive(m, fd), T, fd)
      BY <3>2, <3>4 DEF Settles
    <3>6. Settles(n, Receive(m, fd), T, fd)
      BY <2>4, <3>5, SettlesLater
    <3> QED BY <2>3, <2>7, <3>6
  <2> QED BY <1>4, <2>6, <2>7
<1> QED
  BY <1>2, <1>3, <1>4

\* netasync_connected without an error: the peer is told, or the handshake with
\* the proxy begins, unless it was not expected.
LEMMA ConnectedSettles ==
    ASSUME NEW n, NEW T, LoopOK(n, T), n.panic = "none", NEW fd \in Fd,
           NEW s, s = n.sock[fd], Waiting(n)[fd] = {}, s.sendq = <<>>, ~s.recv
    PROVE  \/ Settles(n, Connected(n, fd), T, fd)
           \/ s.proxy /\ s.socks = 0 /\ BadProxy(Connected(n, fd))
<1> DEFINE s1 == [[s EXCEPT !.st = "socks"] EXCEPT !.timer = FALSE]
           m == [n EXCEPT !.sock[fd].st = "socks", !.sock[fd].timer = FALSE]
<1>1. n \in NetType /\ n.sock \in [Fd -> SockType] /\ s \in SockType
  BY DEF LoopOK, NetType
<1>2. /\ s1 \in SockType /\ s1.st = "socks" /\ s1.sendq = <<>> /\ ~s1.recv /\ ~s1.timer
      /\ s1.socks = s.socks
  BY <1>1 DEF SockType
<1>3. m = SetSock(n, fd, s1)
  BY <1>1 DEF SetSock, NetType
<1>4. Connected(n, fd) = IF s.proxy THEN SocksHandler(m, fd) ELSE PeerConnected(m, fd)
  BY DEF Connected
<1> HIDE DEF s1, m
<1>5. Moves(n, m, T, fd, s1, {})
  BY <1>2, <1>3, SocketUpdate
<1>6. LoopOK(m, T) /\ m.panic = "none" /\ m.sock[fd] = s1 /\ Waiting(m)[fd] = {} /\ m \in NetType
  BY <1>5, MovesHere
<1>7. Idle(m.sock[fd], Waiting(m)[fd])
  BY <1>2, <1>6 DEF Idle
<1>8. CASE ~s.proxy
  <2>1. Settles(m, PeerConnected(m, fd), T, fd)
    BY <1>6, <1>7, PeerConnectedSettles
  <2> QED BY <1>4, <1>5, <1>8, <2>1, SettlesLater
<1>9. CASE s.proxy /\ s.socks # 0
  <2>1. m.sock[fd].socks # 0
    BY <1>2, <1>6, <1>9
  <2>2. Settles(m, SocksHandler(m, fd), T, fd)
    BY <1>6, <1>7, <2>1, SocksHandlerSettles
  <2> QED BY <1>4, <1>5, <1>9, <2>2, SettlesLater
<1>10. CASE s.proxy /\ s.socks = 0
  <2>1. m.sock[fd].socks = 0
    BY <1>2, <1>6, <1>10
  <2>2. SocksHandler(m, fd) = Fails(m, "proxy")
    BY <2>1 DEF SocksHandler
  <2>3. Fails(m, "proxy") = [m EXCEPT !.panic = "proxy"]
    BY <1>6 DEF Fails
  <2> DEFINE x == [m EXCEPT !.panic = "proxy"]
  <2>4. x \in NetType /\ x.panic = "proxy"
    <3>1. m \in NetType
      BY <1>6
    <3> QED BY <3>1 DEF NetType
  <2> QED BY <1>4, <1>10, <2>2, <2>3, <2>4 DEF BadProxy
<1> QED
  BY <1>8, <1>9, <1>10

\* Nothing changes when a socket waits for what it waited for.
LEMMA SameWaiting ==
    ASSUME NEW n, NEW fd \in Fd
    PROVE  Waiting(n) = [Waiting(n) EXCEPT ![fd] = Waiting(n)[fd]]
BY DEF Waiting

\* A state in which one socket and things outside the loop were changed.
LEMMA OutsideMoves ==
    ASSUME NEW n, NEW T, LoopOK(n, T), n.panic = "none", NEW fd \in Fd, NEW s,
           NEW x \in NetType, x.obj = n.obj, x.panic = n.panic,
           x.sock = [n.sock EXCEPT ![fd] = s]
    PROVE  Moves(n, x, T, fd, s, Waiting(n)[fd])
<1>1. LoopOK(x, T) /\ Waiting(x) = Waiting(n)
  BY SameEntries
<1>2. Waiting(n) = [Waiting(n) EXCEPT ![fd] = Waiting(n)[fd]]
  BY SameWaiting
<1> QED
  BY <1>1, <1>2 DEF Moves

\* What every operation that ends a callback leaves.
Fine(r, T) == Good(r, T) \/ BadProxy(r)

\* netasync_connect
LEMMA ConnectsFine ==
    ASSUME NEW n, NEW T, Good(n, T), NEW fd \in Closed(n), NEW proxy \in BOOLEAN,
           NEW r \in Connects(n, fd, proxy)
    PROVE  Fine(r, T)
<1>1. /\ n \in NetType /\ n.sock \in [Fd -> SockType] /\ fd \in Fd /\ LoopOK(n, T)
      /\ n.panic = "none" /\ FitsAll(n, Fd \ {fd})
  BY DEF LoopOK, NetType, Good, FitsAll, Closed
<1>2. Waiting(n)[fd] = {}
  <2>1. Fits(n.sock[fd], Waiting(n)[fd]) /\ n.sock[fd].st = "closed"
    BY <1>1 DEF Good, FitsAll, Closed
  <2>2. \A k \in Kinds : k \notin Waiting(n)[fd]
    BY <2>1 DEF Fits, Kinds
  <2>3. Waiting(n)[fd] \subseteq Kinds
    BY <1>1 DEF Waiting
  <2> QED BY <2>2, <2>3
<1> DEFINE s0 == [NoSock EXCEPT !.st = "connecting", !.proxy = proxy]
           k == IF proxy THEN 1 ELSE 0
           sa == [[s0 EXCEPT !.timer = TRUE] EXCEPT !.socks = k]
           sb == [s0 EXCEPT !.st = "socks"]
           m == [n EXCEPT !.sock[fd] = s0, !.connects = @ + 1]
           a == [m EXCEPT !.wire[fd] = "silent", !.sock[fd].timer = TRUE, !.sock[fd].socks = k]
           b == [m EXCEPT !.sock[fd].st = "socks"]
<1> DEFINE c == [n EXCEPT !.connects = @ + 1]
<1>3. r = Register(a, fd, "connect") \/ r = Connected(b, fd) \/ r = c
  BY DEF Connects
<1>4. /\ s0.st = "connecting" /\ s0.proxy = proxy /\ s0.socks = 0 /\ ~s0.timer
      /\ s0.sendq = <<>> /\ s0.recv = FALSE /\ s0 \in SockType
  <2>1. <<>> \in Seq(1 .. MaxLen)
    OBVIOUS
  <2>2. /\ NoSock \in SockType /\ NoSock.socks = 0 /\ ~NoSock.timer
        /\ NoSock.sendq = <<>> /\ NoSock.recv = FALSE
    BY <2>1 DEF NoSock, SockType
  <2> QED BY <2>2 DEF SockType
<1>5. k \in 0..5 /\ (k = IF proxy THEN 1 ELSE 0)
  OBVIOUS
<1> HIDE DEF s0, k
<1>6. /\ sa \in SockType /\ sa.st = "connecting" /\ sa.proxy = proxy /\ sa.socks = k
      /\ sa.timer /\ sa.sendq = <<>> /\ ~sa.recv
  BY <1>4, <1>5 DEF SockType
<1>7. /\ sb \in SockType /\ sb.sendq = <<>> /\ ~sb.recv
  BY <1>4 DEF SockType
<1>8. /\ a.obj = n.obj /\ a.panic = n.panic /\ a.sock = [n.sock EXCEPT ![fd] = sa]
      /\ a \in NetType
  <2>1. n.wire \in [Fd -> {"silent", "open", "refused"}] /\ n.connects \in Nat
    BY <1>1 DEF NetType
  <2>2. /\ a.obj = n.obj /\ a.panic = n.panic /\ a.sock = [n.sock EXCEPT ![fd] = sa]
        /\ a.wire = [n.wire EXCEPT ![fd] = "silent"] /\ a.connects = n.connects + 1
    BY <1>1 DEF NetType
  <2>3. a.sock \in [Fd -> SockType]
    <3> HIDE DEF sa, a
    <3> QED BY <1>1, <1>6, <2>2
  <2>4. a.wire \in [Fd -> {"silent", "open", "refused"}] /\ a.connects \in Nat
    <3> HIDE DEF sa, a
    <3> QED BY <1>1, <2>1, <2>2
  <2>5. a \in NetType
    BY <1>1, <2>2, <2>3, <2>4 DEF NetType
  <2> QED BY <2>2, <2>5
<1>9. /\ b.obj = n.obj /\ b.panic = n.panic /\ b.sock = [n.sock EXCEPT ![fd] = sb]
      /\ b \in NetType
  <2>1. n.connects \in Nat
    BY <1>1 DEF NetType
  <2>2. /\ b.obj = n.obj /\ b.panic = n.panic /\ b.sock = [n.sock EXCEPT ![fd] = sb]
        /\ b.wire = n.wire /\ b.connects = n.connects + 1
    BY <1>1 DEF NetType
  <2>3. b.sock \in [Fd -> SockType]
    <3> HIDE DEF sb, b
    <3> QED BY <1>1, <1>7, <2>2
  <2>4. b.connects \in Nat
    <3> HIDE DEF b
    <3> QED BY <2>1, <2>2
  <2>5. b \in NetType
    BY <1>1, <2>2, <2>3, <2>4 DEF NetType
  <2> QED BY <2>2, <2>5
<1> HIDE DEF a, b, sa, sb
<1>10. CASE r = Register(a, fd, "connect")
  <2>1. Moves(n, a, T, fd, sa, {})
    <3>1. Moves(n, a, T, fd, sa, Waiting(n)[fd])
      BY <1>1, <1>8, OutsideMoves
    <3> QED BY <1>2, <3>1
  <2>2. LoopOK(a, T) /\ a.panic = "none" /\ a.sock[fd] = sa /\ Waiting(a)[fd] = {}
    BY <1>1, <2>1, MovesHere
  <2>3. "connect" \in Kinds /\ \A j \in Waiting(a)[fd] : Key(j) # Key("connect")
    BY <2>2 DEF Kinds
  <2>4. Moves(a, r, T, fd, a.sock[fd], Waiting(a)[fd] \cup {"connect"})
    BY <1>1, <1>10, <2>2, <2>3, RegisterMoves
  <2>5. Waiting(a)[fd] \cup {"connect"} = {"connect"}
    BY <2>2
  <2>6. Moves(a, r, T, fd, sa, {"connect"})
    BY <2>2, <2>4, <2>5
  <2>7. Fits(sa, {"connect"})
    BY <1>5, <1>6 DEF Fits
  <2>8. Settles(a, r, T, fd)
    BY <2>6, <2>7 DEF Settles
  <2>9. Settles(n, r, T, fd)
    BY <1>1, <2>1, <2>8, SettlesLater
  <2> QED BY <1>1, <2>9, SettlesGood DEF Fine
<1>11. CASE r = Connected(b, fd)
  <2>1. Moves(n, b, T, fd, sb, {})
    <3>1. Moves(n, b, T, fd, sb, Waiting(n)[fd])
      BY <1>1, <1>9, OutsideMoves
    <3> QED BY <1>2, <3>1
  <2>2. LoopOK(b, T) /\ b.panic = "none" /\ b.sock[fd] = sb /\ Waiting(b)[fd] = {}
    BY <1>1, <2>1, MovesHere
  <2>3. Settles(b, r, T, fd) \/ BadProxy(r)
    BY <1>1, <1>7, <1>11, <2>2, ConnectedSettles
  <2>4. CASE Settles(b, r, T, fd)
    <3>1. Settles(n, r, T, fd)
      BY <1>1, <2>1, <2>4, SettlesLater
    <3> QED BY <1>1, <3>1, SettlesGood DEF Fine
  <2> QED BY <2>3, <2>4 DEF Fine
<1>12. CASE r = c
  <2>1. n.connects \in Nat
    BY <1>1 DEF NetType
  <2>2. /\ c.obj = n.obj /\ c.panic = n.panic /\ c.sock = n.sock
        /\ c.wire = n.wire /\ c.connects = n.connects + 1
    BY <1>1 DEF NetType
  <2>3. c \in NetType
    BY <1>1, <2>1, <2>2 DEF NetType
  <2> HIDE DEF c
  <2>4. LoopOK(c, T) /\ Waiting(c) = Waiting(n)
    BY <1>1, <2>2, <2>3, SameEntries
  <2>5. FitsAll(c, Fd)
    BY <2>2, <2>4 DEF Good, FitsAll
  <2> QED BY <1>1, <1>12, <2>2, <2>4, <2>5 DEF Fine, Good
<1> QED
  BY <1>3, <1>10, <1>11, <1>12

\* peer_destroy, of a socket that can be closed.
LEMMA DestroysFine ==
    ASSUME NEW n, NEW T, LoopOK(n, T), n.panic = "none", NEW fd \in Fd,
           Closable(n.sock[fd], Waiting(n)[fd]), FitsAll(n, Fd \ {fd}),
           NEW r \in Destroys(n, fd)
    PROVE  Fine(r, T)
<1> DEFINE m == Close(n, fd)
<1>1. Moves(n, m, T, fd, NoSock, {})
  BY CloseMoves
<1>2. Fits(NoSock, {})
  BY DEF Fits, NoSock
<1>3. Good(m, T)
  BY <1>1, <1>2, MovesFit
<1>4. r = m \/ \E g \in Closed(m), p \in BOOLEAN : r \in Connects(m, g, p)
  BY DEF Destroys
<1> HIDE DEF m
<1> QED
  BY <1>3, <1>4, ConnectsFine DEF Fine

\* A socket that fits can be closed.
LEMMA FitsClosable == ASSUME NEW s, NEW ws, Fits(s, ws) PROVE Closable(s, ws)
BY DEF Fits, Closable

-----------------------------------------------------------------------------
(* The callbacks *)

\* What may be said of the socket fd when its callback begins: it fits ws, of
\* which the one-shot event k, if there is one, is no longer waited for.
Begins(n, T, fd, s, ws, v) ==
    /\ LoopOK(n, T) /\ n.panic = "none" /\ FitsAll(n, Fd \ {fd})
    /\ n.sock[fd] = s /\ Waiting(n)[fd] = v /\ Fits(s, ws)

\* The types of a socket and of what it waits for.
LEMMA BeginsTypes ==
    ASSUME NEW n, NEW T, NEW fd \in Fd, NEW s, NEW ws, NEW v, Begins(n, T, fd, s, ws, v)
    PROVE  /\ n \in NetType /\ n.sock \in [Fd -> SockType] /\ s \in SockType /\ v \subseteq Kinds
           /\ s.sendq \in Seq(1 .. MaxLen)
<1>1. n \in NetType /\ n.sock \in [Fd -> SockType]
  BY DEF Begins, LoopOK, NetType
<1>2. s \in SockType
  BY <1>1 DEF Begins
<1>3. v \subseteq Kinds
  BY DEF Begins, Waiting
<1> QED
  BY <1>1, <1>2, <1>3 DEF SockType

\* peer_receive_cb: m is the state after netasync_receive_cb took the receive
\* entry out.
LEMMA PeerReceivesFine ==
    ASSUME NEW m, NEW T, NEW fd \in Fd, LoopOK(m, T), m.panic = "none", FitsAll(m, Fd \ {fd}),
           NEW s, s = m.sock[fd], NEW v, v = Waiting(m)[fd],
           s.st = "up", ~s.timer, ~s.recv, "receive" \notin v, "connect" \notin v,
           "send" \in v <=> s.sendq # <<>>,
           NEW r \in PeerReceives(m, fd)
    PROVE  Fine(r, T)
<1>1. m \in NetType /\ m.sock \in [Fd -> SockType] /\ s \in SockType
  BY DEF LoopOK, NetType
<1> DEFINE s1 == [s EXCEPT !.recv = TRUE]
           ws == v \cup {"receive"}
<1>2. Moves(m, Receive(m, fd), T, fd, s1, ws)
  BY ReceiveMoves
<1>3. Fits(s1, ws)
  <2>1. /\ s1.st = "up" /\ ~s1.timer /\ s1.recv /\ s1.sendq = s.sendq
    BY <1>1 DEF SockType
  <2> HIDE DEF s1
  <2> QED BY <2>1 DEF Fits
<1>4. Good(Receive(m, fd), T)
  <2> HIDE DEF s1, ws
  <2> QED BY <1>2, <1>3, MovesFit
<1>5. CASE r = Receive(m, fd)
  BY <1>4, <1>5 DEF Fine
<1>6. CASE r \in Destroys(m, fd)
  <2>1. Closable(s, v)
    BY DEF Closable
  <2> QED BY <1>6, <2>1, DestroysFine
<1>7. ASSUME NEW l \in 1 .. MaxLen, r = Receive(Send(m, fd, l), fd) PROVE Fine(r, T)
  <2> DEFINE q == Send(m, fd, l)
             s2 == [s EXCEPT !.sendq = Append(s.sendq, l)]
             v2 == IF s.sendq = <<>> THEN v \cup {"send"} ELSE v
  <2>1. Moves(m, q, T, fd, s2, v2)
    BY SendMoves
  <2>2. s2.st = "up" /\ ~s2.timer /\ ~s2.recv /\ s2.sendq = Append(s.sendq, l) /\ s2 \in SockType
    <3>1. s.sendq \in Seq(1 .. MaxLen)
      BY <1>1 DEF SockType
    <3>2. Append(s.sendq, l) \in Seq(1 .. MaxLen)
      BY <3>1, AppendProperties
    <3> QED BY <1>1, <3>2 DEF SockType
  <2>3. s2.sendq # <<>>
    <3>1. s.sendq \in Seq(1 .. MaxLen)
      BY <1>1 DEF SockType
    <3> DEFINE q0 == s.sendq
    <3>2. q0 \in Seq(1 .. MaxLen)
      BY <3>1
    <3> HIDE DEF q0
    <3>3. Append(q0, l) # <<>>
      BY <3>2, QueueGrows
    <3> QED BY <2>2, <3>3 DEF q0
  <2>4. "receive" \notin v2 /\ "connect" \notin v2 /\ "send" \in v2
    OBVIOUS
  <2> HIDE DEF q, s2, v2
  <2>5. LoopOK(q, T) /\ q.panic = "none" /\ q.sock[fd] = s2 /\ Waiting(q)[fd] = v2
    BY <2>1, MovesHere
  <2> DEFINE s3 == [s2 EXCEPT !.recv = TRUE]
  <2>6. Moves(q, Receive(q, fd), T, fd, s3, v2 \cup {"receive"})
    BY <2>2, <2>4, <2>5, ReceiveMoves
  <2>7. s3.st = "up" /\ ~s3.timer /\ s3.recv /\ s3.sendq # <<>>
    BY <2>2, <2>3 DEF SockType
  <2> HIDE DEF s3
  <2>8. Fits(s3, v2 \cup {"receive"})
    BY <2>4, <2>7 DEF Fits
  <2>9. Settles(q, r, T, fd)
    BY <1>7, <2>6, <2>8 DEF Settles, q
  <2>10. Settles(m, r, T, fd)
    BY <2>1, <2>9, SettlesLater
  <2> QED BY <2>10, SettlesGood DEF Fine
<1>8. ASSUME NEW g \in Fd, r \in Destroys(Receive(m, fd), g) PROVE Fine(r, T)
  <2> DEFINE q == Receive(m, fd)
  <2>1. /\ LoopOK(q, T) /\ q.panic = "none" /\ FitsAll(q, Fd \ {g})
        /\ Fits(q.sock[g], Waiting(q)[g])
    BY <1>4 DEF Good, FitsAll
  <2> HIDE DEF q
  <2>2. Closable(q.sock[g], Waiting(q)[g])
    BY <2>1, FitsClosable
  <2>3. r \in Destroys(q, g)
    BY <1>8 DEF q
  <2> QED BY <2>1, <2>2, <2>3, DestroysFine
<1> QED
  BY <1>5, <1>6, <1>7, <1>8 DEF PeerReceives

\* netasync_receive_cb
LEMMA ReceiveCbFine ==
    ASSUME NEW n, NEW T, NEW fd \in Fd, NEW s, NEW ws, Begins(n, T, fd, s, ws, ws),
           "receive" \in ws, NEW r \in ReceiveCb(n, fd)
    PROVE  Fine(r, T)
<1>1. /\ LoopOK(n, T) /\ n.panic = "none" /\ FitsAll(n, Fd \ {fd})
      /\ n.sock[fd] = s /\ Waiting(n)[fd] = ws /\ Fits(s, ws)
  BY DEF Begins
<1>2. /\ n \in NetType /\ n.sock \in [Fd -> SockType] /\ s \in SockType /\ ws \subseteq Kinds
      /\ s.sendq \in Seq(1 .. MaxLen)
  BY BeginsTypes
<1>3. s.recv /\ s.st \in {"socks", "up"} /\ ~s.timer /\ "connect" \notin ws
      /\ ("send" \in ws <=> s.sendq # <<>>)
  BY <1>1, <1>2 DEF Fits, SockType
<1> DEFINE s1 == [s EXCEPT !.recv = FALSE]
           x == [n EXCEPT !.sock[fd].recv = FALSE]
           m == Remove(x, fd, "receive")
           v == ws \ {"receive"}
<1>4. /\ r \in {n} \cup Destroys(n, fd)
            \cup (IF s.st = "socks" THEN {SocksHandler(m, fd), Fails(m, "reply")} \cup Destroys(m, fd)
                                    ELSE PeerReceives(m, fd))
  BY <1>1, <1>3 DEF ReceiveCb, SocksAnswers
<1>5. /\ s1 \in SockType /\ ~s1.recv /\ s1.st = s.st /\ s1.sendq = s.sendq /\ ~s1.timer
      /\ s1.socks = s.socks
  BY <1>2, <1>3 DEF SockType
<1>6. x = SetSock(n, fd, s1)
  BY <1>1, <1>2 DEF SetSock, NetType
<1> HIDE DEF s1, x, m
<1>7. Moves(n, x, T, fd, s1, ws)
  <2>1. Moves(n, SetSock(n, fd, s1), T, fd, s1, Waiting(n)[fd])
    BY <1>1, <1>5, SocketUpdate
  <2> QED BY <1>1, <1>6, <2>1
<1>8. LoopOK(x, T) /\ x.panic = "none" /\ x.sock[fd] = s1 /\ Waiting(x)[fd] = ws
  BY <1>1, <1>7, MovesHere
<1>9. Moves(x, m, T, fd, s1, v)
  <2>1. "receive" \in Kinds /\ \A k \in Waiting(x)[fd] : Key(k) = Key("receive") => k = "receive"
    BY <1>2, <1>8 DEF Kinds, Key
  <2>2. Moves(x, Remove(x, fd, "receive"), T, fd, x.sock[fd], Waiting(x)[fd] \ {"receive"})
    BY <1>8, <2>1, RemoveMoves
  <2> QED BY <1>8, <2>2 DEF m
<1>10. Moves(n, m, T, fd, s1, v)
  BY <1>1, <1>7, <1>9, MovesTwice
<1>11. LoopOK(m, T) /\ m.panic = "none" /\ m.sock[fd] = s1 /\ Waiting(m)[fd] = v
  BY <1>1, <1>10, MovesHere
<1>12. FitsAll(m, Fd \ {fd})
  BY <1>1, <1>10, MovesFit
<1>13. CASE r = n
  BY <1>1, <1>13 DEF Fine, Good, FitsAll
<1>14. CASE r \in Destroys(n, fd)
  <2>1. Closable(s, ws)
    BY <1>1, FitsClosable
  <2> QED BY <1>1, <1>14, <2>1, DestroysFine
<1>15. Closable(s1, v)
  BY <1>3, <1>5 DEF Closable
<1>16. CASE r \in Destroys(m, fd)
  BY <1>11, <1>12, <1>15, <1>16, DestroysFine
<1>17. CASE s.st = "socks" /\ r = SocksHandler(m, fd)
  <2>1. s.socks \in {3, 5} /\ s.sendq = <<>>
    BY <1>1, <1>3, <1>17 DEF Fits
  <2>2. v = {}
    BY <1>2, <1>3, <2>1 DEF Kinds
  <2>3. Idle(m.sock[fd], Waiting(m)[fd]) /\ m.sock[fd].socks # 0
    BY <1>5, <1>11, <2>1, <2>2 DEF Idle
  <2>4. Settles(m, r, T, fd)
    BY <1>11, <1>17, <2>3, SocksHandlerSettles
  <2> QED BY <1>11, <1>12, <2>4, SettlesGood DEF Fine
<1>18. CASE s.st # "socks" /\ r \in PeerReceives(m, fd)
  <2>1. /\ s1.st = "up" /\ "receive" \notin v /\ "connect" \notin v
        /\ ("send" \in v <=> s1.sendq # <<>>)
    BY <1>3, <1>5, <1>18
  <2> QED BY <1>5, <1>11, <1>12, <1>18, <2>1, PeerReceivesFine
<1>19. CASE r = Fails(m, "reply")
  <2>1. r = [m EXCEPT !.panic = "reply"]
    BY <1>11, <1>19 DEF Fails
  <2>2. m \in NetType
    BY <1>11 DEF LoopOK
  <2>3. r \in NetType /\ r.panic = "reply"
    BY <2>1, <2>2 DEF NetType
  <2> QED BY <2>3 DEF Fine, BadProxy
<1> QED
  BY <1>4, <1>13, <1>14, <1>16, <1>17, <1>18, <1>19

\* netasync_send_ready_cb
LEMMA SendReadyFine ==
    ASSUME NEW n, NEW T, NEW fd \in Fd, NEW s, NEW ws, NEW v, Begins(n, T, fd, s, ws, v),
           "send" \in ws, v = ws \ {"send"}, NEW r \in SendReady(n, fd)
    PROVE  Fine(r, T)
<1>1. /\ LoopOK(n, T) /\ n.panic = "none" /\ FitsAll(n, Fd \ {fd})
      /\ n.sock[fd] = s /\ Waiting(n)[fd] = v /\ Fits(s, ws)
  BY DEF Begins
<1>2. /\ n \in NetType /\ n.sock \in [Fd -> SockType] /\ s \in SockType /\ v \subseteq Kinds
      /\ s.sendq \in Seq(1 .. MaxLen)
  BY BeginsTypes
<1> DEFINE q == s.sendq
<1>3. /\ q # <<>> /\ s.st \in {"socks", "up"} /\ ~s.timer /\ "connect" \notin v /\ "send" \notin v
      /\ ("receive" \in v <=> s.recv)
      /\ s.st = "socks" => s.socks \in {2, 4} /\ Len(q) = 1 /\ ~s.recv
  BY <1>1, <1>2 DEF Fits, SockType
<1>4. /\ Len(q) \in Nat \ {0} /\ q[1] \in 1 .. MaxLen
      /\ Tail(q) \in Seq(1 .. MaxLen) /\ (Tail(q) = <<>> <=> Len(q) =< 1)
      /\ \A l \in 1 .. MaxLen : LET p == [q EXCEPT ![1] = l]
                                IN  p \in Seq(1 .. MaxLen) /\ p # <<>> /\ Len(p) = Len(q)
  <2> DEFINE S == 1 .. MaxLen
  <2>1. q \in Seq(S) /\ q # <<>>
    BY <1>2, <1>3
  <2> HIDE DEF q, S
  <2>2. /\ Len(q) \in Nat \ {0} /\ q[1] \in S
        /\ Tail(q) \in Seq(S) /\ (Tail(q) = <<>> <=> Len(q) =< 1)
        /\ \A l \in S : LET p == [q EXCEPT ![1] = l]
                        IN  p \in Seq(S) /\ p # <<>> /\ Len(p) = Len(q)
    BY <2>1, QueueFacts
  <2> QED BY <2>2 DEF S
<1> DEFINE s1 == [s EXCEPT !.sendq = Tail(q)]
           m == [n EXCEPT !.sock[fd].sendq = Tail(q)]
           called == IF s.st = "socks" THEN SocksHandler(m, fd) ELSE m
           Part(l) == [n EXCEPT !.sock[fd].sendq[1] = l]
<1>5. \/ r \in Destroys(n, fd)
      \/ \E l \in 1 .. q[1] : r = Register(Part(l), fd, "send")
      \/ r = IF Len(q) > 1 THEN Register(called, fd, "send") ELSE called
  BY <1>1, <1>3 DEF SendReady
<1>6. CASE r \in Destroys(n, fd)
  <2>1. Closable(s, v)
    BY <1>3 DEF Closable
  <2> QED BY <1>1, <1>6, <2>1, DestroysFine
<1>7. \A k \in v : Key(k) # Key("send")
  BY <1>2, <1>3 DEF Key, Kinds
<1>8. ASSUME NEW l \in 1 .. q[1], r = Register(Part(l), fd, "send") PROVE Fine(r, T)
  <2> DEFINE q2 == [q EXCEPT ![1] = l]
             s2 == [s EXCEPT !.sendq = q2]
             x == Part(l)
  <2>1. q2 \in Seq(1 .. MaxLen) /\ Len(q2) = Len(q)
    <3> HIDE DEF q
    <3>1. l \in 1 .. MaxLen
      <4>1. q[1] \in 1 .. MaxLen
        BY <1>4
      <4> DEFINE y == q[1]
      <4>2. y \in 1 .. MaxLen /\ l \in 1 .. y
        BY <1>8, <4>1
      <4> HIDE DEF y
      <4> QED BY <4>2, NetLoopAssumption
    <3> QED BY <1>4, <3>1
  <2>2. q2 # <<>>
    <3> HIDE DEF q2, q
    <3>1. Len(q2) # 0
      BY <1>4, <2>1
    <3> QED BY <3>1, EmptySeq
  <2>3. x = SetSock(n, fd, s2)
    BY <1>1, <1>2 DEF SetSock, NetType
  <2> HIDE DEF q2, x
  <2>4. /\ s2 \in SockType /\ s2.sendq = q2 /\ s2.st = s.st /\ s2.timer = s.timer /\ s2.recv = s.recv
        /\ s2.socks = s.socks /\ s2.proxy = s.proxy
    BY <1>2, <2>1 DEF SockType
  <2> HIDE DEF s2
  <2>5. Moves(n, x, T, fd, s2, v)
    BY <1>1, <2>3, <2>4, SocketUpdate
  <2>6. LoopOK(x, T) /\ x.panic = "none" /\ x.sock[fd] = s2 /\ Waiting(x)[fd] = v
    BY <1>1, <2>5, MovesHere
  <2>7. Moves(x, r, T, fd, s2, v \cup {"send"})
    <3>1. "send" \in Kinds
      BY DEF Kinds
    <3>2. \A k \in Waiting(x)[fd] : Key(k) # Key("send")
      BY <1>7, <2>6
    <3>3. r = Register(x, fd, "send")
      BY <1>8 DEF x
    <3>4. Moves(x, Register(x, fd, "send"), T, fd, x.sock[fd], Waiting(x)[fd] \cup {"send"})
      BY <2>6, <3>1, <3>2, RegisterMoves
    <3> QED BY <2>6, <3>3, <3>4
  <2>8. v \cup {"send"} = ws
    OBVIOUS
  <2>9. Fits(s2, ws)
    BY <1>1, <1>3, <2>1, <2>2, <2>4 DEF Fits
  <2>10. Settles(x, r, T, fd)
    BY <2>7, <2>8, <2>9 DEF Settles
  <2>11. Settles(n, r, T, fd)
    BY <1>1, <2>5, <2>10, SettlesLater
  <2> QED BY <1>1, <2>11, SettlesGood DEF Fine
<1>9. CASE r = IF Len(q) > 1 THEN Register(called, fd, "send") ELSE called
  <2>1. m = SetSock(n, fd, s1)
    BY <1>1, <1>2 DEF SetSock, NetType
  <2>2. /\ s1 \in SockType /\ s1.sendq = Tail(q) /\ s1.st = s.st /\ ~s1.timer /\ s1.recv = s.recv
        /\ s1.socks = s.socks
    <3>1. Tail(q) \in Seq(1 .. MaxLen)
      BY <1>4
    <3> DEFINE t == Tail(q)
    <3> HIDE DEF t
    <3>2. LET s2 == [s EXCEPT !.sendq = t]
          IN  /\ s2 \in SockType /\ s2.sendq = t /\ s2.st = s.st /\ s2.timer = s.timer
              /\ s2.recv = s.recv /\ s2.socks = s.socks
      BY <1>2, <3>1 DEF SockType, t
    <3> QED BY <1>3, <3>2 DEF t
  <2> HIDE DEF m, s1
  <2>3. Moves(n, m, T, fd, s1, v)
    BY <1>1, <2>1, <2>2, SocketUpdate
  <2>4. LoopOK(m, T) /\ m.panic = "none" /\ m.sock[fd] = s1 /\ Waiting(m)[fd] = v
    BY <1>1, <2>3, MovesHere
  <2>5. CASE s.st = "socks"
    <3>1. Tail(q) = <<>> /\ ~(Len(q) > 1)
      <4>1. Len(q) = 1
        BY <1>3, <2>5
      <4> HIDE DEF q
      <4> QED BY <1>4, <4>1
    <3>2. r = SocksHandler(m, fd)
      BY <1>9, <2>5, <3>1
    <3>3. v = {}
      BY <1>2, <1>3, <2>5 DEF Kinds
    <3>4. Idle(m.sock[fd], Waiting(m)[fd]) /\ m.sock[fd].socks # 0
      <4>1. ~s.recv /\ s.socks # 0
        BY <1>3, <2>5
      <4>2. s1.sendq = <<>> /\ ~s1.recv /\ ~s1.timer /\ s1.socks # 0
        BY <2>2, <3>1, <4>1
      <4> QED BY <2>4, <3>3, <4>2 DEF Idle
    <3>5. Settles(m, r, T, fd)
      BY <2>4, <3>2, <3>4, SocksHandlerSettles
    <3>6. Settles(n, r, T, fd)
      BY <1>1, <2>3, <3>5, SettlesLater
    <3> QED BY <1>1, <3>6, SettlesGood DEF Fine
  <2>6. CASE s.st # "socks" /\ Len(q) > 1
    <3>1. r = Register(m, fd, "send") /\ "send" \in Kinds
      BY <1>9, <2>6 DEF Kinds
    <3>2. Moves(m, r, T, fd, s1, v \cup {"send"})
      BY <1>7, <2>4, <3>1, RegisterMoves
    <3>3. s1.sendq # <<>>
      <4> HIDE DEF q
      <4>1. Tail(q) # <<>>
        BY <1>4, <2>6
      <4> QED BY <2>2, <4>1
    <3>4. Fits(s1, v \cup {"send"})
      BY <1>3, <2>2, <2>6, <3>3 DEF Fits
    <3>5. Settles(m, r, T, fd)
      BY <3>2, <3>4 DEF Settles
    <3>6. Settles(n, r, T, fd)
      BY <1>1, <2>3, <3>5, SettlesLater
    <3> QED BY <1>1, <3>6, SettlesGood DEF Fine
  <2>7. CASE s.st # "socks" /\ ~(Len(q) > 1)
    <3>1. r = m
      BY <1>9, <2>7
    <3>2. s1.sendq = <<>>
      <4> HIDE DEF q
      <4>1. Tail(q) = <<>>
        BY <1>4, <2>7
      <4> QED BY <2>2, <4>1
    <3>3. Fits(s1, v)
      BY <1>3, <2>2, <2>7, <3>2 DEF Fits
    <3>4. Settles(n, r, T, fd)
      BY <2>3, <3>1, <3>3 DEF Settles
    <3> QED BY <1>1, <3>4, SettlesGood DEF Fine
  <2> QED BY <2>5, <2>6, <2>7
<1> QED
  BY <1>5, <1>6, <1>8, <1>9

\* netasync_connected, called from the loop.
LEMMA ConnectReadyFine ==
    ASSUME NEW n, NEW T, NEW fd \in Fd, NEW s, NEW ws, NEW v, Begins(n, T, fd, s, ws, v),
           "connect" \in ws, v = ws \ {"connect"}, NEW r \in ConnectReady(n, fd)
    PROVE  Fine(r, T)
<1>1. /\ LoopOK(n, T) /\ n.panic = "none" /\ FitsAll(n, Fd \ {fd})
      /\ n.sock[fd] = s /\ Waiting(n)[fd] = v /\ Fits(s, ws)
  BY DEF Begins
<1>2. n \in NetType /\ n.sock \in [Fd -> SockType] /\ s \in SockType /\ v \subseteq Kinds
  BY BeginsTypes
<1>3. s.st = "connecting" /\ s.sendq = <<>> /\ ~s.recv
  BY <1>1 DEF Fits
<1>4. v = {}
  BY <1>1, <1>2, <1>3 DEF Fits, Kinds
<1>5. CASE n.wire[fd] = "refused"
  <2> DEFINE s1 == [[s EXCEPT !.st = "socks"] EXCEPT !.timer = FALSE]
             x == [n EXCEPT !.sock[fd].st = "socks", !.sock[fd].timer = FALSE]
  <2>1. r \in Destroys(x, fd)
    BY <1>5 DEF ConnectReady
  <2>2. s1 \in SockType /\ s1.st = "socks" /\ s1.sendq = <<>>
    BY <1>2, <1>3 DEF SockType
  <2>3. x = SetSock(n, fd, s1)
    BY <1>1, <1>2 DEF SetSock, NetType
  <2> HIDE DEF s1, x
  <2>4. Moves(n, x, T, fd, s1, v)
    BY <1>1, <2>2, <2>3, SocketUpdate
  <2>5. LoopOK(x, T) /\ x.panic = "none" /\ x.sock[fd] = s1 /\ Waiting(x)[fd] = v
    BY <1>1, <2>4, MovesHere
  <2>6. FitsAll(x, Fd \ {fd})
    BY <1>1, <2>4, MovesFit
  <2>7. Closable(s1, v)
    BY <1>4, <2>2 DEF Closable
  <2> QED BY <2>1, <2>5, <2>6, <2>7, DestroysFine
<1>6. CASE n.wire[fd] # "refused"
  <2>1. r = Connected(n, fd)
    BY <1>6 DEF ConnectReady
  <2>2. Settles(n, r, T, fd) \/ BadProxy(r)
    BY <1>1, <1>3, <1>4, <2>1, ConnectedSettles
  <2> QED BY <1>1, <2>2, SettlesGood DEF Fine
<1> QED
  BY <1>5, <1>6

\* The callback of a one-shot entry whose reference is gone, or of a receive
\* entry, which stays.
LEMMA CallbackFine ==
    ASSUME NEW n, NEW T, NEW fd \in Fd, NEW kind \in Kinds, NEW s, NEW ws,
           Begins(n, T, fd, s, ws, IF kind = "receive" THEN ws ELSE ws \ {kind}),
           kind \in ws, NEW r \in Callback(n, fd, kind)
    PROVE  Fine(r, T)
<1>1. n.sock[fd].st # "closed"
  <2>1. Fits(s, ws) /\ n.sock[fd] = s
    BY DEF Begins
  <2> QED BY <2>1 DEF Fits, Kinds
<1>2. CASE kind = "receive"
  <2>1. r \in ReceiveCb(n, fd)
    BY <1>1, <1>2 DEF Callback
  <2>2. Begins(n, T, fd, s, ws, ws)
    BY <1>2
  <2> QED BY <1>2, <2>1, <2>2, ReceiveCbFine
<1>3. CASE kind = "send"
  <2>1. r \in SendReady(n, fd)
    BY <1>1, <1>3 DEF Callback
  <2>2. Begins(n, T, fd, s, ws, ws \ {"send"})
    BY <1>3
  <2> QED BY <1>3, <2>1, <2>2, SendReadyFine
<1>4. CASE kind = "connect"
  <2>1. r \in ConnectReady(n, fd)
    BY <1>1, <1>4 DEF Callback
  <2>2. Begins(n, T, fd, s, ws, ws \ {"connect"})
    BY <1>4
  <2> QED BY <1>4, <2>1, <2>2, ConnectReadyFine
<1> QED
  BY <1>2, <1>3, <1>4 DEF Kinds

-----------------------------------------------------------------------------
(* The steps *)

\* The loop lets go of an entry whose callback has returned.
LEMMA UnrefFine ==
    ASSUME NEW r, NEW T \in SUBSET Object, NEW e \in T, Fine(r, T)
    PROVE  Fine(Unref(r, e), T \ {e})
<1>1. CASE BadProxy(r)
  BY <1>1, UnrefBad DEF Fine
<1>2. CASE Good(r, T)
  <2>1. LoopOK(r, T) /\ r.panic = "none" /\ FitsAll(r, Fd)
    BY <1>2 DEF Good
  <2>2. /\ LoopOK(Unref(r, e), T \ {e}) /\ Unref(r, e).panic = "none"
        /\ Unref(r, e).sock = r.sock /\ Waiting(Unref(r, e)) = Waiting(r)
    BY <2>1, UnrefTaken
  <2> QED BY <2>1, <2>2 DEF Fine, Good, FitsAll
<1> QED
  BY <1>1, <1>2 DEF Fine

\* poll_run_device_queue looks at one entry.
LEMMA FireInv ==
    ASSUME NetInv, NEW e \in Object, Fire(e) PROVE NetInv'
<1> DEFINE o == net.obj[e]
           m == IF o.kind = "receive" THEN net ELSE Unref([net EXCEPT !.obj[e].queued = FALSE], e)
<1>1. /\ net.panic = "none" /\ phase = "fire" /\ e \in todo
      /\ todo' = todo \ {e} /\ phase' = IF todo' = {} THEN "time" ELSE "fire"
  BY DEF Fire, Alive
<1>2. PICK r \in IF o.queued THEN Callback(m, o.fd, o.kind) ELSE {net} : net' = Unref(r, e)
  BY DEF Fire
<1>3. Good(net, todo) /\ todo \in SUBSET Object
  BY <1>1 DEF NetInv, BadProxy
<1>4. LoopOK(net, todo) /\ FitsAll(net, Fd)
  BY <1>3 DEF Good
<1>5. Fine(r, todo)
  <2>1. CASE ~o.queued
    BY <1>2, <1>3, <2>1 DEF Fine
  <2>2. CASE o.queued
    <3> DEFINE fd == o.fd
               kind == o.kind
               s == net.sock[fd]
               ws == Waiting(net)[fd]
               u == Unref([net EXCEPT !.obj[e].queued = FALSE], e)
    <3>1. fd \in Fd /\ kind \in ws /\ Moves(net, u, todo, fd, s, ws \ {kind})
      BY <1>1, <1>4, <2>2, UnqueueMoves
    <3>2. kind \in Kinds /\ FitsAll(net, Fd \ {fd}) /\ Fits(s, ws)
      <4>1. kind \in Kinds
        BY <3>1 DEF Waiting
      <4> QED BY <1>4, <3>1, <4>1 DEF FitsAll
    <3>3. r \in Callback(IF kind = "receive" THEN net ELSE u, fd, kind)
      BY <1>2, <2>2
    <3> HIDE DEF o, fd, kind, s, ws, u, m
    <3>4. Begins(IF kind = "receive" THEN net ELSE u, todo, fd, s, ws,
                 IF kind = "receive" THEN ws ELSE ws \ {kind})
      <4>1. CASE kind = "receive"
        BY <1>1, <1>4, <3>2, <4>1 DEF Begins, s, ws
      <4>2. CASE kind # "receive"
        <5>1. LoopOK(u, todo) /\ u.panic = "none" /\ u.sock[fd] = s /\ Waiting(u)[fd] = ws \ {kind}
          BY <1>4, <3>1, MovesHere
        <5>2. FitsAll(u, Fd \ {fd})
          BY <1>4, <3>1, <3>2, MovesFit
        <5> QED BY <3>2, <4>2, <5>1, <5>2 DEF Begins
      <4> QED BY <4>1, <4>2
    <3> QED BY <3>1, <3>2, <3>3, <3>4, CallbackFine
  <2> QED BY <2>1, <2>2
<1>6. Fine(net', todo')
  BY <1>1, <1>2, <1>3, <1>5, UnrefFine
<1> QED
  BY <1>1, <1>3, <1>6 DEF NetInv, Fine

\* poll_device_poll takes the entries that are ready.
LEMMA PollInv == ASSUME NetInv, Poll PROVE NetInv'
<1>1. net.panic = "none" /\ phase = "time" /\ phase' = "fire"
  BY DEF Poll, Alive
<1>2. PICK R \in SUBSET {e \in Object : Ready(e)} : todo' = R /\ net' = Taken(net, R)
  BY DEF Poll
<1>3. Good(net, {}) /\ \A e \in R : e \in Object /\ net.obj[e].queued
  BY <1>1, <1>2 DEF NetInv, BadProxy, Ready
<1>4. /\ net \in NetType /\ net.obj \in [Object -> ObjType] /\ LoopOK(net, {})
      /\ FitsAll(net, Fd) /\ R \subseteq Object
  BY <1>3 DEF Good, LoopOK, NetType
<1> DEFINE r == Taken(net, R)
           obj == [e \in Object |-> IF e \in R THEN [net.obj[e] EXCEPT !.refs = @ + 1]
                                              ELSE net.obj[e]]
<1>5. r.obj = obj /\ r.sock = net.sock /\ r.panic = net.panic /\ r.wire = net.wire
      /\ r.connects = net.connects
  <2>1. r = [net EXCEPT !.obj = obj]
    BY DEF Taken
  <2> HIDE DEF obj, r
  <2> QED BY <1>4, <2>1 DEF NetType
<1>6. ASSUME NEW e \in Object
      PROVE  /\ r.obj[e] \in ObjType
             /\ r.obj[e].refs = net.obj[e].refs + (IF e \in R THEN 1 ELSE 0)
             /\ r.obj[e].queued = net.obj[e].queued /\ r.obj[e].fd = net.obj[e].fd
             /\ r.obj[e].kind = net.obj[e].kind
  <2>1. net.obj[e] \in ObjType /\ net.obj[e].refs \in 0..1
    BY <1>4 DEF LoopOK, EntryOK
  <2>2. r.obj[e] = IF e \in R THEN [net.obj[e] EXCEPT !.refs = net.obj[e].refs + 1] ELSE net.obj[e]
    BY <1>5
  <2> DEFINE p == net.obj[e]
             c == p.refs + 1
  <2>3. c \in 0..2
    BY <2>1
  <2> HIDE DEF p, c, r
  <2>4. LET x == [p EXCEPT !.refs = c]
        IN  /\ x \in ObjType /\ x.refs = c /\ x.queued = p.queued /\ x.fd = p.fd /\ x.kind = p.kind
    BY <2>1, <2>3 DEF ObjType, p
  <2> QED BY <2>1, <2>2, <2>4 DEF p, c
<1>7. r \in NetType
  <2>1. r.obj \in [Object -> ObjType]
    BY <1>5, <1>6
  <2> QED BY <1>4, <1>5, <2>1 DEF Taken, NetType
<1> HIDE DEF r
<1>8. EntryOK(r, R) /\ QueuedOnce(r) /\ TakenOnce(r, R)
  <2>1. EntryOK(r, R)
    BY <1>3, <1>4, <1>6 DEF LoopOK, EntryOK
  <2>2. QueuedOnce(r)
    BY <1>4, <1>6 DEF LoopOK, QueuedOnce, SameKey
  <2>3. TakenOnce(r, R)
    BY <1>3, <1>4, <1>6 DEF LoopOK, QueuedOnce, TakenOnce, SameKey
  <2> QED BY <2>1, <2>2, <2>3
<1>9. Waiting(r) = Waiting(net)
  BY <1>6 DEF Waiting
<1>10. Good(r, R)
  BY <1>1, <1>4, <1>5, <1>7, <1>8, <1>9 DEF Good, LoopOK, FitsAll
<1>11. net' = r
  BY <1>2 DEF r
<1> QED
  BY <1>1, <1>2, <1>4, <1>10, <1>11 DEF NetInv

\* A step that leaves the loop where it is.
LEMMA SameTodo ==
    ASSUME NetInv, UNCHANGED <<phase, todo>>, Fine(net', todo) PROVE NetInv'
BY DEF NetInv, Fine

\* netasync_connect_timeout_cb
LEMMA TimeoutInv == ASSUME NetInv, NEW fd \in Fd, ConnectTimeout(fd) PROVE NetInv'
<1> DEFINE s == net.sock[fd]
           ws == Waiting(net)[fd]
           s1 == [[s EXCEPT !.timer = FALSE] EXCEPT !.st = "socks"]
           x == [net EXCEPT !.sock[fd].timer = FALSE, !.sock[fd].st = "socks"]
           y == ConnectStop(x, fd)
<1>1. net.panic = "none" /\ s.timer /\ UNCHANGED <<phase, todo>>
  BY DEF ConnectTimeout, Alive
<1>2. Good(net, todo)
  BY <1>1 DEF NetInv, BadProxy
<1>3. /\ LoopOK(net, todo) /\ Fits(s, ws) /\ FitsAll(net, Fd \ {fd})
      /\ net \in NetType /\ net.sock \in [Fd -> SockType] /\ s \in SockType
  BY <1>2 DEF Good, FitsAll, LoopOK, NetType
<1>4. s.st = "connecting" /\ ws = {"connect"} /\ s.sendq = <<>>
  <2>1. ws \subseteq Kinds
    BY DEF Waiting
  <2> QED BY <1>1, <1>3, <2>1 DEF Fits, Kinds
<1>5. net' \in Destroys(y, fd)
  BY <1>4 DEF ConnectTimeout
<1>6. s1 \in SockType /\ s1.st = "socks" /\ s1.sendq = <<>>
  BY <1>3, <1>4 DEF SockType
<1>7. x = SetSock(net, fd, s1)
  BY <1>3 DEF SetSock, NetType
<1> HIDE DEF s1, x, y, ws
<1>8. Moves(net, x, todo, fd, s1, ws)
  BY <1>1, <1>3, <1>6, <1>7, SocketUpdate DEF ws
<1>9. LoopOK(x, todo) /\ x.panic = "none" /\ x.sock[fd] = s1 /\ Waiting(x)[fd] = ws
  BY <1>3, <1>8, MovesHere
<1>10. Moves(x, y, todo, fd, s1, {})
  <2>1. Moves(x, y, todo, fd, x.sock[fd], Waiting(x)[fd] \ {"connect"})
    <3>1. "connect" \in Waiting(x)[fd] /\ "send" \notin Waiting(x)[fd]
      BY <1>4, <1>9
    <3> QED BY <1>9, <3>1, ConnectStopMoves DEF y
  <2>2. Waiting(x)[fd] \ {"connect"} = {}
    BY <1>4, <1>9
  <2> QED BY <1>9, <2>1, <2>2
<1>11. Moves(net, y, todo, fd, s1, {})
  BY <1>3, <1>8, <1>10, MovesTwice
<1>12. LoopOK(y, todo) /\ y.panic = "none" /\ y.sock[fd] = s1 /\ Waiting(y)[fd] = {}
  BY <1>3, <1>11, MovesHere
<1>13. FitsAll(y, Fd \ {fd})
  BY <1>3, <1>11, MovesFit
<1>14. Closable(y.sock[fd], Waiting(y)[fd])
  BY <1>6, <1>12 DEF Closable
<1>15. Fine(net', todo)
  BY <1>5, <1>12, <1>13, <1>14, DestroysFine
<1> QED
  BY <1>1, <1>15, SameTodo

\* The timers of the peer group, and the network's answers.
LEMMA PeriodicInv ==
    ASSUME NetInv, NEW fd \in Fd,
           \/ \E a \in {"open", "refused"} : Answer(fd, a)
           \/ \E proxy \in BOOLEAN : PeriodicConnect(fd, proxy)
           \/ \E len \in 1 .. MaxLen : PeriodicSend(fd, len)
           \/ PeriodicDrop(fd)
    PROVE  NetInv'
<1>1. net.panic = "none" /\ UNCHANGED <<phase, todo>>
  BY DEF Answer, PeriodicConnect, PeriodicSend, PeriodicDrop, Alive
<1>2. Good(net, todo)
  BY <1>1 DEF NetInv, BadProxy
<1> DEFINE s == net.sock[fd]
           ws == Waiting(net)[fd]
<1>3. /\ LoopOK(net, todo) /\ Fits(s, ws) /\ FitsAll(net, Fd \ {fd})
      /\ net \in NetType /\ net.sock \in [Fd -> SockType] /\ s \in SockType
  BY <1>2 DEF Good, FitsAll, LoopOK, NetType
<1>4. ASSUME NEW a \in {"open", "refused"}, Answer(fd, a) PROVE Fine(net', todo)
  <2> DEFINE x == [net EXCEPT !.wire[fd] = a]
  <2>1. net' = x
    BY <1>4 DEF Answer
  <2>2. net.wire \in [Fd -> {"silent", "open", "refused"}]
    BY <1>3 DEF NetType
  <2>3. /\ x.obj = net.obj /\ x.sock = net.sock /\ x.panic = net.panic
        /\ x.wire = [net.wire EXCEPT ![fd] = a] /\ x.connects = net.connects
    BY <1>3 DEF NetType
  <2>4. x.wire \in [Fd -> {"silent", "open", "refused"}]
    BY <2>2, <2>3
  <2>5. x \in NetType
    BY <1>3, <2>3, <2>4 DEF NetType
  <2> HIDE DEF x
  <2>6. LoopOK(x, todo) /\ Waiting(x) = Waiting(net)
    BY <1>3, <2>3, <2>5, SameEntries
  <2> QED BY <1>2, <2>1, <2>3, <2>6 DEF Fine, Good, FitsAll
<1>5. ASSUME NEW proxy \in BOOLEAN, PeriodicConnect(fd, proxy) PROVE Fine(net', todo)
  <2>1. fd \in Closed(net) /\ net' \in Connects(net, fd, proxy)
    BY <1>5 DEF PeriodicConnect
  <2> QED BY <1>2, <2>1, ConnectsFine
<1>6. ASSUME NEW len \in 1 .. MaxLen, PeriodicSend(fd, len) PROVE Fine(net', todo)
  <2> DEFINE s1 == [s EXCEPT !.sendq = Append(s.sendq, len)]
             w == IF s.sendq = <<>> THEN ws \cup {"send"} ELSE ws
  <2>1. s.st = "up" /\ net' = Send(net, fd, len)
    BY <1>6 DEF PeriodicSend
  <2>2. "connect" \notin ws /\ ("send" \in ws <=> s.sendq # <<>>)
        /\ ("receive" \in ws <=> s.recv) /\ ~s.timer
    BY <1>3, <2>1 DEF Fits
  <2>3. Moves(net, net', todo, fd, s1, w)
    BY <1>1, <1>3, <2>1, <2>2, SendMoves
  <2>4. /\ s1.st = "up" /\ s1.recv = s.recv /\ s1.timer = s.timer
        /\ s1.sendq = Append(s.sendq, len)
    BY <1>3, <2>1 DEF SockType
  <2>5. Append(s.sendq, len) # <<>>
    <3> DEFINE q == s.sendq
    <3>1. q \in Seq(1 .. MaxLen)
      BY <1>3 DEF SockType
    <3> HIDE DEF q
    <3>2. Append(q, len) # <<>>
      BY <3>1, QueueGrows
    <3> QED BY <3>2 DEF q
  <2> HIDE DEF s1
  <2>6. Fits(s1, w)
    BY <2>2, <2>4, <2>5 DEF Fits
  <2> QED BY <1>3, <2>3, <2>6, MovesFit DEF Fine
<1>7. ASSUME PeriodicDrop(fd) PROVE Fine(net', todo)
  <2>1. net' \in Destroys(net, fd)
    BY <1>7 DEF PeriodicDrop
  <2>2. Closable(s, ws)
    BY <1>3, FitsClosable
  <2> QED BY <1>1, <1>3, <2>1, <2>2, DestroysFine
<1>8. Fine(net', todo)
  BY <1>4, <1>5, <1>6, <1>7
<1> QED
  BY <1>1, <1>8, SameTodo

\* NetInv holds in every state.
THEOREM NetLoopInvariant == Spec => []NetInv
<1>1. Init => NetInv
  <2> SUFFICES ASSUME Init PROVE NetInv
    OBVIOUS
  <2>1. <<>> \in Seq(1 .. MaxLen)
    OBVIOUS
  <2>2. NoSock \in SockType /\ NoObj \in ObjType /\ NoObj.refs = 0 /\ ~NoObj.queued
    BY <2>1 DEF NoSock, SockType, NoObj, ObjType, Kinds
  <2>3. /\ net.obj = [e \in Object |-> NoObj] /\ net.sock = [fd \in Fd |-> NoSock]
        /\ net.panic = "none" /\ todo = {} /\ phase = "time"
    BY DEF Init
  <2>4. net \in NetType
    <3>1. /\ [e \in Object |-> NoObj] \in [Object -> ObjType]
          /\ [fd \in Fd |-> NoSock] \in [Fd -> SockType]
          /\ [fd \in Fd |-> "silent"] \in [Fd -> {"silent", "open", "refused"}]
      BY <2>2
    <3> QED BY <3>1 DEF Init, NetType
  <2>5. EntryOK(net, {}) /\ QueuedOnce(net) /\ TakenOnce(net, {})
    BY <2>2, <2>3 DEF EntryOK, QueuedOnce, TakenOnce
  <2>6. \A fd \in Fd : Waiting(net)[fd] = {}
    BY <2>2, <2>3 DEF Waiting
  <2>7. Fits(NoSock, {})
    BY DEF Fits, NoSock
  <2>8. FitsAll(net, Fd)
    BY <2>3, <2>6, <2>7 DEF FitsAll
  <2> QED BY <2>3, <2>4, <2>5, <2>8 DEF NetInv, Good, LoopOK
<1>2. NetInv /\ [Next]_vars => NetInv'
  <2> SUFFICES ASSUME NetInv, [Next]_vars PROVE NetInv'
    OBVIOUS
  <2>1. CASE UNCHANGED vars
    <3>1. net' = net /\ phase' = phase /\ todo' = todo
      BY <2>1 DEF vars
    <3> QED BY <3>1 DEF NetInv
  <2>2. CASE Next
    BY <2>2, PeriodicInv, TimeoutInv, PollInv, FireInv DEF Next
  <2> QED BY <2>1, <2>2
<1> QED
  BY <1>1, <1>2, PTL DEF Spec

\* The poll entries, the sockets and the loop have the shape the C structures
\* give them.
THEOREM NetLoopTypeOK == Spec => []TypeOK
<1>1. NetInv => TypeOK
  BY DEF NetInv, Good, LoopOK, BadProxy, TypeOK
<1> QED
  BY <1>1, NetLoopInvariant, PTL

\* No ASSERT of poll.c or netasync.c fails but the two that depend on the proxy
\* alone, whatever a callback closes or opens while other callbacks are due.
THEOREM NetLoopAssertsHold == Spec => []AssertsHold
<1>1. NetInv => AssertsHold
  BY DEF NetInv, Good, BadProxy, AssertsHold
<1> QED
  BY <1>1, NetLoopInvariant, PTL

\* The loop waits for exactly what each socket needs (poll->hash and the
\* fields of struct netasync_socket agree between two callbacks).
THEOREM NetLoopMatchesSockets == Spec => []LoopMatchesSockets
<1>1. NetInv => LoopMatchesSockets
  <2> SUFFICES ASSUME NetInv, Alive, NEW fd \in Fd
               PROVE  /\ Waits(fd, "connect") <=> net.sock[fd].st = "connecting"
                      /\ Waits(fd, "send") <=> net.sock[fd].sendq # <<>>
                      /\ Waits(fd, "receive") <=> net.sock[fd].recv
                      /\ net.sock[fd].timer <=> net.sock[fd].st = "connecting"
    BY DEF LoopMatchesSockets
  <2>1. Fits(net.sock[fd], Waiting(net)[fd])
    BY DEF NetInv, Alive, BadProxy, Good, FitsAll
  <2>2. \A k \in Kinds : k \in Waiting(net)[fd] <=> Waits(fd, k)
    BY DEF Waiting, Waits
  <2> QED BY <2>1, <2>2 DEF Fits, Kinds
<1> QED
  BY <1>1, NetLoopInvariant, PTL

=============================================================================
