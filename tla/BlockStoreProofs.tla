--------------------------- MODULE BlockStoreProofs ---------------------------
(***************************************************************************)
(* Proofs about the header store, for every tree of blocks and any number  *)
(* of crashes and failed writes.                                           *)
(*                                                                         *)
(* BlockStoreInv is inductive.  Its first half, StoreInv, is about memory: *)
(* a reorganization moves out exactly the chain above the junction, so     *)
(* that hash_blk stays one path of the tree.  The second half, FileInv and *)
(* CleanInv, is about headers.dat: what the walk of                        *)
(* blockstore_write_headers appends keeps parents before their children,   *)
(* and puts the best block first among the headers of its depth, which is  *)
(* why the replay ends at it.  A torn header changes neither as long as    *)
(* nothing is written behind it (NoLostWrite).                             *)
(*                                                                         *)
(* Induction on the depth of a block is by a least counterexample (lemma   *)
(* Shallowest); it also gives the walk, a recursive function, a value.     *)
(***************************************************************************)
EXTENDS BlockStore, SequenceTheorems, NaturalsInduction, WellFoundedInduction, TLAPS

-----------------------------------------------------------------------------
(* Induction, from the least-number principle of the library *)

\* A set of numbers that is not empty has a least element.
LEMMA LeastNumber ==
    ASSUME NEW T \in SUBSET Nat, T # {}
    PROVE  \E x \in T : \A y \in T : x =< y
<1>1. \E R : IsWellFoundedOn(R, Nat) /\ \A x, y \in Nat : <<y, x>> \in R <=> y < x
  <2>1. IsWellFoundedOn(OpToRel(<, Nat), Nat)
    BY NatLessThanWellFounded
  <2>2. \A x, y \in Nat : <<y, x>> \in OpToRel(<, Nat) <=> y < x
    BY DEF OpToRel
  <2> QED
    BY <2>1, <2>2, Zenon
<1>2. PICK R : IsWellFoundedOn(R, Nat) /\ \A x, y \in Nat : <<y, x>> \in R <=> y < x
  BY <1>1
<1>3. PICK x \in T : \A y \in T : ~(<<y, x>> \in R)
  BY <1>2, WFMin
<1>4. \A y \in T : ~(y < x)
  BY <1>2, <1>3, Zenon
<1>5. \A y \in T : x =< y
  BY <1>4
<1> QED
  BY <1>5

\* A set of blocks that is not empty has one of least depth.
LEMMA Shallowest ==
    ASSUME NEW B \in SUBSET Blocks, B # {}
    PROVE  \E b \in B : \A a \in B : Depth[b] =< Depth[a]
<1> DEFINE T == {Depth[b] : b \in B}
<1>1. T \in SUBSET Nat /\ T # {}
  BY TreeAssumption
<1>2. PICK x \in T : \A y \in T : x =< y
  <2> HIDE DEF T
  <2> QED
    BY <1>1, LeastNumber
<1> QED
  BY <1>2

-----------------------------------------------------------------------------
(* The tree *)

\* A block that is not genesis is one deeper than its parent.
LEMMA ParentDepth ==
    ASSUME NEW b \in Blocks, b # Genesis
    PROVE  /\ Parent[b] \in Blocks /\ Depth[b] = Depth[Parent[b]] + 1
           /\ Depth[b] \in Nat /\ Depth[Parent[b]] \in Nat
           /\ Path[b] = Path[Parent[b]] \cup {b}
BY TreeAssumption

\* A block is on its own path, which is made of blocks.
LEMMA OnPath == ASSUME NEW b \in Blocks PROVE b \in Path[b] /\ Path[b] \subseteq Blocks
BY TreeAssumption

\* The path of a block has the paths of the blocks on it, nothing deeper, and
\* nothing else as deep.
LEMMA PathClosed ==
    ASSUME NEW b \in Blocks
    PROVE  \A x \in Path[b] :
              Path[x] \subseteq Path[b] /\ Depth[x] =< Depth[b] /\ (Depth[x] = Depth[b] => x = b)
<1> DEFINE Good(c) == \A x \in Path[c] :
                Path[x] \subseteq Path[c] /\ Depth[x] =< Depth[c] /\ (Depth[x] = Depth[c] => x = c)
           Bad == {c \in Blocks : ~Good(c)}
<1> SUFFICES ASSUME Bad # {} PROVE FALSE
  OBVIOUS
<1>1. PICK c \in Bad : \A a \in Bad : Depth[c] =< Depth[a]
  <2> HIDE DEF Bad
  <2>1. Bad \in SUBSET Blocks
    BY DEF Bad
  <2> QED
    BY <2>1, Shallowest
<1>2. CASE c = Genesis
  BY <1>1, <1>2, TreeAssumption
<1>3. CASE c # Genesis
  <2>1. Good(Parent[c])
    <3>1. Parent[c] \notin Bad
      BY <1>1, <1>3, ParentDepth
    <3> QED
      BY <3>1, <1>3, ParentDepth
  <2>2. ASSUME NEW x \in Path[c]
        PROVE  Path[x] \subseteq Path[c] /\ Depth[x] =< Depth[c] /\ (Depth[x] = Depth[c] => x = c)
    <3>1. CASE x = c
      BY <3>1, <1>3, ParentDepth
    <3>2. CASE x \in Path[Parent[c]]
      <4>1. Path[x] \subseteq Path[Parent[c]] /\ Depth[x] =< Depth[Parent[c]]
        BY <2>1, <3>2
      <4>2. Depth[x] \in Nat
        BY <2>2, OnPath, TreeAssumption
      <4> QED
        BY <4>1, <4>2, <1>3, ParentDepth
    <3> QED
      BY <2>2, <3>1, <3>2, <1>3, ParentDepth
  <2> QED
    BY <1>1, <2>2
<1> QED
  BY <1>2, <1>3

\* Genesis is on every path and is the only block of depth 0.
LEMMA GenesisOnPath ==
    ASSUME NEW b \in Blocks
    PROVE  Genesis \in Path[b] /\ (Depth[b] = 0 <=> b = Genesis) /\ Depth[b] \in Nat
<1> DEFINE Bad == {c \in Blocks : Genesis \notin Path[c]}
<1>1. Bad = {}
  <2> SUFFICES ASSUME Bad # {} PROVE FALSE
    OBVIOUS
  <2>1. PICK c \in Bad : \A a \in Bad : Depth[c] =< Depth[a]
    <3> HIDE DEF Bad
    <3>1. Bad \in SUBSET Blocks
      BY DEF Bad
    <3> QED
      BY <3>1, Shallowest
  <2>2. c # Genesis
    BY <2>1, TreeAssumption
  <2>3. Parent[c] \notin Bad
    BY <2>1, <2>2, ParentDepth
  <2> QED
    BY <2>1, <2>2, <2>3, ParentDepth
<1>2. Depth[b] = 0 <=> b = Genesis
  BY ParentDepth, TreeAssumption
<1> QED
  BY <1>1, <1>2, TreeAssumption

\* The parent of a block on a path is on it.
LEMMA ParentOnPath ==
    ASSUME NEW b \in Blocks, NEW x \in Path[b], x # Genesis
    PROVE  Parent[x] \in Path[b] /\ x \in Blocks
<1>1. x \in Blocks /\ Path[x] \subseteq Path[b]
  BY OnPath, PathClosed
<1> QED
  BY <1>1, OnPath, ParentDepth

\* Two blocks of a path: the shallower one is on the path of the other.
LEMMA PathOrdered ==
    ASSUME NEW b \in Blocks
    PROVE  \A x, y \in Path[b] : Depth[x] =< Depth[y] => x \in Path[y]
<1> DEFINE Good(c) == \A x, y \in Path[c] : Depth[x] =< Depth[y] => x \in Path[y]
           Bad == {c \in Blocks : ~Good(c)}
<1> SUFFICES ASSUME Bad # {} PROVE FALSE
  OBVIOUS
<1>1. PICK c \in Bad : \A a \in Bad : Depth[c] =< Depth[a]
  <2> HIDE DEF Bad
  <2>1. Bad \in SUBSET Blocks
    BY DEF Bad
  <2> QED
    BY <2>1, Shallowest
<1>2. CASE c = Genesis
  BY <1>1, <1>2, TreeAssumption
<1>3. CASE c # Genesis
  <2>1. Good(Parent[c])
    <3>1. Parent[c] \notin Bad
      BY <1>1, <1>3, ParentDepth
    <3> QED
      BY <3>1, <1>3, ParentDepth
  <2>2. ASSUME NEW x \in Path[c], NEW y \in Path[c], Depth[x] =< Depth[y]
        PROVE  x \in Path[y]
    <3>1. CASE y = c
      BY <3>1
    <3>2. CASE y # c /\ x # c
      BY <2>1, <2>2, <3>2, <1>3, ParentDepth
    <3>3. CASE y # c /\ x = c
      <4>1. Depth[y] =< Depth[c] /\ Depth[y] # Depth[c] /\ Depth[y] \in Nat /\ Depth[c] \in Nat
        BY <3>3, PathClosed, OnPath, TreeAssumption
      <4> QED
        BY <4>1, <3>3, <2>2
    <3> QED
      BY <3>1, <3>2, <3>3
  <2> QED
    BY <1>1, <2>2
<1> QED
  BY <1>2, <1>3

\* Two blocks of a path that are as deep as each other are the same.
LEMMA PathUnique ==
    ASSUME NEW b \in Blocks, NEW x \in Path[b], NEW y \in Path[b], Depth[x] = Depth[y]
    PROVE  x = y
<1>1. x \in Blocks /\ y \in Blocks /\ Depth[x] \in Nat
  BY OnPath, TreeAssumption
<1>2. x \in Path[y]
  BY <1>1, PathOrdered
<1> QED
  BY <1>1, <1>2, PathClosed

\* A block of a path is its end or the parent of another block of it.
LEMMA ChildOnPath ==
    ASSUME NEW b \in Blocks, NEW x \in Path[b], x # b
    PROVE  \E c \in Path[b] : c # Genesis /\ Parent[c] = x /\ Depth[c] = Depth[x] + 1
<1> DEFINE Above == {c \in Path[b] : Depth[c] > Depth[x]}
<1>0. x \in Blocks /\ Depth[x] \in Nat /\ Depth[b] \in Nat
  BY OnPath, TreeAssumption
<1>1. b \in Above
  BY <1>0, PathClosed, OnPath
<1>2. PICK c \in Above : \A a \in Above : Depth[c] =< Depth[a]
  <2>1. Above \in SUBSET Blocks /\ Above # {}
    BY <1>1, OnPath
  <2> HIDE DEF Above
  <2> QED
    BY <2>1, Shallowest
<1>3. c # Genesis /\ c \in Blocks
  BY <1>0, <1>2, GenesisOnPath, OnPath
<1>4. Parent[c] \in Path[b] /\ Parent[c] \notin Above
  BY <1>2, <1>3, ParentOnPath, ParentDepth
<1>5. Depth[Parent[c]] = Depth[x]
  BY <1>0, <1>2, <1>3, <1>4, ParentDepth
<1>6. Parent[c] = x
  BY <1>4, <1>5, PathUnique
<1> QED
  BY <1>2, <1>3, <1>5, <1>6, ParentDepth

-----------------------------------------------------------------------------
(* The inductive invariant *)

\* The failures left are never more than there were.
Types == TypeOK /\ budget.failures =< MaxFailures

\* Nothing is known before there is a best chain.
EmptyInv == best = NoBlock => Known = {}

\* Links are only ever those of the tree, and an unknown block has none.
LinkInv ==
    /\ \A x \in Blocks : prev[x] # NoBlock => x # Genesis /\ prev[x] = Parent[x]
    /\ \A x \in Blocks \ Known : next[x] = NoBlock /\ prev[x] = NoBlock

StoreInv == EmptyInv /\ ChainLinked /\ LinkInv

\* No header is in the file twice; while its whole headers are replayed the
\* entries are the first of them, and afterwards all are marked as written.
FileInv ==
    /\ \A i, k \in 1..Len(file) : file[i] = file[k] => i = k
    /\ phase = "down" => Known = {} /\ best = NoBlock /\ pos = 0 /\ written = {}
    /\ phase = "loading" /\ pos =< Len(file) => Known = {file[i] : i \in 1..pos} /\ written = Known
    /\ phase = "running" \/ (phase = "loading" /\ pos > Len(file)) =>
          Elements(file) \subseteq written /\ written \subseteq Known

\* x is in the file, and every header before it is less deep.
FirstAt(f, x) == \E k \in 1..Len(f) : f[k] = x /\ \A i \in 1..(k - 1) : Depth[f[i]] < Depth[x]

\* The parent of every known block is known.
ParentsKnown == \A x \in Known \ {Genesis} : Parent[x] \in Known

\* The parent of a header of the file stands before it.
ParentsFirst(f) == \A i \in 1..Len(f) : f[i] = Genesis \/ \E k \in 1..(i - 1) : f[k] = Parent[f[i]]

\* The best block is the first of its depth in the file; when it is not in the
\* file yet, it is deeper than all of it.
BestFirst ==
    /\ phase = "loading" /\ best # NoBlock => FirstAt(file, best)
    /\ phase = "running" =>
          /\ written = Elements(file)
          /\ best \in written => FirstAt(file, best)
          /\ best \notin written => \A x \in written : Depth[x] < Depth[best]

\* What holds as long as no write was lost.
CleanInv ==
    NoLostWrite =>
        /\ ParentsKnown /\ ParentsFirst(file)
        /\ \A x \in Known : Depth[x] =< height
        /\ BestFirst
        /\ durable # NoBlock => FirstAt(file, durable)

BlockStoreInv == Types /\ StoreInv /\ FileInv /\ CleanInv

-----------------------------------------------------------------------------
(* The walk of blockstore_write_headers *)

\* The recursive definition in Unwritten, as an equation.
Walk(w, D) == w = [e \in D |-> IF e = NoBlock \/ e \in written THEN <<>>
                               ELSE Append(w[prev[e]], e)]

\* The entries less deep than n.
Shallow(n) == {NoBlock} \cup {e \in Blocks : Depth[e] < n}

\* A link to the previous entry leads to one less deep, if to any.
LEMMA PrevShallow ==
    ASSUME TypeOK, LinkInv, NEW e \in Blocks
    PROVE  /\ prev[e] \in Blocks \cup {NoBlock}
           /\ prev[e] # NoBlock => /\ e # Genesis /\ prev[e] = Parent[e] /\ prev[e] \in Blocks
                                 /\ Depth[prev[e]] < Depth[e]
           /\ \A n \in Nat : Depth[e] =< n => prev[e] \in Shallow(n)
<1>1. prev[e] \in Blocks \cup {NoBlock}
  BY DEF TypeOK
<1>2. ASSUME prev[e] # NoBlock
      PROVE  /\ e # Genesis /\ prev[e] = Parent[e] /\ prev[e] \in Blocks
             /\ Depth[prev[e]] < Depth[e]
  BY <1>1, <1>2, ParentDepth DEF LinkInv
<1>3. Depth[e] \in Nat /\ \A x \in Blocks : Depth[x] \in Nat
  BY TreeAssumption
<1>4. \A n \in Nat : Depth[e] =< n => prev[e] \in Shallow(n)
  BY <1>1, <1>2, <1>3 DEF Shallow
<1> QED
  BY <1>1, <1>2, <1>4

\* The equation has a solution on the entries less deep than any bound.
LEMMA WalkUpTo ==
    ASSUME TypeOK, LinkInv, NEW n \in Nat
    PROVE  \E w : Walk(w, Shallow(n))
<1> DEFINE Bad == {m \in Nat : ~ \E w : Walk(w, Shallow(m))}
<1> SUFFICES ASSUME Bad # {} PROVE FALSE
  OBVIOUS
<1>1. PICK m \in Bad : \A k \in Bad : m =< k
  <2>1. Bad \in SUBSET Nat
    OBVIOUS
  <2> HIDE DEF Bad
  <2> QED
    BY <2>1, LeastNumber
<1>2. CASE m = 0
  <2>1. Shallow(0) = {NoBlock}
    BY TreeAssumption DEF Shallow
  <2>2. Walk([e \in {NoBlock} |-> <<>>], {NoBlock})
    BY DEF Walk
  <2> QED
    BY <1>1, <1>2, <2>1, <2>2
<1>3. CASE m # 0
  <2>1. m - 1 \in Nat /\ m - 1 \notin Bad
    BY <1>1, <1>3
  <2>2. PICK w : Walk(w, Shallow(m - 1))
    BY <2>1
  <2> DEFINE v == [e \in Shallow(m) |-> IF e = NoBlock \/ e \in written THEN <<>>
                                        ELSE Append(w[prev[e]], e)]
  <2>3. ASSUME NEW e \in Shallow(m), e # NoBlock, e \notin written
        PROVE  v[prev[e]] = w[prev[e]]
    <3>1. e \in Blocks /\ Depth[e] =< m - 1
      BY <2>3, <1>1, TreeAssumption DEF Shallow
    <3>2. prev[e] \in Shallow(m - 1)
      BY <3>1, <2>1, PrevShallow
    <3>3. prev[e] \in Shallow(m)
      BY <3>2, <1>1, TreeAssumption DEF Shallow
    <3> QED
      BY <3>2, <3>3, <2>2 DEF Walk
  <2>4. Walk(v, Shallow(m))
    BY <2>3 DEF Walk
  <2> QED
    BY <1>1, <2>4
<1> QED
  BY <1>2, <1>3

\* Two solutions agree where both are defined.
LEMMA WalkUnique ==
    ASSUME TypeOK, LinkInv, NEW m \in Nat, NEW n \in Nat,
           NEW v, Walk(v, Shallow(m)), NEW w, Walk(w, Shallow(n))
    PROVE  \A e \in Shallow(m) \cap Shallow(n) : v[e] = w[e]
<1> DEFINE Bad == {e \in Blocks : e \in Shallow(m) /\ e \in Shallow(n) /\ v[e] # w[e]}
<1>1. Bad = {}
  <2> SUFFICES ASSUME Bad # {} PROVE FALSE
    OBVIOUS
  <2>1. PICK e \in Bad : \A a \in Bad : Depth[e] =< Depth[a]
    <3>1. Bad \in SUBSET Blocks
      OBVIOUS
    <3> HIDE DEF Bad
    <3> QED
      BY <3>1, Shallowest
  <2>2. e \in Blocks /\ e # NoBlock /\ Depth[e] < m /\ Depth[e] < n /\ Depth[e] \in Nat
    BY <2>1, TreeAssumption DEF Shallow
  <2>3. prev[e] \in Shallow(m) /\ prev[e] \in Shallow(n)
    BY <2>2, PrevShallow
  <2>4. v[prev[e]] = w[prev[e]]
    <3>1. CASE prev[e] = NoBlock
      BY <2>3, <3>1 DEF Walk
    <3>2. CASE prev[e] # NoBlock
      <4>1. prev[e] \in Blocks /\ Depth[prev[e]] < Depth[e]
        BY <2>2, <3>2, PrevShallow
      <4>2. prev[e] \notin Bad
        BY <4>1, <2>1, <2>2, TreeAssumption
      <4> QED
        BY <4>1, <4>2, <2>3
    <3> QED
      BY <3>1, <3>2
  <2>5. v[e] = w[e]
    BY <2>1, <2>4, ZenonT(60) DEF Walk
  <2> QED
    BY <2>1, <2>5
<1>2. v[NoBlock] = w[NoBlock]
  BY DEF Walk, Shallow
<1> QED
  BY <1>1, <1>2 DEF Shallow

\* The recursive definition has a solution, so the walk satisfies it.
LEMMA WalkExists ==
    ASSUME TypeOK, LinkInv
    PROVE  \E w : Walk(w, Blocks \cup {NoBlock}) /\ Unwritten = w[best]
<1> DEFINE W(n) == CHOOSE w : Walk(w, Shallow(n))
           v == [e \in Blocks \cup {NoBlock} |-> IF e = NoBlock THEN <<>> ELSE W(Depth[e] + 1)[e]]
<1>1. \A n \in Nat : Walk(W(n), Shallow(n))
  BY WalkUpTo
<1> HIDE DEF W
<1>2. ASSUME NEW e \in Blocks, e \notin written
      PROVE  v[e] = Append(v[prev[e]], e)
  <2>1. Depth[e] \in Nat /\ Depth[e] + 1 \in Nat /\ e \in Shallow(Depth[e] + 1) /\ e # NoBlock
    BY TreeAssumption DEF Shallow
  <2>2. v[e] = Append(W(Depth[e] + 1)[prev[e]], e)
    <3>1. Walk(W(Depth[e] + 1), Shallow(Depth[e] + 1))
      BY <1>1, <2>1
    <3> QED
      BY <3>1, <2>1, <1>2 DEF Walk
  <2>3. v[prev[e]] = W(Depth[e] + 1)[prev[e]]
    <3>0. prev[e] \in Shallow(Depth[e] + 1) /\ prev[e] \in Blocks \cup {NoBlock}
      BY <2>1, PrevShallow
    <3>1. CASE prev[e] = NoBlock
      <4>1. Walk(W(Depth[e] + 1), Shallow(Depth[e] + 1))
        BY <1>1, <2>1
      <4> QED
        BY <4>1, <3>0, <3>1 DEF Walk
    <3>2. CASE prev[e] # NoBlock
      <4>1. prev[e] \in Blocks /\ Depth[prev[e]] + 1 \in Nat /\ prev[e] \in Shallow(Depth[prev[e]] + 1)
        BY <3>0, <3>2, TreeAssumption DEF Shallow
      <4>2. Walk(W(Depth[e] + 1), Shallow(Depth[e] + 1))
        BY <1>1, <2>1
      <4>3. Walk(W(Depth[prev[e]] + 1), Shallow(Depth[prev[e]] + 1))
        BY <1>1, <4>1
      <4>4. W(Depth[prev[e]] + 1)[prev[e]] = W(Depth[e] + 1)[prev[e]]
        BY <4>1, <4>2, <4>3, <3>0, <2>1, WalkUnique
      <4> QED
        BY <4>1, <4>4, <3>2
    <3> QED
      BY <3>1, <3>2
  <2> QED
    BY <2>2, <2>3
<1>3. ASSUME NEW e \in Blocks, e \in written
      PROVE  v[e] = <<>>
  <2>1. Depth[e] + 1 \in Nat /\ e \in Shallow(Depth[e] + 1) /\ e # NoBlock
    BY TreeAssumption DEF Shallow
  <2>2. Walk(W(Depth[e] + 1), Shallow(Depth[e] + 1))
    BY <1>1, <2>1
  <2> QED
    BY <2>1, <2>2, <1>3 DEF Walk
<1>4. v[NoBlock] = <<>>
  OBVIOUS
<1>5. Walk(v, Blocks \cup {NoBlock})
  <2>1. ASSUME NEW e \in Blocks \cup {NoBlock}
        PROVE  v[e] = IF e = NoBlock \/ e \in written THEN <<>> ELSE Append(v[prev[e]], e)
    <3> HIDE DEF v
    <3> QED
      BY <1>2, <1>3, <1>4
  <2>2. v = [e \in Blocks \cup {NoBlock} |-> v[e]]
    OBVIOUS
  <2> HIDE DEF v
  <2> QED
    BY <2>1, <2>2 DEF Walk
<1>6. Unwritten = (CHOOSE w : Walk(w, Blocks \cup {NoBlock}))[best]
  BY DEF Unwritten, Walk
<1> HIDE DEF v
<1> QED
  BY <1>5, <1>6

\* What the walk from e brings back: the unwritten entries of the path of e down
\* to the first written one, in the order of their depth.
Shape(s, e) ==
    /\ s \in Seq(Blocks)
    /\ \A i \in 1..Len(s) : s[i] \in Path[e] /\ s[i] \notin written
    /\ \A i, k \in 1..Len(s) : i < k => Depth[s[i]] < Depth[s[k]]
    /\ \A i \in 1..Len(s) : \/ prev[s[i]] = NoBlock
                            \/ prev[s[i]] \in written
                            \/ i > 1 /\ prev[s[i]] = s[i - 1]
    /\ e \in written => s = <<>>
    /\ e \notin written => Len(s) > 0 /\ s[Len(s)] = e

\* One step of the walk.
LEMMA ShapeAppend ==
    ASSUME TypeOK, LinkInv, NEW e \in Blocks, e \notin written,
           prev[e] # NoBlock, NEW t, Shape(t, prev[e])
    PROVE  Shape(Append(t, e), e)
<1> DEFINE s == Append(t, e)
<1>1. t \in Seq(Blocks) /\ s \in Seq(Blocks) /\ Len(t) \in Nat /\ Len(s) = Len(t) + 1
  BY DEF Shape
<1>2. (\A i \in 1..Len(t) : s[i] = t[i]) /\ s[Len(t) + 1] = e
  BY <1>1
<1>3. /\ e # Genesis /\ prev[e] = Parent[e] /\ prev[e] \in Blocks
      /\ Depth[prev[e]] < Depth[e] /\ Depth[e] \in Nat /\ Path[prev[e]] \subseteq Path[e]
  BY PrevShallow, ParentDepth
<1> HIDE DEF s
<1>4. ASSUME NEW i \in 1..Len(s)
      PROVE  s[i] \in Path[e] /\ s[i] \notin written
  BY <1>1, <1>2, <1>3, <1>4, OnPath DEF Shape
<1>5. ASSUME NEW i \in 1..Len(s), NEW k \in 1..Len(s), i < k
      PROVE  Depth[s[i]] < Depth[s[k]]
  <2>1. i \in 1..Len(t) /\ s[i] = t[i]
    BY <1>1, <1>2, <1>5
  <2>2. CASE k \in 1..Len(t)
    BY <2>1, <2>2, <1>2, <1>5 DEF Shape
  <2>3. CASE k = Len(t) + 1
    <3>1. t[i] \in Path[prev[e]]
      BY <2>1 DEF Shape
    <3>2. Depth[t[i]] =< Depth[prev[e]] /\ t[i] \in Blocks
      BY <3>1, <1>3, PathClosed, OnPath
    <3>3. Depth[t[i]] \in Nat /\ Depth[prev[e]] \in Nat
      BY <3>2, <1>3, TreeAssumption
    <3>4. Depth[t[i]] < Depth[e]
      BY <3>2, <3>3, <1>3
    <3> QED
      BY <2>1, <2>3, <1>2, <3>4
  <2> QED
    BY <2>2, <2>3, <1>1
<1>6. ASSUME NEW i \in 1..Len(s)
      PROVE  \/ prev[s[i]] = NoBlock
             \/ prev[s[i]] \in written
             \/ i > 1 /\ prev[s[i]] = s[i - 1]
  <2>1. CASE i \in 1..Len(t)
    <3>1. i > 1 => i - 1 \in 1..Len(t)
      BY <2>1, <1>1
    <3> QED
      BY <2>1, <3>1, <1>2 DEF Shape
  <2>2. CASE i = Len(t) + 1
    <3>1. s[i] = e
      BY <2>2, <1>2
    <3>2. CASE prev[e] \in written
      BY <3>1, <3>2
    <3>3. CASE prev[e] \notin written
      <4>1. Len(t) > 0 /\ t[Len(t)] = prev[e]
        BY <3>3 DEF Shape
      <4>2. s[Len(t)] = prev[e] /\ i > 1 /\ i - 1 = Len(t)
        BY <4>1, <2>2, <1>1, <1>2
      <4> QED
        BY <3>1, <4>2
    <3> QED
      BY <3>2, <3>3
  <2> QED
    BY <2>1, <2>2, <1>1
<1>7. Len(s) > 0 /\ s[Len(s)] = e
  BY <1>1, <1>2
<1>8. Shape(s, e)
  BY <1>1, <1>4, <1>5, <1>6, <1>7 DEF Shape
<1> QED
  BY <1>8 DEF s

\* The walk from any entry has that shape.
LEMMA WalkShape ==
    ASSUME TypeOK, LinkInv, NEW w, Walk(w, Blocks \cup {NoBlock})
    PROVE  \A e \in Blocks : Shape(w[e], e)
<1> DEFINE Bad == {e \in Blocks : ~Shape(w[e], e)}
<1> SUFFICES ASSUME Bad # {} PROVE FALSE
  OBVIOUS
<1>1. PICK e \in Bad : \A a \in Bad : Depth[e] =< Depth[a]
  <2>1. Bad \in SUBSET Blocks
    OBVIOUS
  <2> HIDE DEF Bad
  <2> QED
    BY <2>1, Shallowest
<1>0. e \in Blocks /\ e # NoBlock /\ ~Shape(w[e], e)
  BY <1>1, TreeAssumption
<1>2. CASE e \in written
  <2>1. w[e] = <<>>
    BY <1>0, <1>2 DEF Walk
  <2>2. Shape(<<>>, e)
    BY <1>2 DEF Shape
  <2> QED
    BY <1>0, <2>1, <2>2
<1>3. CASE e \notin written
  <2>1. w[e] = Append(w[prev[e]], e)
    BY <1>0, <1>3 DEF Walk
  <2>2. CASE prev[e] = NoBlock
    <3>1. w[prev[e]] = <<>>
      BY <2>2 DEF Walk
    <3>2. w[e] = <<e>>
      BY <2>1, <3>1
    <3>3. <<e>> \in Seq(Blocks) /\ Len(<<e>>) = 1 /\ <<e>>[1] = e
      BY <1>0
    <3>4. Shape(<<e>>, e)
      BY <3>3, <2>2, <1>0, <1>3, OnPath DEF Shape
    <3> QED
      BY <1>0, <3>2, <3>4
  <2>3. CASE prev[e] # NoBlock
    <3>1. prev[e] \in Blocks /\ Depth[prev[e]] < Depth[e]
      BY <2>3, <1>0, PrevShallow
    <3>2. prev[e] \notin Bad
      BY <3>1, <1>0, <1>1, TreeAssumption
    <3>3. Shape(w[prev[e]], prev[e])
      BY <3>1, <3>2
    <3> QED
      BY <1>0, <1>3, <2>1, <2>3, <3>3, ShapeAppend
  <2> QED
    BY <2>2, <2>3
<1> QED
  BY <1>2, <1>3

\* What blockstore_write_headers collects.
LEMMA UnwrittenShape ==
    ASSUME TypeOK, LinkInv
    PROVE  /\ best = NoBlock => Unwritten = <<>>
           /\ best # NoBlock => Shape(Unwritten, best)
           /\ Unwritten \in Seq(Blocks)
<1>1. PICK w : Walk(w, Blocks \cup {NoBlock}) /\ Unwritten = w[best]
  BY WalkExists
<1>2. best = NoBlock => Unwritten = <<>>
  BY <1>1 DEF Walk
<1>3. best # NoBlock => Shape(Unwritten, best)
  BY <1>1, WalkShape DEF TypeOK
<1>4. Unwritten \in Seq(Blocks)
  <2>1. <<>> \in Seq(Blocks)
    OBVIOUS
  <2> QED
    BY <1>2, <1>3, <2>1, Zenon DEF Shape
<1> QED
  BY <1>2, <1>3, <1>4

-----------------------------------------------------------------------------
(* blockstore_add_entry *)

\* The types of the entries.
EntryTypes ==
    /\ best \in Blocks \cup {NoBlock} /\ height \in Int
    /\ blk \subseteq Blocks /\ orphans \subseteq Blocks
    /\ hgt \in [Blocks -> Int]
    /\ prev \in [Blocks -> Blocks \cup {NoBlock}]
    /\ next \in [Blocks -> Blocks \cup {NoBlock}]

\* The branch of a new block that forks is what its path has from the root of
\* the branch on, and the parent of the root is on the best chain or unknown.
LEMMA BranchShape ==
    ASSUME EntryTypes, StoreInv, NEW b \in Blocks, b \notin Known, Forks(b)
    PROVE  /\ BranchRoot(b) \in Path[b] /\ BranchRoot(b) \in Blocks \ {Genesis}
           /\ BranchRoot(b) \in orphans \cup {b}
           /\ Branch(b) = {x \in Path[b] : Depth[BranchRoot(b)] =< Depth[x]}
           /\ Branch(b) \subseteq orphans \cup {b} /\ b \in Branch(b)
           /\ Parent[BranchRoot(b)] \in Path[b] \ (orphans \cup {b})
<1> DEFINE r == BranchRoot(b)
<1>0. Path[b] \subseteq Blocks /\ \A x \in Path[b] : Depth[x] \in Nat
  BY OnPath, TreeAssumption
<1>1. b \in Branch(b)
  <2>1. \A x \in Path[b] : Depth[x] >= Depth[b] => x = b
    BY <1>0, PathClosed, TreeAssumption
  <2> QED
    BY <2>1, OnPath DEF Branch
<1>2. Branch(b) \subseteq orphans \cup {b} /\ Branch(b) \subseteq Path[b]
  BY <1>0 DEF Branch
<1>3. r \in Branch(b) /\ \A a \in Branch(b) : Depth[r] =< Depth[a]
  <2>1. \E q \in Branch(b) : \A a \in Branch(b) : Depth[q] =< Depth[a]
    BY <1>0, <1>1, <1>2, Shallowest
  <2> QED
    BY <2>1 DEF BranchRoot
<1> HIDE DEF r
<1>4. r # Genesis /\ r \in Blocks /\ r \in Path[b]
  <2>1. Genesis \in blk
    BY GenesisOnPath DEF StoreInv, ChainLinked, Forks, EntryTypes
  <2>2. Genesis \notin orphans /\ b # Genesis
    BY <2>1 DEF StoreInv, ChainLinked, Forks
  <2> QED
    BY <1>0, <1>2, <1>3, <2>2
<1>5. Branch(b) = {x \in Path[b] : Depth[r] =< Depth[x]}
  <2>1. ASSUME NEW a \in Path[b], Depth[r] =< Depth[a] PROVE a \in Branch(b)
    <3>1. \A x \in Path[b] : Depth[x] >= Depth[r] => x \in orphans \cup {b}
      BY <1>3 DEF Branch
    <3>2. \A x \in Path[b] : Depth[x] >= Depth[a] => Depth[x] >= Depth[r]
      BY <1>0, <1>4, <2>1
    <3> QED
      BY <3>1, <3>2 DEF Branch
  <2> QED
    BY <1>2, <1>3, <2>1
<1>6. Parent[r] \in Path[b] \ (orphans \cup {b})
  <2>1. Parent[r] \in Path[b] /\ Depth[r] = Depth[Parent[r]] + 1 /\ Depth[Parent[r]] \in Nat
    BY <1>4, ParentOnPath, ParentDepth
  <2>2. Parent[r] \notin Branch(b)
    BY <2>1, <1>3
  <2>3. ASSUME Parent[r] \in orphans \cup {b} PROVE FALSE
    <3>1. ASSUME NEW x \in Path[b], Depth[x] >= Depth[Parent[r]] PROVE x \in orphans \cup {b}
      <4>1. CASE Depth[x] >= Depth[r]
        BY <4>1, <1>3 DEF Branch
      <4>2. CASE ~(Depth[x] >= Depth[r])
        <5>1. Depth[x] = Depth[Parent[r]]
          BY <4>2, <3>1, <2>1, <1>0
        <5>2. x = Parent[r]
          BY <5>1, <2>1, PathUnique
        <5> QED
          BY <5>2, <2>3
      <4> QED
        BY <4>1, <4>2
    <3>2. Parent[r] \in Branch(b)
      BY <2>1, <3>1 DEF Branch
    <3> QED
      BY <3>2, <2>2
  <2> QED
    BY <2>1, <2>3
<1>7. r \in orphans \cup {b}
  BY <1>2, <1>3
<1> QED
  BY <1>1, <1>2, <1>4, <1>5, <1>6, <1>7 DEF r

\* On the best chain, next leads from a block to the block above it.
LEMMA NextOnChain ==
    ASSUME EntryTypes, ChainLinked, best # NoBlock, NEW y \in blk, next[y] # NoBlock
    PROVE  next[y] \in blk /\ Depth[next[y]] = Depth[y] + 1
<1>1. y # best /\ blk = Path[best] /\ best \in Blocks
  BY DEF ChainLinked, EntryTypes
<1>2. PICK c \in blk : c # Genesis /\ Parent[c] = y /\ Depth[c] = Depth[y] + 1
  BY <1>1, ChildOnPath
<1>3. next[y] = c
  BY <1>2 DEF ChainLinked
<1> QED
  BY <1>2, <1>3

\* What blockstore_set_chain_links moves out is the chain above the junction.
LEMMA MovedOutAbove ==
    ASSUME EntryTypes, ChainLinked, best # NoBlock, NEW j \in blk, NEW s, MovedOut(j, s)
    PROVE  s = {x \in blk : Depth[x] > Depth[j]}
<1>0. /\ blk = Path[best] /\ best \in Blocks /\ blk \subseteq Blocks
      /\ s \subseteq blk /\ \A x \in blk : Depth[x] \in Nat
  BY TreeAssumption DEF ChainLinked, EntryTypes, MovedOut
<1>1. ASSUME NEW z \in s, ~(Depth[z] > Depth[j]) PROVE FALSE
  <2> DEFINE Bad == {x \in s : ~(Depth[x] > Depth[j])}
  <2>1. Bad \in SUBSET Blocks /\ Bad # {}
    BY <1>0, <1>1
  <2>2. PICK x \in Bad : \A a \in Bad : Depth[x] =< Depth[a]
    <3> HIDE DEF Bad
    <3> QED
      BY <2>1, Shallowest
  <2>3. PICK y \in {j} \cup s : next[y] = x
    BY <2>2 DEF MovedOut, FollowsNext
  <2>4. y \in blk /\ x \in blk /\ x # NoBlock
    BY <1>0, <2>2, <2>3, TreeAssumption
  <2>5. Depth[x] = Depth[y] + 1
    BY <2>3, <2>4, NextOnChain
  <2>6. y # j /\ y \in Bad
    BY <1>0, <2>2, <2>3, <2>4, <2>5
  <2> QED
    BY <1>0, <2>2, <2>4, <2>5, <2>6
<1>2. ASSUME NEW z \in blk, Depth[z] > Depth[j], z \notin s PROVE FALSE
  <2> DEFINE Bad == {x \in blk : Depth[x] > Depth[j] /\ x \notin s}
  <2>1. Bad \in SUBSET Blocks /\ Bad # {}
    BY <1>0, <1>2
  <2>2. PICK x \in Bad : \A a \in Bad : Depth[x] =< Depth[a]
    <3> HIDE DEF Bad
    <3> QED
      BY <2>1, Shallowest
  <2>3. x # Genesis /\ x \in Blocks
    BY <1>0, <2>2, GenesisOnPath
  <2>4. Parent[x] \in blk /\ Depth[x] = Depth[Parent[x]] + 1
    BY <1>0, <2>2, <2>3, ParentOnPath, ParentDepth
  <2>5. next[Parent[x]] = x /\ x # NoBlock
    BY <2>2, <2>3, TreeAssumption DEF ChainLinked
  <2>6. Parent[x] \notin s /\ Parent[x] # j
    BY <2>2, <2>5 DEF MovedOut, FollowsNext
  <2>7. Depth[Parent[x]] # Depth[j]
    BY <1>0, <2>4, <2>6, PathUnique
  <2>8. Parent[x] \in Bad
    BY <1>0, <2>2, <2>4, <2>6, <2>7
  <2> QED
    BY <1>0, <2>2, <2>4, <2>8
<1> QED
  BY <1>0, <1>1, <1>2

\* A path is cut in two by the depth of a block on it.
LEMMA PathBelow ==
    ASSUME NEW b \in Blocks, NEW j \in Path[b]
    PROVE  Path[j] = {x \in Path[b] : Depth[x] =< Depth[j]}
<1>1. j \in Blocks /\ Path[j] \subseteq Path[b]
  BY OnPath, PathClosed
<1>2. \A x \in Path[j] : Depth[x] =< Depth[j]
  BY <1>1, PathClosed
<1>3. \A x \in Path[b] : Depth[x] =< Depth[j] => x \in Path[j]
  BY PathOrdered
<1> QED
  BY <1>1, <1>2, <1>3

\* What adding b leaves: a sound store that knows b too, whose best block is b
\* or the one it was.
Added(b) ==
    /\ EntryTypes' /\ StoreInv'
    /\ Known' = Known \cup {b}
    /\ \/ best' = b
       \/ best # NoBlock /\ best' = best /\ height' = height

\* The first entry.
LEMMA AddGenesisStore ==
    ASSUME EntryTypes, StoreInv, NEW b \in Blocks, b \notin Known, AddGenesis(b)
    PROVE  Added(b)
<1>1. /\ best = NoBlock /\ b = Genesis /\ best' = b /\ height' = 0
      /\ blk' = {b} /\ orphans' = {} /\ orphans = {} /\ blk = {}
      /\ hgt' = [hgt EXCEPT ![b] = 0] /\ prev' = prev /\ next' = next
  BY DEF AddGenesis, StoreInv, EmptyInv, Known
<1>2. EntryTypes'
  BY <1>1 DEF EntryTypes
<1>3. Known' = {b} /\ Known = {}
  BY <1>1 DEF Known
<1>4. LinkInv'
  BY <1>1, <1>3 DEF StoreInv, LinkInv
<1>5. next[b] = NoBlock
  BY <1>1, <1>3 DEF StoreInv, LinkInv
<1>6. ChainLinked'
  BY <1>1, <1>5, TreeAssumption DEF ChainLinked, EntryTypes
<1>7. EmptyInv'
  BY <1>1, TreeAssumption DEF EmptyInv
<1> QED
  BY <1>1, <1>2, <1>3, <1>4, <1>6, <1>7 DEF Added, StoreInv

\* An entry that extends the best chain.
LEMMA AddNextStore ==
    ASSUME EntryTypes, StoreInv, NEW b \in Blocks, b \notin Known, AddNext(b)
    PROVE  Added(b)
<1>1. /\ best # NoBlock /\ best \in Blocks /\ b # Genesis /\ Parent[b] = best
      /\ best' = b /\ height' = height + 1
      /\ blk' = blk \cup {b} /\ orphans' = orphans
      /\ hgt' = [hgt EXCEPT ![b] = height + 1]
      /\ next' = [next EXCEPT ![best] = b]
      /\ prev' = [prev EXCEPT ![b] = best]
  BY DEF AddNext, Extends, EntryTypes
<1>2. EntryTypes'
  BY <1>1 DEF EntryTypes
<1>3. Known' = Known \cup {b} /\ b # best /\ best \in blk /\ best \in Known
  BY <1>1, OnPath DEF Known, StoreInv, ChainLinked
<1>4. LinkInv'
  BY <1>1, <1>3 DEF StoreInv, LinkInv, EntryTypes
<1>5. next[b] = NoBlock /\ b \notin blk /\ b \notin orphans
  BY <1>1, <1>3 DEF StoreInv, LinkInv, Known
<1>6. Path[b] = blk \cup {b} /\ Depth[b] = height + 1
  BY <1>1, ParentDepth DEF StoreInv, ChainLinked
<1>7. ASSUME NEW x \in blk', x # Genesis
      PROVE  prev'[x] = Parent[x] /\ next'[Parent[x]] = x
  <2>1. CASE x = b
    BY <1>1, <1>2, <2>1 DEF EntryTypes
  <2>2. CASE x # b
    <3>1. x \in blk /\ x \in Blocks /\ Parent[x] \in Blocks /\ Depth[x] = Depth[Parent[x]] + 1
      BY <1>1, <1>7, <2>2, ParentDepth DEF EntryTypes
    <3>2. Depth[x] =< Depth[best] /\ Depth[best] \in Nat /\ Depth[x] \in Nat /\ Depth[Parent[x]] \in Nat
      BY <1>1, <3>1, PathClosed, TreeAssumption DEF StoreInv, ChainLinked
    <3>3. Parent[x] # best
      BY <3>1, <3>2
    <3> QED
      BY <1>1, <1>7, <2>2, <3>1, <3>3 DEF StoreInv, ChainLinked, EntryTypes
  <2> QED
    BY <2>1, <2>2
<1>8. ChainLinked'
  <2>1. \A x \in blk' : hgt'[x] = Depth[x]
    BY <1>1, <1>5, <1>6 DEF StoreInv, ChainLinked, EntryTypes
  <2>2. \A x \in orphans' : hgt'[x] = -1
    BY <1>1, <1>5 DEF StoreInv, ChainLinked, EntryTypes
  <2>3. blk' = Path[best'] /\ height' = Depth[best'] /\ blk' \cap orphans' = {}
    BY <1>1, <1>5, <1>6 DEF StoreInv, ChainLinked
  <2>4. next'[best'] = NoBlock
    BY <1>1, <1>3, <1>5 DEF EntryTypes
  <2> QED
    BY <1>7, <2>1, <2>2, <2>3, <2>4 DEF ChainLinked
<1>9. EmptyInv'
  BY <1>1, TreeAssumption DEF EmptyInv
<1> QED
  BY <1>1, <1>2, <1>3, <1>4, <1>8, <1>9 DEF Added, StoreInv

\* An entry that stays an orphan.
LEMMA AddOrphanStore ==
    ASSUME EntryTypes, StoreInv, NEW b \in Blocks, b \notin Known, AddOrphan(b)
    PROVE  Added(b)
<1>1. /\ best # NoBlock /\ b # Genesis
      /\ orphans' = orphans \cup {b} /\ hgt' = [hgt EXCEPT ![b] = -1]
      /\ best' = best /\ height' = height /\ blk' = blk /\ prev' = prev /\ next' = next
  BY DEF AddOrphan, Forks
<1>2. EntryTypes'
  BY <1>1 DEF EntryTypes
<1>3. Known' = Known \cup {b} /\ b \notin blk
  BY <1>1 DEF Known
<1>4. LinkInv'
  BY <1>1, <1>3 DEF StoreInv, LinkInv
<1>5. ChainLinked'
  BY <1>1, <1>3 DEF StoreInv, ChainLinked, EntryTypes
<1>6. EmptyInv'
  BY <1>1 DEF EmptyInv
<1> QED
  BY <1>1, <1>2, <1>3, <1>4, <1>5, <1>6 DEF Added, StoreInv

\* A reorganization: the branch up to the junction replaces the chain above it.
LEMMA ReorganizeStore ==
    ASSUME EntryTypes, StoreInv, NEW b \in Blocks, b \notin Known, Reorganize(b)
    PROVE  Added(b)
<1> DEFINE r == BranchRoot(b)
           j == Parent[r]
           up == Branch(b)
<1>1. Forks(b) /\ j \in blk /\ best' = b /\ height' = FindAlternateChainHeight(b)
  BY DEF Reorganize
<1>2. PICK s \in SUBSET blk :
              /\ MovedOut(j, s)
              /\ blk' = (blk \ s) \cup up
              /\ orphans' = (orphans \ up) \cup s
              /\ hgt' = [a \in Blocks |-> IF a \in up THEN hgt[j] + Depth[a] - Depth[j]
                                          ELSE IF a \in s THEN -1 ELSE hgt[a]]
              /\ next' = [a \in Blocks |->
                             IF \E x \in up : Parent[x] = a
                             THEN CHOOSE x \in up : Parent[x] = a ELSE next[a]]
              /\ prev' = [a \in Blocks |-> IF a \in up THEN Parent[a] ELSE prev[a]]
  BY DEF Reorganize
<1>3. /\ r \in Path[b] /\ r \in Blocks \ {Genesis} /\ up = {x \in Path[b] : Depth[r] =< Depth[x]}
      /\ up \subseteq orphans \cup {b} /\ b \in up
      /\ j \in Path[b] /\ j # b
  BY <1>1, BranchShape
<1>4. /\ j \in Blocks /\ Depth[r] = Depth[j] + 1 /\ Depth[j] \in Nat /\ Depth[r] \in Nat
      /\ best # NoBlock /\ best \in Blocks /\ b # Genesis
      /\ Path[b] \subseteq Blocks /\ Path[best] \subseteq Blocks
      /\ \A x \in Blocks : Depth[x] \in Nat
  BY <1>1, <1>3, ParentDepth, OnPath, TreeAssumption DEF EntryTypes, Forks
<1>5. /\ blk = Path[best] /\ height = Depth[best] /\ blk \cap orphans = {}
      /\ \A x \in blk : hgt[x] = Depth[x]
      /\ \A x \in orphans : hgt[x] = -1
      /\ \A x \in blk \ {Genesis} : prev[x] = Parent[x] /\ next[Parent[x]] = x
  BY <1>4 DEF StoreInv, ChainLinked
<1>6. s = {x \in blk : Depth[x] > Depth[j]}
  BY <1>1, <1>2, <1>4, MovedOutAbove DEF StoreInv
<1>7. height' = Depth[b] /\ hgt[j] = Depth[j]
  BY <1>1, <1>4, <1>5 DEF FindAlternateChainHeight
<1> HIDE DEF r, j, up
<1>8. Path[j] = blk \ s
  <2>1. Path[j] = {x \in Path[best] : Depth[x] =< Depth[j]}
    BY <1>1, <1>4, <1>5, PathBelow
  <2> QED
    BY <2>1, <1>4, <1>5, <1>6
<1>9. Path[b] = Path[j] \cup up
  <2>1. Path[j] = {x \in Path[b] : Depth[x] =< Depth[j]}
    BY <1>3, PathBelow
  <2> QED
    BY <2>1, <1>3, <1>4
<1>10. blk' = Path[b]
  BY <1>2, <1>8, <1>9
<1>11. s \subseteq blk /\ s \cap up = {} /\ b \notin blk /\ b \notin orphans /\ blk \cap up = {}
  BY <1>3, <1>5 DEF Known
<1>12. Known' = Known \cup {b}
  BY <1>2, <1>3, <1>11 DEF Known
<1>13. blk' \cap orphans' = {}
  BY <1>2, <1>5, <1>11
<1>14. /\ \A x \in blk' : hgt'[x] = Depth[x]
       /\ \A x \in orphans' : hgt'[x] = -1
  <2>1. ASSUME NEW x \in up PROVE hgt'[x] = Depth[x]
    BY <2>1, <1>2, <1>3, <1>4, <1>7
  <2>2. ASSUME NEW x \in blk \ s PROVE hgt'[x] = Depth[x]
    BY <2>2, <1>2, <1>4, <1>5, <1>11
  <2>3. ASSUME NEW x \in s PROVE hgt'[x] = -1
    BY <2>3, <1>2, <1>4, <1>5, <1>11
  <2>4. ASSUME NEW x \in orphans \ up PROVE hgt'[x] = -1
    BY <2>4, <1>2, <1>5, <1>11 DEF EntryTypes
  <2> QED
    BY <2>1, <2>2, <2>3, <2>4, <1>2
<1>15. ASSUME NEW x \in up PROVE next'[Parent[x]] = x /\ x \in Blocks \ {Genesis} /\ Parent[x] \in Path[b]
  <2>1. x \in Path[b] /\ x \in Blocks /\ Depth[x] >= Depth[r]
    BY <1>15, <1>3, <1>4
  <2>2. x # Genesis /\ Parent[x] \in Path[b] /\ Parent[x] \in Blocks
    BY <2>1, <1>4, GenesisOnPath, ParentOnPath
  <2>3. ASSUME NEW y \in up, Parent[y] = Parent[x] PROVE y = x
    <3>1. y \in Path[b] /\ y \in Blocks /\ Depth[y] >= Depth[r]
      BY <2>3, <1>3, <1>4
    <3>2. y # Genesis
      BY <3>1, <1>4, GenesisOnPath
    <3>3. Depth[y] = Depth[x]
      BY <2>1, <2>2, <2>3, <3>1, <3>2, ParentDepth
    <3> QED
      BY <2>1, <3>1, <3>3, PathUnique
  <2>4. next'[Parent[x]] = CHOOSE y \in up : Parent[y] = Parent[x]
    BY <1>2, <1>15, <2>2
  <2>5. (CHOOSE y \in up : Parent[y] = Parent[x]) = x
    BY <1>15, <2>3
  <2> QED
    BY <2>1, <2>2, <2>4, <2>5
<1>16. ASSUME NEW x \in blk', x # Genesis
       PROVE  prev'[x] = Parent[x] /\ next'[Parent[x]] = x
  <2>1. CASE x \in up
    BY <2>1, <1>2, <1>15
  <2>2. CASE x \notin up
    <3>1. x \in blk /\ x \in Blocks /\ Parent[x] \in Blocks /\ x \in Path[b]
      BY <2>2, <1>2, <1>4, <1>5, <1>10, <1>16, ParentDepth
    <3>2. prev'[x] = Parent[x]
      BY <2>2, <3>1, <1>2, <1>5, <1>16
    <3>3. ~ \E y \in up : Parent[y] = Parent[x]
      <4>1. ASSUME NEW y \in up, Parent[y] = Parent[x] PROVE FALSE
        <5>1. y \in Blocks \ {Genesis} /\ y \in Path[b]
          BY <4>1, <1>3, <1>15
        <5>2. Depth[y] = Depth[x]
          BY <5>1, <3>1, <4>1, <1>16, ParentDepth
        <5>3. x = y
          BY <5>1, <5>2, <3>1, PathUnique
        <5> QED
          BY <5>3, <4>1, <2>2
      <4> QED
        BY <4>1
    <3>4. next'[Parent[x]] = next[Parent[x]]
      BY <1>2, <3>1, <3>3
    <3>5. next[Parent[x]] = x
      BY <1>5, <1>16, <3>1
    <3> QED
      BY <3>2, <3>4, <3>5
  <2> QED
    BY <2>1, <2>2
<1>17. next'[b] = NoBlock
  <2>1. \A y \in up : Parent[y] # b
    <3>1. ASSUME NEW y \in up, Parent[y] = b PROVE FALSE
      <4>1. y \in Blocks \ {Genesis} /\ y \in Path[b]
        BY <3>1, <1>3, <1>15
      <4>2. Depth[y] = Depth[b] + 1 /\ Depth[y] =< Depth[b] /\ Depth[b] \in Nat
        BY <4>1, <3>1, ParentDepth, PathClosed
      <4> QED
        BY <4>2
    <3> QED
      BY <3>1
  <2>2. next[b] = NoBlock
    BY DEF StoreInv, LinkInv
  <2> QED
    BY <2>1, <2>2, <1>2
<1>18. ChainLinked'
  BY <1>1, <1>7, <1>10, <1>13, <1>14, <1>16, <1>17 DEF ChainLinked
<1>19. LinkInv'
  <2>1. ASSUME NEW x \in Blocks, prev'[x] # NoBlock PROVE x # Genesis /\ prev'[x] = Parent[x]
    BY <2>1, <1>2, <1>15 DEF StoreInv, LinkInv
  <2>2. ASSUME NEW x \in Blocks, x \notin Known' PROVE next'[x] = NoBlock /\ prev'[x] = NoBlock
    <3>1. x \notin up /\ x \notin Known /\ x \notin blk'
      BY <2>2, <1>2, <1>12 DEF Known
    <3>2. \A y \in up : Parent[y] # x
      BY <3>1, <1>10, <1>15
    <3>3. next[x] = NoBlock /\ prev[x] = NoBlock
      BY <3>1 DEF StoreInv, LinkInv
    <3> QED
      BY <3>1, <3>2, <3>3, <1>2
  <2> QED
    BY <2>1, <2>2 DEF LinkInv
<1>20. EntryTypes'
  <2>1. next' \in [Blocks -> Blocks \cup {NoBlock}]
    <3>1. \A a \in Blocks : (\E x \in up : Parent[x] = a) => (CHOOSE x \in up : Parent[x] = a) \in up
      OBVIOUS
    <3>2. up \subseteq Blocks
      BY <1>3, <1>4
    <3> QED
      BY <3>1, <3>2, <1>2 DEF EntryTypes
  <2>2. prev' \in [Blocks -> Blocks \cup {NoBlock}]
    <3>1. \A x \in up : Parent[x] \in Blocks
      BY <1>4, <1>15
    <3> QED
      BY <3>1, <1>2 DEF EntryTypes
  <2>3. hgt' \in [Blocks -> Int]
    BY <1>2, <1>4, <1>7 DEF EntryTypes
  <2>4. blk' \subseteq Blocks /\ orphans' \subseteq Blocks
    BY <1>2, <1>4, <1>5, <1>10 DEF EntryTypes
  <2> QED
    BY <1>1, <1>4, <1>7, <2>1, <2>2, <2>3, <2>4 DEF EntryTypes
<1>21. EmptyInv'
  BY <1>1, TreeAssumption DEF EmptyInv
<1> QED
  BY <1>1, <1>12, <1>18, <1>19, <1>20, <1>21 DEF Added, StoreInv

\* blockstore_add_entry keeps the store sound.
LEMMA AddEntryStore ==
    ASSUME EntryTypes, StoreInv, NEW b \in Blocks, b \notin Known, AddEntry(b)
    PROVE  Added(b)
BY AddGenesisStore, AddNextStore, AddOrphanStore, ReorganizeStore DEF AddEntry

\* When the parents of all entries are known, the height computed for a branch
\* is the depth of its tip.
LEMMA BranchHeight ==
    ASSUME EntryTypes, StoreInv, ParentsKnown, NEW b \in Blocks, b \notin Known, Forks(b),
           Parent[b] \in Known
    PROVE  FindAlternateChainHeight(b) = Depth[b]
<1> DEFINE r == BranchRoot(b)
<1>1. /\ r \in Blocks \ {Genesis} /\ r \in orphans \cup {b}
      /\ Parent[r] \notin orphans
  BY BranchShape
<1>2. Parent[r] \in Known
  BY <1>1 DEF ParentsKnown, Known
<1>3. Parent[r] \in blk
  BY <1>1, <1>2 DEF Known
<1>4. hgt[Parent[r]] = Depth[Parent[r]]
  BY <1>3 DEF StoreInv, ChainLinked, Forks
<1>5. Depth[r] = Depth[Parent[r]] + 1 /\ Depth[Parent[r]] \in Nat /\ Depth[b] \in Nat
  BY <1>1, ParentDepth, TreeAssumption
<1>6. FindAlternateChainHeight(b) = hgt[Parent[r]] + 1 + Depth[b] - Depth[r]
  BY <1>3 DEF FindAlternateChainHeight
<1> HIDE DEF r
<1> QED
  BY <1>4, <1>5, <1>6

\* An entry whose parent is known leaves no branch longer than the best chain,
\* and becomes the best block only when it is deeper than all that is known.
LEMMA AddEntryLongest ==
    ASSUME EntryTypes, StoreInv, ParentsKnown, \A x \in Known : Depth[x] =< height,
           NEW b \in Blocks, b \notin Known, AddEntry(b), b = Genesis \/ Parent[b] \in Known
    PROVE  /\ ParentsKnown'
           /\ \A x \in Known' : Depth[x] =< height'
           /\ best' = b => \A x \in Known : Depth[x] < Depth[b]
<1>1. Known' = Known \cup {b} /\ EntryTypes'
  BY AddEntryStore DEF Added
<1>2. ParentsKnown'
  BY <1>1 DEF ParentsKnown
<1>3. height \in Int /\ Depth[b] \in Nat /\ \A x \in Known : Depth[x] \in Nat
  BY TreeAssumption DEF EntryTypes, Known
<1>4. \A x \in Known' : x \in Known \/ x = b
  BY <1>1
<1>5. CASE AddGenesis(b)
  <2>1. Known = {} /\ height' = 0 /\ Depth[b] = 0
    BY <1>5, TreeAssumption DEF AddGenesis, StoreInv, EmptyInv
  <2> QED
    BY <1>2, <1>4, <2>1
<1>6. CASE AddNext(b)
  <2>1. height' = height + 1 /\ Depth[b] = height + 1
    BY <1>6, ParentDepth DEF AddNext, Extends, StoreInv, ChainLinked, EntryTypes
  <2>2. \A x \in Known : Depth[x] < Depth[b]
    BY <1>3, <2>1
  <2>3. \A x \in Known' : Depth[x] =< height + 1
    BY <1>3, <1>4, <2>1
  <2> QED
    BY <1>2, <2>1, <2>2, <2>3
<1>7. CASE AddOrphan(b)
  <2>1. height' = height /\ best' = best /\ Forks(b) /\ ~Overtakes(b)
    BY <1>7 DEF AddOrphan
  <2>2. Depth[b] =< height
    <3>1. FindAlternateChainHeight(b) = Depth[b]
      BY <2>1, BranchHeight DEF Forks
    <3> QED
      BY <3>1, <2>1, <1>3 DEF Overtakes
  <2>3. best' # b
    BY <2>1, OnPath DEF StoreInv, ChainLinked, Known, Forks, EntryTypes
  <2> QED
    BY <1>2, <1>4, <2>1, <2>2, <2>3
<1>8. CASE Reorganize(b)
  <2>1. height' = FindAlternateChainHeight(b) /\ Forks(b) /\ Overtakes(b)
    BY <1>8 DEF Reorganize
  <2>2. FindAlternateChainHeight(b) = Depth[b]
    BY <2>1, BranchHeight DEF Forks
  <2>3. height < Depth[b] /\ height' = Depth[b]
    BY <2>1, <2>2, <1>3 DEF Overtakes
  <2>4. \A x \in Known : Depth[x] < Depth[b]
    BY <1>3, <2>3
  <2>5. \A x \in Known' : Depth[x] =< Depth[b]
    BY <1>3, <1>4, <2>4
  <2> QED
    BY <1>2, <2>3, <2>4, <2>5
<1> QED
  BY <1>5, <1>6, <1>7, <1>8 DEF AddEntry

-----------------------------------------------------------------------------
(* The file *)

\* The elements of a sequence of blocks, by their indices.
LEMMA InElements ==
    ASSUME NEW s \in Seq(Blocks)
    PROVE  /\ \A i \in 1..Len(s) : s[i] \in Elements(s) /\ s[i] \in Blocks
           /\ \A x \in Elements(s) : \E i \in 1..Len(s) : x = s[i]
<1>1. DOMAIN s = 1..Len(s)
  OBVIOUS
<1> QED
  BY <1>1 DEF Elements

\* f is the file with the first n of the unwritten entries appended.
Grown(f, n) ==
    /\ f \in Seq(Blocks) /\ Len(f) = Len(file) + n
    /\ \A i \in 1..Len(file) : f[i] = file[i]
    /\ \A i \in 1..n : f[Len(file) + i] = Unwritten[i]

\* A complete write, and one cut short by a kill.
LEMMA WriteGrows ==
    ASSUME TypeOK, LinkInv
    PROVE  /\ Unwritten \in Seq(Blocks)
           /\ Grown(file \o Unwritten, Len(Unwritten))
           /\ \A n \in 0..Len(Unwritten) : Grown(file \o SubSeq(Unwritten, 1, n), n)
<1>1. file \in Seq(Blocks) /\ Unwritten \in Seq(Blocks)
  BY UnwrittenShape DEF TypeOK
<1>2. ASSUME NEW t \in Seq(Blocks), \A i \in 1..Len(t) : t[i] = Unwritten[i]
      PROVE  Grown(file \o t, Len(t))
  BY <1>1, <1>2 DEF Grown
<1>3. ASSUME NEW n \in 0..Len(Unwritten) PROVE Grown(file \o SubSeq(Unwritten, 1, n), n)
  <2>1. \A i \in 1..n : Unwritten[i] \in Blocks
    BY <1>1
  <2>2. /\ SubSeq(Unwritten, 1, n) \in Seq(Blocks) /\ Len(SubSeq(Unwritten, 1, n)) = n
        /\ \A i \in 1..n : SubSeq(Unwritten, 1, n)[i] = Unwritten[i]
    BY <1>1, <2>1, SubSeqProperties
  <2> QED
    BY <2>2, <1>2
<1> QED
  BY <1>1, <1>2, <1>3

\* An index of the grown file is one of the file or one of the new entries.
LEMMA GrownIndex ==
    ASSUME TypeOK, NEW n \in Nat, NEW f, Grown(f, n), NEW i \in 1..Len(f)
    PROVE  \/ i \in 1..Len(file) /\ f[i] = file[i]
           \/ i > Len(file) /\ i - Len(file) \in 1..n /\ f[i] = Unwritten[i - Len(file)]
<1>1. Len(file) \in Nat
  BY DEF TypeOK
<1>2. i - Len(file) \in 1..n => Len(file) + (i - Len(file)) = i
  BY <1>1
<1> QED
  BY <1>1, <1>2 DEF Grown

\* No header gets into the file twice.
LEMMA GrownOnce ==
    ASSUME BlockStoreInv, phase = "running", NEW n \in 0..Len(Unwritten), NEW f, Grown(f, n)
    PROVE  \A i, k \in 1..Len(f) : f[i] = f[k] => i = k
<1>0. TypeOK /\ LinkInv /\ Len(file) \in Nat /\ n \in Nat /\ Unwritten \in Seq(Blocks)
  BY WriteGrows DEF BlockStoreInv, Types, StoreInv, TypeOK
<1>1. /\ \A i, k \in 1..Len(file) : file[i] = file[k] => i = k
      /\ \A i \in 1..Len(file) : file[i] \in written
  <2>1. file \in Seq(Blocks) /\ Elements(file) \subseteq written
    BY <1>0 DEF BlockStoreInv, FileInv, TypeOK
  <2>2. \A i \in 1..Len(file) : file[i] \in written
    BY <2>1, InElements
  <2> QED
    BY <2>2 DEF BlockStoreInv, FileInv
<1>2. /\ \A i \in 1..n : Unwritten[i] \notin written
      /\ \A i, k \in 1..n : Unwritten[i] = Unwritten[k] => i = k
  <2>1. CASE best = NoBlock
    BY <1>0, <2>1, UnwrittenShape
  <2>2. CASE best # NoBlock
    <3>1. Shape(Unwritten, best)
      BY <1>0, <2>2, UnwrittenShape
    <3>2. \A i \in 1..n : Unwritten[i] \notin written /\ Depth[Unwritten[i]] \in Nat
      BY <1>0, <3>1, TreeAssumption DEF Shape
    <3>3. \A i, k \in 1..n : i < k => Depth[Unwritten[i]] < Depth[Unwritten[k]]
      BY <1>0, <3>1 DEF Shape
    <3>4. ASSUME NEW i \in 1..n, NEW k \in 1..n, Unwritten[i] = Unwritten[k] PROVE i = k
      BY <3>2, <3>3, <3>4
    <3> QED
      BY <3>2, <3>4
  <2> QED
    BY <2>1, <2>2
<1>3. ASSUME NEW i \in 1..Len(f), NEW k \in 1..Len(f), f[i] = f[k] PROVE i = k
  <2>1. \/ i \in 1..Len(file) /\ f[i] = file[i]
        \/ i > Len(file) /\ i - Len(file) \in 1..n /\ f[i] = Unwritten[i - Len(file)]
    BY <1>0, GrownIndex
  <2>2. \/ k \in 1..Len(file) /\ f[k] = file[k]
        \/ k > Len(file) /\ k - Len(file) \in 1..n /\ f[k] = Unwritten[k - Len(file)]
    BY <1>0, GrownIndex
  <2>3. CASE i - Len(file) \in 1..n /\ k - Len(file) \in 1..n
    BY <2>1, <2>2, <2>3, <1>0, <1>2, <1>3
  <2>4. CASE i \in 1..Len(file) /\ k \in 1..Len(file)
    BY <2>1, <2>2, <2>4, <1>0, <1>1, <1>3
  <2> QED
    BY <2>1, <2>2, <2>3, <2>4, <1>1, <1>2, <1>3
<1> QED
  BY <1>3

\* The grown file holds what the file held, and the new entries.
LEMMA GrownElements ==
    ASSUME TypeOK, LinkInv, NEW f, Grown(f, Len(Unwritten))
    PROVE  Elements(f) = Elements(file) \cup Elements(Unwritten)
<1>1. Unwritten \in Seq(Blocks) /\ file \in Seq(Blocks) /\ f \in Seq(Blocks)
  BY WriteGrows DEF TypeOK, Grown
<1>2. ASSUME NEW x \in Elements(f) PROVE x \in Elements(file) \cup Elements(Unwritten)
  <2>1. PICK i \in 1..Len(f) : x = f[i]
    BY <1>1, <1>2, InElements
  <2>2. \/ i \in 1..Len(file) /\ f[i] = file[i]
        \/ i - Len(file) \in 1..Len(Unwritten) /\ f[i] = Unwritten[i - Len(file)]
    BY <1>1, GrownIndex
  <2> QED
    BY <1>1, <2>1, <2>2, InElements
<1>3. ASSUME NEW x \in Elements(file) PROVE x \in Elements(f)
  <2>1. PICK i \in 1..Len(file) : x = file[i]
    BY <1>1, <1>3, InElements
  <2>2. i \in 1..Len(f) /\ f[i] = x
    BY <1>1, <2>1 DEF Grown
  <2> QED
    BY <1>1, <2>2, InElements
<1>4. ASSUME NEW x \in Elements(Unwritten) PROVE x \in Elements(f)
  <2>1. PICK i \in 1..Len(Unwritten) : x = Unwritten[i]
    BY <1>1, <1>4, InElements
  <2>2. Len(file) + i \in 1..Len(f) /\ f[Len(file) + i] = x
    BY <1>1, <2>1 DEF Grown
  <2> QED
    BY <1>1, <2>2, InElements
<1> QED
  BY <1>2, <1>3, <1>4

\* What was the first of its depth in the file still is.
LEMMA GrownFirst ==
    ASSUME TypeOK, NEW n \in Nat, NEW f, Grown(f, n), NEW x, FirstAt(file, x)
    PROVE  FirstAt(f, x)
<1>1. Len(file) \in Nat
  BY DEF TypeOK
<1>2. PICK k \in 1..Len(file) : file[k] = x /\ \A i \in 1..(k - 1) : Depth[file[i]] < Depth[x]
  BY DEF FirstAt
<1>3. k \in 1..Len(f) /\ f[k] = x
  BY <1>1, <1>2 DEF Grown
<1>4. \A i \in 1..(k - 1) : f[i] = file[i]
  BY <1>1 DEF Grown
<1> QED
  BY <1>2, <1>3, <1>4 DEF FirstAt

\* Parents still stand before their children.
LEMMA GrownParents ==
    ASSUME BlockStoreInv, NoLostWrite, phase = "running",
           NEW n \in 0..Len(Unwritten), NEW f, Grown(f, n)
    PROVE  ParentsFirst(f)
<1>0. TypeOK /\ LinkInv /\ Len(file) \in Nat /\ n \in Nat /\ Unwritten \in Seq(Blocks) /\ file \in Seq(Blocks)
  BY WriteGrows DEF BlockStoreInv, Types, StoreInv, TypeOK
<1>1. ParentsFirst(file) /\ written = Elements(file)
  BY DEF BlockStoreInv, CleanInv, BestFirst
<1>2. ASSUME NEW i \in 1..Len(f), f[i] # Genesis
      PROVE  \E k \in 1..(i - 1) : f[k] = Parent[f[i]]
  <2>1. CASE i \in 1..Len(file) /\ f[i] = file[i]
    <3>1. PICK k \in 1..(i - 1) : file[k] = Parent[file[i]]
      BY <1>1, <1>2, <2>1 DEF ParentsFirst
    <3>2. k \in 1..Len(file) /\ f[k] = file[k]
      BY <1>0, <2>1, <3>1 DEF Grown
    <3> QED
      BY <2>1, <3>1, <3>2
  <2>2. CASE i > Len(file) /\ i - Len(file) \in 1..n /\ f[i] = Unwritten[i - Len(file)]
    <3> DEFINE m == i - Len(file)
               x == Unwritten[m]
    <3>1. m \in 1..n /\ m \in 1..Len(Unwritten) /\ x = f[i] /\ x # Genesis
      BY <1>0, <1>2, <2>2
    <3>2. best # NoBlock /\ best \in Blocks
      BY <1>0, <3>1, UnwrittenShape, SMTT(30) DEF TypeOK
    <3>3. Shape(Unwritten, best)
      BY <1>0, <3>2, UnwrittenShape
    <3>4. x \in Path[best] /\ x \in blk
      BY <3>1, <3>2, <3>3 DEF Shape, BlockStoreInv, StoreInv, ChainLinked
    <3>5. prev[x] = Parent[x] /\ prev[x] # NoBlock
      <4>1. prev[x] = Parent[x]
        BY <3>1, <3>2, <3>4 DEF BlockStoreInv, StoreInv, ChainLinked
      <4>2. x \in Blocks
        BY <3>2, <3>4, OnPath
      <4> QED
        BY <4>1, <4>2, <3>1, ParentDepth, TreeAssumption
    <3>6. prev[x] \in written \/ (m > 1 /\ prev[x] = Unwritten[m - 1])
      BY <3>1, <3>3, <3>5 DEF Shape
    <3>7. CASE prev[x] \in written
      <4>1. PICK k \in 1..Len(file) : prev[x] = file[k]
        BY <1>0, <1>1, <3>7, InElements
      <4>2. k \in 1..(i - 1) /\ f[k] = file[k]
        BY <1>0, <2>2, <4>1 DEF Grown
      <4> QED
        BY <4>1, <4>2, <3>1, <3>5
    <3>8. CASE m > 1 /\ prev[x] = Unwritten[m - 1]
      <4>1. m - 1 \in 1..n
        BY <1>0, <3>1, <3>8
      <4>2. f[Len(file) + (m - 1)] = Unwritten[m - 1]
        BY <4>1 DEF Grown
      <4>3. Len(file) + (m - 1) = i - 1 /\ i - 1 \in 1..(i - 1)
        BY <1>0, <2>2, <3>8
      <4>4. f[i - 1] = Parent[f[i]]
        BY <4>2, <4>3, <3>1, <3>5, <3>8
      <4> QED
        BY <4>3, <4>4
    <3> QED
      BY <3>6, <3>7, <3>8
  <2> QED
    BY <1>0, <2>1, <2>2, GrownIndex
<1> QED
  BY <1>2 DEF ParentsFirst

\* After a complete write the best block is the first of its depth in the file.
LEMMA GrownBest ==
    ASSUME BlockStoreInv, NoLostWrite, phase = "running", best # NoBlock,
           NEW f, Grown(f, Len(Unwritten))
    PROVE  FirstAt(f, best)
<1>0. TypeOK /\ LinkInv /\ Len(file) \in Nat /\ Unwritten \in Seq(Blocks) /\ file \in Seq(Blocks)
  BY WriteGrows DEF BlockStoreInv, Types, StoreInv, TypeOK
<1>1. CASE best \in written
  <2>1. FirstAt(file, best)
    BY <1>1 DEF BlockStoreInv, CleanInv, BestFirst
  <2> QED
    BY <1>0, <2>1, GrownFirst
<1>2. CASE best \notin written
  <2> DEFINE k == Len(file) + Len(Unwritten)
  <2>1. Shape(Unwritten, best)
    BY <1>0, UnwrittenShape
  <2>2. Len(Unwritten) \in Nat /\ Len(Unwritten) > 0 /\ Unwritten[Len(Unwritten)] = best
    BY <1>0, <1>2, <2>1 DEF Shape
  <2>3. k \in 1..Len(f) /\ f[k] = best
    BY <1>0, <2>2 DEF Grown
  <2>4. ASSUME NEW i \in 1..(k - 1) PROVE Depth[f[i]] < Depth[best]
    <3>1. i \in 1..Len(f)
      BY <1>0, <2>2, <2>3
    <3>2. CASE i \in 1..Len(file) /\ f[i] = file[i]
      <4>1. file[i] \in written
        BY <1>0, <3>2, InElements DEF BlockStoreInv, CleanInv, BestFirst
      <4> QED
        BY <4>1, <3>2, <1>2 DEF BlockStoreInv, CleanInv, BestFirst
    <3>3. CASE i - Len(file) \in 1..Len(Unwritten) /\ f[i] = Unwritten[i - Len(file)]
      <4>1. i - Len(file) < Len(Unwritten) /\ Len(Unwritten) \in 1..Len(Unwritten)
        BY <1>0, <2>2, <2>4
      <4>2. Depth[Unwritten[i - Len(file)]] < Depth[Unwritten[Len(Unwritten)]]
        BY <2>1, <3>3, <4>1 DEF Shape
      <4> QED
        BY <4>2, <3>3, <2>2
    <3> QED
      BY <1>0, <2>2, <3>1, <3>2, <3>3, GrownIndex
  <2> HIDE DEF k
  <2> QED
    BY <2>3, <2>4 DEF FirstAt
<1> QED
  BY <1>1, <1>2

-----------------------------------------------------------------------------
(* The steps *)

\* The invariant holds at the start.
LEMMA InitInv == Init => BlockStoreInv
<1> SUFFICES ASSUME Init PROVE BlockStoreInv
  OBVIOUS
<1>1. Types
  BY StoreBoundsAssumption DEF Init, Types, TypeOK, Behind
<1>2. StoreInv
  BY DEF Init, StoreInv, EmptyInv, ChainLinked, LinkInv, Known
<1>3. FileInv
  BY DEF Init, FileInv, Known
<1>4. CleanInv
  BY DEF Init, CleanInv, ParentsKnown, ParentsFirst, BestFirst, Known
<1> QED
  BY <1>1, <1>2, <1>3, <1>4 DEF BlockStoreInv

\* The number of misaligned cells is a number; there are some only when a write
\* was lost.
LEMMA TailLength ==
    /\ tail \in Seq(Blocks) => Behind \in Nat /\ (NoLostWrite => Behind = 0)
    /\ tail' \in Seq(Blocks) => Behind' \in Nat /\ (NoLostWrite' => Behind' = 0)
<1>1. ASSUME NEW t \in Seq(Blocks) PROVE Len(t) \in Nat /\ (t # <<>> => Len(t) >= 1)
  BY <1>1
<1>2. ASSUME tail \in Seq(Blocks) PROVE Behind \in Nat /\ (NoLostWrite => Behind = 0)
  BY <1>1, <1>2 DEF Behind, NoLostWrite
<1>3. ASSUME tail' \in Seq(Blocks) PROVE Behind' \in Nat /\ (NoLostWrite' => Behind' = 0)
  <2>1. Len(tail') \in Nat /\ (tail' # <<>> => Len(tail') >= 1)
    BY <1>1, <1>3
  <2>2. Behind' = IF tail' = <<>> THEN 0 ELSE Len(tail') - 1
    BY DEF Behind
  <2>3. NoLostWrite' => Len(tail') =< 1
    BY DEF NoLostWrite
  <2> QED
    BY <2>1, <2>2, <2>3
<1> QED
  BY <1>2, <1>3

\* When the process ends only the file is left: what the next run needs of it.
LEMMA DieInv ==
    ASSUME NEW cause \in {"none", "load", "chkpt", "add", "cap"}, Die(cause),
           file' \in Seq(Blocks), \A i, k \in 1..Len(file') : file'[i] = file'[k] => i = k,
           tail' \in Seq(Blocks), durable' \in Blocks \cup {NoBlock},
           budget' \in [crashes : Nat, failures : Nat], budget'.failures =< MaxFailures,
           NoLostWrite' => /\ ParentsFirst(file')
                           /\ durable' # NoBlock => FirstAt(file', durable')
    PROVE  BlockStoreInv'
<1>1. /\ phase' = "down" /\ panic' = cause
      /\ best' = NoBlock /\ height' = -1 /\ blk' = {} /\ orphans' = {}
      /\ hgt' = [b \in Blocks |-> -1]
      /\ prev' = [b \in Blocks |-> NoBlock]
      /\ next' = [b \in Blocks |-> NoBlock]
      /\ written' = {} /\ added' = 0 /\ pos' = 0
  BY DEF Die, EmptyStore
<1>2. Types'
  <2>1. added' \in 0..MaxBatch
    BY <1>1, StoreBoundsAssumption
  <2>2. Behind' \in Nat /\ Len(file') \in Nat
    BY TailLength
  <2>3. pos' \in 0..(Len(file') + Behind')
    BY <1>1, <2>2
  <2> QED
    BY <1>1, <2>1, <2>3 DEF Types, TypeOK
<1>3. StoreInv'
  BY <1>1 DEF StoreInv, EmptyInv, ChainLinked, LinkInv, Known
<1>4. FileInv'
  BY <1>1 DEF FileInv, Known
<1>5. CleanInv'
  <2>1. Known' = {}
    BY <1>1 DEF Known
  <2>2. BestFirst'
    BY <1>1 DEF BestFirst
  <2>3. ParentsKnown'
    BY <2>1 DEF ParentsKnown
  <2>4. NoLostWrite' => ParentsFirst(file') /\ (durable' # NoBlock => FirstAt(file', durable'))
    OBVIOUS
  <2>5. (\A x \in Known : Depth[x] =< height)'
    BY <2>1
  <2> QED
    BY <2>2, <2>3, <2>4, <2>5, Zenon DEF CleanInv
<1> QED
  BY <1>2, <1>3, <1>4, <1>5 DEF BlockStoreInv

\* The process ends without having written anything that can be read.
LEMMA DieUnwritten ==
    ASSUME BlockStoreInv, NEW cause \in {"none", "load", "chkpt", "add", "cap"}, Die(cause),
           file' = file, durable' = durable \/ (durable' = best /\ ~NoLostWrite'),
           tail' \in Seq(Blocks), NoLostWrite' => NoLostWrite,
           budget' \in [crashes : Nat, failures : Nat], budget'.failures = budget.failures
    PROVE  BlockStoreInv'
<1>1. /\ file' \in Seq(Blocks) /\ durable' \in Blocks \cup {NoBlock}
      /\ budget'.failures =< MaxFailures
  BY DEF BlockStoreInv, Types, TypeOK
<1>2. \A i, k \in 1..Len(file') : file'[i] = file'[k] => i = k
  BY DEF BlockStoreInv, FileInv
<1>3. NoLostWrite' => /\ ParentsFirst(file')
                      /\ durable' # NoBlock => FirstAt(file', durable')
  BY DEF BlockStoreInv, CleanInv
<1> QED
  BY <1>1, <1>2, <1>3, DieInv

\* blockstore_init opens the file.
LEMMA OpenInv == ASSUME BlockStoreInv, Open PROVE BlockStoreInv'
<1>1. /\ phase = "down" /\ phase' = "loading" /\ panic' = "none"
      /\ UNCHANGED <<entryVars, written, added, file, tail, pos, durable, budget>>
  BY DEF Open
<1>2. Known = {} /\ best = NoBlock /\ pos = 0 /\ written = {} /\ Known' = Known
  BY <1>1 DEF BlockStoreInv, FileInv, Known, entryVars
<1>3. Types'
  BY <1>1 DEF BlockStoreInv, Types, TypeOK, Behind, entryVars
<1>4. StoreInv'
  BY <1>1, <1>2 DEF BlockStoreInv, StoreInv, EmptyInv, ChainLinked, LinkInv, entryVars
<1>5. FileInv'
  <2>1. file \in Seq(Blocks) /\ Len(file) \in Nat
    BY DEF BlockStoreInv, Types, TypeOK
  <2> QED
    BY <1>1, <1>2, <2>1 DEF BlockStoreInv, FileInv, entryVars
<1>6. CleanInv'
  BY <1>1, <1>2 DEF BlockStoreInv, CleanInv, ParentsKnown, BestFirst, NoLostWrite, entryVars
<1> QED
  BY <1>3, <1>4, <1>5, <1>6 DEF BlockStoreInv

\* A header of the file is replayed.
LEMMA LoadEntryInv ==
    ASSUME BlockStoreInv, phase = "loading", pos < Len(file), AddEntry(file[pos + 1]),
           written' = written \cup {file[pos + 1]}, pos' = pos + 1,
           UNCHANGED <<phase, added, panic, file, tail, durable, budget>>
    PROVE  BlockStoreInv'
<1> DEFINE b == file[pos + 1]
<1>1. /\ file \in Seq(Blocks) /\ Len(file) \in Nat /\ pos \in Nat /\ pos + 1 \in 1..Len(file)
      /\ b \in Blocks
  BY DEF BlockStoreInv, Types, TypeOK
<1>2. Known = {file[i] : i \in 1..pos} /\ written = Known
  BY <1>1 DEF BlockStoreInv, FileInv
<1>3. b \notin Known
  BY <1>1, <1>2 DEF BlockStoreInv, FileInv
<1>4. EntryTypes /\ StoreInv
  BY DEF BlockStoreInv, Types, TypeOK, EntryTypes
<1>5. Added(b)
  BY <1>1, <1>3, <1>4, AddEntryStore
<1>6. Known' = Known \cup {b} /\ StoreInv' /\ EntryTypes'
  BY <1>5 DEF Added
<1>7. Types'
  <2>0. Behind \in Nat /\ Behind' = Behind /\ tail' \in Seq(Blocks)
    BY TailLength DEF BlockStoreInv, Types, TypeOK, Behind
  <2>1. pos' \in 0..(Len(file') + Behind') /\ written' \subseteq Blocks
    BY <1>1, <2>0 DEF BlockStoreInv, Types, TypeOK
  <2>2. /\ phase' \in {"loading", "running", "down"} /\ durable' \in Blocks \cup {NoBlock}
        /\ added' \in 0..MaxBatch /\ file' \in Seq(Blocks)
        /\ panic' \in {"none", "load", "chkpt", "add", "cap"}
        /\ budget' \in [crashes : Nat, failures : Nat] /\ budget'.failures =< MaxFailures
    BY DEF BlockStoreInv, Types, TypeOK
  <2> QED
    BY <1>6, <2>0, <2>1, <2>2 DEF Types, TypeOK, EntryTypes
<1>8. FileInv'
  <2>1. {file[i] : i \in 1..(pos + 1)} = {file[i] : i \in 1..pos} \cup {b}
    BY <1>1
  <2>2. Known' = {file'[i] : i \in 1..pos'} /\ written' = Known'
    BY <1>2, <1>6, <2>1
  <2> QED
    BY <1>1, <2>2 DEF BlockStoreInv, FileInv
<1>9. CleanInv'
  <2> SUFFICES ASSUME NoLostWrite'
               PROVE  CleanInv'
    BY DEF CleanInv
  <2>1. /\ ParentsKnown /\ ParentsFirst(file) /\ \A x \in Known : Depth[x] =< height
        /\ BestFirst /\ (durable # NoBlock => FirstAt(file, durable))
    BY DEF BlockStoreInv, CleanInv, NoLostWrite
  <2>2. b = Genesis \/ Parent[b] \in Known
    <3>1. \A k \in 1..((pos + 1) - 1) : file[k] \in Known
      BY <1>1, <1>2
    <3> QED
      BY <1>1, <2>1, <3>1 DEF ParentsFirst
  <2>3. /\ ParentsKnown' /\ (\A x \in Known' : Depth[x] =< height')
        /\ (best' = b => \A x \in Known : Depth[x] < Depth[b])
    BY <1>1, <1>3, <1>4, <2>1, <2>2, AddEntryLongest
  <2>4. BestFirst'
    <3>1. CASE best' = b
      <4>1. \A i \in 1..((pos + 1) - 1) : Depth[file[i]] < Depth[b]
        BY <1>1, <1>2, <2>3, <3>1
      <4>2. FirstAt(file, b)
        BY <1>1, <4>1 DEF FirstAt
      <4> QED
        BY <3>1, <4>2 DEF BestFirst
    <3>2. CASE best # NoBlock /\ best' = best
      BY <2>1, <3>2 DEF BestFirst
    <3> QED
      BY <1>5, <3>1, <3>2 DEF Added
  <2> QED
    BY <2>1, <2>3, <2>4 DEF CleanInv
<1> QED
  BY <1>6, <1>7, <1>8, <1>9 DEF BlockStoreInv

\* blockset_open_file, one header.
LEMMA LoadHeaderInv == ASSUME BlockStoreInv, LoadHeader PROVE BlockStoreInv'
<1>1. /\ phase = "loading" /\ pos < Len(file)
      /\ file' = file /\ tail' = tail /\ durable' = durable /\ budget' = budget
  BY DEF LoadHeader
<1>2. /\ budget' \in [crashes : Nat, failures : Nat] /\ budget'.failures = budget.failures
      /\ tail' \in Seq(Blocks) /\ (NoLostWrite' => NoLostWrite)
  BY <1>1 DEF BlockStoreInv, Types, TypeOK, NoLostWrite
<1>3. ASSUME NEW cause \in {"none", "load", "chkpt", "add", "cap"}, Die(cause) PROVE BlockStoreInv'
  BY <1>1, <1>2, <1>3, DieUnwritten
<1>4. CASE Die("chkpt")
  BY <1>3, <1>4
<1>5. CASE Die("load")
  BY <1>3, <1>5
<1>6. CASE /\ AddEntry(file[pos + 1]) /\ written' = written \cup {file[pos + 1]}
           /\ pos' = pos + 1 /\ UNCHANGED <<phase, added, panic>>
  BY <1>1, <1>6, LoadEntryInv
<1> QED
  BY <1>4, <1>5, <1>6, Zenon DEF LoadHeader

\* A step that leaves the entries alone leaves the store sound.
LEMMA EntriesUnchanged ==
    ASSUME BlockStoreInv, UNCHANGED entryVars
    PROVE  StoreInv' /\ EntryTypes' /\ Known' = Known
BY DEF BlockStoreInv, StoreInv, EmptyInv, ChainLinked, LinkInv, Known, entryVars,
       EntryTypes, Types, TypeOK

\* A cell behind the torn header that has no effect, or passes for an entry.
LEMMA LoadMisreadInv == ASSUME BlockStoreInv, LoadMisread PROVE BlockStoreInv'
<1>1. /\ phase = "loading" /\ pos >= Len(file) /\ pos < Len(file) + Behind
      /\ file' = file /\ tail' = tail /\ durable' = durable /\ budget' = budget
  BY DEF LoadMisread
<1>2. /\ budget' \in [crashes : Nat, failures : Nat] /\ budget'.failures = budget.failures
      /\ tail' \in Seq(Blocks) /\ (NoLostWrite' => NoLostWrite)
  BY <1>1 DEF BlockStoreInv, Types, TypeOK, NoLostWrite
<1>3. ASSUME NEW cause \in {"none", "load", "chkpt", "add", "cap"}, Die(cause) PROVE BlockStoreInv'
  BY <1>1, <1>2, <1>3, DieUnwritten
<1>4. /\ file \in Seq(Blocks) /\ Len(file) \in Nat /\ pos \in Nat
      /\ Behind \in Nat /\ Behind' = Behind /\ ~NoLostWrite'
  <2>1. file \in Seq(Blocks) /\ Len(file) \in Nat /\ pos \in Nat /\ Behind \in Nat
    BY TailLength DEF BlockStoreInv, Types, TypeOK
  <2>2. Behind' = Behind /\ (NoLostWrite' => Behind' = 0)
    BY <1>1, <1>2, TailLength DEF Behind
  <2> QED
    BY <1>1, <2>1, <2>2
<1>5. Elements(file) \subseteq written /\ written \subseteq Known
  <2>1. CASE pos = Len(file)
    <3>1. Known = {file[i] : i \in 1..Len(file)} /\ written = Known
      BY <1>1, <1>4, <2>1 DEF BlockStoreInv, FileInv
    <3> QED
      BY <1>4, <3>1, InElements
  <2>2. CASE pos > Len(file)
    BY <1>1, <2>2 DEF BlockStoreInv, FileInv
  <2> QED
    BY <1>1, <1>4, <2>1, <2>2
<1>6. ASSUME pos' = pos + 1, UNCHANGED <<phase, added, panic>>, StoreInv', EntryTypes',
             written \subseteq written', written' \subseteq Known', written' \subseteq Blocks
      PROVE  BlockStoreInv'
  <2>1. Types'
    <3>1. pos' \in 0..(Len(file') + Behind')
      BY <1>1, <1>4, <1>6
    <3>2. /\ phase' \in {"loading", "running", "down"} /\ durable' \in Blocks \cup {NoBlock}
          /\ added' \in 0..MaxBatch /\ file' \in Seq(Blocks) /\ tail' \in Seq(Blocks)
          /\ panic' \in {"none", "load", "chkpt", "add", "cap"}
          /\ budget' \in [crashes : Nat, failures : Nat] /\ budget'.failures =< MaxFailures
      BY <1>1, <1>2, <1>6 DEF BlockStoreInv, Types, TypeOK
    <3> QED
      BY <1>6, <3>1, <3>2 DEF Types, TypeOK, EntryTypes
  <2>2. FileInv'
    <3>1. phase' = "loading" /\ pos' > Len(file') /\ file' = file
      BY <1>1, <1>4, <1>6
    <3>2. \A i, k \in 1..Len(file) : file[i] = file[k] => i = k
      BY DEF BlockStoreInv, FileInv
    <3>3. Elements(file)' \subseteq written'
      BY <1>5, <1>6, <3>1 DEF Elements
    <3>4. ~(pos' =< Len(file'))
      BY <1>1, <1>4, <1>6
    <3> QED
      BY <1>6, <3>1, <3>2, <3>3, <3>4 DEF FileInv
  <2> QED
    BY <1>4, <1>6, <2>1, <2>2 DEF BlockStoreInv, CleanInv
<1>7. CASE pos' = pos + 1 /\ UNCHANGED <<phase, entryVars, written, added, panic>>
  <2>1. StoreInv' /\ EntryTypes' /\ Known' = Known
    BY <1>7, EntriesUnchanged
  <2>2. written' \subseteq Known' /\ written' \subseteq Blocks
    BY <1>5, <1>7, <2>1 DEF BlockStoreInv, Types, TypeOK
  <2> QED
    BY <1>6, <1>7, <2>1, <2>2
<1>8. ASSUME NEW j \in Junk \ Known, AddEntry(j), written' = written \cup {j}, pos' = pos + 1,
             UNCHANGED <<phase, added, panic>>
      PROVE  BlockStoreInv'
  <2>1. EntryTypes /\ StoreInv /\ j \in Blocks /\ j \notin Known
    BY JunkAssumption DEF BlockStoreInv, Types, TypeOK, EntryTypes
  <2>2. Added(j)
    BY <1>8, <2>1, AddEntryStore
  <2>3. Known' = Known \cup {j} /\ StoreInv' /\ EntryTypes'
    BY <2>2 DEF Added
  <2>4. written' \subseteq Known' /\ written' \subseteq Blocks
    BY <1>5, <1>8, <2>1, <2>3 DEF BlockStoreInv, Types, TypeOK
  <2> QED
    BY <1>6, <1>8, <2>3, <2>4
<1>9. \/ Die("chkpt") \/ Die("load")
      \/ pos' = pos + 1 /\ UNCHANGED <<phase, entryVars, written, added, panic>>
      \/ \E j \in Junk \ Known : /\ AddEntry(j) /\ written' = written \cup {j}
                                  /\ pos' = pos + 1 /\ UNCHANGED <<phase, added, panic>>
  BY Zenon DEF LoadMisread
<1> QED
  BY <1>3, <1>7, <1>8, <1>9

\* All of the file has been replayed.
LEMMA LoadDoneInv == ASSUME BlockStoreInv, LoadDone PROVE BlockStoreInv'
<1>1. /\ phase = "loading" /\ pos = Len(file) + Behind /\ phase' = "running"
      /\ UNCHANGED <<entryVars, written, added, file, tail, pos, durable, panic, budget>>
  BY DEF LoadDone
<1>2. /\ file \in Seq(Blocks) /\ Len(file) \in Nat /\ Behind \in Nat
      /\ (NoLostWrite => Behind = 0) /\ Known' = Known
  BY <1>1, TailLength DEF BlockStoreInv, Types, TypeOK, Known, entryVars
<1>3. pos = Len(file) => Known = Elements(file) /\ written = Known
  <2>1. pos = Len(file) => Known = {file[i] : i \in 1..Len(file)} /\ written = Known
    BY <1>1, <1>2 DEF BlockStoreInv, FileInv
  <2> QED
    BY <1>2, <2>1, InElements
<1>4. Types'
  BY <1>1 DEF BlockStoreInv, Types, TypeOK, Behind, entryVars
<1>5. StoreInv'
  BY <1>1, <1>2 DEF BlockStoreInv, StoreInv, EmptyInv, ChainLinked, LinkInv, entryVars
<1>6. FileInv'
  <2>1. pos > Len(file) => Elements(file) \subseteq written /\ written \subseteq Known
    BY <1>1 DEF BlockStoreInv, FileInv
  <2>2. pos = Len(file) \/ pos > Len(file)
    BY <1>1, <1>2
  <2>3. Elements(file) \subseteq written /\ written \subseteq Known
    BY <1>3, <2>1, <2>2
  <2> QED
    BY <1>1, <1>2, <2>3 DEF BlockStoreInv, FileInv, Elements
<1>7. CleanInv'
  <2> SUFFICES ASSUME NoLostWrite'
               PROVE  CleanInv'
    BY DEF CleanInv
  <2>0. NoLostWrite /\ pos = Len(file) /\ Known = Elements(file) /\ written = Known
    <3>1. NoLostWrite
      BY <1>1 DEF NoLostWrite
    <3>2. pos = Len(file)
      BY <1>1, <1>2, <3>1
    <3> QED
      BY <1>3, <3>1, <3>2
  <2>1. /\ ParentsKnown /\ ParentsFirst(file) /\ \A x \in Known : Depth[x] =< height
        /\ BestFirst /\ (durable # NoBlock => FirstAt(file, durable))
    BY <2>0 DEF BlockStoreInv, CleanInv
  <2>2. best' = best /\ written' = Elements(file) /\ file' = file
    BY <1>1, <2>0 DEF entryVars
  <2>3. best \in written => FirstAt(file, best)
    <3>1. best \in written => best # NoBlock
      BY <2>0, TreeAssumption DEF BlockStoreInv, Types, TypeOK, Known
    <3> QED
      BY <2>1, <1>1, <3>1 DEF BestFirst
  <2>4. best \notin written => \A x \in written : Depth[x] < Depth[best]
    <3>1. best # NoBlock => best \in Known
      BY OnPath DEF BlockStoreInv, StoreInv, ChainLinked, Known, Types, TypeOK
    <3>2. best = NoBlock => Known = {}
      BY DEF BlockStoreInv, StoreInv, EmptyInv
    <3> QED
      BY <2>0, <3>1, <3>2
  <2>5. BestFirst'
    BY <1>1, <2>2, <2>3, <2>4 DEF BestFirst, Elements
  <2>6. ParentsKnown'
    BY <1>2, <2>1 DEF ParentsKnown
  <2> QED
    BY <1>1, <1>2, <2>1, <2>2, <2>5, <2>6 DEF CleanInv, entryVars
<1> QED
  BY <1>4, <1>5, <1>6, <1>7 DEF BlockStoreInv

\* A header of a message is added.
LEMMA AddHeaderEntryInv ==
    ASSUME BlockStoreInv, phase = "running", added < MaxBatch, NEW b \in Blocks, b \notin Known,
           b # Genesis => Path[b] \ {b} \subseteq Known, AddEntry(b), added' = added + 1,
           UNCHANGED <<phase, written, pos, panic, file, tail, durable, budget>>
    PROVE  BlockStoreInv'
<1>1. EntryTypes /\ StoreInv /\ added \in Nat
  BY DEF BlockStoreInv, Types, TypeOK, EntryTypes
<1>2. Added(b)
  BY <1>1, AddEntryStore
<1>3. Known' = Known \cup {b} /\ StoreInv' /\ EntryTypes'
  BY <1>2 DEF Added
<1>4. Types'
  <2>1. added' \in 0..MaxBatch
    BY <1>1, StoreBoundsAssumption
  <2>2. /\ phase' \in {"loading", "running", "down"} /\ durable' \in Blocks \cup {NoBlock}
        /\ pos' \in 0..(Len(file') + Behind') /\ file' \in Seq(Blocks) /\ tail' \in Seq(Blocks)
        /\ written' \subseteq Blocks
        /\ panic' \in {"none", "load", "chkpt", "add", "cap"}
        /\ budget' \in [crashes : Nat, failures : Nat] /\ budget'.failures =< MaxFailures
    BY DEF BlockStoreInv, Types, TypeOK, Behind
  <2> QED
    BY <1>3, <2>1, <2>2 DEF Types, TypeOK, EntryTypes
<1>5. FileInv'
  BY <1>3 DEF BlockStoreInv, FileInv, Elements
<1>6. CleanInv'
  <2> SUFFICES ASSUME NoLostWrite'
               PROVE  CleanInv'
    BY DEF CleanInv
  <2>1. /\ ParentsKnown /\ ParentsFirst(file) /\ \A x \in Known : Depth[x] =< height
        /\ BestFirst /\ (durable # NoBlock => FirstAt(file, durable))
    BY DEF BlockStoreInv, CleanInv, NoLostWrite
  <2>2. b = Genesis \/ Parent[b] \in Known
    <3>1. ASSUME b # Genesis PROVE Parent[b] \in Path[b] \ {b}
      <4>1. Parent[b] \in Path[b]
        BY <3>1, OnPath, ParentOnPath
      <4>2. Parent[b] # b
        BY <3>1, ParentDepth
      <4> QED
        BY <4>1, <4>2
    <3> QED
      BY <3>1
  <2>3. /\ ParentsKnown' /\ (\A x \in Known' : Depth[x] =< height')
        /\ (best' = b => \A x \in Known : Depth[x] < Depth[b])
    BY <1>1, <2>1, <2>2, AddEntryLongest
  <2>4. written \subseteq Known
    BY DEF BlockStoreInv, FileInv
  <2>5. BestFirst'
    <3>1. CASE best' = b
      <4>1. best' \notin written /\ \A x \in written : Depth[x] < Depth[b]
        BY <2>3, <2>4, <3>1
      <4> QED
        BY <2>1, <3>1, <4>1 DEF BestFirst, Elements
    <3>2. CASE best' = best
      BY <2>1, <3>2 DEF BestFirst, Elements
    <3> QED
      BY <1>2, <3>1, <3>2 DEF Added
  <2> QED
    BY <2>1, <2>3, <2>5 DEF CleanInv
<1> QED
  BY <1>3, <1>4, <1>5, <1>6 DEF BlockStoreInv

\* blockstore_add_header.
LEMMA AddHeaderInv == ASSUME BlockStoreInv, NEW b \in Blocks, AddHeader(b) PROVE BlockStoreInv'
<1>1. /\ phase = "running" /\ added < MaxBatch /\ b \notin Known
      /\ b # Genesis => Path[b] \ {b} \subseteq Known
      /\ file' = file /\ tail' = tail /\ durable' = durable /\ budget' = budget
  BY DEF AddHeader
<1>2. /\ budget' \in [crashes : Nat, failures : Nat] /\ budget'.failures = budget.failures
      /\ tail' \in Seq(Blocks) /\ (NoLostWrite' => NoLostWrite)
  BY <1>1 DEF BlockStoreInv, Types, TypeOK, NoLostWrite
<1>3. CASE Die("add")
  BY <1>1, <1>2, <1>3, DieUnwritten
<1>4. CASE /\ AddEntry(b) /\ added' = added + 1 /\ UNCHANGED <<phase, written, pos, panic>>
  BY <1>1, <1>4, AddHeaderEntryInv
<1> QED
  BY <1>3, <1>4, Zenon DEF AddHeader

\* What is collected for writing is known.
LEMMA UnwrittenKnown ==
    ASSUME BlockStoreInv
    PROVE  /\ Elements(Unwritten) \subseteq Known
           /\ Elements(Unwritten) \subseteq Blocks
           /\ best # NoBlock => best \in written \cup Elements(Unwritten)
<1>1. TypeOK /\ LinkInv /\ Unwritten \in Seq(Blocks)
  BY WriteGrows DEF BlockStoreInv, Types, StoreInv
<1>2. CASE best = NoBlock
  <2>1. Unwritten = <<>>
    BY <1>1, <1>2, UnwrittenShape
  <2>2. Elements(<<>>) = {}
    BY DEF Elements
  <2> QED
    BY <1>2, <2>1, <2>2
<1>3. CASE best # NoBlock
  <2>1. Shape(Unwritten, best) /\ blk = Path[best]
    BY <1>1, <1>3, UnwrittenShape DEF BlockStoreInv, StoreInv, ChainLinked
  <2>2. \A i \in 1..Len(Unwritten) : Unwritten[i] \in Known
    BY <2>1 DEF Shape, Known
  <2>3. best \notin written => best \in Elements(Unwritten)
    <3>1. best \notin written => Len(Unwritten) \in 1..Len(Unwritten) /\ Unwritten[Len(Unwritten)] = best
      BY <1>1, <2>1 DEF Shape
    <3> QED
      BY <1>1, <3>1, InElements
  <2> QED
    BY <1>1, <2>2, <2>3, InElements
<1> QED
  BY <1>2, <1>3

\* One crash less.
LEMMA CrashSpent ==
    ASSUME BlockStoreInv, budget.crashes > 0, budget' = [budget EXCEPT !.crashes = @ - 1]
    PROVE  budget' \in [crashes : Nat, failures : Nat] /\ budget'.failures = budget.failures
<1>1. budget \in [crashes : Nat, failures : Nat]
  BY DEF BlockStoreInv, Types, TypeOK
<1> QED
  BY <1>1

\* One failed write less.
LEMMA FailureSpent ==
    ASSUME BlockStoreInv, budget.failures > 0, budget' = [budget EXCEPT !.failures = @ - 1]
    PROVE  budget' \in [crashes : Nat, failures : Nat] /\ budget'.failures < MaxFailures
<1>1. budget \in [crashes : Nat, failures : Nat] /\ budget.failures =< MaxFailures
  BY DEF BlockStoreInv, Types, TypeOK
<1>2. budget'.failures = budget.failures - 1 /\ budget' \in [crashes : Nat, failures : Nat]
  BY <1>1
<1>3. budget.failures - 1 < MaxFailures
  BY <1>1, StoreBoundsAssumption
<1> QED
  BY <1>2, <1>3

\* What is written behind whole headers, or nothing, makes the file grow.
LEMMA StoredGrows ==
    ASSUME TypeOK, LinkInv, Stored(Unwritten), tail = <<>> \/ Unwritten = <<>>
    PROVE  Grown(file', Len(Unwritten)) /\ tail' = tail
<1>1. file \in Seq(Blocks) /\ tail \in Seq(Blocks) /\ Grown(file \o Unwritten, Len(Unwritten))
  BY WriteGrows DEF TypeOK
<1>2. CASE tail = <<>>
  BY <1>1, <1>2 DEF Stored
<1>3. CASE tail # <<>> /\ Unwritten = <<>>
  <2>1. file' = file /\ tail' = tail \o <<>>
    BY <1>3 DEF Stored
  <2>2. file \o <<>> = file /\ tail \o <<>> = tail
    BY <1>1, ConcatEmptySeq
  <2> QED
    BY <1>1, <1>3, <2>1, <2>2
<1> QED
  BY <1>2, <1>3

\* What is written behind a torn header is lost.
LEMMA StoredBehind ==
    ASSUME TypeOK, LinkInv, NEW s \in Seq(Blocks), s # <<>>, Stored(s), tail # <<>>
    PROVE  /\ file' = file /\ tail' \in Seq(Blocks) /\ tail' # <<>>
           /\ Len(tail') >= Len(tail) /\ ~NoLostWrite'
<1>1. tail \in Seq(Blocks) /\ Len(tail) \in Nat /\ Len(tail) >= 1 /\ Len(s) \in Nat /\ Len(s) >= 1
  BY DEF TypeOK
<1>2. file' = file /\ tail' = tail \o s
  BY DEF Stored
<1>3. tail' \in Seq(Blocks) /\ Len(tail') = Len(tail) + Len(s)
  BY <1>1, <1>2
<1> QED
  BY <1>1, <1>2, <1>3 DEF NoLostWrite

\* The headers of a message are written, or the write fails.
LEMMA WriteHeadersInv ==
    ASSUME BlockStoreInv, phase = "running", WriteHeaders, added' = 0,
           UNCHANGED <<phase, entryVars, pos, panic>>
    PROVE  BlockStoreInv'
<1>1. TypeOK /\ LinkInv /\ Unwritten \in Seq(Blocks) /\ Len(Unwritten) \in 0..Len(Unwritten)
  BY WriteGrows DEF BlockStoreInv, Types, StoreInv
<1>2. StoreInv' /\ EntryTypes' /\ Known' = Known /\ best' = best /\ height' = height
  BY EntriesUnchanged DEF entryVars
<1>3. /\ Elements(Unwritten) \subseteq Known /\ Elements(Unwritten) \subseteq Blocks
      /\ best # NoBlock => best \in written \cup Elements(Unwritten)
  BY UnwrittenKnown
<1>4. written' = written \cup Elements(Unwritten)
  BY DEF WriteHeaders
<1>5. /\ phase' = "running" /\ written' \subseteq Blocks /\ written' \subseteq Known'
      /\ added' \in 0..MaxBatch /\ panic' \in {"none", "load", "chkpt", "add", "cap"}
  <2>1. written \subseteq Blocks /\ written \subseteq Known
    BY DEF BlockStoreInv, Types, TypeOK, FileInv
  <2>2. panic' \in {"none", "load", "chkpt", "add", "cap"}
    BY DEF BlockStoreInv, Types, TypeOK
  <2> QED
    BY <1>2, <1>3, <1>4, <2>1, <2>2, StoreBoundsAssumption
<1>6. CASE Grown(file', Len(Unwritten)) /\ tail' = tail /\ durable' = best /\ UNCHANGED budget
  <2>1. Grown(file', Len(Unwritten))
    BY <1>6
  <2>2. file' \in Seq(Blocks) /\ tail' \in Seq(Blocks) /\ pos' \in 0..(Len(file') + Behind')
    <3>1. /\ pos \in 0..(Len(file) + Behind) /\ Len(file) \in Nat
          /\ Len(file') = Len(file) + Len(Unwritten) /\ tail' \in Seq(Blocks)
      BY <1>1, <1>6, <2>1 DEF Grown, TypeOK
    <3>2. Behind' = Behind /\ Behind \in Nat
      BY <1>1, <1>6, TailLength DEF Behind, TypeOK
    <3> QED
      BY <1>1, <2>1, <3>1, <3>2 DEF Grown
  <2>3. Types'
    <3>1. durable' \in Blocks \cup {NoBlock} /\ budget' \in [crashes : Nat, failures : Nat] /\ budget'.failures =< MaxFailures
      BY <1>6 DEF BlockStoreInv, Types, TypeOK
    <3> QED
      BY <1>2, <1>5, <2>2, <3>1 DEF Types, TypeOK, EntryTypes
  <2>4. Elements(file') = Elements(file) \cup Elements(Unwritten)
    BY <1>1, <2>1, GrownElements
  <2>5. FileInv'
    <3>1. \A i, k \in 1..Len(file') : file'[i] = file'[k] => i = k
      BY <1>1, <2>1, GrownOnce
    <3>2. Elements(file') \subseteq written'
      BY <1>4, <2>4 DEF BlockStoreInv, FileInv
    <3>3. Elements(file)' = Elements(file')
      BY DEF Elements
    <3> QED
      BY <1>5, <3>1, <3>2, <3>3 DEF FileInv
  <2>6. CleanInv'
    <3> SUFFICES ASSUME NoLostWrite'
                 PROVE  CleanInv'
      BY DEF CleanInv
    <3>0. NoLostWrite
      BY <1>6 DEF NoLostWrite
    <3>1. /\ ParentsKnown /\ \A x \in Known : Depth[x] =< height
          /\ BestFirst
      BY <3>0 DEF BlockStoreInv, CleanInv
    <3>2. ParentsFirst(file')
      BY <1>1, <2>1, <3>0, GrownParents
    <3>3. best # NoBlock => FirstAt(file', best)
      BY <2>1, <3>0, GrownBest
    <3>4. written' = Elements(file')
      BY <1>4, <2>4, <3>1 DEF BestFirst
    <3>5. best \in written' => best # NoBlock
      BY <1>5, TreeAssumption
    <3>6. best \notin written' => \A x \in written' : Depth[x] < Depth[best]
      <4>1. best \notin written' => best = NoBlock
        BY <1>3, <1>4
      <4>2. best = NoBlock => Known' = {}
        BY <1>2 DEF BlockStoreInv, StoreInv, EmptyInv
      <4> QED
        BY <1>5, <4>1, <4>2
    <3>7. BestFirst'
      <4>1. best' \in written' => FirstAt(file', best')
        BY <1>2, <3>3, <3>5
      <4>2. Elements(file)' = Elements(file')
        BY DEF Elements
      <4> QED
        BY <1>2, <1>5, <3>4, <3>6, <4>1, <4>2 DEF BestFirst
    <3>8. ParentsKnown'
      BY <1>2, <3>1 DEF ParentsKnown
    <3> QED
      BY <1>2, <1>6, <3>1, <3>2, <3>3, <3>7, <3>8 DEF CleanInv
  <2> QED
    BY <1>2, <2>3, <2>5, <2>6 DEF BlockStoreInv
<1>7. ASSUME file' = file, ~NoLostWrite', tail' \in Seq(Blocks), Len(tail') >= Len(tail),
             tail = <<>> => tail' = <<>>, durable' \in Blocks \cup {NoBlock},
             budget' \in [crashes : Nat, failures : Nat], budget'.failures =< MaxFailures
      PROVE  BlockStoreInv'
  <2>1. Types'
    <3>1. /\ pos \in 0..(Len(file) + Behind) /\ Len(file) \in Nat /\ Behind \in Nat /\ Behind' \in Nat
          /\ file \in Seq(Blocks) /\ Len(tail) \in Nat /\ Len(tail') \in Nat
      <4>1. tail \in Seq(Blocks) /\ file \in Seq(Blocks) /\ pos \in 0..(Len(file) + Behind)
        BY <1>1 DEF TypeOK
      <4>2. Behind \in Nat /\ Behind' \in Nat
        BY <1>7, <4>1, TailLength
      <4>3. Len(tail) \in Nat /\ Len(tail') \in Nat /\ Len(file) \in Nat
        BY <1>7, <4>1
      <4> QED
        BY <4>1, <4>2, <4>3
    <3>2. Behind' >= Behind
      BY <1>7, <3>1 DEF Behind
    <3>3. pos' \in 0..(Len(file') + Behind')
      BY <1>7, <3>1, <3>2
    <3> QED
      BY <1>2, <1>5, <1>7, <3>1, <3>3 DEF Types, TypeOK, EntryTypes
  <2>2. FileInv'
    BY <1>4, <1>5, <1>7 DEF BlockStoreInv, FileInv, Elements
  <2> QED
    BY <1>2, <1>7, <2>1, <2>2 DEF BlockStoreInv, CleanInv
<1>8. /\ file \in Seq(Blocks) /\ tail \in Seq(Blocks) /\ Len(tail) \in Nat /\ (tail # <<>> => Len(tail) >= 1)
      /\ durable \in Blocks \cup {NoBlock} /\ best \in Blocks \cup {NoBlock}
      /\ budget \in [crashes : Nat, failures : Nat] /\ budget.failures =< MaxFailures
  BY DEF BlockStoreInv, Types, TypeOK
<1>9. CASE Stored(Unwritten) /\ durable' = best /\ UNCHANGED budget
  <2>1. CASE tail = <<>> \/ Unwritten = <<>>
    BY <1>1, <1>6, <1>8, <1>9, <2>1, StoredGrows
  <2>2. CASE tail # <<>> /\ Unwritten # <<>>
    BY <1>1, <1>7, <1>8, <1>9, <2>2, StoredBehind
  <2> QED
    BY <2>1, <2>2
<1>10. CASE /\ budget.failures > 0 /\ budget' = [budget EXCEPT !.failures = @ - 1]
            /\ UNCHANGED <<file, tail, durable>>
  <2>1. /\ budget' \in [crashes : Nat, failures : Nat] /\ budget'.failures < MaxFailures
        /\ budget'.failures \in Nat
    BY <1>10, FailureSpent
  <2>2. ~NoLostWrite' /\ budget'.failures =< MaxFailures
    BY <2>1, StoreBoundsAssumption DEF NoLostWrite
  <2> QED
    BY <1>7, <1>8, <1>10, <2>1, <2>2
<1> QED
  BY <1>9, <1>10 DEF WriteHeaders

\* The end of a headers message.
LEMMA EndOfMessageInv == ASSUME BlockStoreInv, EndOfMessage PROVE BlockStoreInv'
<1>1. CASE Die("cap") /\ UNCHANGED <<file, tail, durable, budget>>
  <2>1. /\ budget' \in [crashes : Nat, failures : Nat] /\ budget'.failures = budget.failures
        /\ tail' \in Seq(Blocks) /\ (NoLostWrite' => NoLostWrite)
    BY <1>1 DEF BlockStoreInv, Types, TypeOK, NoLostWrite
  <2> QED
    BY <1>1, <2>1, DieUnwritten
<1>2. CASE phase = "running" /\ WriteHeaders /\ added' = 0 /\ UNCHANGED <<phase, entryVars, pos, panic>>
  BY <1>2, WriteHeadersInv
<1> QED
  BY <1>1, <1>2 DEF EndOfMessage

\* The process ends having appended the first n of the unwritten entries.
LEMMA DieWritten ==
    ASSUME BlockStoreInv, phase = "running", Die("none"),
           NEW n \in 0..Len(Unwritten), Grown(file', n),
           durable' = durable \/ (durable' = best /\ n = Len(Unwritten)),
           tail' \in Seq(Blocks), NoLostWrite' => NoLostWrite,
           budget' \in [crashes : Nat, failures : Nat], budget'.failures = budget.failures
    PROVE  BlockStoreInv'
<1>1. TypeOK /\ LinkInv /\ n \in Nat
  BY WriteGrows DEF BlockStoreInv, Types, StoreInv
<1>2. /\ file' \in Seq(Blocks) /\ durable' \in Blocks \cup {NoBlock}
      /\ budget'.failures =< MaxFailures
  BY DEF BlockStoreInv, Types, TypeOK, Grown
<1>3. \A i, k \in 1..Len(file') : file'[i] = file'[k] => i = k
  BY GrownOnce
<1>4. ASSUME NoLostWrite'
      PROVE  ParentsFirst(file') /\ (durable' # NoBlock => FirstAt(file', durable'))
  <2>1. NoLostWrite
    BY <1>4
  <2>2. ParentsFirst(file')
    BY <2>1, GrownParents
  <2>3. CASE durable' = durable
    <3>1. durable # NoBlock => FirstAt(file, durable)
      BY <2>1 DEF BlockStoreInv, CleanInv
    <3>2. durable # NoBlock => FirstAt(file', durable)
      BY <1>1, <3>1, GrownFirst
    <3> QED
      BY <2>2, <2>3, <3>2
  <2>4. CASE durable' = best /\ n = Len(Unwritten)
    <3>1. best # NoBlock => FirstAt(file', best)
      BY <2>1, <2>4, GrownBest
    <3> QED
      BY <2>2, <2>4, <3>1
  <2> QED
    BY <2>3, <2>4
<1> QED
  BY <1>2, <1>3, <1>4, DieInv

\* blockstore_exit.
LEMMA ExitInv == ASSUME BlockStoreInv, Exit PROVE BlockStoreInv'
<1>1. /\ phase = "running" /\ budget.crashes > 0 /\ Stored(Unwritten) /\ durable' = best
      /\ budget' = [budget EXCEPT !.crashes = @ - 1] /\ Die("none")
  BY DEF Exit
<1>2. budget' \in [crashes : Nat, failures : Nat] /\ budget'.failures = budget.failures
  BY <1>1, CrashSpent
<1>3. TypeOK /\ LinkInv /\ Unwritten \in Seq(Blocks) /\ Len(Unwritten) \in 0..Len(Unwritten)
  BY WriteGrows DEF BlockStoreInv, Types, StoreInv
<1>4. CASE tail = <<>> \/ Unwritten = <<>>
  <2>1. Grown(file', Len(Unwritten)) /\ tail' = tail
    BY <1>1, <1>3, <1>4, StoredGrows
  <2>2. tail' \in Seq(Blocks) /\ (NoLostWrite' => NoLostWrite)
    BY <1>2, <1>3, <2>1 DEF TypeOK, NoLostWrite
  <2> QED
    BY <1>1, <1>2, <1>3, <2>1, <2>2, DieWritten
<1>5. CASE tail # <<>> /\ Unwritten # <<>>
  <2>1. file' = file /\ tail' \in Seq(Blocks) /\ ~NoLostWrite'
    BY <1>1, <1>3, <1>5, StoredBehind
  <2> QED
    BY <1>1, <1>2, <2>1, DieUnwritten
<1> QED
  BY <1>4, <1>5

\* A kill.
LEMMA CrashInv == ASSUME BlockStoreInv, Crash PROVE BlockStoreInv'
<1>1. /\ budget.crashes > 0 /\ budget' = [budget EXCEPT !.crashes = @ - 1]
      /\ Die("none") /\ durable' = durable
  BY DEF Crash
<1>2. budget' \in [crashes : Nat, failures : Nat] /\ budget'.failures = budget.failures
  BY <1>1, CrashSpent
<1>3. /\ TypeOK /\ LinkInv /\ Unwritten \in Seq(Blocks) /\ Len(Unwritten) \in Nat
      /\ \A n \in 0..Len(Unwritten) : Grown(file \o SubSeq(Unwritten, 1, n), n)
  BY WriteGrows DEF BlockStoreInv, Types, StoreInv
<1>4. CASE UNCHANGED <<file, tail>>
  <2>1. tail' \in Seq(Blocks) /\ (NoLostWrite' => NoLostWrite)
    BY <1>2, <1>3, <1>4 DEF TypeOK, NoLostWrite
  <2> QED
    BY <1>1, <1>2, <1>4, <2>1, DieUnwritten
<1>5. ASSUME phase = "running", NEW n \in 1..Len(Unwritten), Stored(SubSeq(Unwritten, 1, n))
      PROVE  BlockStoreInv'
  <2>1. n \in 0..Len(Unwritten)
    BY <1>3
  <2>2. CASE tail = <<>>
    <3>1. Grown(file', n) /\ tail' = tail
      BY <1>3, <1>5, <2>1, <2>2 DEF Stored
    <3>2. tail' \in Seq(Blocks) /\ (NoLostWrite' => NoLostWrite)
      BY <1>2, <1>3, <3>1 DEF TypeOK, NoLostWrite
    <3> QED
      BY <1>1, <1>2, <1>5, <2>1, <3>1, <3>2, DieWritten
  <2>3. CASE tail # <<>>
    <3> DEFINE t == SubSeq(Unwritten, 1, n)
    <3>1. t \in Seq(Blocks) /\ Len(t) = n
      <4>1. \A i \in 1..n : Unwritten[i] \in Blocks
        BY <1>3
      <4> QED
        BY <1>3, <2>1, <4>1, SubSeqProperties
    <3>2. t # <<>>
      BY <3>1
    <3>3. Stored(t)
      BY <1>5
    <3> HIDE DEF t
    <3>4. file' = file /\ tail' \in Seq(Blocks) /\ ~NoLostWrite'
      BY <1>3, <2>3, <3>1, <3>2, <3>3, StoredBehind
    <3> QED
      BY <1>1, <1>2, <3>4, DieUnwritten
  <2> QED
    BY <2>2, <2>3
<1>6. ASSUME phase = "running", tail = <<>>, NEW n \in 0..(Len(Unwritten) - 1),
             file' = file \o SubSeq(Unwritten, 1, n), tail' = <<Unwritten[n + 1]>>
      PROVE  BlockStoreInv'
  <2>1. n \in 0..Len(Unwritten) /\ Grown(file', n)
    BY <1>3, <1>6
  <2>2. tail' \in Seq(Blocks)
    BY <1>3, <1>6
  <2>3. NoLostWrite' => NoLostWrite
    BY <1>2, <1>6 DEF NoLostWrite
  <2> QED
    BY <1>1, <1>2, <1>6, <2>1, <2>2, <2>3, DieWritten
<1> QED
  BY <1>4, <1>5, <1>6 DEF Crash

\* Nothing happens.
LEMMA StutterInv == ASSUME BlockStoreInv, UNCHANGED vars PROVE BlockStoreInv'
<1>1. UNCHANGED entryVars /\ UNCHANGED <<phase, written, added, file, tail, pos, durable, panic, budget>>
  BY DEF vars
<1>2. StoreInv' /\ EntryTypes' /\ Known' = Known /\ best' = best /\ height' = height
  BY <1>1, EntriesUnchanged DEF entryVars
<1>3. Types'
  BY <1>1, <1>2 DEF BlockStoreInv, Types, TypeOK, EntryTypes, Behind
<1>4. FileInv'
  BY <1>1, <1>2 DEF BlockStoreInv, FileInv, Elements
<1>5. CleanInv'
  BY <1>1, <1>2 DEF BlockStoreInv, CleanInv, NoLostWrite, ParentsKnown, BestFirst, Elements
<1> QED
  BY <1>2, <1>3, <1>4, <1>5 DEF BlockStoreInv

-----------------------------------------------------------------------------
(* The theorems *)

\* The invariant holds in every reachable state.
THEOREM BlockStoreInvariant == Spec => []BlockStoreInv
<1>1. BlockStoreInv /\ [Next]_vars => BlockStoreInv'
  BY OpenInv, LoadHeaderInv, LoadMisreadInv, LoadDoneInv, AddHeaderInv, EndOfMessageInv, ExitInv, CrashInv,
     StutterInv DEF Next
<1> QED
  BY InitInv, <1>1, PTL DEF Spec

\* The header store has the shape the C structures give it.
THEOREM BlockStoreTypeOK == Spec => []TypeOK
<1>1. BlockStoreInv => TypeOK
  BY DEF BlockStoreInv, Types
<1> QED
  BY <1>1, BlockStoreInvariant, PTL

\* After any sequence of forks, reorganizations, crashes, failed and torn writes
\* and reloads, hash_blk is the chain from genesis to best_chain, linked and
\* numbered, and everything else known is an orphan.
THEOREM BlockStoreChainLinked == Spec => []ChainLinked
<1>1. BlockStoreInv => ChainLinked
  BY DEF BlockStoreInv, StoreInv
<1> QED
  BY <1>1, BlockStoreInvariant, PTL

\* As long as no write was lost, blockstore_set_best_chain leaves no longer chain
\* among the orphans, during the replay of the file too.
THEOREM BlockStoreLongestKnown == Spec => []LongestKnown
<1>1. BlockStoreInv => LongestKnown
  BY DEF BlockStoreInv, CleanInv, LongestKnown
<1> QED
  BY <1>1, BlockStoreInvariant, PTL

\* Of two blocks of one depth only one is the first of its depth.
LEMMA FirstAtUnique ==
    ASSUME file \in Seq(Blocks), NEW x, NEW y, FirstAt(file, x), FirstAt(file, y), Depth[x] = Depth[y]
    PROVE  x = y
<1>1. PICK k \in 1..Len(file) : file[k] = x /\ \A i \in 1..(k - 1) : Depth[file[i]] < Depth[x]
  BY DEF FirstAt
<1>2. PICK m \in 1..Len(file) : file[m] = y /\ \A i \in 1..(m - 1) : Depth[file[i]] < Depth[y]
  BY DEF FirstAt
<1>3. Depth[x] \in Nat /\ Depth[y] \in Nat
  BY <1>1, <1>2, TreeAssumption
<1>4. ~(k < m) /\ ~(m < k)
  BY <1>1, <1>2, <1>3
<1>5. k = m
  BY <1>4
<1> QED
  BY <1>1, <1>2, <1>5

\* As long as no write was lost, replaying headers.dat brings back the best chain
\* of the last complete write, or a longer one of which a write cut short, between
\* two headers or inside one, left enough.
THEOREM BlockStoreReloadAgrees == Spec => []ReloadAgrees
<1>1. ASSUME BlockStoreInv, NoLostWrite, phase = "loading", pos = Len(file), durable # NoBlock
      PROVE  best = durable \/ (best # NoBlock /\ Depth[best] > Depth[durable])
  <2>1. file \in Seq(Blocks) /\ Known = {file[i] : i \in 1..Len(file)}
    <3>1. file \in Seq(Blocks) /\ Len(file) \in Nat
      BY <1>1 DEF BlockStoreInv, Types, TypeOK
    <3> QED
      BY <1>1, <3>1 DEF BlockStoreInv, FileInv
  <2>2. FirstAt(file, durable)
    BY <1>1 DEF BlockStoreInv, CleanInv
  <2>3. durable \in Known
    BY <2>1, <2>2 DEF FirstAt
  <2>4. best # NoBlock /\ best \in Blocks
    BY <1>1, <2>3 DEF BlockStoreInv, StoreInv, EmptyInv, Types, TypeOK
  <2>5. FirstAt(file, best)
    BY <1>1, <2>4 DEF BlockStoreInv, CleanInv, BestFirst
  <2>6. height = Depth[best] /\ Depth[durable] =< height
    BY <1>1, <2>3, <2>4 DEF BlockStoreInv, CleanInv, StoreInv, ChainLinked
  <2>7. Depth[best] \in Nat /\ Depth[durable] \in Nat
    <3>1. durable \in Blocks
      BY <1>1 DEF BlockStoreInv, Types, TypeOK
    <3> QED
      BY <2>4, <3>1, TreeAssumption
  <2>8. CASE Depth[best] = Depth[durable]
    BY <2>1, <2>2, <2>5, <2>8, FirstAtUnique
  <2> QED
    BY <2>4, <2>6, <2>7, <2>8
<1>2. BlockStoreInv => ReloadAgrees
  BY <1>1 DEF ReloadAgrees
<1> QED
  BY <1>2, BlockStoreInvariant, PTL

=============================================================================
