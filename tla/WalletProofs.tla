---------------------------- MODULE WalletProofs ----------------------------
(***************************************************************************)
(* Proofs about the wallet.                                                *)
(*                                                                         *)
(* The key file, for any set of keys and passphrases and any number of     *)
(* crashes:                                                                *)
(*   - wherever a save is cut short, wallet.dat or wallet.dat.0 holds the  *)
(*     keys saved before, unless the rotation failed and wallet.dat was    *)
(*     overwritten in place (KeysRecoverable);                             *)
(*   - a session watches all of them (SessionComplete).                    *)
(* Neither is inductive: which of the two files holds the keys depends on  *)
(* the step of the save, and SaveInv says it for each.                     *)
(*                                                                         *)
(* The transaction database, for any transactions, blocks, payments,       *)
(* failed writes and stops:                                                *)
(*   - it implements Ledger (LedgerSpec);                                  *)
(*   - a payment is relayed until it is confirmed (RelayedUntilConfirmed). *)
(* Both rest on TxInv: until a write fails, the records on disk, processed *)
(* again in order, give what is in memory, but for transactions that do    *)
(* not concern the wallet and the block a coin is noted with.              *)
(***************************************************************************)
EXTENDS WalletFile, TxDb, FiniteSetTheorems, SequenceTheorems, NaturalsInduction,
        WellFoundedInduction, TLAPS

-----------------------------------------------------------------------------
(* The key file *)

Saving == {"rotate", "rename", "create", "write", "numKeys"}

\* f is a copy of everything that was saved.
Holds(f) == given \subseteq f.keys /\ f.pass = pass

\* A file with keys exists, and so will the one being saved.
Shapes ==
    /\ file.keys # {} => file.here
    /\ proc \in Saving => new.here

\* Until the old file is renamed it is the copy; from then on the backup is, or,
\* if the rename failed, the old file until it is truncated.
SaveInv ==
    ~damaged =>
      /\ proc \in {"none", "session"} /\ given # {} /\ ~inPlace =>
            Holds(file) \/ Holds(backup)
      /\ proc \in {"none", "session"} /\ given # {} /\ given \subseteq file.keys =>
            file.pass = pass
      /\ proc \in Saving => given \subseteq new.keys
      /\ proc \in {"rotate", "rename"} /\ given # {} => Holds(file)
      /\ proc = "create" /\ given # {} => Holds(file) \/ (~file.here /\ Holds(backup))
      /\ proc \in {"write", "numKeys"} =>
            file.keys = {} /\ (given # {} /\ ~inPlace => Holds(backup))

\* What a session loaded is what is in the file, opened with its passphrase.
SessionInv ==
    proc = "session" =>
      /\ loaded = file.keys /\ scripts \in {{}, loaded}
      /\ typed # Plain => Locked /\ Opens(typed)

WalletInv == Shapes /\ SaveInv /\ SessionInv

-----------------------------------------------------------------------------
\* Every variable keeps its type at every step of a save, a crash or a session.
THEOREM WalletTypeOK == FileSpec => []FileTypeOK
<1>1. FileInit => FileTypeOK
  <2> SUFFICES ASSUME FileInit PROVE FileTypeOK
    OBVIOUS
  <2>1. NoFile \in File
    BY DEF NoFile, File
  <2>2. crashes \in 0 .. MaxCrash
    BY WalletFileAssumption DEF FileInit
  <2> QED
    BY <2>1, <2>2 DEF FileInit, FileTypeOK
<1>2. FileTypeOK /\ [FileNext]_fileVars => FileTypeOK'
  <2> SUFFICES ASSUME FileTypeOK, [FileNext]_fileVars PROVE FileTypeOK'
    OBVIOUS
  <2>f. /\ NoFile \in File /\ Created \in File /\ file.here \in BOOLEAN
        /\ \A p \in Pass \union {Plain} : [Created EXCEPT !.pass = p] \in File
    BY DEF NoFile, Created, File, FileTypeOK
  <2>g. file.keys \subseteq Key /\ new.pass \in Pass \union {Plain} /\ new.keys \subseteq Key
    BY DEF File, FileTypeOK
  <2>h. \A K \in SUBSET Key, p \in Pass \union {Plain} :
            [here |-> TRUE, keys |-> K, pass |-> p] \in File
    BY DEF File
  <2> USE DEF FileTypeOK
  <2>1. ASSUME NEW k \in Key, CheckWallet(k) PROVE FileTypeOK'
    BY <2>1, <2>h DEF CheckWallet, BeginSave
  <2>2. ASSUME NEW k \in Key, AddAddress(k) PROVE FileTypeOK'
    BY <2>2, <2>g, <2>h DEF AddAddress, BeginSave
  <2>3. ASSUME NEW old \in Pass, NEW p \in Pass, Encrypt(old, p) PROVE FileTypeOK'
    BY <2>3, <2>g, <2>h DEF Encrypt, BeginSave
  <2>4. ASSUME RotateUnlink PROVE FileTypeOK'
    <3>1. CASE Step("rotate", "rename") /\ backup' = NoFile
      BY <2>4, <2>f, <3>1 DEF RotateUnlink, Step, Only
    <3>2. CASE Step("rotate", "create") /\ UNCHANGED backup
      BY <2>4, <3>2 DEF RotateUnlink, Step, Only
    <3> QED BY <2>4, <3>1, <3>2 DEF RotateUnlink
  <2>5. ASSUME RotateRename PROVE FileTypeOK'
    <3>1. backup' \in File /\ file' \in File
      BY <2>5, <2>f DEF RotateRename
    <3> QED BY <2>5, <3>1 DEF RotateRename, Step, Only
  <2>6. ASSUME CreateFile PROVE FileTypeOK'
    BY <2>6, <2>f DEF CreateFile, Step, Only
  <2>7. ASSUME WriteKeys PROVE FileTypeOK'
    BY <2>7, <2>f, <2>g DEF WriteKeys, Step, Only
  <2>8. ASSUME WriteNumKeys PROVE FileTypeOK'
    BY <2>8, <2>f, <2>g DEF WriteNumKeys, Step, Only
  <2>9. ASSUME Crash PROVE FileTypeOK'
    BY <2>9, <2>f, WalletFileAssumption DEF Crash
  <2>10. ASSUME NEW p \in Pass \union {Plain}, Run(p) PROVE FileTypeOK'
    BY <2>10, <2>g DEF Run
  <2>11. ASSUME GetFilterScripts PROVE FileTypeOK'
    BY <2>11 DEF GetFilterScripts
  <2>12. ASSUME Close PROVE FileTypeOK'
    BY <2>12 DEF Close
  <2>13. ASSUME UNCHANGED fileVars PROVE FileTypeOK'
    BY <2>13 DEF fileVars
  <2> QED
    BY <2>1, <2>2, <2>3, <2>4, <2>5, <2>6, <2>7, <2>8, <2>9, <2>10, <2>11, <2>12,
       <2>13 DEF FileNext
<1> QED
  BY <1>1, <1>2, PTL DEF FileSpec

-----------------------------------------------------------------------------
\* A save may begin only on an intact file, or it marks the wallet as damaged;
\* either way the saved keys include those given.
LEMMA BeginSaveKeeps ==
    ASSUME FileTypeOK, WalletInv, NEW keys \in SUBSET Key, NEW p \in Pass \union {Plain},
           BeginSave(keys, p), file.keys \subseteq keys
    PROVE  WalletInv'
<1> USE DEF BeginSave, FileTypeOK, File
<1>1. Shapes'
  BY DEF WalletInv, Shapes, Saving
<1>2. SaveInv'
  BY DEF WalletInv, SaveInv, Saving, Holds
<1>3. SessionInv'
  BY DEF SessionInv
<1> QED
  BY <1>1, <1>2, <1>3 DEF WalletInv

\* WalletInv is preserved by every command, every step of a save and a crash.
LEMMA WalletInvStep == FileTypeOK /\ WalletInv /\ [FileNext]_fileVars => WalletInv'
<1> SUFFICES ASSUME FileTypeOK, WalletInv, [FileNext]_fileVars PROVE WalletInv'
  OBVIOUS
<1> USE WalletFileAssumption DEF FileTypeOK, File
<1>1. ASSUME NEW k \in Key, CheckWallet(k) PROVE WalletInv'
  <2>1. file.keys = {}
    BY <1>1 DEF CheckWallet, WalletInv, Shapes
  <2> QED
    BY <2>1, <1>1, BeginSaveKeeps DEF CheckWallet
<1>2. ASSUME NEW k \in Key, AddAddress(k) PROVE WalletInv'
  BY <1>2, BeginSaveKeeps DEF AddAddress
<1>3. ASSUME NEW old \in Pass, NEW p \in Pass, Encrypt(old, p) PROVE WalletInv'
  BY <1>3, BeginSaveKeeps DEF Encrypt
<1>4. ASSUME RotateUnlink PROVE WalletInv'
  BY <1>4 DEF RotateUnlink, Step, Only, WalletInv, Shapes, SaveInv, SessionInv, Saving, Holds
<1>5. ASSUME RotateRename PROVE WalletInv'
  BY <1>5 DEF RotateRename, Step, Only, NoFile, WalletInv, Shapes, SaveInv, SessionInv,
              Saving, Holds
<1>6. ASSUME CreateFile PROVE WalletInv'
  BY <1>6 DEF CreateFile, Step, Only, NoFile, Created, WalletInv, Shapes, SaveInv,
              SessionInv, Saving, Holds
<1>7. ASSUME WriteKeys PROVE WalletInv'
  BY <1>7 DEF WriteKeys, Step, Only, NoFile, Created, WalletInv, Shapes, SaveInv,
              SessionInv, Saving, Holds
<1>8. ASSUME WriteNumKeys PROVE WalletInv'
  BY <1>8 DEF WriteNumKeys, Step, Only, NoFile, WalletInv, Shapes, SaveInv, SessionInv,
              Saving, Holds
<1>9. ASSUME Crash PROVE WalletInv'
  BY <1>9 DEF Crash, NoFile, WalletInv, Shapes, SaveInv, SessionInv, Saving, Holds
<1>10. ASSUME NEW p \in Pass \union {Plain}, Run(p) PROVE WalletInv'
  BY <1>10 DEF Run, WalletInv, Shapes, SaveInv, SessionInv, Saving, Holds, Locked, Opens
<1>11. ASSUME GetFilterScripts PROVE WalletInv'
  BY <1>11 DEF GetFilterScripts, WalletInv, Shapes, SaveInv, SessionInv, Saving, Holds,
               Locked, Opens
<1>12. ASSUME Close PROVE WalletInv'
  BY <1>12 DEF Close, WalletInv, Shapes, SaveInv, SessionInv, Saving, Holds
<1>13. ASSUME UNCHANGED fileVars PROVE WalletInv'
  BY <1>13 DEF fileVars, WalletInv, Shapes, SaveInv, SessionInv, Saving, Holds, Locked, Opens
<1> QED
  BY <1>1, <1>2, <1>3, <1>4, <1>5, <1>6, <1>7, <1>8, <1>9, <1>10, <1>11, <1>12,
     <1>13 DEF FileNext

\* At every moment the invariant of the save and of the session holds.
LEMMA WalletInvariant == FileSpec => [](FileTypeOK /\ WalletInv)
<1>1. FileInit => WalletInv
  BY DEF FileInit, NoFile, WalletInv, Shapes, SaveInv, SessionInv, Saving
<1> QED
  BY <1>1, WalletInvStep, WalletTypeOK, PTL DEF FileSpec

-----------------------------------------------------------------------------
\* Wherever a save (wallet_save_keys with file_rotate) is cut short, one of the
\* two files still holds every key saved before, under the passphrase of the last
\* complete save; the exception is a save whose file_rotate failed.
THEOREM WalletKeysRecoverable == FileSpec => []KeysRecoverable
<1>1. FileTypeOK /\ WalletInv => KeysRecoverable
  BY DEF FileTypeOK, WalletInv, SaveInv, Holds, Saving, KeysRecoverable
<1> QED
  BY <1>1, WalletInvariant, PTL

\* A session on an intact file watches every key given out and has the private
\* keys of an encrypted wallet only with the passphrase it was saved under.
THEOREM WalletSessionComplete == FileSpec => []SessionComplete
<1>1. FileTypeOK /\ WalletInv => SessionComplete
  BY DEF FileTypeOK, WalletInv, SaveInv, SessionInv, Holds, Saving, SessionComplete, Locked, Opens
<1> QED
  BY <1>1, WalletInvariant, PTL

-----------------------------------------------------------------------------
(* The transaction database: what processing a record does *)

Rec == [tx : Tx, blk : Nat]

\* The fields of the hash tables.
LEMMA MemFields ==
    ASSUME NEW m \in MemType
    PROVE  /\ m.tx \in [Tx -> [relevant : BOOLEAN, blk : Int]]
           /\ m.txo \in [Tx -> [spent : BOOLEAN, blk : Int]]
           /\ \A t \in Tx : /\ m.tx[t].relevant \in BOOLEAN /\ m.tx[t].blk \in Int
                            /\ m.txo[t].spent \in BOOLEAN /\ m.txo[t].blk \in Int
                            /\ m.tx[t].relevant => m.tx[t] # Absent
                            /\ m.txo[t].spent => m.txo[t] # NoCoin
BY DEF MemType, Absent, NoCoin

\* The entries of r are those of m, with t learned in block b: L says whether it
\* is relevant, D are the coins it spends and P whether it pays.
Entries(m, t, b, L, D, P, r) ==
    /\ r \in MemType
    /\ r.tx[t].relevant <=> L
    /\ r.tx[t].blk = b /\ r.tx[t] # Absent
    /\ \A u \in Tx : u # t => r.tx[u] = m.tx[u]
    /\ \A c \in D : r.txo[c].spent /\ r.txo[c] # NoCoin
    /\ t \notin D /\ P => ~r.txo[t].spent /\ r.txo[t] # NoCoin
    /\ \A c \in Tx \ D : c # t \/ ~P => r.txo[c] = m.txo[c]

\* What txdb_remember_tx makes of each entry.
LEMMA RememberFields ==
    ASSUME NEW mk, NEW m \in MemType, NEW t \in Tx, NEW b \in Nat
    PROVE  Entries(m, t, b, Relevant(mk, m, t), Debits(mk, m, t), PaysOf(mk, t) > 0,
                   Remember(mk, m, t, b))
<1> DEFINE r == Remember(mk, m, t, b)
           D == Debits(mk, m, t)
           P == PaysOf(mk, t) > 0
           L == Relevant(mk, m, t)
           e == [relevant |-> L, blk |-> b]
           G(c) == [m.txo[c] EXCEPT !.spent = TRUE]
           F(c) == IF c \in D THEN G(c)
                   ELSE IF c = t /\ P THEN [spent |-> FALSE, blk |-> b] ELSE m.txo[c]
<1>1. /\ m.tx \in [Tx -> [relevant : BOOLEAN, blk : Int]]
      /\ m.txo \in [Tx -> [spent : BOOLEAN, blk : Int]]
  BY MemFields
<1>2. L \in BOOLEAN
  BY DEF Relevant
<1>3. r = [tx |-> [m.tx EXCEPT ![t] = e], txo |-> [c \in Tx |-> F(c)]]
  BY DEF Remember
<1> HIDE DEF r, L, P, D
<1>4. e \in [relevant : BOOLEAN, blk : Int] /\ (e.relevant <=> L) /\ e.blk = b /\ e # Absent
  BY <1>2 DEF Absent
<1>5. ASSUME NEW c \in Tx
      PROVE  /\ F(c) \in [spent : BOOLEAN, blk : Int]
             /\ c \in D => F(c).spent /\ F(c) # NoCoin
             /\ c \notin D /\ c = t /\ P => ~F(c).spent /\ F(c) # NoCoin
             /\ c \notin D /\ (c # t \/ ~P) => F(c) = m.txo[c]
  <2>1. m.txo[c] \in [spent : BOOLEAN, blk : Int]
    BY <1>1
  <2>2. CASE c \in D
    <3>1. \A x \in [spent : BOOLEAN, blk : Int] :
            LET y == [x EXCEPT !.spent = TRUE] IN
            y \in [spent : BOOLEAN, blk : Int] /\ y.spent = TRUE
      OBVIOUS
    <3>2. G(c) \in [spent : BOOLEAN, blk : Int] /\ G(c).spent = TRUE
      BY <2>1, <3>1
    <3> HIDE DEF G
    <3>3. F(c) = G(c)
      BY <2>2
    <3> HIDE DEF F
    <3> QED
      BY <2>2, <3>2, <3>3 DEF NoCoin
  <2>3. CASE c \notin D /\ c = t /\ P
    <3>1. F(c) = [spent |-> FALSE, blk |-> b]
      BY <2>3
    <3> HIDE DEF F
    <3> QED
      BY <2>3, <3>1 DEF NoCoin
  <2>4. CASE c \notin D /\ (c # t \/ ~P)
    <3>1. F(c) = m.txo[c]
      BY <2>4
    <3> HIDE DEF F
    <3> QED
      BY <2>1, <2>4, <3>1
  <2> QED
    BY <2>2, <2>3, <2>4
<1> HIDE DEF e, F
<1>6. r.tx = [m.tx EXCEPT ![t] = e] /\ r.txo = [c \in Tx |-> F(c)]
  BY <1>3
<1>7. r \in MemType
  <2>1. [m.tx EXCEPT ![t] = e] \in [Tx -> [relevant : BOOLEAN, blk : Int]]
    BY <1>1, <1>4
  <2>2. [c \in Tx |-> F(c)] \in [Tx -> [spent : BOOLEAN, blk : Int]]
    BY <1>5
  <2> QED
    BY <1>3, <2>1, <2>2 DEF MemType
<1>8. r.tx[t] = e /\ \A u \in Tx : u # t => r.tx[u] = m.tx[u]
  BY <1>1, <1>6
<1>9. \A c \in Tx : r.txo[c] = F(c)
  BY <1>6
<1>10. D \subseteq Tx
  BY DEF D, Debits, Coins
<1>11. \A c \in D : r.txo[c].spent /\ r.txo[c] # NoCoin
  BY <1>5, <1>9, <1>10
<1>12. t \notin D /\ P => ~r.txo[t].spent /\ r.txo[t] # NoCoin
  BY <1>5, <1>9
<1>13. \A c \in Tx \ D : c # t \/ ~P => r.txo[c] = m.txo[c]
  BY <1>5, <1>9
<1>14. (r.tx[t].relevant <=> L) /\ r.tx[t].blk = b /\ r.tx[t] # Absent
  BY <1>4, <1>8
<1>15. Entries(m, t, b, L, D, P, r)
  BY <1>7, <1>8, <1>11, <1>12, <1>13, <1>14 DEF Entries
<1> QED
  BY <1>15 DEF r, D, P, L

LEMMA RememberType ==
    ASSUME NEW mk, NEW m \in MemType, NEW t \in Tx, NEW b \in Nat
    PROVE  Remember(mk, m, t, b) \in MemType
<1> DEFINE r == Remember(mk, m, t, b)
<1>1. Entries(m, t, b, Relevant(mk, m, t), Debits(mk, m, t), PaysOf(mk, t) > 0, r)
  BY RememberFields
<1> HIDE DEF r
<1>2. r \in MemType
  BY <1>1 DEF Entries
<1> QED
  BY <1>2 DEF r

\* An empty memory.
LEMMA EmptyMem ==
    /\ Empty \in MemType
    /\ \A t \in Tx : /\ Empty.tx[t] = Absent /\ ~Empty.tx[t].relevant
                     /\ Empty.txo[t] = NoCoin /\ ~Empty.txo[t].spent
BY DEF Empty, MemType, Absent, NoCoin

-----------------------------------------------------------------------------
(* The transaction database: a reload *)

\* A set of numbers that is not empty has a least element.
LEMMA LeastNumber ==
    ASSUME NEW T \in SUBSET Nat, T # {}
    PROVE  \E x \in T : \A y \in T : x =< y
<1>1. \E R : IsWellFoundedOn(R, Nat) /\ \A x, y \in Nat : <<y, x>> \in R <=> y < x
  <2>1. IsWellFoundedOn(OpToRel(<, Nat), Nat)
    BY NatLessThanWellFounded
  <2>2. \A x, y \in Nat : <<y, x>> \in OpToRel(<, Nat) <=> y < x
    BY DEF OpToRel
  <2> QED
    BY <2>1, <2>2, Zenon
<1>2. PICK R : IsWellFoundedOn(R, Nat) /\ \A x, y \in Nat : <<y, x>> \in R <=> y < x
  BY <1>1
<1>3. PICK x \in T : \A y \in T : ~(<<y, x>> \in R)
  BY <1>2, WFMin
<1>4. \A y \in T : ~(y < x)
  BY <1>2, <1>3, Zenon
<1>5. \A y \in T : x =< y
  BY <1>4
<1> QED
  BY <1>5

\* The memory before each of the first k records of d, and after the last.
Loads(s, mk, d, k) ==
    s[0] = Empty /\ \A i \in 1..k : s[i] = Remember(mk, s[i - 1], d[i].tx, d[i].blk)

\* The recursive definition of Reload has a solution.
LEMMA ReloadIs ==
    ASSUME NEW mk, NEW d \in Seq(Rec)
    PROVE  \E s : Loads(s, mk, d, Len(d)) /\ Reload(mk, d) = s[Len(d)]
<1>0. Len(d) \in Nat
  BY LenProperties
<1> DEFINE N == Len(d)
           Step1(m, i) == Remember(mk, m, d[i].tx, d[i].blk)
           Bad == {k \in Nat : k =< N /\ ~ \E s : s = [i \in 0..N |-> s[i]] /\ Loads(s, mk, d, k)}
<1>L. ASSUME NEW s, NEW k
      PROVE  Loads(s, mk, d, k) <=> s[0] = Empty /\ \A i \in 1..k : s[i] = Step1(s[i - 1], i)
  BY DEF Loads
<1> HIDE DEF Step1
<1>1. Bad = {}
  <2> SUFFICES ASSUME Bad # {} PROVE FALSE
    OBVIOUS
  <2>1. PICK k \in Bad : \A j \in Bad : k =< j
    <3>1. Bad \in SUBSET Nat
      OBVIOUS
    <3> HIDE DEF Bad
    <3> QED
      BY <3>1, LeastNumber
  <2>2. CASE k = 0
    <3> DEFINE t == [i \in 0..N |-> Empty]
    <3>1. t = [i \in 0..N |-> t[i]] /\ t[0] = Empty /\ \A i \in 1..0 : t[i] = Step1(t[i - 1], i)
      BY <1>0
    <3> HIDE DEF t
    <3> QED
      BY <1>L, <2>1, <2>2, <3>1
  <2>3. CASE k # 0
    <3>1. k - 1 \in Nat /\ k \in 1..N /\ k - 1 \notin Bad
      BY <1>0, <2>1, <2>3
    <3>2. PICK s : s = [i \in 0..N |-> s[i]] /\ Loads(s, mk, d, k - 1)
      BY <1>0, <3>1
    <3>a. s[0] = Empty /\ \A i \in 1..(k - 1) : s[i] = Step1(s[i - 1], i)
      BY <1>L, <3>2
    <3> DEFINE t == [i \in 0..N |-> IF i < k THEN s[i] ELSE Step1(s[k - 1], k)]
    <3>3. t = [i \in 0..N |-> t[i]]
      OBVIOUS
    <3>4. t[0] = Empty
      BY <1>0, <3>1, <3>a
    <3>5. ASSUME NEW i \in 1..k PROVE t[i] = Step1(t[i - 1], i)
      <4>1. i \in 0..N /\ i - 1 \in 0..N /\ i - 1 < k
        BY <1>0, <3>1
      <4>2. t[i - 1] = s[i - 1]
        BY <4>1
      <4>3. CASE i < k
        <5>1. i \in 1..(k - 1) /\ t[i] = s[i]
          BY <3>1, <4>1, <4>3
        <5> QED
          BY <3>a, <4>2, <5>1
      <4>4. CASE i = k
        <5>1. t[i] = Step1(s[k - 1], k)
          BY <3>1, <4>1, <4>4
        <5> QED
          BY <4>2, <4>4, <5>1
      <4> QED
        BY <3>1, <4>3, <4>4
    <3> HIDE DEF t
    <3>6. Loads(t, mk, d, k)
      BY <1>L, <3>4, <3>5
    <3> QED
      BY <2>1, <3>3, <3>6
  <2> QED
    BY <2>2, <2>3
<1>2. \E s : s = [i \in 0..N |-> s[i]] /\ Loads(s, mk, d, N)
  <2>1. N \notin Bad
    BY <1>1
  <2> QED
    BY <1>0, <2>1
<1> DEFINE Eqn(s) == s = [i \in 0..N |-> IF i = 0 THEN Empty ELSE Step1(s[i - 1], i)]
<1>3. \E s : Eqn(s)
  <2>1. PICK s : s = [i \in 0..N |-> s[i]] /\ Loads(s, mk, d, N)
    BY <1>2
  <2>2. \A i \in 0..N : s[i] = IF i = 0 THEN Empty ELSE Step1(s[i - 1], i)
    BY <1>0, <1>L, <2>1
  <2>3. Eqn(s)
    BY <2>1, <2>2
  <2> QED
    BY <2>3
<1>4. Eqn(CHOOSE s : Eqn(s))
  <2> HIDE DEF Eqn
  <2> QED
    BY <1>3
<1>5. Reload(mk, d) = (CHOOSE s : Eqn(s))[N]
  BY DEF Reload, Step1
<1> DEFINE u == CHOOSE s : Eqn(s)
<1>6. Loads(u, mk, d, N)
  <2>1. Eqn(u)
    BY <1>4
  <2> HIDE DEF u
  <2>2. \A i \in 0..N : u[i] = IF i = 0 THEN Empty ELSE Step1(u[i - 1], i)
    BY <2>1
  <2> QED
    BY <1>0, <1>L, <2>2
<1> QED
  BY <1>5, <1>6

\* The records that a memory is built from, and the payments they name, are all
\* that matters.
LEMMA LoadsAgree ==
    ASSUME NEW mk, NEW mk2, NEW d, NEW e, NEW s, NEW r, NEW N \in Nat,
           Loads(s, mk, d, N), Loads(r, mk2, e, N),
           \A i \in 1..N : /\ e[i].tx = d[i].tx /\ e[i].blk = d[i].blk
                           /\ InsOf(mk, d[i].tx) = InsOf(mk2, d[i].tx)
                           /\ PaysOf(mk, d[i].tx) = PaysOf(mk2, d[i].tx)
    PROVE  s[N] = r[N]
<1> DEFINE Bad == {k \in 0..N : s[k] # r[k]}
<1>1. Bad = {}
  <2> SUFFICES ASSUME Bad # {} PROVE FALSE
    OBVIOUS
  <2>1. PICK k \in Bad : \A j \in Bad : k =< j
    <3>1. Bad \in SUBSET Nat
      OBVIOUS
    <3> HIDE DEF Bad
    <3> QED
      BY <3>1, LeastNumber
  <2>2. k # 0
    BY <2>1 DEF Loads
  <2>3. k \in 1..N /\ k - 1 \in 0..N /\ k - 1 \notin Bad
    BY <2>1, <2>2
  <2>4. s[k - 1] = r[k - 1]
    BY <2>3
  <2>5. /\ s[k] = Remember(mk, s[k - 1], d[k].tx, d[k].blk)
        /\ r[k] = Remember(mk2, r[k - 1], d[k].tx, d[k].blk)
    BY <2>3 DEF Loads
  <2>6. ASSUME NEW m, NEW t, NEW b, InsOf(mk, t) = InsOf(mk2, t), PaysOf(mk, t) = PaysOf(mk2, t)
        PROVE  Remember(mk, m, t, b) = Remember(mk2, m, t, b)
    <3>1. Debits(mk, m, t) = Debits(mk2, m, t)
      BY <2>6 DEF Debits
    <3>2. Relevant(mk, m, t) = Relevant(mk2, m, t)
      BY <2>6, <3>1, Zenon DEF Relevant
    <3> QED
      BY <2>6, <3>1, <3>2, Zenon DEF Remember
  <2>7. s[k] = r[k]
    BY <2>3, <2>4, <2>5, <2>6
  <2> QED
    BY <2>1, <2>7
<1>2. N \in 0..N /\ N \notin Bad
  BY <1>1
<1> QED
  BY <1>2

\* No record: an empty memory.
LEMMA ReloadEmpty == ASSUME NEW mk PROVE Reload(mk, <<>>) = Empty
<1>1. <<>> \in Seq(Rec) /\ Len(<<>>) = 0
  BY EmptySeq
<1>2. PICK s : Loads(s, mk, <<>>, Len(<<>>)) /\ Reload(mk, <<>>) = s[Len(<<>>)]
  BY <1>1, ReloadIs
<1> QED
  BY <1>1, <1>2 DEF Loads

\* One more record.
LEMMA ReloadAppend ==
    ASSUME NEW mk, NEW d \in Seq(Rec), NEW x \in Rec
    PROVE  Reload(mk, Append(d, x)) = Remember(mk, Reload(mk, d), x.tx, x.blk)
<1> DEFINE e == Append(d, x)
           N == Len(d)
<1>1. e \in Seq(Rec) /\ Len(e) = N + 1 /\ N \in Nat /\ e[N + 1] = x /\ \A i \in 1..N : e[i] = d[i]
  BY AppendProperties, LenProperties
<1> HIDE DEF e
<1>2. PICK s : Loads(s, mk, d, N) /\ Reload(mk, d) = s[N]
  BY ReloadIs
<1>3. PICK r : Loads(r, mk, e, Len(e)) /\ Reload(mk, e) = r[Len(e)]
  BY <1>1, ReloadIs
<1>4. Loads(r, mk, e, N)
  <2>1. \A i \in 1..N : i \in 1..Len(e)
    BY <1>1
  <2> QED
    BY <1>3, <2>1 DEF Loads
<1>5. s[N] = r[N]
  BY <1>1, <1>2, <1>4, LoadsAgree
<1>6. N + 1 \in 1..Len(e) /\ (N + 1) - 1 = N
  BY <1>1
<1>7. r[N + 1] = Remember(mk, r[N], x.tx, x.blk)
  BY <1>1, <1>3, <1>6 DEF Loads
<1> QED
  BY <1>1, <1>2, <1>3, <1>5, <1>7 DEF e

\* A payment that no record names does not matter.
LEMMA ReloadOther ==
    ASSUME NEW mk, NEW mk2, NEW d \in Seq(Rec),
           \A i \in 1..Len(d) : /\ InsOf(mk, d[i].tx) = InsOf(mk2, d[i].tx)
                                /\ PaysOf(mk, d[i].tx) = PaysOf(mk2, d[i].tx)
    PROVE  Reload(mk2, d) = Reload(mk, d)
<1>1. Len(d) \in Nat
  BY LenProperties
<1>2. PICK s : Loads(s, mk, d, Len(d)) /\ Reload(mk, d) = s[Len(d)]
  BY ReloadIs
<1>3. PICK r : Loads(r, mk2, d, Len(d)) /\ Reload(mk2, d) = r[Len(d)]
  BY ReloadIs
<1>4. s[Len(d)] = r[Len(d)]
  BY <1>1, <1>2, <1>3, LoadsAgree
<1> QED
  BY <1>2, <1>3, <1>4

-----------------------------------------------------------------------------
(* The transaction database: what every memory is like *)

\* The coins are those of the relevant transactions that pay the wallet.
Shaped(mk, m) ==
    /\ m \in MemType
    /\ \A t \in Tx : m.txo[t] # NoCoin <=> (m.tx[t].relevant /\ PaysOf(mk, t) > 0)

LEMMA RememberShaped ==
    ASSUME NEW mk, NEW m, Shaped(mk, m), NEW t \in Tx, NEW b \in Nat
    PROVE  Shaped(mk, Remember(mk, m, t, b))
<1> DEFINE r == Remember(mk, m, t, b)
           D == Debits(mk, m, t)
           P == PaysOf(mk, t) > 0
<1>1. m \in MemType
  BY DEF Shaped
<1>2. /\ r \in MemType
      /\ r.tx[t].relevant <=> Relevant(mk, m, t)
      /\ r.tx[t].blk = b /\ r.tx[t] # Absent
      /\ \A u \in Tx : u # t => r.tx[u] = m.tx[u]
      /\ \A c \in D : r.txo[c].spent /\ r.txo[c] # NoCoin
      /\ t \notin D /\ P => ~r.txo[t].spent /\ r.txo[t] # NoCoin
      /\ \A c \in Tx \ D : c # t \/ ~P => r.txo[c] = m.txo[c]
  <2>1. Entries(m, t, b, Relevant(mk, m, t), D, P, r)
    BY <1>1, RememberFields
  <2> HIDE DEF r, D, P
  <2> QED
    BY <2>1 DEF Entries
<1>3. Relevant(mk, m, t) <=> P \/ D # {}
  BY DEF Relevant
<1>4. \A c \in D : c \in Tx /\ m.txo[c] # NoCoin
  BY DEF Debits, Coins
<1> HIDE DEF r, D
<1>5. ASSUME NEW c \in Tx
      PROVE  r.txo[c] # NoCoin <=> (r.tx[c].relevant /\ PaysOf(mk, c) > 0)
  <2>1. m.txo[c] # NoCoin <=> (m.tx[c].relevant /\ PaysOf(mk, c) > 0)
    BY DEF Shaped
  <2>2. CASE c \in D
    BY <1>2, <1>3, <1>4, <2>1, <2>2
  <2>3. CASE c \notin D
    BY <1>2, <1>3, <2>1, <2>3
  <2> QED
    BY <2>2, <2>3
<1> QED
  BY <1>2, <1>5 DEF Shaped, r

\* Every entry comes from a record.
Origin(d, k, m) ==
    \A t \in Tx : m.tx[t] # Absent => \E i \in 1..k : d[i].tx = t /\ d[i].blk = m.tx[t].blk

LEMMA ReloadShaped ==
    ASSUME NEW mk, NEW d \in Seq(Rec)
    PROVE  Shaped(mk, Reload(mk, d)) /\ Origin(d, Len(d), Reload(mk, d))
<1>1. PICK s : Loads(s, mk, d, Len(d)) /\ Reload(mk, d) = s[Len(d)]
  BY ReloadIs
<1>2. Len(d) \in Nat
  BY LenProperties
<1> DEFINE OK(k) == Shaped(mk, s[k]) /\ Origin(d, k, s[k])
           Bad == {k \in 0..Len(d) : ~OK(k)}
<1>3. Bad = {}
  <2> SUFFICES ASSUME Bad # {} PROVE FALSE
    OBVIOUS
  <2>1. PICK k \in Bad : \A j \in Bad : k =< j
    <3>1. Bad \in SUBSET Nat
      BY <1>2
    <3> HIDE DEF Bad
    <3> QED
      BY <3>1, LeastNumber
  <2>2. CASE k = 0
    <3>1. s[0] = Empty
      BY <1>1 DEF Loads
    <3>2. OK(0)
      BY <3>1, EmptyMem DEF Shaped, Origin
    <3> QED
      BY <2>1, <2>2, <3>2
  <2>3. CASE k # 0
    <3>1. k \in 1..Len(d) /\ k - 1 \in 0..Len(d) /\ k - 1 \notin Bad
      BY <1>2, <2>1, <2>3
    <3>2. OK(k - 1)
      BY <3>1
    <3>3. d[k] \in Rec
      BY <3>1, ElementOfSeq
    <3> DEFINE t == d[k].tx
               b == d[k].blk
    <3>4. t \in Tx /\ b \in Nat
      BY <3>3 DEF Rec
    <3>5. s[k] = Remember(mk, s[k - 1], t, b)
      BY <1>1, <3>1 DEF Loads
    <3>6. Shaped(mk, s[k])
      BY <3>2, <3>4, <3>5, RememberShaped
    <3>7. /\ s[k].tx[t].blk = b
          /\ \A u \in Tx : u # t => s[k].tx[u] = s[k - 1].tx[u]
      <4>1. s[k - 1] \in MemType
        BY <3>2 DEF Shaped
      <4>2. Entries(s[k - 1], t, b, Relevant(mk, s[k - 1], t), Debits(mk, s[k - 1], t),
                    PaysOf(mk, t) > 0, s[k])
        BY <3>4, <3>5, <4>1, RememberFields
      <4> HIDE DEF t, b
      <4> QED
        BY <4>2 DEF Entries
    <3>8. Origin(d, k, s[k])
      <4> SUFFICES ASSUME NEW u \in Tx, s[k].tx[u] # Absent
                   PROVE  \E i \in 1..k : d[i].tx = u /\ d[i].blk = s[k].tx[u].blk
        BY DEF Origin
      <4>1. CASE u = t
        BY <3>1, <3>7, <4>1
      <4>2. CASE u # t
        <5>1. PICK i \in 1..(k - 1) : d[i].tx = u /\ d[i].blk = s[k - 1].tx[u].blk
          BY <3>2, <3>7, <4>2 DEF Origin
        <5>2. i \in 1..k
          BY <3>1
        <5> QED
          BY <3>7, <4>2, <5>1, <5>2
      <4> QED
        BY <4>1, <4>2
    <3> QED
      BY <2>1, <3>6, <3>8
  <2> QED
    BY <2>2, <2>3
<1>4. Len(d) \in 0..Len(d) /\ Len(d) \notin Bad
  BY <1>2, <1>3
<1> QED
  BY <1>1, <1>4

-----------------------------------------------------------------------------
(* The transaction database: memory and disk *)

\* The same transactions are relevant and the same coins are there and spent.
Alike(m, r) ==
    \A t \in Tx : /\ m.tx[t].relevant <=> r.tx[t].relevant
                  /\ m.txo[t] = NoCoin <=> r.txo[t] = NoCoin
                  /\ m.txo[t].spent <=> r.txo[t].spent

SameBlocks(m, r) == \A t \in Tx : m.tx[t].relevant => m.tx[t].blk = r.tx[t].blk

\* What a new run would load from d is the memory m; d has one record of each
\* relevant transaction.
Disk(mk, m, d) ==
    LET R == Reload(mk, d) IN
    /\ Alike(m, R) /\ SameBlocks(m, R)
    /\ \A i, j \in 1..Len(d) : d[i].tx = d[j].tx => i = j
    /\ \A i \in 1..Len(d) : R.tx[d[i].tx].relevant

LEMMA RememberAlike ==
    ASSUME NEW mk, NEW m \in MemType, NEW r \in MemType, Alike(m, r),
           NEW t \in Tx, NEW b \in Nat, NEW c \in Nat
    PROVE  Alike(Remember(mk, m, t, b), Remember(mk, r, t, c))
<1> DEFINE m2 == Remember(mk, m, t, b)
           r2 == Remember(mk, r, t, c)
           D == Debits(mk, m, t)
           P == PaysOf(mk, t) > 0
           L == Relevant(mk, m, t)
<1>1. D = Debits(mk, r, t)
  BY DEF Alike, Debits, Coins
<1>2. L <=> Relevant(mk, r, t)
  BY <1>1 DEF Relevant
<1>3. Entries(m, t, b, L, D, P, m2) /\ Entries(r, t, c, Relevant(mk, r, t), D, P, r2)
  BY <1>1, RememberFields
<1> HIDE DEF m2, r2, D, P, L
<1>4. ASSUME NEW u \in Tx
      PROVE  /\ m2.tx[u].relevant <=> r2.tx[u].relevant
             /\ m2.txo[u] = NoCoin <=> r2.txo[u] = NoCoin
             /\ m2.txo[u].spent <=> r2.txo[u].spent
  <2>1. m2.tx[u].relevant <=> r2.tx[u].relevant
    BY <1>2, <1>3 DEF Entries, Alike
  <2>2. /\ m2.txo[u] = NoCoin <=> r2.txo[u] = NoCoin
        /\ m2.txo[u].spent <=> r2.txo[u].spent
    <3>1. CASE u \in D
      BY <1>3, <3>1 DEF Entries
    <3>2. CASE u \notin D /\ u = t /\ P
      BY <1>3, <3>2 DEF Entries
    <3>3. CASE u \notin D /\ (u # t \/ ~P)
      <4>1. m2.txo[u] = m.txo[u] /\ r2.txo[u] = r.txo[u]
        BY <1>3, <3>3 DEF Entries
      <4> QED
        BY <4>1 DEF Alike
    <3> QED
      BY <3>1, <3>2, <3>3
  <2> QED
    BY <2>1, <2>2
<1>5. Alike(m2, r2)
  BY <1>4 DEF Alike
<1> QED
  BY <1>5 DEF m2, r2

\* Which block a record names does not matter for what is relevant and spent.
LEMMA ReloadAlike ==
    ASSUME NEW mk, NEW d \in Seq(Rec), NEW e \in Seq(Rec), Len(e) = Len(d),
           \A i \in 1..Len(d) : e[i].tx = d[i].tx
    PROVE  Alike(Reload(mk, d), Reload(mk, e))
<1>1. PICK s : Loads(s, mk, d, Len(d)) /\ Reload(mk, d) = s[Len(d)]
  BY ReloadIs
<1>2. PICK r : Loads(r, mk, e, Len(d)) /\ Reload(mk, e) = r[Len(d)]
  BY ReloadIs
<1>3. Len(d) \in Nat
  BY LenProperties
<1> DEFINE OK(k) == s[k] \in MemType /\ r[k] \in MemType /\ Alike(s[k], r[k])
           Bad == {k \in 0..Len(d) : ~OK(k)}
<1>4. Bad = {}
  <2> SUFFICES ASSUME Bad # {} PROVE FALSE
    OBVIOUS
  <2>1. PICK k \in Bad : \A j \in Bad : k =< j
    <3>1. Bad \in SUBSET Nat
      BY <1>3
    <3> HIDE DEF Bad
    <3> QED
      BY <3>1, LeastNumber
  <2>2. CASE k = 0
    <3>1. s[0] = Empty /\ r[0] = Empty
      BY <1>1, <1>2 DEF Loads
    <3>2. OK(0)
      BY <3>1, EmptyMem DEF Alike
    <3> QED
      BY <2>1, <2>2, <3>2
  <2>3. CASE k # 0
    <3>1. k \in 1..Len(d) /\ k - 1 \in 0..Len(d) /\ k - 1 \notin Bad
      BY <1>3, <2>1, <2>3
    <3>2. OK(k - 1)
      BY <3>1
    <3>3. d[k] \in Rec /\ e[k] \in Rec /\ e[k].tx = d[k].tx
      BY <3>1, ElementOfSeq
    <3> DEFINE t == d[k].tx
               b == d[k].blk
               c == e[k].blk
    <3>4. t \in Tx /\ b \in Nat /\ c \in Nat
      BY <3>3 DEF Rec
    <3>5. s[k] = Remember(mk, s[k - 1], t, b) /\ r[k] = Remember(mk, r[k - 1], t, c)
      BY <1>1, <1>2, <3>1, <3>3 DEF Loads
    <3> HIDE DEF t, b, c
    <3>6. Alike(s[k], r[k])
      BY <3>2, <3>4, <3>5, RememberAlike
    <3>7. s[k] \in MemType /\ r[k] \in MemType
      BY <3>2, <3>4, <3>5, RememberType
    <3> QED
      BY <2>1, <3>6, <3>7
  <2> QED
    BY <2>2, <2>3
<1>5. Len(d) \in 0..Len(d) /\ Len(d) \notin Bad
  BY <1>3, <1>4
<1> QED
  BY <1>1, <1>2, <1>5

\* A relevant transaction is on disk, with its block.
LEMMA DiskHas ==
    ASSUME NEW mk, NEW m, NEW d \in Seq(Rec), Disk(mk, m, d)
    PROVE  /\ \A t \in Tx : m.tx[t].relevant =>
                 \E i \in 1..Len(d) : d[i].tx = t /\ d[i].blk = m.tx[t].blk
           /\ \A i \in 1..Len(d) : d[i].tx \in Tx /\ m.tx[d[i].tx].relevant
                                   /\ m.tx[d[i].tx].blk = d[i].blk
<1> DEFINE R == Reload(mk, d)
<1>1. R \in MemType /\ Origin(d, Len(d), R)
  BY ReloadShaped DEF Shaped
<1>2. /\ Alike(m, R) /\ SameBlocks(m, R)
      /\ \A i, j \in 1..Len(d) : d[i].tx = d[j].tx => i = j
      /\ \A i \in 1..Len(d) : R.tx[d[i].tx].relevant
  BY DEF Disk
<1> HIDE DEF R
<1>3. ASSUME NEW t \in Tx, m.tx[t].relevant
      PROVE  \E i \in 1..Len(d) : d[i].tx = t /\ d[i].blk = m.tx[t].blk
  <2>1. R.tx[t].relevant /\ m.tx[t].blk = R.tx[t].blk
    BY <1>2, <1>3 DEF Alike, SameBlocks
  <2>2. R.tx[t] # Absent
    BY <1>1, <2>1, MemFields
  <2> QED
    BY <1>1, <2>1, <2>2 DEF Origin
<1>4. ASSUME NEW i \in 1..Len(d)
      PROVE  d[i].tx \in Tx /\ m.tx[d[i].tx].relevant /\ m.tx[d[i].tx].blk = d[i].blk
  <2> DEFINE t == d[i].tx
  <2>1. t \in Tx
    <3>1. d[i] \in Rec
      BY ElementOfSeq
    <3> QED
      BY <3>1 DEF Rec
  <2>2. m.tx[t].relevant
    BY <1>2, <2>1 DEF Alike
  <2>3. PICK j \in 1..Len(d) : d[j].tx = t /\ d[j].blk = m.tx[t].blk
    BY <1>3, <2>1, <2>2
  <2>4. j = i
    BY <1>2, <2>3
  <2> QED
    BY <2>1, <2>2, <2>3, <2>4
<1> QED
  BY <1>3, <1>4

\* A relevant transaction is learned and written.
LEMMA DiskAppend ==
    ASSUME NEW mk, NEW m, Shaped(mk, m), NEW d \in Seq(Rec), Disk(mk, m, d),
           NEW t \in Tx, NEW b \in Nat, m.tx[t] = Absent, Relevant(mk, m, t)
    PROVE  Disk(mk, Remember(mk, m, t, b), Append(d, Record(t, b)))
<1> DEFINE R == Reload(mk, d)
           m2 == Remember(mk, m, t, b)
           R2 == Remember(mk, R, t, b)
           e == Append(d, Record(t, b))
           N == Len(d)
<1>1. R \in MemType /\ m \in MemType
  BY ReloadShaped DEF Shaped
<1>2. /\ Alike(m, R) /\ SameBlocks(m, R)
      /\ \A i, j \in 1..N : d[i].tx = d[j].tx => i = j
      /\ \A i \in 1..N : R.tx[d[i].tx].relevant
  BY DEF Disk
<1>3. Record(t, b) \in Rec /\ Record(t, b).tx = t /\ Record(t, b).blk = b
  BY DEF Record, Rec
<1>4. Reload(mk, e) = R2
  BY <1>3, ReloadAppend
<1>5. Alike(m2, R2)
  BY <1>1, <1>2, RememberAlike
<1>6. /\ Len(e) = N + 1 /\ N \in Nat /\ e[N + 1] = Record(t, b)
      /\ \A i \in 1..N : e[i] = d[i]
  BY <1>3, AppendProperties, LenProperties
<1>7. /\ Entries(m, t, b, Relevant(mk, m, t), Debits(mk, m, t), PaysOf(mk, t) > 0, m2)
      /\ Entries(R, t, b, Relevant(mk, R, t), Debits(mk, R, t), PaysOf(mk, t) > 0, R2)
  BY <1>1, RememberFields
<1> HIDE DEF R, m2, R2, e, N
<1>8. SameBlocks(m2, R2)
  BY <1>2, <1>7 DEF SameBlocks, Entries
<1>9. \A i \in 1..N : d[i].tx # t
  <2>1. ~m.tx[t].relevant
    BY DEF Absent
  <2>2. ~R.tx[t].relevant
    BY <1>2, <2>1 DEF Alike
  <2> QED
    BY <1>2, <2>2
<1>10. \A i, j \in 1..Len(e) : e[i].tx = e[j].tx => i = j
  <2> SUFFICES ASSUME NEW i \in 1..Len(e), NEW j \in 1..Len(e), e[i].tx = e[j].tx PROVE i = j
    OBVIOUS
  <2>1. (i \in 1..N \/ i = N + 1) /\ (j \in 1..N \/ j = N + 1)
    BY <1>6
  <2> QED
    BY <1>2, <1>3, <1>6, <1>9, <2>1
<1>11. ASSUME NEW i \in 1..Len(e) PROVE R2.tx[e[i].tx].relevant
  <2>1. m2.tx[t].relevant
    BY <1>7 DEF Entries
  <2>2. R2.tx[t].relevant
    BY <1>5, <2>1 DEF Alike
  <2>3. CASE i = N + 1
    BY <1>3, <1>6, <2>2, <2>3
  <2>4. CASE i \in 1..N
    <3>1. e[i] = d[i] /\ d[i].tx # t /\ R.tx[d[i].tx].relevant
      BY <1>2, <1>6, <1>9, <2>4
    <3>2. d[i].tx \in Tx
      <4>1. d[i] \in Rec
        BY <2>4, ElementOfSeq DEF N
      <4> QED
        BY <4>1 DEF Rec
    <3>3. R2.tx[d[i].tx] = R.tx[d[i].tx]
      BY <1>7, <3>1, <3>2 DEF Entries
    <3> QED
      BY <3>1, <3>3
  <2>5. i = N + 1 \/ i \in 1..N
    BY <1>6
  <2> QED
    BY <2>3, <2>4, <2>5
<1>12. Disk(mk, m2, e)
  BY <1>4, <1>5, <1>8, <1>10, <1>11 DEF Disk
<1> QED
  BY <1>12 DEF m2, e

\* A change of memory that leaves the relevant transactions and the coins alone.
LEMMA DiskSame ==
    ASSUME NEW mk, NEW m, NEW r, NEW d, Disk(mk, m, d), Alike(r, m), SameBlocks(r, m)
    PROVE  Disk(mk, r, d)
<1> DEFINE R == Reload(mk, d)
<1>1. /\ Alike(m, R) /\ SameBlocks(m, R)
      /\ \A i, j \in 1..Len(d) : d[i].tx = d[j].tx => i = j
      /\ \A i \in 1..Len(d) : R.tx[d[i].tx].relevant
  BY DEF Disk
<1> HIDE DEF R
<1>2. Alike(r, R)
  BY <1>1 DEF Alike
<1>3. SameBlocks(r, R)
  BY <1>1 DEF Alike, SameBlocks
<1> QED
  BY <1>1, <1>2, <1>3 DEF Disk, R

\* txdb_confirm_one_tx of a pending transaction, in memory.
Confirmed1(m, t, b) == [m EXCEPT !.tx[t].blk = b]

\* Only the block of t changes.
OneBlock(m, t, b, r) ==
    /\ r \in MemType /\ r.txo = m.txo
    /\ \A u \in Tx : u # t => r.tx[u] = m.tx[u]
    /\ r.tx[t].relevant = m.tx[t].relevant /\ r.tx[t].blk = b

LEMMA ConfirmFields ==
    ASSUME NEW m \in MemType, NEW t \in Tx, NEW b \in Nat
    PROVE  OneBlock(m, t, b, Confirmed1(m, t, b))
<1> DEFINE r == Confirmed1(m, t, b)
           x == m.tx[t]
           y == [x EXCEPT !.blk = b]
<1>1. m.tx \in [Tx -> [relevant : BOOLEAN, blk : Int]]
  BY MemFields
<1>2. x \in [relevant : BOOLEAN, blk : Int]
  BY <1>1
<1>3. r.tx = [m.tx EXCEPT ![t] = y] /\ r.txo = m.txo /\ r = [m EXCEPT !.tx = [m.tx EXCEPT ![t] = y]]
  BY <1>1 DEF MemType, Confirmed1
<1> HIDE DEF x
<1>4. y \in [relevant : BOOLEAN, blk : Int] /\ y.relevant = x.relevant /\ y.blk = b
  BY <1>2
<1> HIDE DEF y, r
<1>5. [m.tx EXCEPT ![t] = y] \in [Tx -> [relevant : BOOLEAN, blk : Int]]
  BY <1>1, <1>4
<1>6. r \in MemType
  BY <1>3, <1>5 DEF MemType
<1>7. r.tx[t] = y /\ \A u \in Tx : u # t => r.tx[u] = m.tx[u]
  BY <1>1, <1>3
<1>8. OneBlock(m, t, b, r)
  BY <1>3, <1>4, <1>6, <1>7 DEF x, OneBlock
<1> QED
  BY <1>8 DEF r

\* It is confirmed, and its record rewritten.
LEMMA DiskConfirm ==
    ASSUME NEW mk, NEW m \in MemType, NEW d \in Seq(Rec), Disk(mk, m, d),
           NEW i \in 1..Len(d), NEW b \in Nat
    PROVE  LET e == [d EXCEPT ![i].blk = b] IN
           /\ Disk(mk, Confirmed1(m, d[i].tx, b), e)
           /\ e \in Seq(Rec) /\ Len(e) = Len(d) /\ \A j \in 1..Len(d) : e[j].tx = d[j].tx
<1> DEFINE t == d[i].tx
           x == d[i]
           y == [x EXCEPT !.blk = b]
           e == [d EXCEPT ![i] = y]
           m2 == Confirmed1(m, t, b)
           R == Reload(mk, d)
           R2 == Reload(mk, e)
           N == Len(d)
<1>0. [d EXCEPT ![i].blk = b] = e
  OBVIOUS
<1>1. x \in Rec /\ t \in Tx
  <2>1. x \in Rec
    BY ElementOfSeq
  <2> QED
    BY <2>1 DEF Rec
<1>2. y \in Rec /\ y.tx = t /\ y.blk = b
  BY <1>1 DEF Rec
<1> HIDE DEF y
<1>3. /\ e \in Seq(Rec) /\ Len(e) = N /\ e[i] = y
      /\ \A j \in 1..N : j # i => e[j] = d[j]
  BY <1>2, ExceptSeq
<1>4. \A j \in 1..N : e[j].tx = d[j].tx
  BY <1>2, <1>3
<1> HIDE DEF e
<1>5. Alike(R, R2)
  BY <1>3, <1>4, ReloadAlike
<1>6. /\ Alike(m, R) /\ SameBlocks(m, R)
      /\ \A j, k \in 1..N : d[j].tx = d[k].tx => j = k
      /\ \A j \in 1..N : R.tx[d[j].tx].relevant
  BY DEF Disk
<1>7. /\ \A u \in Tx : u # t => m2.tx[u] = m.tx[u]
      /\ m2.tx[t].relevant = m.tx[t].relevant /\ m2.tx[t].blk = b /\ m2.txo = m.txo
  <2>1. OneBlock(m, t, b, m2)
    BY <1>1, ConfirmFields
  <2> HIDE DEF m2, t
  <2> QED
    BY <2>1 DEF OneBlock
<1>8. /\ \A u \in Tx : m.tx[u].relevant =>
            \E j \in 1..N : d[j].tx = u /\ d[j].blk = m.tx[u].blk
  BY DiskHas
<1>9. R2 \in MemType /\ Origin(e, N, R2)
  BY <1>3, ReloadShaped DEF Shaped
<1> HIDE DEF t, x, m2, R, R2, N
<1>10. Alike(m2, R2)
  BY <1>5, <1>6, <1>7 DEF Alike
<1>11. ASSUME NEW u \in Tx, m2.tx[u].relevant PROVE m2.tx[u].blk = R2.tx[u].blk
  <2>1. R2.tx[u].relevant /\ R2.tx[u] # Absent /\ m.tx[u].relevant
    BY <1>7, <1>9, <1>10, <1>11, MemFields DEF Alike
  <2>2. PICK j \in 1..N : e[j].tx = u /\ e[j].blk = R2.tx[u].blk
    BY <1>9, <2>1 DEF Origin
  <2>3. PICK k \in 1..N : d[k].tx = u /\ d[k].blk = m.tx[u].blk
    BY <1>8, <2>1
  <2>4. j = k
    BY <1>4, <1>6, <2>2, <2>3
  <2>5. CASE j = i
    BY <1>1, <1>2, <1>3, <1>7, <2>2, <2>3, <2>4, <2>5 DEF t, x
  <2>6. CASE j # i
    <3>1. u # t
      BY <1>6, <2>3, <2>4, <2>6 DEF t, N
    <3> QED
      BY <1>3, <1>7, <2>2, <2>3, <2>4, <2>6, <3>1
  <2> QED
    BY <2>5, <2>6
<1>12. SameBlocks(m2, R2)
  BY <1>11 DEF SameBlocks
<1>13. \A j, k \in 1..N : e[j].tx = e[k].tx => j = k
  BY <1>4, <1>6
<1>14. ASSUME NEW j \in 1..N PROVE R2.tx[e[j].tx].relevant
  <2>1. d[j].tx \in Tx
    <3>1. d[j] \in Rec
      BY ElementOfSeq DEF N
    <3> QED
      BY <3>1 DEF Rec
  <2> QED
    BY <1>4, <1>5, <1>6, <2>1 DEF Alike
<1>15. Disk(mk, m2, e)
  BY <1>3, <1>10, <1>12, <1>13, <1>14 DEF Disk, R2
<1> QED
  BY <1>0, <1>3, <1>4, <1>15 DEF m2, t, N

-----------------------------------------------------------------------------
(* The transaction database: the ledger it implements *)

BookOf(m)      == {t \in Tx : m.tx[t].relevant}
ConfirmedOf(m) == {t \in Tx : m.tx[t].relevant /\ m.tx[t].blk # 0}
PayingOf(mk)   == {t \in Tx : PaysOf(mk, t) > 0}

\* Memories that are alike show the same ledger.
LEMMA AlikeLedger ==
    ASSUME NEW m, NEW r, Alike(m, r), SameBlocks(m, r)
    PROVE  BookOf(m) = BookOf(r) /\ ConfirmedOf(m) = ConfirmedOf(r) /\ Unspent(m) = Unspent(r)
<1>1. BookOf(m) = BookOf(r) /\ Unspent(m) = Unspent(r)
  BY DEF Alike, BookOf, Unspent, Coins
<1>2. ConfirmedOf(m) = ConfirmedOf(r)
  BY DEF Alike, SameBlocks, ConfirmedOf
<1> QED
  BY <1>1, <1>2

\* A transaction enters the book of m, which becomes r: Ledger's Learn.
Learned(mk, m, t, b, r) ==
    /\ t \notin BookOf(m)
    /\ t \in PayingOf(mk) \/ InsOf(mk, t) \cap Unspent(m) # {}
    /\ InsOf(mk, t) \cap BookOf(m) \cap PayingOf(mk) \subseteq Unspent(m)
    /\ BookOf(r) = BookOf(m) \union {t}
    /\ Unspent(r) = (Unspent(m) \ InsOf(mk, t)) \union (PayingOf(mk) \cap {t})
    /\ ConfirmedOf(r) \in {ConfirmedOf(m), ConfirmedOf(m) \union {t}}

\* txdb_remember_tx of a transaction that is relevant and spends nothing twice.
LEMMA RememberLearns ==
    ASSUME NEW mk, NEW m, Shaped(mk, m), NEW t \in Tx, NEW b \in Nat, m.tx[t] = Absent,
           Relevant(mk, m, t), ~Respends(mk, m, t)
    PROVE  Learned(mk, m, t, b, Remember(mk, m, t, b))
<1> DEFINE r == Remember(mk, m, t, b)
           D == Debits(mk, m, t)
           P == PaysOf(mk, t) > 0
<1>1. m \in MemType /\ ~m.tx[t].relevant
  BY DEF Shaped, Absent
<1>2. Entries(m, t, b, Relevant(mk, m, t), D, P, r)
  BY <1>1, RememberFields
<1>3. D = InsOf(mk, t) \cap Coins(m) /\ (P \/ D # {}) /\ \A c \in D : ~m.txo[c].spent
  BY DEF Debits, Relevant, Respends
<1>4. t \notin Coins(m)
  BY <1>1 DEF Shaped, Coins
<1>5. t \notin D /\ D \subseteq Tx /\ Coins(m) \subseteq Tx
  BY <1>3, <1>4 DEF Coins
<1> HIDE DEF r, D, P
<1>6. BookOf(r) = BookOf(m) \union {t} /\ t \notin BookOf(m)
  BY <1>1, <1>2 DEF BookOf, Entries
<1>7. ConfirmedOf(r) \in {ConfirmedOf(m), ConfirmedOf(m) \union {t}}
  <2>1. CASE b = 0
    <3>1. ConfirmedOf(r) = ConfirmedOf(m)
      BY <1>1, <1>2, <2>1 DEF ConfirmedOf, Entries
    <3> QED
      BY <3>1
  <2>2. CASE b # 0
    <3>1. ConfirmedOf(r) = ConfirmedOf(m) \union {t}
      BY <1>1, <1>2, <2>2 DEF ConfirmedOf, Entries
    <3> QED
      BY <3>1
  <2> QED
    BY <2>1, <2>2
<1>8. t \in PayingOf(mk) \/ InsOf(mk, t) \cap Unspent(m) # {}
  BY <1>3 DEF PayingOf, Unspent, P
<1>9. InsOf(mk, t) \cap BookOf(m) \cap PayingOf(mk) \subseteq Unspent(m)
  <2> SUFFICES ASSUME NEW c \in InsOf(mk, t) \cap BookOf(m) \cap PayingOf(mk)
               PROVE  c \in Unspent(m)
    OBVIOUS
  <2>1. c \in Coins(m)
    BY DEF BookOf, PayingOf, Shaped, Coins
  <2> QED
    BY <1>3, <2>1 DEF Unspent
<1>10. Unspent(r) = (Unspent(m) \ InsOf(mk, t)) \union (PayingOf(mk) \cap {t})
  <2>1. ASSUME NEW c \in Tx
        PROVE  c \in Unspent(r) <=>
                 (c \in Unspent(m) /\ c \notin InsOf(mk, t)) \/ (c = t /\ P)
    <3>1. c \in Unspent(r) <=> r.txo[c] # NoCoin /\ ~r.txo[c].spent
      BY DEF Unspent, Coins
    <3>2. c \in Unspent(m) <=> m.txo[c] # NoCoin /\ ~m.txo[c].spent
      BY DEF Unspent, Coins
    <3>3. c \in D <=> c \in InsOf(mk, t) /\ m.txo[c] # NoCoin
      BY <1>3 DEF Coins
    <3>4. CASE c \in D
      BY <1>2, <1>5, <3>1, <3>3, <3>4 DEF Entries
    <3>5. CASE c \notin D /\ c = t /\ P
      BY <1>2, <3>1, <3>5 DEF Entries
    <3>6. CASE c \notin D /\ (c # t \/ ~P)
      <4>1. r.txo[c] = m.txo[c]
        BY <1>2, <3>6 DEF Entries
      <4> QED
        BY <3>1, <3>2, <3>3, <3>6, <4>1
    <3> QED
      BY <3>4, <3>5, <3>6
  <2>2. Unspent(r) \subseteq Tx /\ Unspent(m) \subseteq Tx
    BY DEF Unspent, Coins
  <2>3. t \in PayingOf(mk) <=> P
    BY DEF PayingOf, P
  <2> QED
    BY <2>1, <2>2, <2>3
<1>11. Learned(mk, m, t, b, r)
  BY <1>6, <1>7, <1>8, <1>9, <1>10 DEF Learned
<1> QED
  BY <1>11 DEF r

\* One that does not concern the wallet changes nothing the ledger shows.
LEMMA RememberIgnores ==
    ASSUME NEW mk, NEW m, Shaped(mk, m), NEW t \in Tx, NEW b \in Nat, m.tx[t] = Absent,
           ~Relevant(mk, m, t)
    PROVE  Alike(Remember(mk, m, t, b), m) /\ SameBlocks(Remember(mk, m, t, b), m)
<1> DEFINE r == Remember(mk, m, t, b)
           D == Debits(mk, m, t)
           P == PaysOf(mk, t) > 0
           L == Relevant(mk, m, t)
<1>1. m \in MemType /\ ~m.tx[t].relevant
  BY DEF Shaped, Absent
<1>2. Entries(m, t, b, L, D, P, r)
  BY <1>1, RememberFields
<1>3. D = {} /\ ~P /\ ~L
  BY DEF Relevant
<1> HIDE DEF r, D, P, L
<1>4. \A u \in Tx : r.txo[u] = m.txo[u]
  BY <1>2, <1>3 DEF Entries
<1>5. \A u \in Tx : u # t => r.tx[u] = m.tx[u]
  BY <1>2 DEF Entries
<1>6. ~r.tx[t].relevant
  BY <1>2, <1>3 DEF Entries
<1>7. Alike(r, m)
  BY <1>1, <1>4, <1>5, <1>6 DEF Alike
<1>8. SameBlocks(r, m)
  BY <1>1, <1>5, <1>6 DEF SameBlocks
<1> QED
  BY <1>7, <1>8 DEF r

\* The sum over no coin is 0.
LEMMA NothingIsWorthless == Worth({}) = 0
<1> DEFINE Eqn(g) == g = [s \in SUBSET {} |->
                 IF s = {} THEN 0
                 ELSE PaysOf(made, CHOOSE x \in s : TRUE) + g[s \ {CHOOSE x \in s : TRUE}]]
<1>1. \E g : Eqn(g)
  <2> DEFINE h == [s \in SUBSET {} |-> 0]
  <2>1. \A s \in SUBSET {} : s = {}
    OBVIOUS
  <2>2. Eqn(h)
    BY <2>1
  <2> HIDE DEF h
  <2> QED
    BY <2>2
<1>2. Eqn(CHOOSE g : Eqn(g))
  <2> HIDE DEF Eqn
  <2> QED
    BY <1>1
<1>3. Worth({}) = (CHOOSE g : Eqn(g))[{}]
  BY DEF Worth, MapThenSumSet, MapThenFoldSet
<1> DEFINE u == CHOOSE g : Eqn(g)
<1>4. u = [s \in SUBSET {} |-> IF s = {} THEN 0
             ELSE PaysOf(made, CHOOSE x \in s : TRUE) + u[s \ {CHOOSE x \in s : TRUE}]]
  BY <1>2
<1> HIDE DEF u
<1>5. {} \in SUBSET {}
  OBVIOUS
<1>6. u[{}] = 0
  BY <1>4, <1>5
<1> QED
  BY <1>3, <1>6 DEF u

Intact    == budget.fails = MaxFails
Stored(d) == {r.tx : r \in ToSet(d)}

\* A step of the ledger, or none.
LedgerStep == [AbstractLedger!Next]_(AbstractLedger!vars)

\* Nothing the ledger shows changes.
LEMMA StutterStep ==
    ASSUME made' = made, BookOf(mem') = BookOf(mem), ConfirmedOf(mem') = ConfirmedOf(mem),
           Unspent(mem') = Unspent(mem), Stored(db') = Stored(db), Intact' <=> Intact
    PROVE  LedgerStep
<1>1. /\ [t \in Tx |-> InsOf(made, t)]' = [t \in Tx |-> InsOf(made, t)]
      /\ {t \in Tx : PaysOf(made, t) > 0}' = {t \in Tx : PaysOf(made, t) > 0}
  BY DEF InsOf, PaysOf
<1>2. /\ {t \in Tx : mem.tx[t].relevant}' = {t \in Tx : mem.tx[t].relevant}
      /\ {t \in Tx : mem.tx[t].relevant /\ mem.tx[t].blk # 0}'
           = {t \in Tx : mem.tx[t].relevant /\ mem.tx[t].blk # 0}
  BY DEF BookOf, ConfirmedOf
<1>3. Unspent(mem)' = Unspent(mem)
  BY DEF Unspent, Coins
<1>4. {r.tx : r \in ToSet(db)}' = {r.tx : r \in ToSet(db)}
  BY DEF Stored, ToSet
<1>5. (budget.fails = MaxFails)' = (budget.fails = MaxFails)
  BY DEF Intact
<1> QED
  BY <1>1, <1>2, <1>3, <1>4, <1>5, Zenon DEF LedgerStep, AbstractLedger!vars

\* Memory is rebuilt from the disk after a failed write.
LEMMA RestartStep ==
    ASSUME made' = made, Stored(db') = Stored(db), ~Intact', BookOf(mem') \subseteq Stored(db),
           Unspent(mem') \subseteq BookOf(mem') \cap PayingOf(made)
    PROVE  LedgerStep
<1>1. /\ [t \in Tx |-> InsOf(made, t)]' = [t \in Tx |-> InsOf(made, t)]
      /\ {t \in Tx : PaysOf(made, t) > 0}' = {t \in Tx : PaysOf(made, t) > 0}
  BY DEF InsOf, PaysOf
<1>2. {r.tx : r \in ToSet(db)}' = {r.tx : r \in ToSet(db)}
  BY DEF Stored, ToSet
<1>3. (budget.fails = MaxFails)' = FALSE
  BY DEF Intact
<1>4. {t \in Tx : mem.tx[t].relevant}' \subseteq {r.tx : r \in ToSet(db)}
  BY DEF BookOf, Stored
<1>5. {t \in Tx : mem.tx[t].relevant /\ mem.tx[t].blk # 0}' \subseteq {t \in Tx : mem.tx[t].relevant}'
  OBVIOUS
<1>6. Unspent(mem)' \subseteq {t \in Tx : mem.tx[t].relevant}' \cap {t \in Tx : PaysOf(made, t) > 0}
  BY DEF Unspent, Coins, BookOf, PayingOf
<1>7. AbstractLedger!Restart
  BY <1>1, <1>2, <1>3, <1>4, <1>5, <1>6, Zenon DEF AbstractLedger!Restart
<1> QED
  BY <1>7 DEF LedgerStep, AbstractLedger!Next

\* The write of what the disk then holds.
WriteStep(now) == \/ Stored(db') = now /\ (Intact' <=> Intact)
                  \/ Stored(db') = Stored(db) /\ ~Intact'

\* A pending transaction is seen in a block.
LEMMA ConfirmStep ==
    ASSUME made' = made, NEW t \in BookOf(mem) \ ConfirmedOf(mem), BookOf(mem') = BookOf(mem),
           ConfirmedOf(mem') = ConfirmedOf(mem) \union {t}, Unspent(mem') = Unspent(mem),
           WriteStep(Stored(db))
    PROVE  LedgerStep
<1>1. /\ [u \in Tx |-> InsOf(made, u)]' = [u \in Tx |-> InsOf(made, u)]
      /\ {u \in Tx : PaysOf(made, u) > 0}' = {u \in Tx : PaysOf(made, u) > 0}
  BY DEF InsOf, PaysOf
<1>2. /\ {u \in Tx : mem.tx[u].relevant}' = {u \in Tx : mem.tx[u].relevant}
      /\ {u \in Tx : mem.tx[u].relevant /\ mem.tx[u].blk # 0}'
           = {u \in Tx : mem.tx[u].relevant /\ mem.tx[u].blk # 0} \union {t}
      /\ t \in {u \in Tx : mem.tx[u].relevant} \ {u \in Tx : mem.tx[u].relevant /\ mem.tx[u].blk # 0}
  BY DEF BookOf, ConfirmedOf
<1>3. Unspent(mem)' = Unspent(mem)
  BY DEF Unspent, Coins
<1>4. AbstractLedger!Written({r.tx : r \in ToSet(db)})
  <2>1. {r.tx : r \in ToSet(db)}' = Stored(db') /\ {r.tx : r \in ToSet(db)} = Stored(db)
    BY DEF Stored, ToSet
  <2> QED
    BY <2>1, Zenon DEF AbstractLedger!Written, WriteStep, Intact
<1>5. AbstractLedger!Confirm(t)
  BY <1>1, <1>2, <1>3, <1>4, Zenon DEF AbstractLedger!Confirm
<1>6. t \in Tx
  BY DEF BookOf
<1> QED
  BY <1>5, <1>6 DEF LedgerStep, AbstractLedger!Next

\* -z
LEMMA ZapStep ==
    ASSUME made' = made, Stored(db') = {}, BookOf(mem') = {}, ConfirmedOf(mem') = {},
           Unspent(mem') = {}, Intact' <=> Intact
    PROVE  LedgerStep
<1>1. /\ [u \in Tx |-> InsOf(made, u)]' = [u \in Tx |-> InsOf(made, u)]
      /\ {u \in Tx : PaysOf(made, u) > 0}' = {u \in Tx : PaysOf(made, u) > 0}
  BY DEF InsOf, PaysOf
<1>2. /\ {u \in Tx : mem.tx[u].relevant}' = {}
      /\ {u \in Tx : mem.tx[u].relevant /\ mem.tx[u].blk # 0}' = {}
  BY DEF BookOf, ConfirmedOf
<1>3. Unspent(mem)' = {}
  BY DEF Unspent, Coins
<1>4. {r.tx : r \in ToSet(db)}' = {}
  BY DEF Stored, ToSet
<1>5. (budget.fails = MaxFails)' = (budget.fails = MaxFails)
  BY DEF Intact
<1>6. AbstractLedger!Zap
  BY <1>1, <1>2, <1>3, <1>4, <1>5, Zenon DEF AbstractLedger!Zap
<1> QED
  BY <1>6 DEF LedgerStep, AbstractLedger!Next

\* A transaction enters the book; if it is a payment, it is made in the same step.
LEMMA LearnStep ==
    ASSUME NEW t \in Tx, NEW b, Learned(made', mem, t, b, mem'),
           \A u \in Tx \ {t} : InsOf(made', u) = InsOf(made, u) /\ PaysOf(made', u) = PaysOf(made, u),
           WriteStep(Stored(db) \union {t})
    PROVE  LedgerStep
<1> DEFINE book == {u \in Tx : mem.tx[u].relevant}
           conf == {u \in Tx : mem.tx[u].relevant /\ mem.tx[u].blk # 0}
           pays == {u \in Tx : PaysOf(made, u) > 0}
           spends == [u \in Tx |-> InsOf(made, u)]
           store == {r.tx : r \in ToSet(db)}
<1>1. /\ spends' = [u \in Tx |-> InsOf(made', u)] /\ pays' = PayingOf(made')
      /\ pays = PayingOf(made)
      /\ book = BookOf(mem) /\ book' = BookOf(mem')
      /\ conf = ConfirmedOf(mem) /\ conf' = ConfirmedOf(mem')
      /\ Unspent(mem)' = Unspent(mem') /\ store = Stored(db)
  BY DEF InsOf, PaysOf, BookOf, ConfirmedOf, Unspent, Coins, PayingOf, Stored
<1>2. spends'[t] = InsOf(made', t) /\ \A u \in Tx : spends'[u] = InsOf(made', u) /\ spends[u] = InsOf(made, u)
  BY <1>1
<1>3. AbstractLedger!Written(store \union {t})
  <2>1. store' = Stored(db')
    BY DEF Stored, ToSet
  <2> QED
    BY <1>1, <2>1, Zenon DEF AbstractLedger!Written, WriteStep, Intact
<1> HIDE DEF book, conf, pays, spends, store
<1>4. \A u \in Tx \ {t} : spends'[u] = spends[u] /\ (u \in pays' <=> u \in pays)
  <2>1. \A u \in Tx \ {t} : u \in PayingOf(made') <=> u \in PayingOf(made)
    BY DEF PayingOf
  <2> QED
    BY <1>1, <1>2, <2>1
<1>5. t \notin book /\ book' = book \union {t} /\ conf' \in {conf, conf \union {t}}
  BY <1>1 DEF Learned
<1>6. t \in pays' \/ spends'[t] \cap Unspent(mem) # {}
  BY <1>1, <1>2 DEF Learned
<1>7. spends'[t] \cap book \cap pays \subseteq Unspent(mem)
  <2> SUFFICES ASSUME NEW c \in spends'[t] \cap book \cap pays PROVE c \in Unspent(mem)
    OBVIOUS
  <2>1. c \in InsOf(made', t) \cap BookOf(mem) /\ c # t /\ c \in Tx
    BY <1>1, <1>2, <1>5 DEF BookOf
  <2>2. c \in PayingOf(made')
    BY <1>1, <1>4, <2>1
  <2> QED
    BY <2>1, <2>2 DEF Learned
<1>8. Unspent(mem)' = (Unspent(mem) \ spends'[t]) \union (pays' \cap {t})
  BY <1>1, <1>2 DEF Learned
<1>9. AbstractLedger!Learn(t)
  BY <1>3, <1>4, <1>5, <1>6, <1>7, <1>8, Zenon
     DEF AbstractLedger!Learn, book, conf, pays, spends, store
<1> QED
  BY <1>9 DEF LedgerStep, AbstractLedger!Next

-----------------------------------------------------------------------------
(* The transaction database: the steps *)

BudgetOK == budget \in [stops : 0 .. MaxStops, fails : 0 .. MaxFails]

TxInv ==
    /\ made = [o \in OwnTx |-> made[o]] /\ db \in Seq(Rec) /\ bcast \subseteq Tx /\ BudgetOK
    /\ Shaped(made, mem)
    /\ \A o \in OwnTx : made[o] = Unused => mem.tx[o] = Absent
    /\ \A i \in 1..Len(db) : db[i].tx \in OwnTx => made[db[i].tx] # Unused
    /\ mode = "down" => mem = Reload(made, db) /\ bcast = {}
    /\ Intact => /\ Disk(made, mem, db)
                 /\ \A t \in bcast : mem.tx[t].relevant /\ mem.tx[t].blk = 0

\* The first part of RelayedUntilConfirmed.
Relays ==
    \A o \in OwnTx :
        Pending(o)' /\ (o \in bcast \/ mode = "down" \/ made'[o] # made[o]) => o \in bcast'

TxStep == TxInv' /\ LedgerStep /\ Relays

\* What is on disk.
LEMMA StoredIs ==
    ASSUME NEW d \in Seq(Rec)
    PROVE  /\ Stored(d) = {d[i].tx : i \in 1..Len(d)}
           /\ \A x \in Rec : Stored(Append(d, x)) = Stored(d) \union {x.tx}
<1>1. ASSUME NEW e \in Seq(Rec) PROVE Stored(e) = {e[i].tx : i \in 1..Len(e)}
  <2>1. DOMAIN e = 1..Len(e)
    BY LenProperties
  <2> QED
    BY <2>1 DEF Stored, ToSet
<1>2. ASSUME NEW x \in Rec PROVE Stored(Append(d, x)) = Stored(d) \union {x.tx}
  <2> DEFINE e == Append(d, x)
             N == Len(d)
  <2>1. e \in Seq(Rec) /\ Len(e) = N + 1 /\ N \in Nat /\ e[N + 1] = x /\ \A i \in 1..N : e[i] = d[i]
    BY AppendProperties, LenProperties
  <2> HIDE DEF e
  <2>2. Stored(e) = {e[i].tx : i \in 1..(N + 1)}
    BY <1>1, <2>1
  <2>3. \A i : i \in 1..(N + 1) <=> i \in 1..N \/ i = N + 1
    BY <2>1
  <2>4. {e[i].tx : i \in 1..(N + 1)} = {d[i].tx : i \in 1..N} \union {x.tx}
    BY <2>1, <2>3
  <2> QED
    BY <1>1, <2>2, <2>4 DEF e
<1> QED
  BY <1>1, <1>2

\* What a new run would load.
LEMMA ReloadFacts ==
    ASSUME TxInv
    PROVE  LET R == Reload(made, db) IN
           /\ Shaped(made, R) /\ BookOf(R) \subseteq Stored(db)
           /\ Unspent(R) \subseteq BookOf(R) \cap PayingOf(made)
           /\ \A o \in OwnTx : made[o] = Unused => R.tx[o] = Absent
           /\ \A t \in Tx : R.tx[t] # Absent =>
                 \E i \in 1..Len(db) : db[i].tx = t /\ db[i].blk = R.tx[t].blk
           /\ Intact => Disk(made, R, db)
<1> DEFINE R == Reload(made, db)
<1>1. db \in Seq(Rec)
  BY DEF TxInv
<1>2. Shaped(made, R) /\ Origin(db, Len(db), R)
  BY <1>1, ReloadShaped
<1>3. Intact => Disk(made, R, db)
  <2>1. Alike(R, R) /\ SameBlocks(R, R)
    BY DEF Alike, SameBlocks
  <2> QED
    BY <2>1 DEF TxInv, Disk
<1> HIDE DEF R
<1>4. \A t \in Tx : R.tx[t] # Absent =>
         \E i \in 1..Len(db) : db[i].tx = t /\ db[i].blk = R.tx[t].blk
  BY <1>2 DEF Origin
<1>5. \A o \in OwnTx : made[o] = Unused => R.tx[o] = Absent
  BY <1>4 DEF TxInv, Tx
<1>6. BookOf(R) \subseteq Stored(db)
  <2>1. \A t \in BookOf(R) : t \in Tx /\ R.tx[t] # Absent
    BY DEF BookOf, Absent
  <2> QED
    BY <1>1, <1>4, <2>1, StoredIs
<1>7. Unspent(R) \subseteq BookOf(R) \cap PayingOf(made)
  BY <1>2 DEF Unspent, Coins, BookOf, PayingOf, Shaped
<1> QED
  BY <1>2, <1>3, <1>4, <1>5, <1>6, <1>7 DEF R

\* The process is gone.
LEMMA GoneStep ==
    ASSUME TxInv, Gone, made' = made, db' = db, BudgetOK', Intact' => Intact
    PROVE  TxStep
<1> DEFINE R == Reload(made, db)
<1>1. /\ Shaped(made, R) /\ BookOf(R) \subseteq Stored(db)
      /\ Unspent(R) \subseteq BookOf(R) \cap PayingOf(made)
      /\ \A o \in OwnTx : made[o] = Unused => R.tx[o] = Absent
      /\ Intact => Disk(made, R, db)
  BY ReloadFacts
<1>2. mem' = R /\ mode' = "down" /\ bcast' = {}
  BY DEF Gone
<1>3. Reload(made', db') = R
  OBVIOUS
<1> HIDE DEF R
<1>4. TxInv'
  <2>1. /\ made' = [o \in OwnTx |-> made'[o]] /\ db' \in Seq(Rec) /\ bcast' \subseteq Tx
        /\ \A i \in 1..Len(db') : db'[i].tx \in OwnTx => made'[db'[i].tx] # Unused
    BY <1>2 DEF TxInv
  <2>2. Shaped(made', mem') /\ \A o \in OwnTx : made'[o] = Unused => mem'.tx[o] = Absent
    BY <1>1, <1>2
  <2>3. Intact' => Disk(made', mem', db')
    BY <1>1, <1>2
  <2> QED
    BY <1>2, <1>3, <2>1, <2>2, <2>3 DEF TxInv
<1>5. LedgerStep
  <2>1. CASE Intact'
    <3>1. Disk(made, mem, db)
      BY <2>1 DEF TxInv
    <3>2. Alike(mem, R) /\ SameBlocks(mem, R)
      BY <3>1 DEF Disk, R
    <3> QED
      BY <1>2, <2>1, <3>2, AlikeLedger, StutterStep
  <2>2. CASE ~Intact'
    BY <1>1, <1>2, <2>2, RestartStep
  <2> QED
    BY <2>1, <2>2
<1>6. Relays
  BY <1>2 DEF Relays, Pending
<1> QED
  BY <1>4, <1>5, <1>6 DEF TxStep

LEMMA PanicStep == ASSUME TxInv, NEW why, Panic(why) PROVE TxStep
<1>1. Gone /\ made' = made /\ db' = db /\ budget' = budget
  BY DEF Panic
<1>2. BudgetOK' /\ (Intact' => Intact)
  BY <1>1 DEF TxInv, BudgetOK, Intact
<1> QED
  BY <1>1, <1>2, GoneStep

LEMMA StopStep == ASSUME TxInv, Stop PROVE TxStep
<1>1. Gone /\ made' = made /\ db' = db /\ budget' = [budget EXCEPT !.stops = @ - 1] /\ budget.stops > 0
  BY DEF Stop
<1>2. budget \in [stops : 0 .. MaxStops, fails : 0 .. MaxFails]
  BY DEF TxInv, BudgetOK
<1>3. budget.stops - 1 \in 0 .. MaxStops /\ budget.fails \in 0 .. MaxFails
  <2>1. budget.stops \in 0 .. MaxStops /\ budget.fails \in 0 .. MaxFails
    BY <1>2
  <2> QED
    BY <1>1, <2>1, TxDbAssumption
<1>4. budget' = [stops |-> budget.stops - 1, fails |-> budget.fails]
  BY <1>1, <1>2
<1>5. BudgetOK' /\ (Intact' => Intact)
  BY <1>3, <1>4 DEF BudgetOK, Intact
<1> QED
  BY <1>1, <1>5, GoneStep

LEMMA SyncedStep == ASSUME TxInv, Synced PROVE TxStep
<1>1. /\ mode = "syncing" /\ mode' = "ready" /\ made' = made /\ db' = db /\ mem' = mem
      /\ bcast' = bcast /\ budget' = budget
  BY DEF Synced
<1>2. Intact' <=> Intact
  BY <1>1 DEF Intact
<1>3. TxInv'
  BY <1>1 DEF TxInv, BudgetOK, Intact
<1>4. LedgerStep
  BY <1>1, <1>2, StutterStep
<1>5. Relays
  BY <1>1 DEF Relays
<1> QED
  BY <1>3, <1>4, <1>5 DEF TxStep

LEMMA ZapTxStep == ASSUME TxInv, Zap PROVE TxStep
<1>1. /\ mode = "down" /\ mode' = "down" /\ made' = made /\ db' = <<>> /\ mem' = Empty
      /\ bcast' = bcast /\ budget' = budget
  BY DEF Zap
<1>2. Intact' <=> Intact
  BY <1>1 DEF Intact
<1>3. <<>> \in Seq(Rec) /\ Len(<<>>) = 0 /\ Reload(made, <<>>) = Empty
  BY EmptySeq, ReloadEmpty
<1>4. Shaped(made, Empty)
  BY EmptyMem DEF Shaped
<1>5. Disk(made, Empty, <<>>)
  <2>1. Alike(Empty, Empty) /\ SameBlocks(Empty, Empty)
    BY DEF Alike, SameBlocks
  <2> QED
    BY <1>3, <2>1 DEF Disk
<1>6. \A o \in OwnTx : Empty.tx[o] = Absent
  BY EmptyMem DEF Tx
<1>7. bcast = {}
  BY <1>1 DEF TxInv
<1>8. TxInv'
  BY <1>1, <1>3, <1>4, <1>5, <1>6, <1>7 DEF TxInv, BudgetOK
<1>9. BookOf(Empty) = {} /\ ConfirmedOf(Empty) = {} /\ Unspent(Empty) = {} /\ Stored(<<>>) = {}
  <2>1. Stored(<<>>) = {}
    <3> DEFINE e == <<>>
    <3>1. e \in Seq(Rec) /\ DOMAIN e = {}
      BY <1>3
    <3> HIDE DEF e
    <3>2. Stored(e) = {}
      BY <3>1 DEF Stored, ToSet
    <3> QED
      BY <3>2 DEF e
  <2> QED
    BY <2>1, EmptyMem DEF BookOf, ConfirmedOf, Unspent, Coins
<1>10. LedgerStep
  BY <1>1, <1>2, <1>9, ZapStep
<1>11. Relays
  BY <1>1 DEF Relays, Pending
<1> QED
  BY <1>8, <1>10, <1>11 DEF TxStep

\* txdb_open: what is pending on disk is what is relayed.
LEMMA StartStep == ASSUME TxInv, Start PROVE TxStep
<1> DEFINE R == Reload(made, db)
<1>1. /\ mode = "down" /\ made' = made /\ db' = db /\ budget' = budget /\ mem = R /\ bcast = {}
  BY DEF Start, TxInv
<1>2. Intact' <=> Intact
  BY <1>1 DEF Intact
<1>3. \/ mode' = "down" /\ mem' = mem /\ bcast' = bcast
      \/ /\ mode' = "syncing" /\ mem' = R
         /\ bcast' = {r.tx : r \in {q \in ToSet(db) : q.blk = 0}}
  BY <1>1 DEF Start
<1>4. mem' = mem
  BY <1>1, <1>3
<1>5. LedgerStep
  BY <1>1, <1>2, <1>4, StutterStep
<1>6. CASE mode' = "down" /\ bcast' = bcast
  <2>1. TxInv'
    BY <1>1, <1>4, <1>6 DEF TxInv, BudgetOK, Intact
  <2>2. Relays
    BY <1>6 DEF Relays, Pending
  <2> QED
    BY <1>5, <2>1, <2>2 DEF TxStep
<1>7. CASE /\ mode' = "syncing"
           /\ bcast' = {r.tx : r \in {q \in ToSet(db) : q.blk = 0}}
  <2>1. db \in Seq(Rec) /\ DOMAIN db = 1..Len(db)
    BY LenProperties DEF TxInv
  <2>2. \A t : t \in bcast' <=> \E i \in 1..Len(db) : db[i].tx = t /\ db[i].blk = 0
    BY <1>7, <2>1 DEF ToSet
  <2>3. \A i \in 1..Len(db) : db[i].tx \in Tx
    <3>1. \A i \in 1..Len(db) : db[i] \in Rec
      BY <2>1, ElementOfSeq
    <3> QED
      BY <3>1 DEF Rec
  <2>4. bcast' \subseteq Tx
    BY <2>2, <2>3
  <2>5. ASSUME Intact, NEW t \in bcast' PROVE mem'.tx[t].relevant /\ mem'.tx[t].blk = 0
    <3>1. Disk(made, mem, db)
      BY <2>5 DEF TxInv
    <3> QED
      BY <1>4, <2>1, <2>2, <3>1, DiskHas
  <2>6. TxInv'
    BY <1>1, <1>2, <1>4, <1>7, <2>4, <2>5 DEF TxInv, BudgetOK
  <2>7. Relays
    <3> SUFFICES ASSUME NEW o \in OwnTx, Pending(o)' PROVE o \in bcast'
      BY DEF Relays
    <3>1. o \in Tx /\ mem.tx[o].relevant /\ mem.tx[o].blk = 0
      BY <1>4 DEF Pending, Tx
    <3>2. mem.tx[o] # Absent
      BY <3>1 DEF Absent
    <3>3. PICK i \in 1..Len(db) : db[i].tx = o /\ db[i].blk = mem.tx[o].blk
      BY <1>1, <3>1, <3>2, ReloadFacts
    <3> QED
      BY <2>2, <3>1, <3>3
  <2> QED
    BY <1>5, <2>6, <2>7 DEF TxStep
<1> QED
  BY <1>3, <1>6, <1>7

\* A write that works is noticed, one that fails is the end of Intact.
LEMMA WriteFacts ==
    ASSUME TxInv, NEW d, Write(d)
    PROVE  /\ BudgetOK'
           /\ \/ db' = d /\ (Intact' <=> Intact)
              \/ db' = db /\ ~Intact'
<1>1. CASE db' = d /\ budget' = budget
  BY <1>1 DEF TxInv, BudgetOK, Intact
<1>2. CASE /\ budget.fails > 0 /\ budget' = [budget EXCEPT !.fails = @ - 1] /\ db' = db
  <2>1. budget.fails \in 0 .. MaxFails /\ budget'.fails = budget.fails - 1 /\ BudgetOK'
    <3>1. budget \in [stops : 0 .. MaxStops, fails : 0 .. MaxFails]
      BY DEF TxInv, BudgetOK
    <3>2. budget.stops \in 0 .. MaxStops /\ budget.fails \in 0 .. MaxFails
      BY <3>1
    <3>3. budget.fails - 1 \in 0 .. MaxFails
      BY <1>2, <3>2, TxDbAssumption
    <3>4. budget' = [stops |-> budget.stops, fails |-> budget.fails - 1]
      BY <1>2, <3>1
    <3>5. BudgetOK'
      BY <3>2, <3>3, <3>4 DEF BudgetOK
    <3> QED
      BY <3>2, <3>4, <3>5
  <2>2. ~Intact'
    BY <2>1, TxDbAssumption DEF Intact
  <2> QED
    BY <1>2, <2>1, <2>2
<1> QED
  BY <1>1, <1>2 DEF Write

\* A transaction that memory does not know arrives, in block b or alone.
LEMMA LearnTxStep ==
    ASSUME TxInv, NEW t \in Tx, NEW b \in Nat, Seen(t), mode # "down", mem.tx[t] = Absent,
           Learn(t, b)
    PROVE  TxStep
<1> DEFINE m == Remember(made, mem, t, b)
           rec == Record(t, b)
<1>1. Shaped(made, mem) /\ db \in Seq(Rec) /\ mem \in MemType
  BY DEF TxInv, Shaped
<1>2. Shaped(made, m) /\ m \in MemType
  BY <1>1, RememberShaped DEF Shaped
<1>3. \A u \in Tx : u # t => m.tx[u] = mem.tx[u]
  <2>1. Entries(mem, t, b, Relevant(made, mem, t), Debits(made, mem, t), PaysOf(made, t) > 0, m)
    BY <1>1, RememberFields
  <2> HIDE DEF m
  <2> QED
    BY <2>1 DEF Entries
<1>4. rec \in Rec /\ rec.tx = t
  BY DEF Record, Rec
<1>5. \A o \in OwnTx : made[o] = Unused => m.tx[o] = Absent
  <2> SUFFICES ASSUME NEW o \in OwnTx, made[o] = Unused PROVE m.tx[o] = Absent
    OBVIOUS
  <2>1. o # t /\ o \in Tx
    BY DEF Seen, Tx
  <2> HIDE DEF m
  <2> QED
    BY <1>3, <2>1 DEF TxInv
<1>6. Intact => \A u \in bcast : m.tx[u].relevant /\ m.tx[u].blk = 0
  <2> SUFFICES ASSUME Intact, NEW u \in bcast PROVE m.tx[u].relevant /\ m.tx[u].blk = 0
    OBVIOUS
  <2>1. u \in Tx /\ mem.tx[u].relevant /\ mem.tx[u].blk = 0
    BY DEF TxInv
  <2>2. u # t
    BY <2>1 DEF Absent
  <2> HIDE DEF m
  <2> QED
    BY <1>3, <2>1, <2>2
<1>7. CASE Respends(made, mem, t) /\ Panic("respend")
  BY <1>7, PanicStep
<1>8. CASE /\ ~Respends(made, mem, t) /\ ~Relevant(made, mem, t) /\ mem' = m
           /\ UNCHANGED <<mode, locked, made, db, balance, bcast, panic, budget>>
  <2>1. Alike(m, mem) /\ SameBlocks(m, mem)
    BY <1>1, <1>8, RememberIgnores
  <2>2. mode' = mode /\ made' = made /\ db' = db /\ bcast' = bcast /\ budget' = budget /\ mem' = m
    BY <1>8
  <2>3. Intact' <=> Intact
    BY <2>2 DEF Intact
  <2> HIDE DEF m
  <2>4. Intact => Disk(made, m, db)
    BY <2>1, DiskSame DEF TxInv
  <2>5. TxInv'
    BY <1>2, <1>5, <1>6, <2>2, <2>3, <2>4 DEF TxInv, BudgetOK
  <2>6. LedgerStep
    BY <2>1, <2>2, <2>3, AlikeLedger, StutterStep
  <2>7. Relays
    BY <2>2 DEF Relays
  <2> QED
    BY <2>5, <2>6, <2>7 DEF TxStep
<1>9. CASE /\ ~Respends(made, mem, t) /\ Relevant(made, mem, t) /\ Write(Append(db, rec))
           /\ db' = db /\ b = 0 /\ Gone /\ panic' = "save" /\ UNCHANGED <<locked, made>>
  <2>1. BudgetOK' /\ (Intact' => Intact)
    <3>1. Append(db, rec) # db
      <4>1. Len(Append(db, rec)) = Len(db) + 1 /\ Len(db) \in Nat
        BY <1>1, <1>4, AppendProperties, LenProperties
      <4> QED
        BY <4>1
    <3> QED
      BY <1>9, <3>1, WriteFacts
  <2> QED
    BY <1>9, <2>1, GoneStep
<1>10. CASE /\ ~Respends(made, mem, t) /\ Relevant(made, mem, t) /\ Write(Append(db, rec))
            /\ mem' = m /\ UNCHANGED <<mode, locked, made, bcast, panic>>
  <2>1. mode' = mode /\ made' = made /\ bcast' = bcast /\ mem' = m
    BY <1>10
  <2>2. /\ BudgetOK'
        /\ \/ db' = Append(db, rec) /\ (Intact' <=> Intact)
           \/ db' = db /\ ~Intact'
    BY <1>10, WriteFacts
  <2>3. Learned(made, mem, t, b, m)
    BY <1>1, <1>10, RememberLearns
  <2>4. Intact => Disk(made, m, Append(db, rec))
    BY <1>1, <1>10, DiskAppend DEF TxInv
  <2>5. /\ Append(db, rec) \in Seq(Rec) /\ Stored(Append(db, rec)) = Stored(db) \union {t}
    BY <1>1, <1>4, StoredIs, AppendProperties
  <2>6. ASSUME NEW i \in 1..Len(db'), db'[i].tx \in OwnTx PROVE made[db'[i].tx] # Unused
    <3>1. CASE db' = db
      BY <2>6, <3>1 DEF TxInv
    <3>2. CASE db' = Append(db, rec)
      <4>1. /\ Len(db') = Len(db) + 1 /\ Len(db) \in Nat
            /\ db'[Len(db) + 1] = rec /\ \A j \in 1..Len(db) : db'[j] = db[j]
        BY <1>1, <1>4, <3>2, AppendProperties, LenProperties
      <4>2. i \in 1..Len(db) \/ i = Len(db) + 1
        BY <4>1
      <4>3. CASE i \in 1..Len(db)
        BY <2>6, <4>1, <4>3 DEF TxInv
      <4>4. CASE i = Len(db) + 1
        BY <1>4, <2>6, <4>1, <4>4 DEF Seen
      <4> QED
        BY <4>2, <4>3, <4>4
    <3> QED
      BY <2>2, <3>1, <3>2
  <2>7. db' \in Seq(Rec)
    BY <1>1, <2>2, <2>5
  <2> HIDE DEF m, rec
  <2>8. Intact' => Intact /\ db' = Append(db, rec)
    BY <2>2
  <2>9. TxInv'
    BY <1>2, <1>5, <1>6, <2>1, <2>2, <2>4, <2>6, <2>7, <2>8 DEF TxInv
  <2>10. WriteStep(Stored(db) \union {t})
    BY <2>2, <2>5 DEF WriteStep
  <2>11. LedgerStep
    <3>1. Learned(made', mem, t, b, mem')
      BY <2>1, <2>3
    <3>2. \A u \in Tx \ {t} : InsOf(made', u) = InsOf(made, u) /\ PaysOf(made', u) = PaysOf(made, u)
      BY <2>1
    <3> QED
      BY <2>10, <3>1, <3>2, LearnStep
  <2>12. Relays
    BY <2>1 DEF Relays
  <2> QED
    BY <2>9, <2>11, <2>12 DEF TxStep
<1> QED
  BY <1>7, <1>8, <1>9, <1>10 DEF Learn

\* The record that txdb_confirm_one_tx rewrites keeps its place and its transaction.
LEMMA RewriteRecord ==
    ASSUME NEW d \in Seq(Rec), NEW i \in 1..Len(d), NEW b \in Nat
    PROVE  LET e == [d EXCEPT ![i].blk = b] IN
           e \in Seq(Rec) /\ Len(e) = Len(d) /\ \A j \in 1..Len(d) : e[j].tx = d[j].tx
<1> DEFINE x == d[i]
           y == [x EXCEPT !.blk = b]
           e == [d EXCEPT ![i] = y]
<1>1. [d EXCEPT ![i].blk = b] = e
  OBVIOUS
<1>2. x \in Rec
  BY ElementOfSeq
<1>3. y \in Rec /\ y.tx = d[i].tx
  BY <1>2 DEF Rec
<1> HIDE DEF y
<1>4. e \in Seq(Rec) /\ Len(e) = Len(d) /\ e[i] = y /\ \A j \in 1..Len(d) : j # i => e[j] = d[j]
  BY <1>3, ExceptSeq
<1>5. \A j \in 1..Len(d) : e[j].tx = d[j].tx
  BY <1>3, <1>4
<1> QED
  BY <1>1, <1>4, <1>5

\* txdb_confirm_one_tx forgets a transaction that does not concern the wallet.
LEMMA ForgetFields ==
    ASSUME NEW m \in MemType, NEW t \in Tx
    PROVE  LET r == [m EXCEPT !.tx[t] = Absent] IN
           /\ r \in MemType /\ r.txo = m.txo /\ r.tx[t] = Absent
           /\ \A u \in Tx : u # t => r.tx[u] = m.tx[u]
<1> DEFINE f == [m.tx EXCEPT ![t] = Absent]
           r == [m EXCEPT !.tx = f]
<1>1. [m EXCEPT !.tx[t] = Absent] = r
  OBVIOUS
<1>2. m.tx \in [Tx -> [relevant : BOOLEAN, blk : Int]]
  BY MemFields
<1>3. Absent \in [relevant : BOOLEAN, blk : Int]
  BY DEF Absent
<1>4. /\ f \in [Tx -> [relevant : BOOLEAN, blk : Int]] /\ f[t] = Absent
      /\ \A u \in Tx : u # t => f[u] = m.tx[u]
  BY <1>2, <1>3
<1> HIDE DEF f
<1>5. r \in MemType /\ r.tx = f /\ r.txo = m.txo
  BY <1>4 DEF MemType
<1> HIDE DEF r
<1>6. r.tx[t] = Absent /\ \A u \in Tx : u # t => r.tx[u] = m.tx[u]
  BY <1>4, <1>5
<1> QED
  BY <1>1, <1>5, <1>6

LEMMA ForgetStep ==
    ASSUME TxInv, NEW t \in Tx, mode # "down", ~mem.tx[t].relevant,
           mem' = [mem EXCEPT !.tx[t] = Absent],
           UNCHANGED <<mode, locked, made, db, balance, bcast, panic, budget>>
    PROVE  TxStep
<1>1. Shaped(made, mem) /\ mem \in MemType
  BY DEF TxInv, Shaped
<1>2. /\ mem' \in MemType /\ mem'.txo = mem.txo /\ mem'.tx[t] = Absent
      /\ \A u \in Tx : u # t => mem'.tx[u] = mem.tx[u]
  BY <1>1, ForgetFields
<1>3. mode' = mode /\ made' = made /\ db' = db /\ bcast' = bcast /\ budget' = budget
  OBVIOUS
<1>4. Intact' <=> Intact
  BY <1>3 DEF Intact
<1>5. \A u \in Tx : mem'.tx[u].relevant <=> mem.tx[u].relevant
  BY <1>2 DEF Absent
<1>6. Alike(mem', mem) /\ SameBlocks(mem', mem)
  BY <1>2, <1>5 DEF Alike, SameBlocks
<1>7. Shaped(made, mem')
  BY <1>1, <1>2, <1>5 DEF Shaped
<1>8. Intact => Disk(made, mem', db)
  BY <1>6, DiskSame DEF TxInv
<1>9. \A o \in OwnTx : made[o] = Unused => mem'.tx[o] = Absent
  BY <1>2 DEF TxInv, Tx
<1>10. Intact => \A u \in bcast : mem'.tx[u].relevant /\ mem'.tx[u].blk = 0
  BY <1>2 DEF TxInv
<1>11. TxInv'
  BY <1>3, <1>4, <1>7, <1>8, <1>9, <1>10 DEF TxInv, BudgetOK
<1>12. LedgerStep
  BY <1>3, <1>4, <1>6, AlikeLedger, StutterStep
<1>13. Relays
  BY <1>3 DEF Relays
<1> QED
  BY <1>11, <1>12, <1>13 DEF TxStep

\* A pending transaction is seen in block b.
LEMMA PendingStep ==
    ASSUME TxInv, NEW t \in Tx, NEW b \in Nat \ {0}, mode # "down",
           mem.tx[t].relevant, mem.tx[t].blk = 0, bcast' = bcast \ {t},
           mem' = Confirmed1(mem, t, b),
           IF RecordsOf(t) = {} THEN UNCHANGED <<db, budget>>
                                ELSE Write([db EXCEPT ![Min(RecordsOf(t))].blk = b]),
           mode' = mode, made' = made
    PROVE  TxStep
<1>1. Shaped(made, mem) /\ mem \in MemType /\ db \in Seq(Rec)
  BY DEF TxInv, Shaped
<1>2. /\ mem' \in MemType /\ mem'.txo = mem.txo
      /\ \A u \in Tx : u # t => mem'.tx[u] = mem.tx[u]
      /\ mem'.tx[t].relevant = mem.tx[t].relevant /\ mem'.tx[t].blk = b
  <2>1. OneBlock(mem, t, b, Confirmed1(mem, t, b))
    BY <1>1, ConfirmFields
  <2>2. OneBlock(mem, t, b, mem')
    BY <2>1, Zenon
  <2> QED
    BY <2>2 DEF OneBlock
<1>3. \A u \in Tx : mem'.tx[u].relevant <=> mem.tx[u].relevant
  BY <1>2
<1>4. BookOf(mem') = BookOf(mem) /\ Unspent(mem') = Unspent(mem) /\ t \in BookOf(mem) \ ConfirmedOf(mem)
  BY <1>2, <1>3 DEF BookOf, Unspent, Coins, ConfirmedOf
<1>5. ConfirmedOf(mem') = ConfirmedOf(mem) \union {t}
  BY <1>2, <1>3 DEF ConfirmedOf
<1>6. Shaped(made, mem')
  BY <1>1, <1>2, <1>3 DEF Shaped
<1>7. \A o \in OwnTx : made[o] = Unused => mem'.tx[o] = Absent
  <2>1. mem.tx[t] # Absent
    BY DEF Absent
  <2> QED
    BY <1>2, <2>1 DEF TxInv, Tx
<1>8. Relays
  BY <1>2 DEF Relays, Pending
<1>9. /\ BudgetOK' /\ WriteStep(Stored(db)) /\ (Intact' => Intact /\ Disk(made, mem', db'))
      /\ db' \in Seq(Rec) /\ Len(db') = Len(db) /\ \A j \in 1..Len(db) : db'[j].tx = db[j].tx
  <2>1. RecordsOf(t) = {i \in 1..Len(db) : db[i].tx = t}
    BY <1>1, LenProperties DEF RecordsOf
  <2>2. CASE RecordsOf(t) = {}
    <3>1. db' = db /\ budget' = budget
      BY <2>2
    <3>2. ~Intact
      BY <1>1, <2>1, <2>2, DiskHas DEF TxInv
    <3> QED
      BY <1>1, <3>1, <3>2 DEF TxInv, BudgetOK, Intact, WriteStep
  <2>3. CASE RecordsOf(t) # {}
    <3> DEFINE i == Min(RecordsOf(t))
               e == [db EXCEPT ![i].blk = b]
    <3>1. i \in 1..Len(db) /\ db[i].tx = t
      <4>1. RecordsOf(t) \in SUBSET Nat
        BY <1>1, <2>1, LenProperties
      <4>2. \E x \in RecordsOf(t) : \A y \in RecordsOf(t) : x =< y
        BY <2>3, <4>1, LeastNumber
      <4>3. i \in RecordsOf(t)
        BY <4>2 DEF Min
      <4> QED
        BY <2>1, <4>3
    <3> HIDE DEF i
    <3>2. e \in Seq(Rec) /\ Len(e) = Len(db) /\ \A j \in 1..Len(db) : e[j].tx = db[j].tx
      BY <1>1, <3>1, RewriteRecord
    <3>3. Intact => Disk(made, mem', e)
      <4>1. Intact => Disk(made, mem, db)
        BY DEF TxInv
      <4> QED
        BY <1>1, <3>1, <4>1, DiskConfirm
    <3>4. Write(e)
      BY <2>3 DEF i
    <3>5. /\ BudgetOK'
          /\ \/ db' = e /\ (Intact' <=> Intact)
             \/ db' = db /\ ~Intact'
      BY <3>4, WriteFacts
    <3> HIDE DEF e
    <3>6. Stored(e) = Stored(db)
      <4>1. Stored(e) = {e[j].tx : j \in 1..Len(e)} /\ Stored(db) = {db[j].tx : j \in 1..Len(db)}
        BY <1>1, <3>2, StoredIs
      <4>2. {e[j].tx : j \in 1..Len(e)} = {db[j].tx : j \in 1..Len(db)}
        BY <3>2
      <4> QED
        BY <4>1, <4>2
    <3> QED
      BY <1>1, <3>2, <3>3, <3>5, <3>6 DEF WriteStep
  <2> QED
    BY <2>2, <2>3
<1>10. \A i \in 1..Len(db') : db'[i].tx \in OwnTx => made[db'[i].tx] # Unused
  BY <1>9 DEF TxInv
<1>11. Intact' => \A u \in bcast' : mem'.tx[u].relevant /\ mem'.tx[u].blk = 0
  BY <1>2, <1>9 DEF TxInv
<1>12. bcast' \subseteq Tx
  BY DEF TxInv
<1>13. TxInv'
  BY <1>6, <1>7, <1>9, <1>10, <1>11, <1>12 DEF TxInv
<1>14. LedgerStep
  BY <1>4, <1>5, <1>9, ConfirmStep
<1> QED
  BY <1>8, <1>13, <1>14 DEF TxStep

LEMMA ConfirmTxStep ==
    ASSUME TxInv, NEW t \in Tx, NEW b \in Nat \ {0}, mode # "down", ConfirmOneTx(t, b)
    PROVE  TxStep
<1>1. CASE /\ ~mem.tx[t].relevant /\ mem' = [mem EXCEPT !.tx[t] = Absent]
           /\ UNCHANGED <<mode, locked, made, db, balance, bcast, panic, budget>>
  BY <1>1, ForgetStep
<1>2. CASE Panic("reconfirmed") \/ Panic("record")
  BY <1>2, PanicStep
<1>3. CASE /\ mem.tx[t].relevant /\ mem.tx[t].blk = 0 /\ bcast' = StopBroadcast(t)
           /\ mem' = [mem EXCEPT !.tx[t].blk = b]
           /\ IF RecordsOf(t) = {} THEN UNCHANGED <<db, budget>>
                                   ELSE Write([db EXCEPT ![Min(RecordsOf(t))].blk = b])
           /\ UNCHANGED <<mode, locked, made, balance, panic>>
  <2>1. bcast' = bcast \ {t} /\ mem' = Confirmed1(mem, t, b) /\ mode' = mode /\ made' = made
    BY <1>3 DEF StopBroadcast, Confirmed1
  <2> QED
    BY <1>3, <2>1, PendingStep
<1> QED
  BY <1>1, <1>2, <1>3 DEF ConfirmOneTx

\* A payment is made, remembered, written and relayed.
LEMMA CraftStep ==
    ASSUME TxInv, NEW o \in OwnTx, NEW v \in Values, CraftTx(o, v)
    PROVE  TxStep
<1>1. /\ Shaped(made, mem) /\ mem \in MemType /\ db \in Seq(Rec) /\ mode = "ready"
      /\ made[o] = Unused /\ mem.tx[o] = Absent /\ o \in Tx /\ o \notin NetTx
      /\ v \in Nat \ {0} /\ made = [x \in OwnTx |-> made[x]]
  BY TxDbAssumption DEF TxInv, Shaped, CraftTx, Affordable, Tx
<1>2. CASE Panic("select_coins")
  BY <1>2, PanicStep
<1>3. CASE /\ ~(Worth(Selected(v)) < v)
           /\ made' = [made EXCEPT ![o] = Payment(v)]
           /\ mem' = Remember(made', mem, o, 0)
           /\ Write(Append(db, Record(o, 0)))
           /\ bcast' = Broadcast(o)
           /\ UNCHANGED <<mode, locked, balance, panic>>
  <2> DEFINE mk == made'
             m == Remember(mk, mem, o, 0)
             rec == Record(o, 0)
  <2>1. Selected(v) # {} /\ Selected(v) \subseteq Unspent(mem)
    <3>1. ~(0 < v) => FALSE
      BY <1>1
    <3>2. Selected(v) # {}
      BY <1>3, <3>1, NothingIsWorthless
    <3> QED
      BY <3>2 DEF Selected, Usable
  <2>2. /\ mk = [x \in OwnTx |-> mk[x]] /\ mk[o] = Payment(v)
        /\ \A x \in OwnTx : x # o => mk[x] = made[x]
    BY <1>1, <1>3
  <2>3. mk[o].ins = Selected(v) /\ mk[o] # Unused
    BY <2>1, <2>2 DEF Payment, Unused
  <2>4. mode' = mode /\ mem' = m /\ bcast' = bcast \union {o}
    BY <1>3 DEF Broadcast
  <2>5. Write(Append(db, rec))
    BY <1>3
  <2> HIDE DEF mk
  <2>6. \A u \in Tx : u # o => InsOf(mk, u) = InsOf(made, u) /\ PaysOf(mk, u) = PaysOf(made, u)
    BY <2>2 DEF InsOf, PaysOf, Tx
  <2>7. InsOf(mk, o) = Selected(v)
    BY <1>1, <2>3 DEF InsOf
  <2>8. Shaped(mk, mem)
    <3> SUFFICES ASSUME NEW u \in Tx
                 PROVE  mem.txo[u] # NoCoin <=> (mem.tx[u].relevant /\ PaysOf(mk, u) > 0)
      BY <1>1 DEF Shaped
    <3>1. mem.txo[u] # NoCoin <=> (mem.tx[u].relevant /\ PaysOf(made, u) > 0)
      BY <1>1 DEF Shaped
    <3>2. CASE u = o
      BY <1>1, <3>1, <3>2 DEF Absent
    <3>3. CASE u # o
      BY <2>6, <3>1, <3>3
    <3> QED
      BY <3>2, <3>3
  <2>9. Debits(mk, mem, o) = Selected(v)
    BY <2>1, <2>7 DEF Debits, Unspent
  <2>10. Relevant(mk, mem, o) /\ ~Respends(mk, mem, o)
    <3>1. \A c \in Unspent(mem) : ~mem.txo[c].spent
      BY DEF Unspent
    <3> QED
      BY <2>1, <2>9, <3>1 DEF Relevant, Respends
  <2>11. Learned(mk, mem, o, 0, m) /\ Shaped(mk, m)
    BY <1>1, <2>8, <2>10, RememberLearns, RememberShaped
  <2>12. \A u \in Tx : u # o => m.tx[u] = mem.tx[u]
    <3>1. Entries(mem, o, 0, Relevant(mk, mem, o), Debits(mk, mem, o), PaysOf(mk, o) > 0, m)
      BY <1>1, RememberFields
    <3> HIDE DEF m
    <3> QED
      BY <3>1 DEF Entries
  <2>13. m.tx[o].relevant /\ m.tx[o].blk = 0
    <3>1. Entries(mem, o, 0, Relevant(mk, mem, o), Debits(mk, mem, o), PaysOf(mk, o) > 0, m)
      BY <1>1, RememberFields
    <3> HIDE DEF m
    <3> QED
      BY <2>10, <3>1 DEF Entries
  <2>14. \A i \in 1..Len(db) : db[i].tx # o /\ db[i].tx \in Tx
    <3>1. \A i \in 1..Len(db) : db[i] \in Rec
      BY <1>1, ElementOfSeq
    <3> QED
      BY <1>1, <3>1 DEF TxInv, Rec
  <2>15. Reload(mk, db) = Reload(made, db)
    BY <1>1, <2>6, <2>14, ReloadOther
  <2>16. rec \in Rec /\ rec.tx = o
    BY <1>1 DEF Record, Rec
  <2>17. Intact => Disk(mk, m, Append(db, rec))
    <3>1. Intact => Disk(mk, mem, db)
      BY <2>15 DEF TxInv, Disk
    <3> QED
      BY <1>1, <2>8, <2>10, <3>1, DiskAppend
  <2>18. /\ BudgetOK'
         /\ \/ db' = Append(db, rec) /\ (Intact' <=> Intact)
            \/ db' = db /\ ~Intact'
    BY <2>5, WriteFacts
  <2>19. Append(db, rec) \in Seq(Rec) /\ Stored(Append(db, rec)) = Stored(db) \union {o}
    BY <1>1, <2>16, StoredIs, AppendProperties
  <2> HIDE DEF m, rec
  <2>20. ASSUME NEW i \in 1..Len(db'), db'[i].tx \in OwnTx PROVE mk[db'[i].tx] # Unused
    <3>1. ASSUME NEW j \in 1..Len(db), db[j].tx \in OwnTx PROVE mk[db[j].tx] # Unused
      BY <2>2, <2>14, <3>1 DEF TxInv
    <3>2. CASE db' = db
      BY <2>20, <3>1, <3>2
    <3>3. CASE db' = Append(db, rec)
      <4>1. /\ Len(db') = Len(db) + 1 /\ Len(db) \in Nat
            /\ db'[Len(db) + 1] = rec /\ \A j \in 1..Len(db) : db'[j] = db[j]
        BY <1>1, <2>16, <3>3, AppendProperties, LenProperties
      <4>2. i \in 1..Len(db) \/ i = Len(db) + 1
        BY <4>1
      <4> QED
        BY <2>3, <2>16, <2>20, <3>1, <4>1, <4>2
    <3> QED
      BY <2>18, <3>2, <3>3
  <2>21. \A x \in OwnTx : mk[x] = Unused => m.tx[x] = Absent
    BY <2>2, <2>3, <2>12 DEF TxInv, Tx
  <2>22. Intact' => Intact /\ db' = Append(db, rec)
    BY <2>18
  <2>23. Intact => \A u \in bcast' : m.tx[u].relevant /\ m.tx[u].blk = 0
    <3> SUFFICES ASSUME Intact, NEW u \in bcast' PROVE m.tx[u].relevant /\ m.tx[u].blk = 0
      OBVIOUS
    <3>1. CASE u = o
      BY <2>13, <3>1
    <3>2. CASE u # o
      <4>1. u \in Tx /\ mem.tx[u].relevant /\ mem.tx[u].blk = 0
        BY <2>4, <3>2 DEF TxInv
      <4> QED
        BY <2>12, <3>2, <4>1
    <3> QED
      BY <3>1, <3>2
  <2>24. bcast' \subseteq Tx /\ db' \in Seq(Rec)
    BY <1>1, <2>4, <2>18, <2>19 DEF TxInv
  <2>25. TxInv'
    <3>1. mode' # "down"
      BY <1>1, <2>4
    <3>2. Shaped(mk, mem') /\ (Intact' => Disk(mk, mem', db'))
      BY <2>4, <2>11, <2>17, <2>22
    <3>3. Intact' => \A u \in bcast' : mem'.tx[u].relevant /\ mem'.tx[u].blk = 0
      BY <2>4, <2>22, <2>23
    <3>4. \A x \in OwnTx : mk[x] = Unused => mem'.tx[x] = Absent
      BY <2>4, <2>21
    <3> QED
      BY <2>2, <2>18, <2>20, <2>24, <3>1, <3>2, <3>3, <3>4 DEF TxInv, mk
  <2>26. LedgerStep
    <3>1. Learned(made', mem, o, 0, mem')
      BY <2>4, <2>11 DEF mk
    <3>2. \A u \in Tx \ {o} : InsOf(made', u) = InsOf(made, u) /\ PaysOf(made', u) = PaysOf(made, u)
      BY <2>6 DEF mk
    <3>3. WriteStep(Stored(db) \union {o})
      BY <2>18, <2>19 DEF WriteStep
    <3> QED
      BY <1>1, <3>1, <3>2, <3>3, LearnStep
  <2>27. Relays
    <3>1. \A x \in OwnTx : x # o => made'[x] = made[x]
      BY <2>2 DEF mk
    <3> QED
      BY <1>1, <2>4, <3>1 DEF Relays
  <2> QED
    BY <2>25, <2>26, <2>27 DEF TxStep
<1> QED
  BY <1>2, <1>3 DEF CraftTx

-----------------------------------------------------------------------------
(* The transaction database: the theorems *)

LEMMA TxInitInv == Init => TxInv
<1> SUFFICES ASSUME Init PROVE TxInv
  OBVIOUS
<1>1. /\ made = [o \in OwnTx |-> Unused] /\ db = <<>> /\ mem = Empty /\ bcast = {}
      /\ budget = [stops |-> MaxStops, fails |-> MaxFails]
  BY DEF Init
<1>2. <<>> \in Seq(Rec) /\ Len(<<>>) = 0 /\ Reload(made, <<>>) = Empty
  BY EmptySeq, ReloadEmpty
<1>3. Shaped(made, Empty)
  BY EmptyMem DEF Shaped
<1>4. Disk(made, Empty, <<>>)
  <2>1. Alike(Empty, Empty) /\ SameBlocks(Empty, Empty)
    BY DEF Alike, SameBlocks
  <2> QED
    BY <1>2, <2>1 DEF Disk
<1>5. \A o \in OwnTx : Empty.tx[o] = Absent
  BY EmptyMem DEF Tx
<1>6. BudgetOK
  BY <1>1, TxDbAssumption DEF BudgetOK
<1>7. made = [o \in OwnTx |-> made[o]]
  BY <1>1
<1> QED
  BY <1>1, <1>2, <1>3, <1>4, <1>5, <1>6, <1>7 DEF TxInv

LEMMA TxInitLedger == Init => AbstractLedger!Init
<1> SUFFICES ASSUME Init PROVE AbstractLedger!Init
  OBVIOUS
<1>1. /\ made = [o \in OwnTx |-> Unused] /\ db = <<>> /\ mem = Empty
      /\ budget = [stops |-> MaxStops, fails |-> MaxFails]
  BY DEF Init
<1>2. [t \in Tx |-> InsOf(made, t)] \in [Tx -> SUBSET Tx]
  <2> SUFFICES ASSUME NEW t \in Tx PROVE InsOf(made, t) \subseteq Tx
    OBVIOUS
  <2>1. CASE t \in NetTx
    BY <2>1, TxDbAssumption DEF InsOf
  <2>2. CASE t \notin NetTx
    <3>1. made[t] = Unused
      BY <1>1, <2>2 DEF Tx
    <3> QED
      BY <2>2, <3>1 DEF InsOf, Unused
  <2> QED
    BY <2>1, <2>2
<1>3. {t \in Tx : PaysOf(made, t) > 0} \in SUBSET Tx
  OBVIOUS
<1>4. BookOf(Empty) = {} /\ ConfirmedOf(Empty) = {} /\ Unspent(Empty) = {}
  BY EmptyMem DEF BookOf, ConfirmedOf, Unspent, Coins
<1>5. {t \in Tx : mem.tx[t].relevant} = {} /\ Unspent(mem) = {}
      /\ {t \in Tx : mem.tx[t].relevant /\ mem.tx[t].blk # 0} = {}
  BY <1>1, <1>4 DEF BookOf, ConfirmedOf
<1>6. {r.tx : r \in ToSet(db)} = {}
  <2>1. DOMAIN db = {}
    BY <1>1
  <2> QED
    BY <2>1 DEF ToSet
<1>7. (budget.fails = MaxFails) = TRUE
  BY <1>1
<1> QED
  BY <1>2, <1>3, <1>5, <1>6, <1>7, Zenon DEF AbstractLedger!Init

LEMMA TxNextStep == TxInv /\ Next => TxStep
<1> SUFFICES ASSUME TxInv, Next PROVE TxStep
  OBVIOUS
<1>1. CASE Start \/ Synced \/ Stop \/ Zap
  BY <1>1, StartStep, SyncedStep, StopStep, ZapTxStep
<1>2. ASSUME NEW t \in Tx, HandleTx(t) PROVE TxStep
  BY <1>2, LearnTxStep DEF HandleTx, Arrives, Has
<1>3. ASSUME NEW t \in Tx, NEW b \in UNION {BlocksOf[u] : u \in Tx}, HandleBlockTx(t, b)
      PROVE  TxStep
  <2>1. mode # "down" /\ Seen(t)
    BY <1>3 DEF HandleBlockTx, Arrives
  <2>2. b \in Nat \ {0}
    BY <1>3, TxDbAssumption
  <2>3. CASE Has(mem, t)
    <3>1. ConfirmOneTx(t, b)
      BY <1>3, <2>3 DEF HandleBlockTx
    <3> QED
      BY <2>1, <2>2, <3>1, ConfirmTxStep
  <2>4. CASE ~Has(mem, t)
    <3>1. Learn(t, b) /\ mem.tx[t] = Absent /\ b \in Nat
      BY <1>3, <2>2, <2>4 DEF HandleBlockTx, Has
    <3> QED
      BY <2>1, <3>1, LearnTxStep
  <2> QED
    BY <2>3, <2>4
<1>4. ASSUME NEW o \in OwnTx, NEW v \in Values, CraftTx(o, v) PROVE TxStep
  BY <1>4, CraftStep
<1> QED
  BY <1>1, <1>2, <1>3, <1>4 DEF Next

LEMMA TxStuttering == TxInv /\ UNCHANGED vars => TxInv' /\ LedgerStep
<1> SUFFICES ASSUME TxInv, UNCHANGED vars PROVE TxInv' /\ LedgerStep
  OBVIOUS
<1>1. /\ mode' = mode /\ made' = made /\ db' = db /\ mem' = mem /\ bcast' = bcast
      /\ budget' = budget
  BY DEF vars
<1>2. Intact' <=> Intact
  BY <1>1 DEF Intact
<1>3. TxInv'
  BY <1>1, <1>2 DEF TxInv, BudgetOK
<1>4. LedgerStep
  BY <1>1, <1>2, StutterStep
<1> QED
  BY <1>3, <1>4

\* txdb.c and wallet.c keep the ledger of module Ledger.  While the process
\* runs, a transaction enters the book once (txdb_remember_tx), spends only
\* coins that are unspent, and its confirmation (txdb_confirm_one_tx) is never
\* taken back.  If no write has failed, stopping it anywhere and loading the
\* records again (txdb_open) changes neither the book, nor what is confirmed,
\* nor the unspent coins; after a failed write the wallet counts nothing that
\* has no record.
THEOREM WalletLedger == Spec => LedgerSpec
<1>1. TxInv /\ [Next]_vars => TxInv' /\ LedgerStep
  BY TxNextStep, TxStuttering DEF TxStep
<1> QED
  BY <1>1, TxInitInv, TxInitLedger, PTL DEF Spec, LedgerSpec, AbstractLedger!Spec, LedgerStep

\* A payment is in pg->hash_broadcast from the step that makes it
\* (txdb_craft_tx), and from every start that finds its record (txdb_load_tx),
\* until txdb_confirm_one_tx sees it in a block; unless a write failed, nothing
\* that is confirmed is relayed.
THEOREM WalletRelays == Spec => RelayedUntilConfirmed
<1>1. TxInv /\ [Next]_vars => TxInv'
  BY TxNextStep, TxStuttering DEF TxStep
<1>2. TxInv /\ [Next]_vars =>
        [/\ \A o \in OwnTx :
               Pending(o)' /\ (o \in bcast \/ mode = "down" \/ made'[o] # made[o])
               => o \in bcast'
         /\ budget'.fails = MaxFails =>
              \A t \in bcast' : mem'.tx[t].relevant => mem'.tx[t].blk = 0]_vars
  <2>1. TxInv /\ Next => Relays /\ TxInv'
    BY TxNextStep DEF TxStep
  <2>2. TxInv' => (budget'.fails = MaxFails =>
              \A t \in bcast' : mem'.tx[t].relevant => mem'.tx[t].blk = 0)
    BY DEF TxInv, Intact
  <2> QED
    BY <2>1, <2>2 DEF Relays
<1> QED
  BY <1>1, <1>2, TxInitInv, PTL DEF Spec, RelayedUntilConfirmed

=============================================================================
