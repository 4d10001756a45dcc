----------------------------- MODULE HashTable ------------------------------
(***************************************************************************)
(* The hash table of lib/hashtable/hashtable.c.  The chain of a bucket is  *)
(* the set of its entries, the order of which no caller relies on.         *)
(* MurmurHash3 is external: a key is its hash.                             *)
(***************************************************************************)
EXTENDS Integers, FiniteSets, FiniteSetsExt, Bitwise

CONSTANTS
    DefaultBuckets,     \* HASH_DEFAULT_NUM_BUCKETS
    Factor              \* HASH_DEFAULT_FACTOR

\* util_log2
RECURSIVE Log2(_)
Log2(v) == IF v <= 1 THEN 0 ELSE 1 + Log2(v \div 2)

ASSUME HashTableAssumption ==
    /\ DefaultBuckets \in Nat \ {0, 1} /\ 2^Log2(DefaultBuckets) = DefaultBuckets
    /\ Factor \in Nat \ {0, 1} /\ 2^Log2(Factor) = Factor

\* hashtable_compute_hash: what is above the mask is folded into it.
RECURSIVE ComputeHash(_, _)
ComputeHash(h, n) == IF h < n THEN h ELSE ComputeHash(((h % n) ^^ (h \div 2^Log2(n))), n)

\* hashtable_create
EmptyTable == [count |-> 0, buckets |-> [b \in 0 .. DefaultBuckets - 1 |-> {}]]

NumBuckets(t) == Cardinality(DOMAIN t.buckets)

\* hashtable_lookup: the entries of the bucket of the key that have it.
Lookup(t, key) == {e \in t.buckets[ComputeHash(key, NumBuckets(t))] : e.key = key}

\* hashtable_for_each, hashtable_linearize
Entries(t) == UNION {t.buckets[b] : b \in DOMAIN t.buckets}

RehashOldMask(t, n) ==
    [t EXCEPT !.buckets = [b \in 0 .. n - 1 |->
        {e \in Entries(t) : ComputeHash(e.key, NumBuckets(t)) % n = b}]]

Rehash(t, n) ==
    [t EXCEPT !.buckets = [b \in 0 .. n - 1 |-> {e \in Entries(t) : ComputeHash(e.key, n) = b}]]

\* hashtable_check_resize: the table never gets back to its first size.
CheckResize(t) ==
    LET n == NumBuckets(t)
        m == CASE t.count > Factor * n    -> n * Factor
               [] t.count < n \div Factor -> n \div Factor
               [] OTHER                   -> n
    IN  IF m <= DefaultBuckets \/ m = n THEN t ELSE Rehash(t, m)

\* hashtable_insert: a key that is there keeps its value.
HashInsert(t, key, val) ==
    LET r == CheckResize(t)
        b == ComputeHash(key, NumBuckets(r))
    IN  IF Lookup(r, key) # {} THEN r
        ELSE [r EXCEPT !.count = @ + 1, !.buckets[b] = @ \union {[key |-> key, val |-> val]}]

\* hashtable_remove
HashRemove(t, key) ==
    LET r == CheckResize(t)
        b == ComputeHash(key, NumBuckets(r))
    IN  IF Lookup(r, key) = {} THEN r
        ELSE [r EXCEPT !.count = @ - 1, !.buckets[b] = @ \ Lookup(r, key)]

\* hashtable_clear_with_callback: the buckets stay as many.
HashClear(t) ==
    [count |-> t.count - Cardinality(Entries(t)), buckets |-> [b \in DOMAIN t.buckets |-> {}]]

-----------------------------------------------------------------------------
\* The table is the map that the calls so far define, through every resize:
\* each key is found with its first value, none is lost, none is there twice,
\* and count is the number of keys.
TableIsMap(t, map) ==
    /\ t.count = Cardinality(DOMAIN map)
    /\ Entries(t) = {[key |-> k, val |-> map[k]] : k \in DOMAIN map}
    /\ \A k \in DOMAIN map : Lookup(t, k) = {[key |-> k, val |-> map[k]]}
=============================================================================
