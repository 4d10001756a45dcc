-------------------------------- MODULE Gcs ---------------------------------
(***************************************************************************)
(* Matching the scripts of the wallet against a compact filter:            *)
(* core/gcs.c.  A filter is the number of its items and a stream of bits:  *)
(* the differences of the sorted hashes of the items, Golomb-Rice coded,   *)
(* filled up to whole bytes.  SipHash is external: an item is its hash.    *)
(***************************************************************************)
EXTENDS Integers, Sequences, SequencesExt, FiniteSetsExt

CONSTANTS
    GcsP,       \* GCS_P: bits of a remainder
    GcsM,       \* GCS_M: an item of a filter of N items hashes to 0 .. N * GcsM - 1
    HashBits,   \* width of SipHash, 64 in the code
    ByteBits,   \* bits of a byte
    MaxItems,   \* the most items a filter may claim, 10000000 in the code
    MaxQuotient \* the longest unary part, 100000000 in the code

\* The fill of the last byte never reads as a value.
ASSUME GcsAssumption ==
    /\ GcsP \in Nat /\ GcsM \in Nat \ {0} /\ HashBits \in Nat /\ ByteBits \in Nat \ {0}
    /\ ByteBits - 1 <= GcsP
    /\ MaxItems * GcsM <= MaxQuotient * 2^GcsP

\* The value of n bits from position p on, the most significant bit first.
ReadBits(bits, p, n) ==
    FoldLeft(LAMBDA v, b : 2 * v + b, 0, SubSeq(bits, p, p + n - 1))

\* bit_reader_read_gr: the next value of the stream at position p and the
\* position after it; -1 if the stream ends or the unary part is too long.
ReadGr(bits, p) ==
    LET zeros == {i \in p .. Len(bits) : bits[i] = 0}
        z     == Min(zeros)
    IN  IF zeros = {} \/ z - p > MaxQuotient \/ z + GcsP > Len(bits)
          THEN [val |-> -1, pos |-> p]
          ELSE [val |-> (z - p) * 2^GcsP + ReadBits(bits, z + 1, GcsP), pos |-> z + GcsP + 1]

\* A hash mapped to 0 .. f - 1 by a multiplication of twice its width.
ToRange(h, f) == (h * f) \div 2^HashBits

Unsorted(q) == q

\* The insertion sort of the query.
Sorted(q) == SortSeq(q, <)

\* The two sorted streams: target k of the query, the value decoded last,
\* which is 0 before the first, and the position in the filter.
RECURSIVE Intersect(_, _, _, _, _)
Intersect(q, k, val, bits, p) ==
    LET next == ReadGr(bits, p)
    IN  /\ k <= Len(q)
        /\ CASE val = q[k] -> TRUE
             [] val < q[k] -> next.val >= 0 /\ Intersect(q, k, val + next.val, bits, next.pos)
             [] OTHER      -> Intersect(q, k + 1, val, bits, p)

\* gcs_filter_match_any of the hashes q, a sequence.
MatchAny(filter, q) ==
    /\ q # <<>> /\ filter.n \in 1 .. MaxItems
    /\ LET f == filter.n * GcsM
       IN  Intersect(Sorted([i \in DOMAIN q |-> ToRange(q[i], f)]), 1, 0, filter.bits, 1)

-----------------------------------------------------------------------------
(* The filter of a block, as the peers build it. *)

ToBits(v, n) == [i \in 1 .. n |-> (v \div 2^(n - i)) % 2]

EncodeGr(d) == [i \in 1 .. d \div 2^GcsP |-> 1] \o <<0>> \o ToBits(d % 2^GcsP, GcsP)

\* items: the hashes of the scripts of the block.
BuildFilter(items) ==
    LET f    == Len(items) * GcsM
        s    == SortSeq([i \in DOMAIN items |-> ToRange(items[i], f)], <)
        bits == FlattenSeq([i \in DOMAIN s |-> EncodeGr(s[i] - IF i = 1 THEN 0 ELSE s[i - 1])])
        fill == (-Len(bits)) % ByteBits
    IN  [n |-> Len(items), bits |-> bits \o [i \in 1 .. fill |-> 0]]

-----------------------------------------------------------------------------
\* A filter matches exactly when one of the items maps to the value of a script
\* of the block, so no block that pays the wallet is passed over; but for
\* the value 0, which is taken for the first value of any filter.
MatchIsExact(items, q, match) ==
    LET f       == Len(items) * GcsM
        mapped  == {ToRange(items[i], f) : i \in DOMAIN items}
        targets == {ToRange(q[i], f) : i \in DOMAIN q}
    IN  match <=> items # <<>> /\ targets \intersect (mapped \union {0}) # {}
=============================================================================
