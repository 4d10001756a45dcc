------------------------------- MODULE Base58 -------------------------------
(***************************************************************************)
(* Addresses and keys as text: core/base58.c.  A string is a sequence of   *)
(* digits, of Space and of Other, which stands for any character that is   *)
(* neither.  The big numbers are OpenSSL's: a number is written with its   *)
(* sign, so a byte 0 comes first when the top bit is set.                  *)
(***************************************************************************)
EXTENDS Integers, Sequences, SequencesExt, FiniteSetsExt

CONSTANTS
    ByteBase,   \* 256 in the code, even
    Digits,     \* 58 in the code
    SumLen,     \* bytes of the checksum, 4 in the code
    DigestLen,  \* bytes of uint160
    PubkeyAddress, ScriptAddress,   \* first byte of an address
    Hash4(_)    \* the checksum of a sequence of bytes

Space == -1
Other == -2

ASSUME Base58Assumption ==
    /\ ByteBase \in Nat \ {0} /\ ByteBase % 2 = 0 /\ Digits \in 2 .. ByteBase
    /\ SumLen \in Nat \ {0} /\ DigestLen \in Nat
    /\ {PubkeyAddress, ScriptAddress} \subseteq 0 .. ByteBase - 1

\* The number that the digits s are in base b, and back.
Number(s, b) == FoldLeft(LAMBDA v, d : b * v + d, 0, s)
RECURSIVE Numeral(_, _)
Numeral(v, b) == IF v = 0 THEN <<>> ELSE Append(Numeral(v \div b, b), v % b)

\* The number of elements at the start of s that are x.
Leading(s, x) == IF \E i \in DOMAIN s : s[i] # x
                   THEN Min({i \in DOMAIN s : s[i] # x}) - 1 ELSE Len(s)

\* base58_getvch: BN_bn2mpi without its length, the top byte first.
Getvch(v) ==
    LET s == Numeral(v, ByteBase)
    IN  IF s # <<>> /\ s[1] >= ByteBase \div 2 THEN <<0>> \o s ELSE s

\* base58_encode, which ASSERTs that not all the bytes are 0.
Encode(bytes) == [i \in 1 .. Leading(bytes, 0) |-> 0] \o Numeral(Number(bytes, ByteBase), Digits)

\* base58_encode_check
EncodeCheck(type, data) ==
    LET s == <<type>> \o data IN Encode(s \o Hash4(s))

DecodeKeepsSign(str) ==
    LET s == SubSeq(str, Leading(str, Space) + 1, Len(str))
        n == Min({i \in DOMAIN s : s[i] < 0} \union {Len(s) + 1}) - 1
    IN  IF \E i \in n + 1 .. Len(s) : s[i] # Space THEN <<>>
        ELSE [i \in 1 .. Leading(s, 0) |-> 0] \o Getvch(Number(SubSeq(s, 1, n), Digits))

\* base58_decode: spaces are skipped at both ends; any other character that is
\* not a digit, or one after a space, gives no bytes.
Decode(str) ==
    LET s   == SubSeq(str, Leading(str, Space) + 1, Len(str))
        n   == Min({i \in DOMAIN s : s[i] < 0} \union {Len(s) + 1}) - 1
        v   == Getvch(Number(SubSeq(s, 1, n), Digits))
        abs == IF Len(v) >= 2 /\ v[1] = 0 /\ v[2] >= ByteBase \div 2 THEN Tail(v) ELSE v
    IN  IF \E i \in n + 1 .. Len(s) : s[i] # Space THEN <<>>
        ELSE [i \in 1 .. Leading(s, 0) |-> 0] \o abs

\* base58_decode_check.  Of a string that is only a checksum the type is 0 and
\* the length, unsigned, that of no string.
DecodeCheck(str) ==
    LET d == Decode(str)
        k == Len(d) - SumLen
    IN  IF k < 0 THEN [ok |-> FALSE]
        ELSE IF Hash4(SubSeq(d, 1, k)) # SubSeq(d, k + 1, Len(d)) THEN [ok |-> FALSE]
        ELSE IF k = 0 THEN [ok |-> TRUE, type |-> 0, len |-> -1]
        ELSE [ok |-> TRUE, type |-> d[1], len |-> k - 1, data |-> SubSeq(d, 2, k)]

\* b58_pubkey_is_valid
IsValid(str) ==
    LET r == DecodeCheck(str)
    IN  r.ok /\ r.len = DigestLen /\ r.type \in {PubkeyAddress, ScriptAddress}

\* b58_pubkey_to_uint160 of a valid address; the ASSERT of the type fails for
\* the address of a script.
PubkeyToUint160(str) ==
    LET r == DecodeCheck(str)
    IN  IF r.type = PubkeyAddress THEN r.data ELSE <<>>

-----------------------------------------------------------------------------
\* What was written is read back, with its zeros in front and its sign bit,
\* and spaces around it do not matter; a character that is none of the digits
\* makes the string one that is not read.  At a position 1 .. Len + 1 of the
\* string a character is put in, 0 for none.
Base58Agrees(type, data, pos, char, read) ==
    LET s == EncodeCheck(type, data)
        spaced == char = Space /\ pos \in {1, Len(s) + 1}
    IN  IF char = 0 \/ spaced
          THEN read = [ok |-> TRUE, type |-> type, len |-> Len(data), data |-> data]
          ELSE read = [ok |-> FALSE]
=============================================================================
