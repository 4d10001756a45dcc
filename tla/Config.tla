------------------------------- MODULE Config -------------------------------
(***************************************************************************)
(* The settings of lib/config/config.c: main.cfg, wallet.dat, contacts.cfg *)
(* and tx-labels.cfg.  A key is a number; keys with the same Name differ   *)
(* only in case, and strcmp orders them like numbers.  A text is a         *)
(* sequence of characters, of which the words TRUE and FALSE count as one; *)
(* a number has one digit.  The file is a sequence of lines, split at the  *)
(* first equal sign.                                                       *)
(***************************************************************************)
EXTENDS Integers, Sequences, SequencesExt, FiniteSetsExt

CONSTANT Names      \* the number of keys that differ in more than case

ASSUME ConfigAssumption == Names \in Nat \ {0}

Digit  == 0 .. 9
Blank  == 10
Quote  == 11
Yes    == 12
No     == 13
Letter == 14

NullStr == <<-1>>   \* the null pointer
NoKey   == 0        \* of a comment or an empty line

Name(key) == (key - 1) % Names

\* config_get: the first entry that strcasecmp finds, 0 if there is none.
Find(c, key) == Min({i \in DOMAIN c : Name(c[i].key) = Name(key)} \union {Len(c) + 1}) % (Len(c) + 1)

IsSet(c, key) == Find(c, key) # 0

\* config_insert: before the first key that is not smaller.
Insert(c, e) == InsertAt(c, Min({i \in DOMAIN c : c[i].key >= e.key} \union {Len(c) + 1}), e)

\* config_setint64, config_setbool and config_setstring.  An entry that was
\* loaded keeps its type, so a number or a bool may not be set over it: the
\* number would be taken for a pointer.  No caller does.
MaySet(c, key, type) ==
    IsSet(c, key) => LET t == c[Find(c, key)].type
                     IN  t = type \/ (t = "unknown" /\ type = "string")

Set(c, key, type, val) ==
    IF IsSet(c, key) THEN [c EXCEPT ![Find(c, key)].save = TRUE, ![Find(c, key)].val = val]
    ELSE Insert(c, [key |-> key, type |-> type, save |-> TRUE, val |-> val])

\* atoll, which skips blanks and ends at what is not a digit.
Atoll(text) ==
    LET t == SelectSeq(text, LAMBDA x : x # Blank)
    IN  IF t # <<>> /\ t[1] \in Digit THEN <<t[1]>> ELSE <<0>>

\* The value of a loaded entry as one of the type; the ASSERT that a bool is
\* one of the two words is MayGet.
Converted(type, val) == IF type = "int" THEN Atoll(val) ELSE val

MayGet(c, key, type) ==
    IsSet(c, key) => LET e == c[Find(c, key)]
                     IN  \/ e.type = type
                         \/ e.type = "unknown" /\ (type = "bool" => e.val \in {<<Yes>>, <<No>>})

\* config_getint64, config_getbool and config_getstring: the entry gets the
\* type it is read with; a default is entered but not saved.
Get(c, key, type, default) ==
    IF IsSet(c, key)
      THEN LET i == Find(c, key)
           IN  IF c[i].type = type THEN c
               ELSE [c EXCEPT ![i].type = type, ![i].val = Converted(type, @)]
      ELSE LET d == Set(c, key, type, default) IN [d EXCEPT ![Find(d, key)].save = FALSE]

-----------------------------------------------------------------------------
(* The file *)

\* config_chomp: the first character stays.
Chomp(text) ==
    SubSeq(text, 1, Max({i \in DOMAIN text : text[i] # Blank} \union {1}))

SkipBlanks(text) ==
    SubSeq(text, Min({i \in DOMAIN text : text[i] # Blank} \union {Len(text) + 1}), Len(text))

\* The value of a line in config_parseline, as <<value>>; empty when sscanf
\* finds no value or the quote that opens is the one that closes.  With no
\* quote that closes the code writes through a null pointer.
ParseValue(text) ==
    LET v == SkipBlanks(Chomp(text))
        w == Tail(v)
        l == Max({i \in DOMAIN w : w[i] = Quote} \union {0})
    IN  IF text = <<>> THEN <<>>
        ELSE IF v = <<>> THEN <<v>>
        ELSE IF v[1] # Quote THEN <<v>>
        ELSE IF l <= 1 THEN <<>> ELSE <<SubSeq(w, 1, l - 1)>>

Readable(lines) ==
    \A i \in DOMAIN lines : lines[i].key # NoKey => ParseValue(lines[i].text) # <<>>

\* config_load of a file that is Readable: every line is an entry of its own.
Load(lines) ==
    FoldLeft(LAMBDA c, l : IF l.key = NoKey THEN c
                           ELSE Insert(c, [key |-> l.key, type |-> "unknown", save |-> TRUE,
                                           val |-> ParseValue(l.text)[1]]),
             <<>>, lines)

\* config_write, without the failures of its calls: see WalletFile.
Written(c) ==
    LET kept == SelectSeq(c, LAMBDA e : e.save /\ e.val # NullStr)
    IN  [i \in DOMAIN kept |-> [key  |-> kept[i].key,
                                text |-> <<Blank, Quote>> \o kept[i].val \o <<Quote>>]]

-----------------------------------------------------------------------------
\* The settings are those that the calls so far, and the file before them,
\* define: map[n] has the value that a key with that name was given last, and
\* whether it is to be saved.  The file that is written now can be read unless
\* a text in it is empty, and says the same unless a user gave a key twice: the
\* lines of a key that was there twice change places with every run.
ConfigAgrees(c, map) ==
    /\ \A key \in 1 .. Names :
          IF Name(key) \in DOMAIN map
            THEN IsSet(c, key) /\ LET e == c[Find(c, key)]
                                  IN  e.val = map[Name(key)].val /\ e.save = map[Name(key)].save
            ELSE ~IsSet(c, key)
    /\ Readable(Written(c)) <=> \A i \in DOMAIN c : c[i].save => c[i].val # <<>>
    /\ Readable(Written(c)) /\ (\A i, j \in DOMAIN c : c[i].key = c[j].key => i = j) =>
          \A key \in 1 .. Names :
             LET kept == Name(key) \in DOMAIN map /\ map[Name(key)].save /\ map[Name(key)].val # NullStr
                 d    == Load(Written(c))
             IN  IF kept THEN IsSet(d, key) /\ d[Find(d, key)].val = map[Name(key)].val
                 ELSE ~IsSet(d, key)
=============================================================================
