----------------------------- MODULE HuffTable -----------------------------
(***************************************************************************)
(* Huffman tables of libjpeg: the table a file carries (JHUFF_TBL), what   *)
(* the encoder (jchuff.c) and the decoder (jdhuff.c) derive from it, and   *)
(* the table made to measure for a set of symbol counts.                   *)
(*                                                                         *)
(* A symbol packs a run of zeros and a size, "(r << 4) + s" in the code,   *)
(* so there are 16 of each; here NIBBLE of each.  A code is the sequence   *)
(* of its bits, most significant first.                                    *)
(***************************************************************************)
EXTENDS Integers, Sequences, FiniteSetsExt, SequencesExt

CONSTANTS
    NIBBLE,          \* 16: runs and sizes are 0..NIBBLE-1
    MAX_LEN,         \* 16: longest code a table may hold
    MAX_CLEN,        \* 32: longest code Huffman's procedure is expected to make
    HUFF_LOOKAHEAD   \* 8: bits the decoder looks up at once

ASSUME TableAssumption ==
    NIBBLE \in Nat \ {0, 1} /\ MAX_LEN \in Nat \ {0} /\ MAX_CLEN \in Nat
    /\ HUFF_LOOKAHEAD \in 1..MAX_LEN

Symbol(r, s) == r * NIBBLE + s
Symbols == 0 .. (NIBBLE * NIBBLE - 1)
Pseudo == NIBBLE * NIBBLE                  \* "symbol 256"

Abs(v) == IF v < 0 THEN -v ELSE v
BitsOf(v, n) == [i \in 1..n |-> (v \div 2^(n - i)) % 2]
ValueOf(bits) == FoldLeft(LAMBDA v, b : 2 * v + b, 0, bits)
-----------------------------------------------------------------------------
(* Figures C.1 and C.2 of the standard, in both make_derived_tbl functions:
   the code lengths in table order, and the codes as numbers. *)
huffsize(t) == FlattenSeq([l \in 1..MAX_LEN |-> [i \in 1..t.bits[l] |-> l]])
huffcode(t) ==
    LET size == huffsize(t)
        code[p \in 1..Len(size)] ==
            IF p = 1 THEN 0 ELSE (code[p - 1] + 1) * 2^(size[p] - size[p - 1])
    IN  code

(* No more codes than symbols, and no code of all ones. *)
LegalTree(t) ==
    /\ Len(huffsize(t)) <= NIBBLE * NIBBLE
    /\ \A p \in DOMAIN huffsize(t) : huffcode(t)[p] + 1 < 2^(huffsize(t)[p])

(* jpeg_make_c_derived_tbl: JERR_BAD_HUFF_TABLE, or the code of each symbol,
   empty for one the table does not have. *)
BadForEncoder(isDC, t) ==
    \/ ~LegalTree(t)
    \/ \E p, q \in DOMAIN huffsize(t) : p # q /\ t.huffval[p] = t.huffval[q]
    \/ isDC /\ \E p \in DOMAIN huffsize(t) : t.huffval[p] >= NIBBLE
ehuf(t) ==
    LET size == huffsize(t)
    IN  [s \in Symbols |->
            IF \E p \in DOMAIN size : t.huffval[p] = s
            THEN LET p == CHOOSE p \in DOMAIN size : t.huffval[p] = s
                 IN  BitsOf(huffcode(t)[p], size[p])
            ELSE <<>>]

(* jpeg_make_d_derived_tbl: the largest code of each length (-1 for none),
   what to add to a code of that length to index huffval, and the table that
   decodes HUFF_LOOKAHEAD bits at once, with 0 bits for "too long". *)
BadForDecoder(isDC, t) ==
    \/ ~LegalTree(t)
    \/ isDC /\ \E p \in DOMAIN huffsize(t) : t.huffval[p] >= NIBBLE
FirstOf(t, l) == 1 + MapThenSumSet(LAMBDA m : t.bits[m], 1..(l - 1))
maxcode(t) ==
    [l \in 1..(MAX_LEN + 1) |->
        IF l > MAX_LEN THEN 2^(MAX_LEN + 2)      \* ensures jpeg_huff_decode terminates
        ELSE IF t.bits[l] > 0 THEN huffcode(t)[FirstOf(t, l) + t.bits[l] - 1] ELSE -1]
valoffset(t) ==
    [l \in 1..MAX_LEN |-> IF t.bits[l] > 0 THEN FirstOf(t, l) - huffcode(t)[FirstOf(t, l)] ELSE 0]
look(t) ==
    LET size == huffsize(t)
        shift(p) == 2^(HUFF_LOOKAHEAD - size[p])
        covers(p, v) == size[p] <= HUFF_LOOKAHEAD /\ v \div shift(p) = huffcode(t)[p]
    IN  [v \in 0..(2^HUFF_LOOKAHEAD - 1) |->
            IF \E p \in DOMAIN size : covers(p, v)
            THEN LET p == CHOOSE p \in DOMAIN size : covers(p, v)
                 IN  [nbits |-> size[p], sym |-> t.huffval[p]]
            ELSE [nbits |-> 0, sym |-> 0]]
d_derived(t) == [maxcode |-> maxcode(t), valoffset |-> valoffset(t), look |-> look(t), huffval |-> t.huffval]
-----------------------------------------------------------------------------
(* jpeg_gen_optimal_table.  Huffman's procedure merges the two least counts,
   the larger symbol first in a tie, until one is left; branch[c] is the set
   of symbols chained from c through "others". *)
Least(freq, out) ==
    LET used == {c \in DOMAIN freq : freq[c] > 0} \ out
        v    == Min({freq[c] : c \in used})
    IN  IF used = {} THEN -1 ELSE Max({c \in used : freq[c] = v})

RECURSIVE CodeSizes(_, _, _)
CodeSizes(freq, size, branch) ==
    LET c1 == Least(freq, {})
        c2 == Least(freq, {c1})
        both == branch[c1] \union branch[c2]
    IN  IF c2 < 0 THEN size
        ELSE CodeSizes([freq EXCEPT ![c1] = freq[c1] + freq[c2], ![c2] = 0],
                       [c \in DOMAIN size |-> size[c] + IF c \in both THEN 1 ELSE 0],
                       [branch EXCEPT ![c1] = both])

RECURSIVE Limit(_, _)
(* Mutants, here and in the modules that follow: plausible slips in the
   definition after them. *)
LimitKeepsPrefix(bits, i) ==
    IF i <= MAX_LEN THEN bits
    ELSE IF bits[i] = 0 THEN Limit(bits, i - 1)
    ELSE LET j == Max({l \in 1..(i - 2) : bits[l] > 0})
             fewer == [bits EXCEPT ![i] = @ - 2]
             one   == [fewer EXCEPT ![i - 1] = @ + 1]
         IN  Limit([one EXCEPT ![j + 1] = @ + 2], i)

(* Section K.2: lengths over MAX_LEN are shortened two symbols at a time. *)
Limit(bits, i) ==
    IF i <= MAX_LEN THEN bits
    ELSE IF bits[i] = 0 THEN Limit(bits, i - 1)
    ELSE LET j == Max({l \in 1..(i - 2) : bits[l] > 0})
             fewer == [bits EXCEPT ![i] = @ - 2]
             one   == [fewer EXCEPT ![i - 1] = @ + 1]
             two   == [one EXCEPT ![j + 1] = @ + 2]
         IN  Limit([two EXCEPT ![j] = @ - 1], i)

(* The pseudo-symbol has count 1, so that it takes the last and longest
   code, the one of all ones; its slot is then given up. *)
OptimalSizes(freq) ==
    LET counts == [c \in Symbols \union {Pseudo} |-> IF c = Pseudo THEN 1 ELSE freq[c]]
    IN  CodeSizes(counts, [c \in DOMAIN counts |-> 0], [c \in DOMAIN counts |-> {c}])

jpeg_gen_optimal_table(freq) ==
    LET size  == OptimalSizes(freq)
        count == [l \in 1..MAX_CLEN |-> Cardinality({c \in DOMAIN size : size[c] = l})]
        bits  == Limit(count, MAX_CLEN)
        last  == Max({l \in 1..MAX_LEN : bits[l] > 0})
        coded == {c \in Symbols : size[c] > 0}
    IN  IF \E c \in DOMAIN size : size[c] > MAX_CLEN THEN [err |-> "JERR_HUFF_CLEN_OVERFLOW"]
        ELSE [bits    |-> [l \in 1..MAX_LEN |-> bits[l] - IF l = last THEN 1 ELSE 0],
              huffval |-> SetToSortSeq(coded, LAMBDA a, b : \/ size[a] < size[b]
                                                            \/ size[a] = size[b] /\ a < b)]
=============================================================================
