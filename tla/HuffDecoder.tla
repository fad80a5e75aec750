---------------------------- MODULE HuffDecoder ----------------------------
(***************************************************************************)
(* The Huffman decoders of libjpeg: the sequential one (jdhuff.c,          *)
(* jdhuff.h), then the progressive one (jdphuff.c).                        *)
(*                                                                         *)
(* A decoder is a record: the source (src, the bytes of the scan up to the *)
(* marker after it, of which the first "arrived" are there, and pos, how   *)
(* many were taken), the bit buffer, unread_marker (0 for none), the       *)
(* predictions and counters, and what the routines hand back: val, the     *)
(* symbol or bits just read, and susp, TRUE when the source ran dry.       *)
(* coefs is the output array.  warn records a JWRN warning and kmax the    *)
(* largest index used on jpeg_natural_order.                               *)
(***************************************************************************)
EXTENDS HuffEncoder

CONSTANT MIN_GET_BITS                      \* 25: the bit buffer is filled to this depth

ASSUME DecoderAssumption == MIN_GET_BITS \in Nat /\ MIN_GET_BITS >= NIBBLE /\ MIN_GET_BITS > HUFF_LOOKAHEAD

(* The entries jpeg_natural_order has beyond a block lead to its last one. *)
natural(k) == IF k < DCTSIZE2 THEN k ELSE DCTSIZE2 - 1
Touch(d, k) == [d EXCEPT !.kmax = Max({@, k})]

(* A source that has delivered its last byte makes up EOI markers. *)
ByteAt(d, pos) == IF pos < Len(d.src) THEN d.src[pos + 1]
                  ELSE IF (pos - Len(d.src)) % 2 = 0 THEN Marked ELSE EOI
Dry(d, pos) == pos >= d.arrived /\ d.arrived < Len(d.src)
AfterFill(d, pos) == CHOOSE q \in pos..(pos + Len(d.src) + 2) :
                        /\ Dry(d, q) \/ ByteAt(d, q) # Marked
                        /\ \A p \in pos..(q - 1) : ~Dry(d, p) /\ ByteAt(d, p) = Marked

(* jpeg_fill_bit_buffer: bytes are loaded until the buffer is deep enough, a
   marker is met (kept in unread_marker, for good) or the source is dry; past
   a marker there are zeros. *)
RECURSIVE Load(_)
Push(d, byte, pos) == [d EXCEPT !.buf = @ \o BitsOf(byte, JOCTET_BITS), !.pos = pos + 1]
LoadFrom(d, q) ==
    IF Dry(d, q) THEN [d EXCEPT !.susp = TRUE]
    ELSE IF q > d.pos /\ ByteAt(d, q) # 0 THEN [d EXCEPT !.unread = ByteAt(d, q), !.pos = q + 1]
    ELSE Load(Push(d, IF q > d.pos THEN Marked ELSE ByteAt(d, q), q))
Load(d) == IF Len(d.buf) >= MIN_GET_BITS THEN d ELSE LoadFrom(d, AfterFill(d, d.pos))
StuffZeros(d, n) ==
    IF ~d.susp /\ d.unread # 0 /\ n > Len(d.buf)
    THEN [d EXCEPT !.buf = @ \o Repeat(0, MIN_GET_BITS - Len(d.buf)), !.insufficient = TRUE, !.warn = TRUE]
    ELSE d
jpeg_fill_bit_buffer(d, n) == StuffZeros(IF d.unread = 0 THEN Load(d) ELSE d, n)

(* CHECK_BIT_BUFFER, GET_BITS *)
CHECK_BIT_BUFFER(d, n) == IF Len(d.buf) < n THEN jpeg_fill_bit_buffer(d, n) ELSE d
Drop(d, n, val) == [d EXCEPT !.val = val, !.buf = SubSeq(@, n + 1, Len(@))]
Taken(d, n) == IF d.susp THEN d ELSE Drop(d, n, ValueOf(SubSeq(d.buf, 1, n)))
GetBits(d, n) == Taken(CHECK_BIT_BUFFER(d, n), n)

(* jpeg_huff_decode: the code so far has l bits; one more at a time until it
   is no larger than the largest code of its length. *)
RECURSIVE Lengthen(_, _, _)
Longer(d, code) == [d EXCEPT !.val = 2 * code + @]
Lengthen(d, tbl, l) ==
    IF d.susp THEN d
    ELSE IF d.val > tbl.maxcode[l] THEN Lengthen(Longer(GetBits(d, 1), d.val), tbl, l + 1)
    ELSE IF l > MAX_LEN THEN [d EXCEPT !.val = 0, !.warn = TRUE]
    ELSE [d EXCEPT !.val = tbl.huffval[d.val + tbl.valoffset[l]]]
jpeg_huff_decode(d, tbl, min_bits) == Lengthen(GetBits(d, min_bits), tbl, min_bits)

(* HUFF_DECODE: by table if there are bits enough to look up. *)
LookUp(d, tbl, entry) ==
    IF entry.nbits > 0 THEN Drop(d, entry.nbits, entry.sym) ELSE jpeg_huff_decode(d, tbl, entry.min_bits)
Entry(d, tbl) ==
    IF Len(d.buf) < HUFF_LOOKAHEAD THEN [nbits |-> 0, min_bits |-> 1]
    ELSE [min_bits |-> HUFF_LOOKAHEAD + 1] @@ tbl.look[ValueOf(SubSeq(d.buf, 1, HUFF_LOOKAHEAD))]
Decode(d, tbl) == IF d.susp THEN d ELSE LookUp(d, tbl, Entry(d, tbl))
HUFF_DECODE(d, tbl) ==
    Decode(IF Len(d.buf) < HUFF_LOOKAHEAD THEN jpeg_fill_bit_buffer(d, 0) ELSE d, tbl)

HUFF_EXTEND(x, s) == IF s > 0 /\ x < 2^(s - 1) THEN x - 2^s + 1 ELSE x
Extended(d, s) == [d EXCEPT !.val = HUFF_EXTEND(@, s)]
SignedBits(d, s) == IF d.susp \/ s = 0 THEN d ELSE Extended(GetBits(d, s), s)
-----------------------------------------------------------------------------
(* process_restart.  Finding the marker is next_marker of jdmarker.c; the
   streams with restarts here are whole, so that the marker is the expected
   one (JpegReader has what happens when it is not). *)
RECURSIVE next_marker(_)
MarkerFrom(d, q) ==
    IF Dry(d, d.pos) \/ Dry(d, q) THEN [d EXCEPT !.susp = TRUE]
    ELSE IF q > d.pos /\ ByteAt(d, q) # 0 THEN [d EXCEPT !.unread = ByteAt(d, q), !.pos = q + 1]
    ELSE next_marker([d EXCEPT !.pos = q + 1])
next_marker(d) == IF d.unread # 0 THEN d ELSE MarkerFrom(d, AfterFill(d, d.pos))

AfterMarker(d, scan) ==
    LET expected == d.unread = RST0 + d.next_restart_num
    IN  IF d.susp THEN d
        ELSE ForgetDC([d EXCEPT !.unread = IF expected THEN 0 ELSE @, !.warn = @ \/ ~expected,
                                !.insufficient = @ /\ ~expected, !.EOBRUN = 0,
                                !.next_restart_num = (@ + 1) % NUM_RST,
                                !.restarts_to_go = scan.restart_interval])
process_restart(d, scan) == AfterMarker(next_marker([d EXCEPT !.buf = <<>>]), scan)
RestartFirst(d, scan) == IF RestartDue(d, scan) THEN process_restart(d, scan) ELSE d

(* What a decode routine keeps: all of its state when it completed, and when
   the source ran dry only what was never in its working copy. *)
Completed(d, scan) == [d EXCEPT !.restarts_to_go = IF scan.restart_interval > 0 THEN @ - 1 ELSE @]
Undone(d, new) == [d EXCEPT !.susp = TRUE, !.unread = new.unread, !.insufficient = new.insufficient,
                            !.warn = new.warn, !.kmax = new.kmax]
Saved(d, w, scan) == [w EXCEPT !.d = IF @.susp THEN Undone(d, @) ELSE Completed(@, scan)]
-----------------------------------------------------------------------------
(* decode_mcu.  A step works on w = [d, blk]; Next bits first, then what
   they mean. *)
RECURSIVE DecodeAC(_, _, _, _)
Stored(w, tbl, k, needed) ==
    IF w.d.susp THEN w
    ELSE DecodeAC(IF needed THEN [d |-> Touch(w.d, k), blk |-> [w.blk EXCEPT ![natural(k)] = w.d.val]] ELSE w,
                  tbl, k + 1, needed)
SymbolAC(w, tbl, k, needed) ==
    LET r == w.d.val \div NIBBLE
        s == w.d.val % NIBBLE
    IN  IF w.d.susp \/ (s = 0 /\ r # NIBBLE - 1) THEN w
        ELSE IF s = 0 THEN DecodeAC(w, tbl, k + NIBBLE, needed)
        ELSE Stored([w EXCEPT !.d = SignedBits(@, s)], tbl, k + r, needed)
DecodeACOfTable(w, tbl, k, needed) ==
    IF k >= DCTSIZE2 + NIBBLE THEN w ELSE SymbolAC([w EXCEPT !.d = HUFF_DECODE(@, tbl)], tbl, k, needed)
DecodeAC(w, tbl, k, needed) ==
    IF k >= DCTSIZE2 THEN w ELSE SymbolAC([w EXCEPT !.d = HUFF_DECODE(@, tbl)], tbl, k, needed)

(* The DC coefficient, a difference from the last one; shift is 2^Al. *)
DecodeDC(d, tbl) == LET difference(h) == SignedBits(h, h.val) IN difference(HUFF_DECODE(d, tbl))
StoreDC(w, c, shift) ==
    LET dc == w.d.val + w.d.last_dc[c]
    IN  IF w.d.susp THEN w
        ELSE [d |-> [w.d EXCEPT !.last_dc[c] = dc], blk |-> [w.blk EXCEPT ![0] = dc * shift]]
FirstCoef(d, blk, scan, c, shift) ==
    StoreDC([d |-> DecodeDC(d, d.tbl[Key(TRUE, scan, c)]), blk |-> blk], c, shift)
RestOfBlock(w, tbl, needed) == IF w.d.susp THEN w ELSE DecodeAC(w, tbl, 1, needed)
DecodeBlock(d, blk, scan, c, needed) ==
    RestOfBlock(FirstCoef(d, blk, scan, c, 1), d.tbl[Key(FALSE, scan, c)], needed)

(* The blocks of an MCU in turn, as long as there are bits for them. *)
PutBlock(mcu, i, w) == [d |-> w.d, mcu |-> [mcu EXCEPT ![i] = w.blk]]
ForMcu(op(_, _, _), d, mcu, scan) ==
    FoldLeft(LAMBDA w, i : IF w.d.susp THEN w ELSE PutBlock(w.mcu, i, op(w.d, w.mcu[i], scan.memb[i])),
             [d |-> d, mcu |-> mcu], [i \in DOMAIN mcu |-> i])

(* The frame of every decode_mcu: the restart, then the blocks, which are
   left alone when the data of the segment ran out. *)
Decoded(d, scan, mcu, op(_, _, _), heedless) ==
    IF d.susp THEN [d |-> d, mcu |-> mcu]
    ELSE Saved(d, IF d.insufficient /\ ~heedless THEN [d |-> d, mcu |-> mcu] ELSE ForMcu(op, d, mcu, scan), scan)

decode_mcu(d, scan, mcu, needed) ==
    Decoded(RestartFirst(d, scan), scan, mcu, LAMBDA x, blk, c : DecodeBlock(x, blk, scan, c, needed), FALSE)

(* start_pass_huff_decoder *)
start_pass_huff_decoder(scan, tables, src, arrived) ==
    LET bad == \E key \in TablesOf(scan) : key \notin DOMAIN tables \/ BadForDecoder(key[1], tables[key])
    IN  [src |-> src, arrived |-> arrived, pos |-> 0, buf |-> <<>>, unread |-> 0, insufficient |-> FALSE,
         warn |-> scan.Ss # 0 \/ scan.Se # DCTSIZE2 - 1 \/ scan.Ah # 0 \/ scan.Al # 0,
         last_dc |-> [c \in Range(scan.comps) |-> 0], EOBRUN |-> 0,
         restarts_to_go |-> scan.restart_interval, next_restart_num |-> 0,
         tbl |-> IF bad THEN <<>> ELSE [key \in TablesOf(scan) |-> d_derived(tables[key])],
         err |-> IF bad THEN "JERR_BAD_HUFF_TABLE" ELSE "", val |-> 0, susp |-> FALSE, kmax |-> 0]
-----------------------------------------------------------------------------
(***************************************************************************)
(* The progressive Huffman decoder of libjpeg (jdphuff.c).  A routine may  *)
(* run out of bytes in the middle of an MCU and is then called again, with *)
(* the state it had at the start of the MCU but with the coefficients it   *)
(* already stored.  For the first scan of a band that does no harm; the    *)
(* refinement of a band tells coefficients apart by whether they are zero, *)
(* so it takes back the ones it made nonzero.                              *)
(***************************************************************************)

BitSet(v, p1) == (v \div p1) % 2 = 1       \* (v & p1) != 0, in two's complement

(* decode_mcu_DC_first, for one block *)
FirstDC(d, blk, scan, c) == FirstCoef(d, blk, scan, c, 2^scan.Al)

(* decode_mcu_DC_refine, for one block: "|=" may be repeated *)
OrBit(w, p1) ==
    [w EXCEPT !.blk = IF ~w.d.susp /\ w.d.val = 1 /\ ~BitSet(@[0], p1) THEN [@ EXCEPT ![0] = @ + p1] ELSE @]
RefineDC(d, blk, scan, c) == OrBit([d |-> GetBits(d, 1), blk |-> blk], 2^scan.Al)

(* An EOBr symbol: a run of 2^r blocks and what r more bits add. *)
AddRun(d, r) == IF d.susp THEN d ELSE [d EXCEPT !.EOBRUN = 2^r + d.val]
EobRun(d, r) == AddRun(IF r > 0 THEN GetBits(d, r) ELSE [d EXCEPT !.val = 0], r)
CountBand(d) == IF d.susp THEN d ELSE [d EXCEPT !.EOBRUN = @ - 1]

(* decode_mcu_AC_first *)
RECURSIVE BandFirst(_, _, _)
StoredFirst(w, scan, k) ==
    IF w.d.susp THEN w
    ELSE BandFirst([d |-> Touch(w.d, k), blk |-> [w.blk EXCEPT ![natural(k)] = w.d.val * 2^scan.Al]], scan, k + 1)
SymbolFirst(w, scan, k) ==
    LET r == w.d.val \div NIBBLE
        s == w.d.val % NIBBLE
    IN  IF w.d.susp THEN w
        ELSE IF s > 0 THEN StoredFirst([w EXCEPT !.d = SignedBits(@, s)], scan, k + r)
        ELSE IF r = NIBBLE - 1 THEN BandFirst(w, scan, k + NIBBLE)
        ELSE [w EXCEPT !.d = CountBand(EobRun(@, r))]
BandFirst(w, scan, k) ==
    IF k > scan.Se THEN w ELSE SymbolFirst([w EXCEPT !.d = HUFF_DECODE(@, @.tbl[ACKey(scan)])], scan, k)
FirstAC(d, blk, scan, c) ==
    IF d.EOBRUN > 0 THEN [d |-> CountBand(d), blk |-> blk] ELSE BandFirst([d |-> d, blk |-> blk], scan, scan.Ss)
-----------------------------------------------------------------------------
(* decode_mcu_AC_refine.  Correct appends a correction bit to coefficient k,
   unless it is there already from an interrupted call; Advance passes over
   nonzero coefficients and r zero ones, leaving w.k at its target. *)
Corrected(w, k, p1) ==
    LET v == w.blk[k]
    IN  [w EXCEPT !.blk = IF ~w.d.susp /\ w.d.val = 1 /\ ~BitSet(v, p1)
                          THEN [@ EXCEPT ![k] = v + IF v >= 0 THEN p1 ELSE -p1] ELSE @]
Correct(w, scan, k) == Corrected([w EXCEPT !.d = GetBits(@, 1)], k, 2^scan.Al)

RECURSIVE Advance(_, _, _, _)
Advance(w, scan, k, r) ==
    IF w.d.susp \/ k > scan.Se \/ (w.blk[k] = 0 /\ r = 0) THEN [w EXCEPT !.k = k]
    ELSE IF w.blk[k] # 0 THEN Advance(Correct(w, scan, k), scan, k + 1, r)
    ELSE Advance(w, scan, k + 1, r - 1)

RECURSIVE RestOfBand(_, _, _)
RestOfBand(w, scan, k) ==
    IF w.d.susp THEN w
    ELSE IF k > scan.Se THEN [w EXCEPT !.d = CountBand(@)]
    ELSE RestOfBand(IF w.blk[k] # 0 THEN Correct(w, scan, k) ELSE w, scan, k + 1)

(* A symbol of size s # 1 is taken for 1; its sign bit comes before the
   correction bits of the coefficients it passes over. *)
RECURSIVE BandRefine(_, _, _)
AfterZRL(w, scan) == IF w.d.susp THEN w ELSE BandRefine(w, scan, w.k + 1)
NewlyNonzero(w, scan, value) ==
    IF w.d.susp THEN w
    ELSE BandRefine([w EXCEPT !.d = Touch(@, w.k), !.blk[natural(w.k)] = value,
                              !.newnz = @ \union {natural(w.k)}], scan, w.k + 1)
WithSign(w, scan, k, r) ==
    NewlyNonzero(Advance(w, scan, k, r), scan, IF w.d.val = 1 THEN 2^scan.Al ELSE -(2^scan.Al))
SymbolRefine(w, scan, k) ==
    LET r == w.d.val \div NIBBLE
        s == w.d.val % NIBBLE
    IN  IF w.d.susp THEN w
        ELSE IF s > 0 THEN WithSign([w EXCEPT !.d = GetBits([@ EXCEPT !.warn = @ \/ s # 1], 1)], scan, k, r)
        ELSE IF r = NIBBLE - 1 THEN AfterZRL(Advance(w, scan, k, r), scan)
        ELSE RestOfBand([w EXCEPT !.d = EobRun(@, r)], scan, k)
BandRefine(w, scan, k) ==
    IF k > scan.Se THEN w ELSE SymbolRefine([w EXCEPT !.d = HUFF_DECODE(@, @.tbl[ACKey(scan)])], scan, k)

UndoitNot(w) == [d |-> w.d, blk |-> w.blk]

(* "undoit": newly nonzero coefficients are zeroed again. *)
Undoit(w) ==
    [d |-> w.d, blk |-> [k \in DOMAIN w.blk |-> IF w.d.susp /\ k \in w.newnz THEN 0 ELSE w.blk[k]]]
RefineBand(w, scan) ==
    IF w.d.EOBRUN > 0 THEN RestOfBand(w, scan, scan.Ss) ELSE BandRefine(w, scan, scan.Ss)
RefineAC(d, blk, scan, c) ==
    Undoit(RefineBand([d |-> d, blk |-> blk, k |-> scan.Ss, newnz |-> {}], scan))
-----------------------------------------------------------------------------
(* The routine start_pass_phuff_decoder selects.  decode_mcu_DC_refine does
   not heed insufficient_data: it changes nothing on zero bits. *)
decode_block(d, blk, scan, c) ==
    CASE scan.Ah = 0 /\ IsDCBand(scan) -> FirstDC(d, blk, scan, c)
      [] scan.Ah = 0 /\ ~IsDCBand(scan) -> FirstAC(d, blk, scan, c)
      [] scan.Ah # 0 /\ IsDCBand(scan) -> RefineDC(d, blk, scan, c)
      [] OTHER -> RefineAC(d, blk, scan, c)
decode_mcu_phuff(d, scan, mcu) ==
    Decoded(RestartFirst(d, scan), scan, mcu, LAMBDA x, blk, c : decode_block(x, blk, scan, c),
            scan.Ah # 0 /\ IsDCBand(scan))

(* start_pass_phuff_decoder: a scan no decoder can make sense of is an
   error, one that does not follow from the scans before it a warning.
   coef_bits[c][k] is -1 until coefficient k is seen, then its last Al. *)
MAX_AL == 13
BadProgression(scan) ==
    \/ IF IsDCBand(scan) THEN scan.Se # 0
       ELSE scan.Ss > scan.Se \/ scan.Se >= DCTSIZE2 \/ Len(scan.comps) # 1
    \/ scan.Ah # 0 /\ scan.Al # scan.Ah - 1
    \/ scan.Al > MAX_AL
BogusProgression(scan, coef_bits) ==
    \E c \in Range(scan.comps) :
        \/ ~IsDCBand(scan) /\ coef_bits[c][0] < 0
        \/ \E k \in scan.Ss..scan.Se : scan.Ah # (IF coef_bits[c][k] < 0 THEN 0 ELSE coef_bits[c][k])
NextCoefBits(scan, coef_bits) ==
    [c \in DOMAIN coef_bits |-> [k \in DOMAIN coef_bits[c] |->
        IF c \in Range(scan.comps) /\ k \in scan.Ss..scan.Se THEN scan.Al ELSE coef_bits[c][k]]]

start_pass_phuff_decoder(scan, tables, src, arrived, coef_bits) ==
    LET bad == \E key \in PhuffTables(scan) : key \notin DOMAIN tables \/ BadForDecoder(key[1], tables[key])
    IN  [src |-> src, arrived |-> arrived, pos |-> 0, buf |-> <<>>, unread |-> 0, insufficient |-> FALSE,
         warn |-> ~BadProgression(scan) /\ BogusProgression(scan, coef_bits),
         last_dc |-> [c \in Range(scan.comps) |-> 0], EOBRUN |-> 0,
         restarts_to_go |-> scan.restart_interval, next_restart_num |-> 0,
         tbl |-> IF bad THEN <<>> ELSE [key \in PhuffTables(scan) |-> d_derived(tables[key])],
         err |-> IF BadProgression(scan) THEN "JERR_BAD_PROGRESSION"
                 ELSE IF bad THEN "JERR_BAD_HUFF_TABLE" ELSE "",
         val |-> 0, susp |-> FALSE, kmax |-> 0]
=============================================================================
