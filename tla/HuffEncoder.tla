---------------------------- MODULE HuffEncoder ----------------------------
(***************************************************************************)
(* The Huffman encoders of libjpeg, both as they count symbols and as they *)
(* write bits: the sequential one (jchuff.c), then the progressive one     *)
(* (jcphuff.c).                                                            *)
(*                                                                         *)
(* A block is indexed by zigzag position, 0 for the DC coefficient: the    *)
(* reordering by jpeg_natural_order is the same on both sides.  An MCU is  *)
(* the sequence of its blocks.  A scan is a record                         *)
(*   comps     the components in it                                        *)
(*   memb      MCU_membership: the component of each block of an MCU       *)
(*   dc, ac    dc_tbl_no and ac_tbl_no of each component                   *)
(*   restart_interval, Ss, Se, Ah, Al                                      *)
(* and a table is named by <<isDC, number>>.                               *)
(*                                                                         *)
(* An encoder is a record: the bytes written, the bits not yet written     *)
(* (put_buffer, put_bits), the DC predictions, the restart counters, the   *)
(* symbol counts of a gathering pass or the codes of a writing one, and    *)
(* err, "" or the error that ended the compression.  The last three fields *)
(* belong to the progressive encoder.                                      *)
(***************************************************************************)
EXTENDS HuffTable

CONSTANTS
    DCTSIZE2,        \* 64: coefficients of a block
    MAX_COEF_BITS,   \* 10: bits of the largest AC coefficient
    MAX_CORR_BITS,   \* 1000; "the minimum safe size is 64" (progressive)
    JOCTET_BITS,     \* 8
    RST0, NUM_RST,   \* the restart markers are RST0 .. RST0 + NUM_RST - 1
    EOI              \* some marker that ends the data of a scan

Marked == 2^JOCTET_BITS - 1                \* 0xFF

ASSUME EncoderAssumption ==
    /\ DCTSIZE2 \in Nat \ {0, 1} /\ MAX_COEF_BITS \in 1..(NIBBLE - 2) /\ JOCTET_BITS \in Nat \ {0, 1}
    /\ RST0 + NUM_RST - 1 < EOI /\ 0 < RST0 /\ EOI < Marked

Key(isDC, scan, c) == <<isDC, IF isDC THEN scan.dc[c] ELSE scan.ac[c]>>
TablesOf(scan) == {Key(isDC, scan, c) : isDC \in BOOLEAN, c \in Range(scan.comps)}

nbits(v) == CHOOSE n \in 0..31 : Abs(v) < 2^n /\ (n > 0 => Abs(v) >= 2^(n - 1))
(* The value's own bits, or those of the complement of its magnitude. *)
ValueBits(v) == BitsOf(IF v < 0 THEN v - 1 ELSE v, nbits(v))

Fail(x, e) == IF x.err = "" THEN [x EXCEPT !.err = e] ELSE x

(* emit_bits: whole bytes go out, a zero byte stuffed after each 0xFF. *)
emit_bits(e, bits) ==
    LET all     == e.put \o bits
        whole   == Len(all) \div JOCTET_BITS
        byte(i) == ValueOf(SubSeq(all, (i - 1) * JOCTET_BITS + 1, i * JOCTET_BITS))
        bytes   == FlattenSeq([i \in 1..whole |-> IF byte(i) = Marked THEN <<Marked, 0>> ELSE <<byte(i)>>])
    IN  IF bits = <<>> THEN Fail(e, "JERR_HUFF_MISSING_CODE")
        ELSE [e EXCEPT !.out = @ \o bytes, !.put = SubSeq(all, whole * JOCTET_BITS + 1, Len(all))]
(* Codes and values one after the other; an empty code is a missing one. *)
emit_all(e, codes) ==
    IF \E i \in DOMAIN codes : codes[i] = <<>> THEN Fail(e, "JERR_HUFF_MISSING_CODE")
    ELSE emit_bits(e, FlattenSeq(codes))
(* flush_bits: a partial byte is filled with ones. *)
flush_bits(e) == [emit_bits(e, [i \in 1..(JOCTET_BITS - 1) |-> 1]) EXCEPT !.put = <<>>]
-----------------------------------------------------------------------------
(* The nonzero values of f on Ss..Se in order, each with the run of zeros
   before it, and the zeros after the last. *)
NonZero(f, Ss, Se) == SetToSortSeq({k \in Ss..Se : f[k] # 0}, <)
RunBefore(nz, Ss, i) == nz[i] - 1 - IF i = 1 THEN Ss - 1 ELSE nz[i - 1]
ZerosAfter(nz, Ss, Se) == Se - IF nz = <<>> THEN Ss - 1 ELSE Last(nz)

ZRL == Symbol(NIBBLE - 1, 0)               \* a run of NIBBLE zeros, 0xF0
EOB == Symbol(0, 0)
Repeat(x, n) == [i \in 1..n |-> x]

(* encode_one_block. *)
encode_one_block(e, block, last, dctbl, actbl) ==
    LET diff  == block[0] - last
        nz    == NonZero(block, 1, DCTSIZE2 - 1)
        dc    == <<dctbl[nbits(diff)]>> \o Repeat(ValueBits(diff), IF diff = 0 THEN 0 ELSE 1)
        ac(i) == LET r == RunBefore(nz, 1, i)
                     v == block[nz[i]]
                 IN  Repeat(actbl[ZRL], r \div NIBBLE) \o <<actbl[Symbol(r % NIBBLE, nbits(v))], ValueBits(v)>>
        eob   == IF ZerosAfter(nz, 1, DCTSIZE2 - 1) > 0 THEN <<actbl[EOB]>> ELSE <<>>
    IN  IF nbits(diff) > MAX_COEF_BITS + 1 \/ \E i \in DOMAIN nz : nbits(block[nz[i]]) > MAX_COEF_BITS
        THEN Fail(e, "JERR_BAD_DCT_COEF")
        ELSE emit_all(e, dc \o FlattenSeq([i \in DOMAIN nz |-> ac(i)]) \o eob)

(* htest_one_block: the same walk, to count symbols. *)
Count(e, key, s) == [e EXCEPT !.counts[key][s] = @ + 1]
CountAll(e, key, syms) ==
    [e EXCEPT !.counts[key] = [s \in DOMAIN @ |-> @[s] + Cardinality({i \in DOMAIN syms : syms[i] = s})]]
htest_one_block(e, block, last, dckey, ackey) ==
    LET diff  == block[0] - last
        nz    == NonZero(block, 1, DCTSIZE2 - 1)
        ac(i) == LET r == RunBefore(nz, 1, i)
                 IN  Repeat(ZRL, r \div NIBBLE) \o <<Symbol(r % NIBBLE, nbits(block[nz[i]]))>>
        syms  == FlattenSeq([i \in DOMAIN nz |-> ac(i)])
                     \o IF ZerosAfter(nz, 1, DCTSIZE2 - 1) > 0 THEN <<EOB>> ELSE <<>>
    IN  IF nbits(diff) > MAX_COEF_BITS + 1 \/ \E i \in DOMAIN nz : nbits(block[nz[i]]) > MAX_COEF_BITS
        THEN Fail(e, "JERR_BAD_DCT_COEF")
        ELSE CountAll(Count(e, dckey, nbits(diff)), ackey, syms)
-----------------------------------------------------------------------------
RestartDue(x, scan) == scan.restart_interval > 0 /\ x.restarts_to_go = 0
ForgetDC(x) == [x EXCEPT !.last_dc = [c \in DOMAIN @ |-> 0]]

(* emit_restart *)
emit_restart(e) ==
    LET f == flush_bits(e) IN ForgetDC([f EXCEPT !.out = @ \o <<Marked, RST0 + e.next_restart_num>>])

(* "Update restart-interval state too", at the end of every encode_mcu. *)
CountRestart(e, scan) ==
    IF scan.restart_interval = 0 THEN e
    ELSE IF e.restarts_to_go = 0
         THEN [e EXCEPT !.restarts_to_go = scan.restart_interval - 1,
                        !.next_restart_num = (@ + 1) % NUM_RST]
         ELSE [e EXCEPT !.restarts_to_go = @ - 1]

(* Each block of the MCU in turn, and the prediction it leaves. *)
ForBlocks(op(_, _, _), e, scan, mcu) ==
    FoldLeft(LAMBDA x, i : [op(x, mcu[i], scan.memb[i]) EXCEPT !.last_dc[scan.memb[i]] = mcu[i][0]],
             e, [i \in DOMAIN mcu |-> i])

encode_mcu_huff(e, scan, mcu) ==
    LET encode(x, block, c) == encode_one_block(x, block, x.last_dc[c],
                                   x.ehuf[Key(TRUE, scan, c)], x.ehuf[Key(FALSE, scan, c)])
    IN  CountRestart(ForBlocks(encode, IF RestartDue(e, scan) THEN emit_restart(e) ELSE e, scan, mcu), scan)

encode_mcu_gather_no_restart(e, scan, mcu) ==
    LET test(x, block, c) == htest_one_block(x, block, x.last_dc[c],
                                 Key(TRUE, scan, c), Key(FALSE, scan, c))
    IN  ForBlocks(test, e, scan, mcu)

(* encode_mcu_gather writes no marker, so its counter needs no number. *)
encode_mcu_gather(e, scan, mcu) ==
    LET test(x, block, c) == htest_one_block(x, block, x.last_dc[c],
                                 Key(TRUE, scan, c), Key(FALSE, scan, c))
        due  == RestartDue(e, scan)
        x    == IF due THEN ForgetDC(e) ELSE e
        togo == (IF due THEN scan.restart_interval ELSE e.restarts_to_go) - 1
    IN  ForBlocks(test, IF scan.restart_interval > 0 THEN [x EXCEPT !.restarts_to_go = togo] ELSE x, scan, mcu)

(* start_pass_huff: the counts are zeroed, or the codes derived. *)
start_pass_huff(scan, gather, tables) ==
    LET bad == \E key \in TablesOf(scan) : key \notin DOMAIN tables \/ BadForEncoder(key[1], tables[key])
    IN  [out |-> <<>>, put |-> <<>>, last_dc |-> [c \in Range(scan.comps) |-> 0], gather |-> gather,
         restarts_to_go |-> scan.restart_interval, next_restart_num |-> 0,
         counts |-> [key \in TablesOf(scan) |-> [s \in Symbols |-> 0]],
         ehuf |-> IF gather \/ bad THEN <<>> ELSE [key \in TablesOf(scan) |-> ehuf(tables[key])],
         err |-> IF ~gather /\ bad THEN "JERR_BAD_HUFF_TABLE" ELSE "",
         EOBRUN |-> 0, corr |-> <<>>, most |-> 0]

finish_pass_huff(e) == flush_bits(e)

(* finish_pass_gather: each table of the scan is made once. *)
finish_pass_gather(e, tables) ==
    [key \in DOMAIN tables \union DOMAIN e.counts |->
        IF key \in DOMAIN e.counts THEN jpeg_gen_optimal_table(e.counts[key]) ELSE tables[key]]
-----------------------------------------------------------------------------
(***************************************************************************)
(* The progressive Huffman encoder of libjpeg (jcphuff.c).  A scan codes   *)
(* one band Ss..Se of the coefficients down to bit Al, for the first time  *)
(* (Ah = 0) or as the next bit of what an earlier scan sent.               *)
(*                                                                         *)
(* Ends of band are counted (EOBRUN) and written as one symbol; the        *)
(* correction bits that belong after that symbol wait with it (corr, the   *)
(* first BE entries of bit_buffer).  "most" is the largest number of bits  *)
(* that bit_buffer has held, for the property that it is large enough.     *)
(***************************************************************************)

IsDCBand(scan) == scan.Ss = 0
ACKey(scan) == Key(FALSE, scan, scan.comps[1])

(* emit_bits and emit_symbol of jcphuff.c, which only count in a gathering
   pass, and emit_buffered_bits. *)
EmitBits(e, bits) ==
    IF bits = <<>> THEN Fail(e, "JERR_HUFF_MISSING_CODE") ELSE IF e.gather THEN e ELSE emit_bits(e, bits)
emit_symbol(e, key, s) == IF e.gather THEN Count(e, key, s) ELSE EmitBits(e, e.ehuf[key][s])
emit_buffered_bits(e, bits) == IF bits = <<>> THEN e ELSE EmitBits(e, bits)

MaxEobrun == 2^(NIBBLE - 1) - 1            \* 0x7FFF

(* emit_eobrun: the pending run, if any, with its correction bits. *)
emit_eobrun(e, scan) ==
    LET n == nbits(e.EOBRUN) - 1
    IN  IF e.EOBRUN = 0 THEN e
        ELSE IF n > NIBBLE - 2 THEN Fail(e, "JERR_HUFF_MISSING_CODE")
        ELSE [emit_buffered_bits(emit_symbol(e, ACKey(scan), Symbol(n, 0)), BitsOf(e.EOBRUN, n) \o e.corr)
                 EXCEPT !.EOBRUN = 0, !.corr = <<>>]

Marker(e) == IF e.gather THEN e
             ELSE [flush_bits(e) EXCEPT !.out = @ \o <<Marked, RST0 + e.next_restart_num>>]
Forget(e, scan) == IF IsDCBand(scan) THEN ForgetDC(e) ELSE [e EXCEPT !.EOBRUN = 0, !.corr = <<>>]
emit_restart_p(e, scan) == Forget(Marker(emit_eobrun(e, scan)), scan)
-----------------------------------------------------------------------------
(* A symbol followed by bits of its own, possibly none. *)
SymbolAndBits(e, key, s, bits) == emit_buffered_bits(emit_symbol(e, key, s), bits)

(* encode_mcu_DC_first: the difference of the values shifted right. *)
DCFirst(e, scan, mcu) ==
    LET code(x, c, value, diff) ==
            IF nbits(diff) > MAX_COEF_BITS + 1 THEN Fail(x, "JERR_BAD_DCT_COEF")
            ELSE [SymbolAndBits(x, Key(TRUE, scan, c), nbits(diff), ValueBits(diff)) EXCEPT !.last_dc[c] = value]
        shifted(i) == mcu[i][0] \div 2^scan.Al
    IN  FoldLeft(LAMBDA x, i : code(x, scan.memb[i], shifted(i), shifted(i) - x.last_dc[scan.memb[i]]),
                 e, [i \in DOMAIN mcu |-> i])

(* encode_mcu_DC_refine: bit Al of the two's complement value. *)
DCRefine(e, scan, mcu) == EmitBits(e, [i \in DOMAIN mcu |-> (mcu[i][0] \div 2^scan.Al) % 2])

(* The point transform of an AC coefficient rounds towards zero. *)
Shifted(v, Al) == IF v < 0 THEN -(Abs(v) \div 2^Al) ELSE v \div 2^Al
Transformed(block, scan) == [k \in scan.Ss..scan.Se |-> Shifted(block[k], scan.Al)]

ForceLate(e, scan) ==
    IF e.EOBRUN = MaxEobrun \/ Len(e.corr) >= MAX_CORR_BITS THEN emit_eobrun(e, scan) ELSE e

(* An end of band is counted, and forced out at the limit of the counter or
   when the correction bits of one more block might not fit. *)
Force(e, scan) ==
    IF e.EOBRUN = MaxEobrun \/ Len(e.corr) > MAX_CORR_BITS - DCTSIZE2 + 1 THEN emit_eobrun(e, scan) ELSE e
EndOfBand(e, scan, bits) == Force([e EXCEPT !.EOBRUN = @ + 1, !.corr = @ \o bits], scan)

(* encode_mcu_AC_first *)
RECURSIVE ZRLs(_, _, _)
ZRLs(e, scan, r) == IF r < NIBBLE THEN e ELSE ZRLs(emit_symbol(e, ACKey(scan), ZRL), scan, r - NIBBLE)
ACFirst(e, scan, mcu) ==
    LET f  == Transformed(mcu[1], scan)
        nz == NonZero(f, scan.Ss, scan.Se)
        code(x, r, v) ==
            IF nbits(v) > MAX_COEF_BITS THEN Fail(x, "JERR_BAD_DCT_COEF")
            ELSE SymbolAndBits(ZRLs(emit_eobrun(x, scan), scan, r), ACKey(scan),
                               Symbol(r % NIBBLE, nbits(v)), ValueBits(v))
        last(x) == IF ZerosAfter(nz, scan.Ss, scan.Se) > 0 THEN EndOfBand(x, scan, <<>>) ELSE x
    IN  last(FoldLeft(LAMBDA x, i : code(x, RunBefore(nz, scan.Ss, i), f[nz[i]]), e, [i \in DOMAIN nz |-> i]))

(* encode_mcu_AC_refine.  The walk carries the encoder, the run r of zeros
   and the correction bits br gathered since the last symbol; a coefficient
   that was already nonzero only adds a bit, and runs of zeros after the last
   newly nonzero one (eob) fold into the end of band. *)
Held(w) == [w EXCEPT !.e.most = Max({@, Len(w.e.corr) + Len(w.br)})]
Code(w, scan, s, own) ==
    [w EXCEPT !.e = SymbolAndBits(emit_eobrun(@, scan), ACKey(scan), s, own \o w.br), !.br = <<>>]
RECURSIVE FarZRLs(_, _)
FarZRLs(w, scan) ==
    IF w.r < NIBBLE THEN w ELSE FarZRLs([Code(w, scan, ZRL, <<>>) EXCEPT !.r = @ - NIBBLE], scan)
RefineOne(w, scan, v, sign) ==
    IF v > 1 THEN Held([w EXCEPT !.br = Append(@, v % 2)])
    ELSE [Code(w, scan, Symbol(w.r, 1), <<sign>>) EXCEPT !.r = 0]
ACRefine(e, scan, mcu) ==
    LET f   == Transformed(mcu[1], scan)
        eob == Max({0} \union {k \in scan.Ss..scan.Se : Abs(f[k]) = 1})
        step(w, k) ==
            IF f[k] = 0 THEN [w EXCEPT !.r = @ + 1]
            ELSE RefineOne(IF k <= eob THEN FarZRLs(w, scan) ELSE w, scan, Abs(f[k]), IF mcu[1][k] < 0 THEN 0 ELSE 1)
        last(w) == IF w.r > 0 \/ w.br # <<>> THEN EndOfBand(w.e, scan, w.br) ELSE w.e
    IN  last(FoldLeft(step, [e |-> e, r |-> 0, br |-> <<>>], [i \in 1..(scan.Se - scan.Ss + 1) |-> scan.Ss + i - 1]))

(* The routine start_pass_phuff selects, between the restart and its count. *)
encode_blocks(e, scan, mcu) ==
    CASE scan.Ah = 0 /\ IsDCBand(scan) -> DCFirst(e, scan, mcu)
      [] scan.Ah = 0 /\ ~IsDCBand(scan) -> ACFirst(e, scan, mcu)
      [] scan.Ah # 0 /\ IsDCBand(scan) -> DCRefine(e, scan, mcu)
      [] OTHER -> ACRefine(e, scan, mcu)
encode_mcu_phuff(e, scan, mcu) ==
    CountRestart(encode_blocks(IF RestartDue(e, scan) THEN emit_restart_p(e, scan) ELSE e, scan, mcu), scan)

(* start_pass_phuff: a DC refinement needs no table. *)
PhuffTables(scan) ==
    IF IsDCBand(scan) /\ scan.Ah # 0 THEN {} ELSE {Key(IsDCBand(scan), scan, c) : c \in Range(scan.comps)}
start_pass_phuff(scan, gather, tables) ==
    LET bad == \E key \in PhuffTables(scan) : key \notin DOMAIN tables \/ BadForEncoder(key[1], tables[key])
    IN  [out |-> <<>>, put |-> <<>>, last_dc |-> [c \in Range(scan.comps) |-> 0], gather |-> gather,
         restarts_to_go |-> scan.restart_interval, next_restart_num |-> 0,
         counts |-> [key \in PhuffTables(scan) |-> [s \in Symbols |-> 0]],
         ehuf |-> IF gather \/ bad THEN <<>> ELSE [key \in PhuffTables(scan) |-> ehuf(tables[key])],
         err |-> IF ~gather /\ bad THEN "JERR_BAD_HUFF_TABLE" ELSE "",
         EOBRUN |-> 0, corr |-> <<>>, most |-> 0]

finish_pass_phuff(e, scan) == flush_bits(emit_eobrun(e, scan))
(* finish_pass_gather_phuff: the pending run is counted first. *)
finish_pass_gather_phuff(e, scan, tables) == finish_pass_gather(emit_eobrun(e, scan), tables)
=============================================================================
