---------------------------- MODULE EntropyCoding ----------------------------
(***************************************************************************)
(* An image through the Huffman coders of libjpeg and back, scan by scan.  *)
(*                                                                         *)
(* The script is validated (validate_script, jcmaster.c).  For each scan   *)
(* the encoder makes a pass that counts symbols, unless the image is       *)
(* sequential and its tables are given, then a pass that writes; the       *)
(* decoder reads the scan from a source that may deliver its bytes a few   *)
(* at a time, so that a decode routine gives up in the middle of an MCU    *)
(* and is called again.  One byte of a scan may arrive damaged.            *)
(*                                                                         *)
(* Cases is a sequence of sets of cases.  A case is a record               *)
(*   image     image[c] the blocks of component c, h[c] of them to an MCU  *)
(*   script    the scans                                                   *)
(*   dc, ac    the tables of each component; tables, those that are given  *)
(*   restart_interval, optimize, needed (ac_needed of the decoder)         *)
(*   slow      the source delivers its bytes in pieces                     *)
(*   damage    <<>> or <<position, byte>>, for one scan without restarts   *)
(* or, with an empty script, only the symbol counts of some table.         *)
(***************************************************************************)
EXTENDS HuffDecoder

CONSTANTS Cases, MAX_AH_AL, MAX_COMPS, FIRST_BAND

Script == INSTANCE ScanScript WITH BLOCK <- DCTSIZE2

VARIABLES case, phase, pass, mcu, enc, tables, dec, coefs, coef_bits
vars == <<case, phase, pass, mcu, enc, tables, dec, coefs, coef_bits>>

progressive == Script!IsProgressive(case.script)
Components == DOMAIN case.image

(* The scan of a pass: per_scan_setup's MCU_membership.  A scan of one
   component takes its blocks one by one. *)
ScanAt(n) ==
    LET s == case.script[n]
        memb == IF Len(s.comps) = 1 THEN s.comps
                ELSE FlattenSeq([i \in DOMAIN s.comps |-> Repeat(s.comps[i], case.h[s.comps[i]])])
    IN  [comps |-> s.comps, memb |-> memb, dc |-> case.dc, ac |-> case.ac,
         restart_interval |-> case.restart_interval, Ss |-> s.Ss, Se |-> s.Se, Ah |-> s.Ah, Al |-> s.Al]
scan == ScanAt(pass)

(* Where the i-th block of MCU m lies in its component. *)
BlockAt(s, m, i) ==
    IF Len(s.comps) = 1 THEN m
    ELSE (m - 1) * case.h[s.memb[i]] + Cardinality({j \in 1..i : s.memb[j] = s.memb[i]})
McuOf(array, s, m) == [i \in DOMAIN s.memb |-> array[s.memb[i]][BlockAt(s, m, i)]]
McusIn(s) ==
    IF Len(s.comps) = 1 THEN Len(case.image[s.comps[1]])
    ELSE Len(case.image[s.comps[1]]) \div case.h[s.comps[1]]
LastMcu == mcu = McusIn(scan)

ZeroBlock == [k \in 0..(DCTSIZE2 - 1) |-> 0]

Init ==
    /\ \E i \in DOMAIN Cases : case \in Cases[i]
    /\ phase = IF case.script = <<>> THEN "counts" ELSE "script"
    /\ pass = 1 /\ mcu = 1
    /\ tables = case.tables
    /\ enc = <<>> /\ dec = <<>>
    /\ coefs = [c \in DOMAIN case.image |-> [b \in DOMAIN case.image[c] |-> ZeroBlock]]
    /\ coef_bits = Script!NothingSent(Len(case.image))

StartPass(s, gather, tbls) ==
    IF progressive THEN start_pass_phuff(s, gather, tbls) ELSE start_pass_huff(s, gather, tbls)

(* Progressive mode turns optimize_coding on (jcmaster.c). *)
Optimize == case.optimize \/ progressive
NeedsTables(s) == ~progressive \/ PhuffTables(s) # {}
(* A scan without tables to make is not gathered: prepare_for_pass. *)
BeginScan(n) ==
    LET gather == Optimize /\ NeedsTables(ScanAt(n))
    IN  /\ phase' = IF gather THEN "gather" ELSE "encode"
        /\ enc' = StartPass(ScanAt(n), gather, tables)
        /\ pass' = n /\ mcu' = 1

ValidateScript ==
    /\ phase = "script"
    /\ IF Script!validate_script(case.script, Len(case.image)) THEN BeginScan(1)
       ELSE phase' = "rejected" /\ UNCHANGED <<pass, mcu, enc>>
    /\ UNCHANGED <<case, tables, dec, coefs, coef_bits>>

(* Any counts a gathering pass may come to, made into a table. *)
Counted == <<FALSE, 0>>
MakeTable ==
    /\ phase = "counts"
    /\ tables' = finish_pass_gather([counts |-> [key \in {Counted} |-> case.counts]], tables)
    /\ phase' = "table"
    /\ UNCHANGED <<case, pass, mcu, enc, dec, coefs, coef_bits>>

Working(p) == phase = p /\ enc.err = ""

GatherMcu ==
    /\ Working("gather") /\ mcu <= McusIn(scan)
    /\ LET block == McuOf(case.image, scan, mcu)
       IN  enc' = IF progressive THEN encode_mcu_phuff(enc, scan, block) ELSE encode_mcu_gather(enc, scan, block)
    /\ mcu' = mcu + 1
    /\ UNCHANGED <<case, phase, pass, tables, dec, coefs, coef_bits>>

FinishGather ==
    /\ Working("gather") /\ mcu > McusIn(scan)
    /\ tables' = IF progressive THEN finish_pass_gather_phuff(enc, scan, tables) ELSE finish_pass_gather(enc, tables)
    /\ enc' = StartPass(scan, FALSE, tables')
    /\ phase' = "encode" /\ mcu' = 1
    /\ UNCHANGED <<case, pass, dec, coefs, coef_bits>>

EncodeMcu ==
    /\ Working("encode") /\ mcu <= McusIn(scan)
    /\ LET block == McuOf(case.image, scan, mcu)
       IN  enc' = IF progressive THEN encode_mcu_phuff(enc, scan, block) ELSE encode_mcu_huff(enc, scan, block)
    /\ mcu' = mcu + 1
    /\ UNCHANGED <<case, phase, pass, tables, dec, coefs, coef_bits>>

(* The scan is complete and the decoder starts on it. *)
Damaged(bytes) ==
    IF case.damage # <<>> /\ case.damage[1] \in DOMAIN bytes
    THEN [bytes EXCEPT ![case.damage[1]] = case.damage[2]] ELSE bytes
FinishEncode ==
    /\ Working("encode") /\ mcu > McusIn(scan)
    /\ enc' = IF progressive THEN finish_pass_phuff(enc, scan) ELSE finish_pass_huff(enc)
    /\ LET src     == Damaged(enc'.out \o <<Marked, EOI>>)
           arrived == IF case.slow THEN 0 ELSE Len(src)
       IN  dec' = IF progressive THEN start_pass_phuff_decoder(scan, tables, src, arrived, coef_bits)
                  ELSE start_pass_huff_decoder(scan, tables, src, arrived)
    /\ coef_bits' = NextCoefBits(scan, coef_bits)
    /\ phase' = IF enc'.err = "" /\ dec'.err = "" THEN "decode" ELSE "failed"
    /\ mcu' = 1
    /\ UNCHANGED <<case, pass, tables, coefs>>

(* An error ends the compression. *)
EncoderError ==
    /\ phase \in {"gather", "encode"} /\ enc.err # ""
    /\ phase' = "failed"
    /\ UNCHANGED <<case, pass, mcu, enc, tables, dec, coefs, coef_bits>>

DecodeNext(old) ==
    IF progressive THEN decode_mcu_phuff(dec, scan, old) ELSE decode_mcu(dec, scan, old, case.needed)
PutMcu(blocks) ==
    [c \in Components |-> [b \in DOMAIN coefs[c] |->
        LET here == {i \in DOMAIN scan.memb : scan.memb[i] = c /\ BlockAt(scan, mcu, i) = b}
        IN  IF here = {} THEN coefs[c][b] ELSE blocks[CHOOSE i \in here : TRUE]]]
DecodeMcu ==
    /\ phase = "decode" /\ ~dec.susp /\ mcu <= McusIn(scan)
    /\ \E new \in {DecodeNext(McuOf(coefs, scan, mcu))} :
          /\ dec' = new.d
          /\ coefs' = PutMcu(new.mcu)
          /\ mcu' = IF new.d.susp THEN mcu ELSE mcu + 1
    /\ UNCHANGED <<case, phase, pass, enc, tables, coef_bits>>

(* More bytes arrive and the application calls again. *)
Deliver ==
    /\ phase = "decode" /\ dec.susp
    /\ \E n \in (dec.arrived + 1)..Len(dec.src) : dec' = [dec EXCEPT !.arrived = n, !.susp = FALSE]
    /\ UNCHANGED <<case, phase, pass, mcu, enc, tables, coefs, coef_bits>>

FinishScan ==
    /\ phase = "decode" /\ mcu > McusIn(scan)
    /\ IF pass < Len(case.script) THEN BeginScan(pass + 1)
       ELSE phase' = "done" /\ UNCHANGED <<pass, mcu, enc>>
    /\ UNCHANGED <<case, tables, dec, coefs, coef_bits>>

Ended == phase \in {"table", "done", "failed", "rejected"} /\ UNCHANGED vars

Next == MakeTable \/ ValidateScript \/ GatherMcu \/ FinishGather \/ EncodeMcu \/ FinishEncode \/ EncoderError
            \/ DecodeMcu \/ Deliver \/ FinishScan \/ Ended
Spec == Init /\ [][Next]_vars
-----------------------------------------------------------------------------
(* What the scans sent so far say of a value: its Al lowest bits are cut
   off, towards minus infinity for a DC coefficient, towards zero for an AC
   one; a coefficient not sent is zero. *)
Known(v, k, Al) ==
    IF Al < 0 THEN 0
    ELSE IF k = 0 THEN (v \div 2^Al) * 2^Al
    ELSE IF v < 0 THEN -((Abs(v) \div 2^Al) * 2^Al) ELSE (v \div 2^Al) * 2^Al

(* When a scan of an undamaged file has been read, the decoder has every
   coefficient to exactly the precision the scans so far sent, and the image
   itself after a complete script: whatever the run lengths, restarts and
   interruptions of the source (jdhuff.c, jdphuff.c against jchuff.c,
   jcphuff.c).  Without ac_needed it still has every DC value. *)
ScanAgrees ==
    phase = "decode" /\ case.damage = <<>> /\ mcu > McusIn(scan) =>
        \A c \in Components : \A b \in DOMAIN coefs[c] : \A k \in 0..(DCTSIZE2 - 1) :
            k = 0 \/ case.needed => coefs[c][b][k] = Known(case.image[c][b][k], k, coef_bits[c][k])

(* A script the encoder accepts is one the decoder takes without an error or
   a warning, and no bits of an undamaged file are ever found missing or
   meaningless; the encoder itself fails on nothing but a coefficient too
   large for its symbols (validate_script against start_pass_phuff_decoder,
   the gathering pass against the writing one). *)
CleanDecode ==
    /\ phase = "failed" => enc.err = "JERR_BAD_DCT_COEF"
    /\ phase = "decode" /\ case.damage = <<>> => ~dec.warn

(* Neither the run of ends of band nor the correction bits that wait with it
   outgrow their room: EOBRUN is written in at most 14 more bits, bit_buffer
   holds MAX_CORR_BITS ("the minimum safe size is 64 bits"). *)
PendingFits ==
    phase \in {"gather", "encode"} => enc.EOBRUN < MaxEobrun /\ enc.most <= MAX_CORR_BITS

(* Damaged data may lead past the end of a block, never past the 16 entries
   that jpeg_natural_order has for it (jutils.c). *)
StaysInBlock == phase = "decode" => dec.kmax < DCTSIZE2 + NIBBLE

(* Every table in use is one both sides accept: the encoder has a code for
   each counted symbol, no code is the start of another or all ones, the
   decoder gets the symbol back from the code, and a symbol counted more
   often never has the longer code, even where lengths had to be limited
   (jpeg_gen_optimal_table: "It's not real clear to me why we don't need to
   consider the codelength changes made above"). *)
DecodesTo(d, bits, s) ==
    LET n     == Len(bits)
        left  == 2^(HUFF_LOOKAHEAD - n)
        first == ValueOf(bits) * left
    IN  /\ \A l \in 1..(n - 1) : ValueOf(SubSeq(bits, 1, l)) > d.maxcode[l]
        /\ ValueOf(bits) <= d.maxcode[n]
        /\ d.huffval[ValueOf(bits) + d.valoffset[n]] = s
        /\ IF n <= HUFF_LOOKAHEAD THEN \A v \in first..(first + left - 1) : d.look[v] = [nbits |-> n, sym |-> s]
           ELSE d.look[ValueOf(SubSeq(bits, 1, HUFF_LOOKAHEAD))].nbits = 0
GoodTable(t, counts) ==
    LET code  == ehuf(t)
        d     == d_derived(t)
        coded == {s \in Symbols : code[s] # <<>>}
    IN  /\ ~BadForEncoder(FALSE, t) /\ ~BadForDecoder(FALSE, t)
        /\ \A s \in coded : /\ DecodesTo(d, code[s], s)
                             /\ \E i \in DOMAIN code[s] : code[s][i] = 0
                             /\ \A u \in coded \ {s} : ~IsPrefix(code[s], code[u])
        /\ \A s \in DOMAIN counts : counts[s] > 0 => s \in coded
        /\ \A s, u \in DOMAIN counts : counts[s] > counts[u] /\ counts[u] > 0 => Len(code[s]) <= Len(code[u])
TablesAgree ==
    /\ phase = "table" => GoodTable(tables[Counted], case.counts)
    /\ phase = "encode" /\ mcu = 1 => \A key \in DOMAIN enc.ehuf : GoodTable(tables[key], <<>>)
=============================================================================
