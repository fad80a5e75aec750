----------------------------- MODULE JpegReader -----------------------------
(***************************************************************************)
(* libjpeg's decompression object as figleaf drives it: the byte source    *)
(* (jdatasrc.c), the marker reader (jdmarker.c), the input controller      *)
(* (jdinput.c), the entropy decoder's restart logic and bit buffer         *)
(* (jdhuff.c), the coefficient controller's input side (jdcoefct.c) and    *)
(* the API state machine (jdapimin.c, jdtrans.c).  One thread runs all of  *)
(* it; pc says which routine is about to take its next step.  The file may *)
(* be any sequence of symbols, damaged ones included.                      *)
(***************************************************************************)
EXTENDS JpegStream, FiniteSets

CONSTANTS
    InputFile(_),    \* the file of a case
    Cases,           \* the cases
    INPUT_BUF_SIZE,  \* symbols the source's buffer holds
    MIN_GET_BITS,    \* MCUs the bit buffer holds
    MaxSkip          \* symbols a garbled length word may skip

ASSUME ReaderAssumption ==
    /\ INPUT_BUF_SIZE \in Nat \ {0} /\ MIN_GET_BITS \in Nat \ {0}
    /\ NUM_QUANT_TBLS \in Nat \ {0} /\ MaxSkip \in Nat

VARIABLES
    case,    \* which input
    file,    \* the file being read
    src,     \* source manager: next symbol, bytes_in_buffer, start_of_file
    mk,      \* marker reader
    ic,      \* input controller
    tb,      \* tables and what the headers said
    en,      \* entropy decoder
    co,      \* coefficient controller: the arrays and the MCU counter
    dec,     \* the object: global_state and the error it exited with
    pc

rvars == <<case, file, src, mk, ic, tb, en, co, dec, pc>>

-----------------------------------------------------------------------------
(* The byte source: the file, then FF D9 for ever.  The made-up bytes have *)
(* the two places behind the file, one buffer load.                        *)
StreamWithoutEnd(i) == IF i <= Len(file) THEN file[i] ELSE Byte(0)

Stream(i) == IF i <= Len(file) THEN file[i]
             ELSE IF (i - Len(file)) % 2 = 1 THEN FF ELSE Byte(EOI)

Behind(i) == IF i <= Len(file) + 2 THEN i ELSE Len(file) + 1 + ((i - Len(file) - 1) % 2)

EmptyInput(s) == s.left = 0 /\ s.next > Len(file) /\ s.start_of_file

fill_input_buffer(s) ==
    LET unread == Len(file) - (s.next - 1)
        nbytes == IF unread <= 0 THEN 2 ELSE IF unread < INPUT_BUF_SIZE THEN unread ELSE INPUT_BUF_SIZE
    IN  [s EXCEPT !.left = nbytes, !.start_of_file = FALSE]

Filled(s) == IF s.left = 0 THEN fill_input_buffer(s) ELSE s
Next1 == Stream(src.next)
Advance(s) == [Filled(s) EXCEPT !.next = Behind(@ + 1), !.left = @ - 1]

(* The process ends: error_exit destroys the object and calls exit. *)
Errexit(code) ==
    /\ dec' = [dec EXCEPT !.err = code]
    /\ pc' = "exit"
    /\ UNCHANGED <<case, file, src, mk, ic, tb, en, co>>

(* fill_input_buffer at the start of a file without a byte. *)
EmptyFile == pc = "markers" /\ EmptyInput(src) /\ Errexit("INPUT_EMPTY")
-----------------------------------------------------------------------------
(* jdmarker.c *)
reset_marker_reader ==
    [unread |-> 0, saw_SOI |-> FALSE, saw_SOF |-> FALSE, next_restart |-> 0,
     discarded |-> FALSE, ff |-> FALSE, ret |-> "markers", toskip |-> 0, warned |-> FALSE]

NoTables == [q |-> [s \in Slots |-> Absent], h |-> [s \in Slots |-> Absent],
             interval |-> 0, JFIF |-> FALSE, Adobe |-> -1, space |-> "UNKNOWN",
             ids |-> <<>>, tq |-> <<>>, mcus |-> 0, prog |-> FALSE, arith |-> FALSE,
             cur |-> <<>>, td |-> <<>>, scans |-> 0, saved |-> <<>>]

(* Collect the marker proper, unless we already did. *)
ReadMarkers ==
    /\ pc = "markers" /\ ~EmptyInput(src)
    /\ IF mk.unread # 0 THEN pc' = "process" /\ UNCHANGED <<src, mk, dec>>
       ELSE IF mk.saw_SOI
       THEN pc' = "next_marker" /\ mk' = [mk EXCEPT !.ret = "process", !.ff = FALSE] /\ UNCHANGED <<src, dec>>
       ELSE LET second == Stream(src.next + 1)     \* first_marker
            IN  IF IsByte(Next1, 255) /\ IsByte(second, SOI)
                THEN /\ src' = Advance(Advance(src))
                     /\ mk' = [mk EXCEPT !.unread = SOI]
                     /\ pc' = "process" /\ UNCHANGED dec
                ELSE dec' = [dec EXCEPT !.err = "NO_SOI"] /\ pc' = "exit" /\ UNCHANGED <<src, mk>>
    /\ UNCHANGED <<case, file, ic, tb, en, co>>

(* One INPUT_BYTE of next_marker: discard until FF, swallow padding FFs,   *)
(* go back to discarding after FF 00, else the marker is found.            *)
NextMarkerByte ==
    /\ pc = "next_marker"
    /\ src' = Advance(src)
    /\ IF ~mk.ff
       THEN /\ mk' = IF IsByte(Next1, 255) THEN [mk EXCEPT !.ff = TRUE]
                     ELSE [mk EXCEPT !.discarded = TRUE]
            /\ UNCHANGED pc
       ELSE \E c \in AfterFF(Next1) :
            CASE c = 255 -> UNCHANGED <<mk, pc>>
              [] c = 0 -> mk' = [mk EXCEPT !.ff = FALSE, !.discarded = TRUE] /\ UNCHANGED pc
              [] OTHER -> /\ mk' = [mk EXCEPT !.ff = FALSE, !.unread = c, !.discarded = FALSE,
                                              !.warned = @ \/ mk.discarded]
                          /\ pc' = mk.ret
    /\ UNCHANGED <<case, file, ic, tb, en, co, dec>>

(* The marker has been processed: unread_marker = 0, and around the loop. *)
Processed(m) == mk' = [m EXCEPT !.unread = 0] /\ pc' = "markers"
Processing(codes) == pc = "process" /\ mk.unread \in codes

(* get_soi resets what SOI is defined to reset. *)
ProcessSOI ==
    /\ Processing({SOI}) /\ ~mk.saw_SOI
    /\ tb' = [tb EXCEPT !.interval = 0, !.JFIF = FALSE, !.Adobe = -1, !.space = "UNKNOWN"]
    /\ Processed([mk EXCEPT !.saw_SOI = TRUE])
    /\ UNCHANGED <<case, file, src, ic, en, co, dec>>

SOFs == {SOF0, SOF1, SOF2, SOF9, SOF10}
GoodSOF == /\ ~mk.saw_SOF /\ IsSegment(Next1, "SOF")
           /\ Len(Next1.p.ids) > 0 /\ Next1.p.mcus > 0
ProcessSOF ==
    /\ Processing(SOFs) /\ GoodSOF
    /\ LET p == Next1.p
       IN     tb' = [tb EXCEPT !.ids = p.ids, !.tq = p.tq, !.mcus = p.mcus,
                               !.prog = mk.unread \in {SOF2, SOF10},
                               !.arith = mk.unread \in {SOF9, SOF10},
                               !.saved = [i \in 1..Len(p.ids) |-> Absent]]
    /\ src' = Advance(src)
    /\ Processed([mk EXCEPT !.saw_SOF = TRUE])
    /\ UNCHANGED <<case, file, ic, en, co, dec>>

IndexOf(id) == CHOOSE i \in 1..Len(tb.ids) : tb.ids[i] = id

GoodSOS == /\ mk.saw_SOF /\ IsSegment(Next1, "SOS")
           /\ \A i \in 1..Len(Next1.p) : \E j \in 1..Len(tb.ids) : tb.ids[j] = Next1.p[i][1]
ProcessSOS ==
    /\ Processing({SOS}) /\ GoodSOS
    /\ tb' = [tb EXCEPT !.cur = [i \in 1..Len(Next1.p) |-> IndexOf(Next1.p[i][1])],
                        !.td = [i \in 1..Len(Next1.p) |-> Next1.p[i][2]], !.scans = @ + 1]
    /\ src' = Advance(src)
    /\ mk' = [mk EXCEPT !.unread = 0, !.next_restart = 0]
    /\ pc' = "reached_sos"
    /\ UNCHANGED <<case, file, ic, en, co, dec>>

ProcessEOI ==
    /\ Processing({EOI})
    /\ mk' = [mk EXCEPT !.unread = 0]
    /\ pc' = "reached_eoi"
    /\ UNCHANGED <<case, file, src, ic, tb, en, co, dec>>

(* get_dht, get_dqt and get_dri: a table replaces what its slot held. *)
GoodTable(of) == IsSegment(Next1, of) /\ Next1.p[1] \in Slots
ProcessTable ==
    /\ \/ /\ Processing({DQT}) /\ GoodTable("DQT")
          /\ tb' = [tb EXCEPT !.q[Next1.p[1]] = Next1.p[2]]
       \/ /\ Processing({DHT}) /\ GoodTable("DHT")
          /\ tb' = [tb EXCEPT !.h[Next1.p[1]] = Next1.p[2]]
       \/ /\ Processing({DRI}) /\ IsSegment(Next1, "DRI")
          /\ tb' = [tb EXCEPT !.interval = Next1.p]
    /\ src' = Advance(src)
    /\ Processed(mk)
    /\ UNCHANGED <<case, file, ic, en, co, dec>>

(* get_interesting_appn and skip_variable: APP0 and APP14 are looked at,   *)
(* the rest of the segment and every other APPn, COM, DNL and DAC are      *)
(* skipped.  A length word that is not one skips any number of symbols.    *)
Skipped == {COM, DNL, DAC} \cup APP0..APP15
ProcessSkipped ==
    /\ Processing(Skipped)
    /\ tb' = CASE mk.unread = APP0 /\ IsSegment(Next1, "JFIF") -> [tb EXCEPT !.JFIF = TRUE]
               [] mk.unread = APP14 /\ IsSegment(Next1, "Adobe") -> [tb EXCEPT !.Adobe = Next1.p]
               [] OTHER -> tb
    /\ src' = Advance(src)
    /\ \E n \in IF Next1.t = "seg" THEN {0} ELSE 0..MaxSkip :
         mk' = [mk EXCEPT !.toskip = n]
    /\ pc' = "skip"
    /\ UNCHANGED <<case, file, ic, en, co, dec>>

(* skip_input_data, one buffer load at a time. *)
SkipInputData ==
    /\ pc = "skip"
    /\ IF mk.toskip > src.left
       THEN /\ src' = Filled([src EXCEPT !.next = Behind(@ + src.left), !.left = 0])
            /\ mk' = [mk EXCEPT !.toskip = @ - src.left]
            /\ UNCHANGED pc
       ELSE /\ src' = [src EXCEPT !.next = Behind(@ + mk.toskip), !.left = @ - mk.toskip]
            /\ Processed([mk EXCEPT !.toskip = 0])
    /\ UNCHANGED <<case, file, ic, tb, en, co, dec>>

(* RSTn and TEM have no parameters; out of place they are ignored. *)
ProcessParameterless ==
    /\ Processing({TEM} \cup RST0..RST7)
    /\ Processed(mk)
    /\ UNCHANGED <<case, file, src, ic, tb, en, co, dec>>

(* Everything else is fatal: duplicates, segments that are not what their  *)
(* length says, a scan before its frame, unsupported and reserved markers. *)
Acceptable ==
    \/ mk.unread = SOI /\ ~mk.saw_SOI
    \/ mk.unread \in SOFs /\ GoodSOF
    \/ mk.unread = SOS /\ GoodSOS
    \/ mk.unread = DQT /\ GoodTable("DQT")
    \/ mk.unread = DHT /\ GoodTable("DHT")
    \/ mk.unread = DRI /\ IsSegment(Next1, "DRI")
    \/ mk.unread \in {EOI, TEM} \cup RST0..RST7 \cup Skipped

ProcessFails == pc = "process" /\ ~Acceptable /\ Errexit("BAD_MARKER")
-----------------------------------------------------------------------------
(* jdinput.c *)
reset_input_controller ==
    [multi |-> FALSE, eoi_reached |-> FALSE, inheaders |-> TRUE]

Comps == 1..Len(tb.ids)
InScan == {tb.cur[i] : i \in 1..Len(tb.cur)}
ZeroDC == [c \in InScan |-> 0]

(* Each component of the scan keeps the table its slot holds now, unless   *)
(* it kept one in an earlier scan.                                         *)
Latchable(c) == tb.saved[c] # Absent \/ (tb.tq[c] \in Slots /\ tb.q[tb.tq[c]] # Absent)
latch_quant_tables(t) ==
    [t EXCEPT !.saved = [c \in Comps |-> IF c \in InScan /\ t.saved[c] = Absent
                                         THEN t.q[t.tq[c]] ELSE t.saved[c]]]

(* jpeg_make_d_derived_tbl refuses a slot that holds no Huffman table. *)
ScanReady == /\ \A c \in InScan : Latchable(c)
             /\ \A i \in 1..Len(tb.td) : tb.td[i] \in Slots /\ tb.h[tb.td[i]] # Absent

start_pass_huff_decoder ==
    [bits |-> <<>>, insufficient |-> FALSE, togo |-> tb.interval, last |-> ZeroDC,
     lost |-> FALSE, ff |-> FALSE]

(* start_input_pass: set up the scan, latch the tables, start the entropy  *)
(* decoder and the coefficient controller, and consume data from now on.   *)
StartInputPass ==
    IF ScanReady
    THEN /\ tb' = latch_quant_tables(tb)
         /\ en' = start_pass_huff_decoder
         /\ co' = [co EXCEPT !.mcu = 0]
         /\ pc' = "decode_mcu"
         /\ UNCHANGED dec
    ELSE /\ dec' = [dec EXCEPT !.err = "NO_TABLE"]
         /\ pc' = "exit"
         /\ UNCHANGED <<tb, en, co>>

(* default_decompress_parms: the color space is guessed from the markers   *)
(* and the component ids.                                                  *)
ColorSpace(t) ==
    LET n == Len(t.ids)
    IN  CASE n = 1 -> "GRAYSCALE"
          [] n = 3 /\ t.JFIF -> "YCbCr"
          [] n = 3 /\ ~t.JFIF /\ t.Adobe # -1 -> IF t.Adobe = 0 THEN "RGB" ELSE "YCbCr"
          [] n = 3 /\ ~t.JFIF /\ t.Adobe = -1 -> IF t.ids = <<82, 71, 66>> THEN "RGB" ELSE "YCbCr"
          [] n = 4 -> IF t.Adobe \in {-1, 0} THEN "CMYK" ELSE "YCCK"
          [] OTHER -> "UNKNOWN"

(* consume_markers on JPEG_REACHED_SOS.  The first one ends the header:    *)
(* jpeg_consume_input makes the object READY; a later one starts its scan. *)
ReachedSOS ==
    /\ pc = "reached_sos"
    /\ IF ic.inheaders
       THEN /\ ic' = [ic EXCEPT !.inheaders = FALSE,
                                !.multi = Len(tb.cur) < Len(tb.ids) \/ tb.prog]
            /\ tb' = [tb EXCEPT !.space = ColorSpace(tb)]
            /\ dec' = [dec EXCEPT !.state = "READY"]
            /\ pc' = "app"
            /\ UNCHANGED <<en, co>>
       ELSE /\ UNCHANGED ic
            /\ IF ic.multi THEN StartInputPass
               ELSE /\ dec' = [dec EXCEPT !.err = "EOI_EXPECTED"]
                    /\ pc' = "exit"
                    /\ UNCHANGED <<tb, en, co>>
    /\ UNCHANGED <<case, file, src, mk>>

(* consume_markers on JPEG_REACHED_EOI: jpeg_read_coefficients leaves its  *)
(* loop, jpeg_read_header complains.                                       *)
ReachedEOI ==
    /\ pc = "reached_eoi"
    /\ ic' = [ic EXCEPT !.eoi_reached = TRUE]
    /\ IF ic.inheaders
       THEN /\ dec' = [dec EXCEPT !.err = IF mk.saw_SOF THEN "SOF_NO_SOS" ELSE "NO_IMAGE"]
            /\ pc' = "exit"
       ELSE /\ dec' = [dec EXCEPT !.state = "STOPPING"]
            /\ pc' = "app"
    /\ UNCHANGED <<case, file, src, mk, tb, en, co>>
-----------------------------------------------------------------------------
(* jdhuff.c and jdcoefct.c: one MCU after the other. *)

(* decode_mcu.  At the end of a restart interval the rest of the bit       *)
(* buffer is thrown away and the next marker is looked for.                *)
DecodeMcu ==
    /\ pc = "decode_mcu"
    /\ IF tb.interval # 0 /\ en.togo = 0
       THEN /\ en' = [en EXCEPT !.bits = <<>>]
            /\ mk' = [mk EXCEPT !.discarded = @ \/ en.bits # <<>>, !.ff = FALSE, !.ret = "restart"]
            /\ pc' = IF mk.unread = 0 THEN "next_marker" ELSE "restart"
       ELSE pc' = "decode_block" /\ UNCHANGED <<mk, en>>
    /\ UNCHANGED <<case, file, src, ic, tb, co, dec>>

(* The end of process_restart.  The out-of-data flag stays up when the     *)
(* next marker is already there: the interval is empty.                    *)
Restarted(m) ==
    /\ mk' = [m EXCEPT !.next_restart = (@ + 1) % 8]
    /\ en' = [en EXCEPT !.last = ZeroDC, !.lost = FALSE, !.togo = tb.interval,
                        !.insufficient = @ /\ m.unread # 0]
    /\ pc' = "decode_block"

(* read_restart_marker: the marker is the expected one, or the source      *)
(* manager resynchronizes.                                                 *)
ReadRestartMarker ==
    /\ pc = "restart"
    /\ IF mk.unread = RST0 + mk.next_restart
       THEN Restarted([mk EXCEPT !.unread = 0])
       ELSE /\ mk' = [mk EXCEPT !.warned = TRUE]
            /\ pc' = "resync" /\ UNCHANGED en
    /\ UNCHANGED <<case, file, src, ic, tb, co, dec>>

(* jpeg_resync_to_restart: 1 discards the marker, 2 scans to the next one, *)
(* 3 leaves it for later.                                                  *)
ResyncActionDiscards(marker, desired) == 1

ResyncAction(marker, desired) ==
    LET ahead == (RstNumber(marker) - desired + 8) % 8
    IN  IF marker < SOF0 THEN 2
        ELSE IF ~IsRst(marker) THEN 3
        ELSE IF ahead \in {1, 2} THEN 3
        ELSE IF ahead \in {6, 7} THEN 2
        ELSE 1

ResyncToRestart ==
    /\ pc = "resync"
    /\ LET action == ResyncAction(mk.unread, mk.next_restart)
       IN  CASE action = 1 -> Restarted([mk EXCEPT !.unread = 0])
             [] action = 2 -> /\ mk' = [mk EXCEPT !.ff = FALSE, !.ret = "resync"]
                              /\ pc' = "next_marker" /\ UNCHANGED en
             [] action = 3 -> Restarted(mk)
    /\ UNCHANGED <<case, file, src, ic, tb, co, dec>>

(* The MCU is stored, or left zero when value is Zeroes, and the counters  *)
(* advance; after the last MCU markers are read again.                     *)
Zeroes == [c \in InScan |-> 0]
BadMcu == [c \in InScan |-> BAD]
McuStored(value) ==
    /\ co' = [co EXCEPT !.mcu = @ + 1,
                        !.blocks = [c \in Comps |->
                            IF c \in InScan THEN [co.blocks[c] EXCEPT ![co.mcu + 1] = value[c]]
                            ELSE co.blocks[c]]]
    /\ pc' = IF co.mcu + 1 = tb.mcus THEN "markers" ELSE "decode_mcu"
Counted(e) == [e EXCEPT !.togo = IF tb.interval = 0 THEN 0 ELSE @ - 1]

(* The tables the decoder derived for the components of the scan. *)
CodedWith == [i \in 1..Len(tb.td) |-> tb.h[tb.td[i]]]

(* One block group.  Out of data: the MCU stays zero.  An empty bit buffer *)
(* in front of a marker: zero bits are made up.  Otherwise the bit buffer  *)
(* is filled, and its first MCU decoded; it comes out right only when the  *)
(* decoder's prediction is the encoder's, and once that is lost the bits   *)
(* taken are arbitrary until the next restart.                             *)
DecodeBlock ==
    /\ pc = "decode_block"
    /\ \/ /\ en.insufficient
          /\ en' = Counted(en) /\ McuStored(Zeroes)
       \/ /\ ~en.insufficient /\ en.bits = <<>> /\ mk.unread # 0
          /\ en' = Counted([en EXCEPT !.insufficient = TRUE, !.lost = TRUE]) /\ McuStored(BadMcu)
       \/ /\ ~en.insufficient /\ en.bits = <<>> /\ mk.unread = 0
          /\ pc' = "fill" /\ UNCHANGED <<en, co>>
       \/ /\ ~en.insufficient /\ en.bits # <<>>
          /\ LET e == Head(en.bits)
                 right == /\ e.t = "mcu" /\ ~en.lost /\ DOMAIN e.v = InScan
                          /\ e.after = en.last /\ e.with = CodedWith
             IN  IF right
                 THEN /\ en' = Counted([en EXCEPT !.bits = Tail(@), !.last = e.v])
                      /\ McuStored(e.v)
                 ELSE \E n \in 0..Len(en.bits) :
                      /\ en' = Counted([en EXCEPT !.bits = SubSeq(@, n + 1, Len(@)), !.lost = TRUE])
                      /\ McuStored(BadMcu)
    /\ UNCHANGED <<case, file, src, mk, ic, tb, dec>>

(* jpeg_fill_bit_buffer: up to MIN_GET_BITS, never past a marker; FF 00    *)
(* and FF FF .. 00 are data.                                               *)
FillBitBuffer ==
    /\ pc = "fill"
    /\ src' = Advance(src)
    /\ IF ~en.ff
       THEN IF IsByte(Next1, 255)
            THEN en' = [en EXCEPT !.ff = TRUE] /\ UNCHANGED <<mk, pc>>
            ELSE /\ en' = [en EXCEPT !.bits = Append(@, Next1)]
                 /\ pc' = IF Len(en.bits) + 1 < MIN_GET_BITS THEN "fill" ELSE "decode_block"
                 /\ UNCHANGED mk
       ELSE \E c \in AfterFF(Next1) :
            CASE c = 255 -> UNCHANGED <<en, mk, pc>>
              [] c = 0 -> /\ en' = [en EXCEPT !.ff = FALSE, !.bits = Append(@, Next1)]
                          /\ pc' = IF Len(en.bits) + 1 < MIN_GET_BITS THEN "fill" ELSE "decode_block"
                          /\ UNCHANGED mk
              [] OTHER -> /\ mk' = [mk EXCEPT !.unread = c]
                          /\ en' = [en EXCEPT !.ff = FALSE]
                          /\ pc' = "decode_block"
    /\ UNCHANGED <<case, file, ic, tb, co, dec>>

(* jdapimin.c and jdtrans.c: what the application calls.  A call in a state *)
(* that does not allow it is fatal.                                        *)
BadState == Errexit("BAD_STATE")

(* jpeg_read_header runs consume_input up to the first SOS. *)
JpegReadHeader ==
    IF dec.state = "START"
    THEN /\ ic' = reset_input_controller /\ mk' = reset_marker_reader
         /\ src' = [src EXCEPT !.start_of_file = TRUE]
         /\ dec' = [dec EXCEPT !.state = "INHEADER"]
         /\ pc' = "markers"
         /\ UNCHANGED <<case, file, tb, en, co>>
    ELSE BadState

(* jpeg_read_coefficients: the first call absorbs the whole file into fresh *)
(* arrays; a later one only returns them.                                   *)
JpegReadCoefficientsOnce ==
    IF dec.state = "READY" /\ ScanReady
    THEN /\ tb' = latch_quant_tables(tb)
         /\ en' = start_pass_huff_decoder
         /\ co' = [mcu |-> 0, blocks |-> [c \in Comps |-> [i \in 1..tb.mcus |-> 0]]]
         /\ dec' = [dec EXCEPT !.state = "RDCOEFS"]
         /\ pc' = "decode_mcu"
         /\ UNCHANGED <<case, file, src, mk, ic>>
    ELSE BadState

JpegReadCoefficients ==
    CASE dec.state = "READY" ->
            IF tb.arith THEN Errexit("ARITH_NOTIMPL")
            ELSE /\ IF ScanReady
                    THEN /\ tb' = latch_quant_tables(tb)
                         /\ en' = start_pass_huff_decoder
                         /\ co' = [mcu |-> 0, blocks |-> [c \in Comps |-> [i \in 1..tb.mcus |-> 0]]]
                         /\ dec' = [dec EXCEPT !.state = "RDCOEFS"]
                         /\ pc' = "decode_mcu"
                    ELSE /\ dec' = [dec EXCEPT !.err = "NO_TABLE"]
                         /\ pc' = "exit" /\ UNCHANGED <<tb, en, co>>
                 /\ UNCHANGED <<case, file, src, mk, ic>>
      [] dec.state = "STOPPING" -> UNCHANGED rvars
      [] OTHER -> BadState

(* jpeg_finish_decompress: EOI has been read, jpeg_abort frees everything. *)
JpegFinishDecompress ==
    IF dec.state = "STOPPING"
    THEN /\ dec' = [dec EXCEPT !.state = "START"]
         /\ co' = [mcu |-> 0, blocks |-> <<>>]
         /\ UNCHANGED <<case, file, src, mk, ic, tb, en, pc>>
    ELSE BadState

NewDecoder == [state |-> "START", err |-> ""]
NewSource == [next |-> 1, left |-> 0, start_of_file |-> FALSE]

ReaderInit ==
    /\ case \in Cases
    /\ file = InputFile(case)
    /\ src = NewSource
    /\ mk = reset_marker_reader /\ ic = reset_input_controller
    /\ tb = NoTables
    /\ en = [bits |-> <<>>, insufficient |-> FALSE, togo |-> 0, last |-> <<>>, lost |-> FALSE, ff |-> FALSE]
    /\ co = [mcu |-> 0, blocks |-> <<>>]
    /\ dec = NewDecoder
    /\ pc = "app"
-----------------------------------------------------------------------------
ReaderStep ==
    \/ EmptyFile \/ ReadMarkers \/ NextMarkerByte
    \/ ProcessSOI \/ ProcessSOF \/ ProcessSOS \/ ProcessEOI \/ ProcessTable
    \/ ProcessSkipped \/ SkipInputData \/ ProcessParameterless \/ ProcessFails
    \/ ReachedSOS \/ ReachedEOI
    \/ DecodeMcu \/ ReadRestartMarker \/ ResyncToRestart \/ DecodeBlock \/ FillBitBuffer
=============================================================================
