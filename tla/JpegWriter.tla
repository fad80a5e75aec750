----------------------------- MODULE JpegWriter -----------------------------
(***************************************************************************)
(* libjpeg's compression object as a transcoder drives it: parameters      *)
(* (jcparam.c), the copy of the critical ones (jctrans.c), the marker      *)
(* writer (jcmarker.c), the restart logic of the entropy encoder           *)
(* (jchuff.c), the passes (jcmaster.c, jcapimin.c) and the buffered        *)
(* destination (jdatadst.c).  One sequential scan with the default Huffman *)
(* tables, which is what the defaults of jpeg_set_defaults give.           *)
(***************************************************************************)
EXTENDS JpegStream, SequencesExt

CONSTANTS
    OUTPUT_BUF_SIZE,   \* symbols the destination's buffer holds
    StdQuant(_),       \* the default quantization and Huffman tables of slots
    StdHuff(_)         \* 0 (luminance) and 1 (chrominance)

ASSUME WriterAssumption == OUTPUT_BUF_SIZE \in Nat \ {0} /\ {0, 1} \subseteq Slots

VARIABLES
    enc,   \* the object: state, tables, components, marker and entropy state
    out    \* the destination's buffer and what reached the file

wvars == <<enc, out>>

Written(b, d) == [buffer |-> b, disk |-> d]

NewEncoder ==
    [state |-> "START", err |-> "", space |-> "UNKNOWN", ids |-> <<>>, tq |-> <<>>, td |-> <<>>,
     JFIF |-> FALSE, Adobe |-> FALSE,
     q |-> [s \in Slots |-> Absent], qsent |-> Slots,
     h |-> [s \in Slots |-> Absent], hsent |-> Slots,
     interval |-> 0, last_interval |-> 0, image |-> <<>>, mcus |-> 0,
     next |-> 0, togo |-> 0, rst |-> 0, last |-> <<>>, headers |-> FALSE]

WriterInit == enc = NewEncoder /\ out = Written(<<>>, <<>>)

EncoderFails(code) == enc' = [enc EXCEPT !.err = code] /\ UNCHANGED out
-----------------------------------------------------------------------------
(* jdatadst.c: the buffer is written out whenever it is full; a write that *)
(* comes up short is fatal.                                                *)
Emit(e, tokens) ==
    LET all == out.buffer \o tokens
        n == (Len(all) \div OUTPUT_BUF_SIZE) * OUTPUT_BUF_SIZE
    IN  \/ /\ out' = Written(SubSeq(all, n + 1, Len(all)), out.disk \o SubSeq(all, 1, n))
           /\ enc' = e
        \/ \E short \in 0..(n - 1) :
           /\ out' = Written(<<>>, out.disk \o SubSeq(all, 1, short))
           /\ enc' = [e EXCEPT !.err = "FILE_WRITE"]

(* write_file_trailer, term_destination, jpeg_abort. *)
Terminate(tokens) ==
    LET all == out.buffer \o tokens
    IN  \/ /\ out' = Written(<<>>, out.disk \o all)
           /\ enc' = [enc EXCEPT !.state = "START"]
        \/ \E short \in 0..(Len(all) - 1) :
           /\ out' = Written(<<>>, out.disk \o SubSeq(all, 1, short))
           /\ enc' = [enc EXCEPT !.err = "FILE_WRITE"]
-----------------------------------------------------------------------------
(* jcparam.c *)
ColorIds(space, n) ==
    CASE space = "RGB" -> <<82, 71, 66>>
      [] space = "CMYK" -> <<67, 77, 89, 75>>
      [] space = "UNKNOWN" -> [i \in 1..n |-> i - 1]
      [] OTHER -> [i \in 1..n |-> i]

(* Tables 0 for luminance, 1 for chrominance. *)
Chrominance(space, i) == space \in {"YCbCr", "YCCK"} /\ i \in {2, 3}

jpeg_set_colorspace(e, space, n) ==
    LET tables == [i \in 1..n |-> IF Chrominance(space, i) THEN 1 ELSE 0]
    IN  [e EXCEPT !.space = space, !.ids = ColorIds(space, n), !.tq = tables, !.td = tables,
                  !.JFIF = space \in {"GRAYSCALE", "YCbCr"},
                  !.Adobe = space \in {"RGB", "CMYK", "YCCK"}]

jpeg_default_colorspace(e, space, n) ==
    jpeg_set_colorspace(e, IF space = "RGB" THEN "YCbCr" ELSE space, n)

jpeg_set_defaults(e, space, n) ==
    jpeg_default_colorspace(
        [e EXCEPT !.q = [s \in Slots |-> IF s \in {0, 1} THEN StdQuant(s) ELSE e.q[s]],
                  !.h = [s \in Slots |-> IF s \in {0, 1} THEN StdHuff(s) ELSE e.h[s]],
                  !.interval = 0],
        space, n)

(* jpeg_copy_critical_parameters: t is what the decompression object knows *)
(* of its file by now.  The application may then ask for restart markers.  *)
CopyTablesByDefault(e, t) == [e EXCEPT !.ids = t.ids, !.tq = t.tq]

CopyTables(e, t) ==
    [e EXCEPT !.q = [s \in Slots |-> IF t.q[s] # Absent THEN t.q[s] ELSE e.q[s]],
              !.ids = t.ids, !.tq = t.tq]

NoQuantTable(t) == \E i \in 1..Len(t.ids) : t.tq[i] \notin Slots \/ t.q[t.tq[i]] = Absent
Mismatched(t) == \E i \in 1..Len(t.ids) : t.saved[i] # Absent /\ t.saved[i] # t.q[t.tq[i]]

JpegCopyCriticalParameters(t, restart_interval) ==
    IF enc.state # "START" THEN EncoderFails("BAD_STATE")
    ELSE IF NoQuantTable(t) THEN EncoderFails("NO_QUANT_TABLE")
    ELSE IF Mismatched(t) THEN EncoderFails("MISMATCHED_QUANT_TABLE")
    ELSE LET n == Len(t.ids)
             e == jpeg_set_colorspace(jpeg_set_defaults(enc, t.space, n), t.space, n)
         IN  /\ enc' = [CopyTables(e, t) EXCEPT !.interval = restart_interval]
             /\ UNCHANGED out
-----------------------------------------------------------------------------
(* jcmarker.c *)
AdobeTransform(space) == CASE space = "YCbCr" -> 1 [] space = "YCCK" -> 2 [] OTHER -> 0

write_file_header(e) ==
    Marker(SOI)
    \o (IF e.JFIF THEN Marker(APP0) \o <<Segment("JFIF", 0)>> ELSE <<>>)
    \o (IF e.Adobe THEN Marker(APP14) \o <<Segment("Adobe", AdobeTransform(e.space))>> ELSE <<>>)

(* The tables of the given slots, in the order of their first use, without *)
(* those that have been sent.                                              *)
TablesIn(code, of, slots, tables, sent) ==
    FlattenSeq([i \in 1..Len(slots) |->
        IF slots[i] \in sent \cup {slots[j] : j \in 1..(i - 1)} THEN <<>>
        ELSE MarkerWith(code, of, <<slots[i], tables[slots[i]]>>)])

(* SOF1 when a component uses a table that a baseline decoder has no slot for. *)
write_frame_header(e) ==
    TablesIn(DQT, "DQT", e.tq, e.q, e.qsent)
    \o MarkerWith(IF \A i \in 1..Len(e.td) : e.td[i] <= 1 THEN SOF0 ELSE SOF1, "SOF",
                  [ids |-> e.ids, tq |-> e.tq, mcus |-> e.mcus])

write_scan_header_no_dri(e) ==
    TablesIn(DHT, "DHT", e.td, e.h, e.hsent)
    \o MarkerWith(SOS, "SOS", [i \in 1..Len(e.ids) |-> <<e.ids[i], e.td[i]>>])

write_scan_header(e) ==
    TablesIn(DHT, "DHT", e.td, e.h, e.hsent)
    \o (IF e.interval # e.last_interval THEN MarkerWith(DRI, "DRI", e.interval) ELSE <<>>)
    \o MarkerWith(SOS, "SOS", [i \in 1..Len(e.ids) |-> <<e.ids[i], e.td[i]>>])

SlotsUsed(slots) == {slots[i] : i \in 1..Len(slots)}
-----------------------------------------------------------------------------
(* jpeg_write_coefficients: every table is to be written; SOI goes out.    *)
JpegWriteCoefficients(blocks, mcus) ==
    IF enc.state # "START" THEN EncoderFails("BAD_STATE")
    ELSE Emit([enc EXCEPT !.qsent = {}, !.hsent = {}, !.last_interval = 0, !.headers = FALSE,
                          !.image = blocks, !.mcus = mcus, !.state = "WRCOEFS"],
              write_file_header(enc))

(* prepare_for_pass: start_pass_huff, then the frame and scan headers. *)
StartPass ==
    /\ enc.state = "WRCOEFS" /\ ~enc.headers
    /\ Emit([enc EXCEPT !.headers = TRUE, !.next = 1, !.togo = enc.interval, !.rst = 0,
                        !.last = [c \in 1..Len(enc.ids) |-> 0],
                        !.qsent = @ \cup SlotsUsed(enc.tq), !.hsent = @ \cup SlotsUsed(enc.td),
                        !.last_interval = enc.interval],
            write_frame_header(enc) \o write_scan_header(enc))

(* emit_restart: the marker, and predictions from 0 again. *)
RestartDue == enc.interval # 0 /\ enc.togo = 0
emit_restart == IF RestartDue THEN Marker(RST0 + enc.rst) ELSE <<>>
Predicted == IF RestartDue THEN [c \in DOMAIN enc.last |-> 0] ELSE enc.last

(* encode_mcu_huff: one MCU of all components.  Coefficients that came out *)
(* of damaged data may be too large for the encoder.                       *)
EncodeMcu ==
    /\ enc.state = "WRCOEFS" /\ enc.headers /\ enc.next <= enc.mcus
    /\ LET v == [c \in 1..Len(enc.ids) |-> enc.image[c][enc.next]]
           with == [c \in 1..Len(enc.ids) |-> enc.h[enc.td[c]]]
           e == [enc EXCEPT !.next = @ + 1, !.last = v,
                            !.rst = IF RestartDue THEN (@ + 1) % 8 ELSE @,
                            !.togo = IF enc.interval = 0 THEN @
                                     ELSE (IF RestartDue THEN enc.interval ELSE @) - 1]
       IN  \/ Emit(e, emit_restart \o <<Mcu(v, Predicted, with)>>)
           \/ (\E c \in DOMAIN v : v[c] = BAD) /\ EncoderFails("BAD_DCT_COEF")

FinishPass ==
    /\ enc.state = "WRCOEFS" /\ enc.headers /\ enc.next > enc.mcus
    /\ Terminate(Marker(EOI))

(* jpeg_finish_compress runs these until the trailer is out. *)
WriterStep == StartPass \/ EncodeMcu \/ FinishPass
=============================================================================
