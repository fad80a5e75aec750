----------------------------- MODULE JpegStream -----------------------------
(***************************************************************************)
(* What a JPEG file is made of, at the grain at which the marker reader,   *)
(* the restart logic and the marker writer tell things apart.  A file is a *)
(* sequence of symbols: single bytes (FF, 00, a marker code, garbage), the *)
(* parameter segment of a marker as one symbol, and the entropy-coded data *)
(* of one MCU as one symbol.                                               *)
(***************************************************************************)
EXTENDS Integers, Sequences

CONSTANTS NUM_QUANT_TBLS  \* slots for quantization tables, and for Huffman tables

Slots == 0..(NUM_QUANT_TBLS - 1)
Absent == 0      \* a NULL pointer to a table, a component without one
BAD == -1        \* a block whose decoded values are not the encoder's

(* Marker codes, enum JPEG_MARKER. *)
TEM == 1
SOF0 == 192
SOF1 == 193
SOF2 == 194
DHT == 196
SOF9 == 201
SOF10 == 202
DAC == 204
SOF15 == 207
RST0 == 208
RST7 == 215
SOI == 216
EOI == 217
SOS == 218
DQT == 219
DNL == 220
DRI == 221
APP0 == 224
APP14 == 238
APP15 == 239
COM == 254

Byte(c) == [t |-> "byte", c |-> c]
FF == Byte(255)
Marker(c) == <<FF, Byte(c)>>

(* The parameters p of a marker of the kind `of`, length word included. *)
Segment(of, p) == [t |-> "seg", of |-> of, p |-> p]
MarkerWith(c, of, p) == Marker(c) \o <<Segment(of, p)>>

(* One MCU: a value for the block of each component in the scan, the values*)
(* of the previous MCU, from which the DC coefficients are predicted, and  *)
(* the Huffman table each component was coded with.                        *)
Mcu(v, after, with) == [t |-> "mcu", v |-> v, after |-> after, with |-> with]

IsByte(e, c) == e.t = "byte" /\ e.c = c
IsSegment(e, of) == e.t = "seg" /\ e.of = of

(* What a symbol looks like to a routine that takes it byte by byte right  *)
(* after an FF: the length word of a segment starts with 00; the data of   *)
(* an MCU may start with a stuffed 00 or, after a stray FF, with a byte    *)
(* that looks like a marker code.                                          *)
AfterFF(e) == CASE e.t = "byte" -> {e.c}
                [] e.t = "seg" -> {0}
                [] e.t = "mcu" -> {0, 2}

RstNumber(c) == c - RST0
IsRst(c) == c \in RST0..RST7
=============================================================================
