---------------------------- MODULE JpegTranscode ----------------------------
(***************************************************************************)
(* figleaf_process_image (figleaf.c) over libjpeg: one decompression object*)
(* and one compression object, called in figleaf's order.  The picture is  *)
(* processed twice: the second round reads what the first one wrote, as    *)
(* decryption reads what encryption wrote.                                 *)
(***************************************************************************)
EXTENDS JpegReader, JpegWriter

CONSTANTS
    Cipher(_),         \* what the cipher does to the value of a block
    RestartIntervals,  \* that the application may ask the encoder for
    Original(_),       \* history: the blocks the file of a case encodes, by component
    Safe(_)            \* history: the MCUs of a case that its fault cannot reach

VARIABLES
    app,     \* the next call of figleaf_process_image
    round,
    first    \* history: what the first round read and wrote

vars == <<rvars, wvars, app, round, first>>

Failed == dec.err # "" \/ enc.err # ""
Call(name) == pc = "app" /\ app = name /\ ~Failed
Next_(name) == app' = name /\ UNCHANGED <<round, first>>

Unread == [header |-> <<>>, blocks |-> <<>>, quant |-> <<>>, ids |-> <<>>, tq |-> <<>>, space |-> ""]

Init == /\ ReaderInit /\ WriterInit
        /\ app = "read_header" /\ round = 1 /\ first = Unread

ReadHeader == Call("read_header") /\ JpegReadHeader /\ Next_("copy_parameters") /\ UNCHANGED wvars

(* Right after the header: what the file says later is not copied. *)
CopyParameters ==
    /\ Call("copy_parameters")
    /\ \E n \in RestartIntervals : JpegCopyCriticalParameters(tb, n)
    /\ first' = IF round = 1 THEN [first EXCEPT !.header = tb.q] ELSE first
    /\ app' = "prepare_blocks" /\ UNCHANGED round /\ UNCHANGED rvars

(* jpeg_prepare_blocks (jutil.c) reads the coefficients. *)
PrepareBlocks == Call("prepare_blocks") /\ JpegReadCoefficients /\ Next_("process") /\ UNCHANGED wvars

(* tpe_process_image on a copy of the blocks, and jpeg_return_blocks. *)
ProcessImage ==
    /\ Call("process")
    /\ co' = [co EXCEPT !.blocks = [c \in Comps |-> [i \in 1..tb.mcus |->
                 IF co.blocks[c][i] = BAD THEN BAD ELSE Cipher(co.blocks[c][i])]]]
    /\ first' = IF round = 1
                THEN [first EXCEPT !.blocks = co'.blocks, !.quant = tb.saved, !.ids = tb.ids,
                                   !.tq = tb.tq, !.space = tb.space]
                ELSE first
    /\ app' = "read_coefficients" /\ UNCHANGED round
    /\ UNCHANGED <<case, file, src, mk, ic, tb, en, dec, pc>> /\ UNCHANGED wvars

ReadCoefficients ==
    Call("read_coefficients") /\ JpegReadCoefficients /\ Next_("write_coefficients") /\ UNCHANGED wvars

WriteCoefficients ==
    /\ Call("write_coefficients")
    /\ JpegWriteCoefficients(co.blocks, tb.mcus)
    /\ Next_("finish_compress") /\ UNCHANGED rvars

(* jpeg_finish_compress and, once it returns, jpeg_destroy_compress. *)
FinishCompress ==
    /\ Call("finish_compress")
    /\ IF enc.state # "WRCOEFS" THEN EncoderFails("BAD_STATE") ELSE WriterStep
    /\ app' = IF enc'.state = "START" THEN "finish_decompress" ELSE app
    /\ UNCHANGED <<round, first>> /\ UNCHANGED rvars

FinishDecompress ==
    Call("finish_decompress") /\ JpegFinishDecompress /\ Next_("done") /\ UNCHANGED wvars

(* The output is the input of the second round, with new objects. *)
SecondRound ==
    /\ Call("done") /\ round = 1
    /\ round' = 2 /\ app' = "read_header" /\ UNCHANGED first
    /\ file' = out.disk /\ UNCHANGED case
    /\ src' = NewSource /\ mk' = reset_marker_reader /\ ic' = reset_input_controller
    /\ tb' = NoTables /\ dec' = NewDecoder /\ pc' = "app"
    /\ en' = [bits |-> <<>>, insufficient |-> FALSE, togo |-> 0, last |-> <<>>, lost |-> FALSE, ff |-> FALSE]
    /\ co' = [mcu |-> 0, blocks |-> <<>>]
    /\ enc' = NewEncoder /\ out' = Written(<<>>, <<>>)

(* The library at work inside jpeg_read_header and jpeg_read_coefficients. *)
Library == ReaderStep /\ UNCHANGED <<enc, out, app, round, first>>

Exited == pc = "exit" \/ enc.err # ""
Done == app = "done" /\ round = 2
Ended == (Exited \/ Done) /\ UNCHANGED vars

Next == \/ ReadHeader \/ CopyParameters \/ PrepareBlocks \/ ProcessImage
        \/ ReadCoefficients \/ WriteCoefficients \/ FinishCompress
        \/ FinishDecompress \/ SecondRound \/ Library \/ Ended

Spec == Init /\ [][Next]_vars /\ WF_vars(Next)
-----------------------------------------------------------------------------
JustRead == pc = "app" /\ app = "process"

(* The calls of figleaf.c are in an order the library allows. *)
NeverBadState == dec.err # "BAD_STATE" /\ enc.err # "BAD_STATE"

(* What one fault in the coded data of a file with restart markers cannot  *)
(* reach comes out in its place, as the encoder had it: all MCUs before    *)
(* the fault, and all intervals after the one it is in.  Not contained is  *)
(* a file that ends there or a false EOI, which lose all that follows, and *)
(* a restart marker that turns into one of the two that come after it: the *)
(* reader takes the interval for the one it looks like, and is right again *)
(* after that (jdmarker.c:1179-1184).                                      *)
DamageIsContained ==
    JustRead /\ round = 1 =>
        \A c \in Comps : \A i \in Safe(case) : co.blocks[c][i] = Original(case)[c][i]

(* What the program writes, it can read: the second run meets no error and *)
(* no warning, and finds the components and blocks the first one wrote.    *)
ReadBackAgrees ==
    round = 2 => /\ dec.err = "" /\ ~mk.warned
                 /\ JustRead => /\ co.blocks = first.blocks
                                /\ tb.ids = first.ids /\ tb.tq = first.tq
                                /\ tb.space = first.space

(* The output's components are dequantized with the tables that the input's *)
(* coefficients were quantized with (libjpeg.doc: "it is crucial that the   *)
(* JPEG quantization tables ... match the way the data was encoded"); those *)
(* the input holds no scan of have none.  The exception is a component whose*)
(* table the file defines anew after its header, before the component's     *)
(* scan: figleaf.c has copied the tables by then, and keeps the old one.    *)
RedefinedLater(c) == first.header[first.tq[c]] # first.quant[c]
SameTables ==
    JustRead /\ round = 2 =>
        \A c \in Comps : first.quant[c] # Absent /\ ~RedefinedLater(c) => tb.saved[c] = first.quant[c]

(* Nothing the file holds keeps the program from ending. *)
EveryTranscodeEnds == <>(Exited \/ Done)
=============================================================================
