----------------------------- MODULE OutputRows -----------------------------
(***************************************************************************)
(* The way of sample rows from the inverse DCT to the application: the     *)
(* output side of jdapistd.c and jdmaster.c, the main controller with its  *)
(* context rows (jdmainct.c), the upsamplers (jdsample.c, jdmerge.c) and   *)
(* the postprocessing controller (jdpostct.c).  Rows only: a row of        *)
(* samples is its number in its component, a row of output the rows it was *)
(* made from.  The application may ask for any number of rows and the      *)
(* source may run dry before any row of iMCUs.                             *)
(***************************************************************************)
EXTENDS JpegGeometry, SequencesExt

CONSTANTS
    Displays,   \* records [H, M, maxv, comp, up, quant], see jinit_master_decompress
    MaxLines,   \* the most rows asked for at once
    MaxPasses   \* output passes of the buffered-image mode

ASSUME LimitAssumption == MaxLines \in Nat \ {0} /\ MaxPasses \in Nat \ {0}

(* What the master control and the upsampler make sure of: the row groups  *)
(* of all components belong to the same rows of the image (jinit_upsampler *)
(* refuses fractions), merged upsampling is for one row or two.            *)
Positive == Nat \ {0}
ASSUME DisplayAssumption == \A d \in Displays :
    /\ d.H \in Positive /\ d.M \in Positive /\ d.maxv \in Positive
    /\ d.up \in {"sep", "merged"} /\ d.quant \in {"none", "1pass", "2pass"}
    /\ d.comp # <<>> /\ d.comp \in Seq([v : Positive, D : Positive, fancy : BOOLEAN])
    /\ \A c \in DOMAIN d.comp : LET group == (d.comp[c].v * d.comp[c].D) \div d.M
                                IN  /\ d.comp[c].v * d.comp[c].D = group * d.M
                                    /\ d.maxv = group * (d.maxv \div group)
    /\ d.up = "merged" => d.maxv \in {1, 2}

VARIABLES
    display,   \* the file and the parameters of the decompression
    dinfo      \* the decompression object and its modules

dvars == <<display, dinfo>>

H == display.H            \* output_height
M == display.M            \* min_DCT_scaled_size
maxv == display.maxv      \* max_v_samp_factor
OutComps == DOMAIN display.comp
None == -1                \* a pointer that is not set, a row that holds nothing
-----------------------------------------------------------------------------
(* Dimensions; comp[c] has v_samp_factor v and DCT_scaled_size D.          *)
iMCUheight(c) == display.comp[c].v * display.comp[c].D
rgroup(c) == iMCUheight(c) \div M
RowsOf(c) == jdiv_round_up(H * rgroup(c), maxv)
RowsInBlocks(c) == jround_up(RowsOf(c), display.comp[c].D)
iMCURows == jdiv_round_up(H, maxv * M)

(* jinit_upsampler chooses by the ratio; a fancy component is one with     *)
(* do_fancy_upsampling, downsampled_width > 2 and half the columns.        *)
Expand(c) == maxv \div rgroup(c)
h2v2_fancy(c) == display.comp[c].fancy /\ Expand(c) = 2 /\ M > 1
need_context_rows == display.up = "sep" /\ \E c \in OutComps : h2v2_fancy(c)
Workspace(c) == rgroup(c) * (IF need_context_rows THEN M + 2 ELSE M)
-----------------------------------------------------------------------------
(* make_funny_pointers: the two lists of pointers into the workspace, of   *)
(* M + 4 row groups each from one group before the first.                  *)
FunnyRange(c) == -rgroup(c)..(rgroup(c) * (M + 3) - 1)
FirstList(c) == [i \in FunnyRange(c) |-> IF i < 0 THEN 0 ELSE IF i < rgroup(c) * (M + 2) THEN i ELSE None]
SecondList(c) ==
    [i \in FunnyRange(c) |->
        IF i \in (rgroup(c) * (M - 2))..(rgroup(c) * M - 1) THEN i + 2 * rgroup(c)
        ELSE IF i \in (rgroup(c) * M)..(rgroup(c) * (M + 2) - 1) THEN i - 2 * rgroup(c)
        ELSE IF i < 0 THEN None ELSE FirstList(c)[i]]
make_funny_pointers == [l \in 0..1 |-> [c \in OutComps |-> IF l = 0 THEN FirstList(c) ELSE SecondList(c)]]
PlainPointers == [l \in 0..1 |-> [c \in OutComps |-> [i \in 0..(rgroup(c) * M - 1) |-> i]]]

Wrapped(c, list) ==
    [i \in FunnyRange(c) |-> IF i < 0 THEN list[i + rgroup(c) * (M + 2)]
                             ELSE IF i >= rgroup(c) * (M + 2) THEN list[i - rgroup(c) * (M + 2)]
                             ELSE list[i]]
set_wraparound_first_only(d) ==
    [d EXCEPT !.xbuffer[0] = [c \in OutComps |-> Wrapped(c, d.xbuffer[0][c])]]
set_wraparound_pointers(d) ==
    [d EXCEPT !.xbuffer = [l \in 0..1 |-> [c \in OutComps |-> Wrapped(c, d.xbuffer[l][c])]]]

rows_left(c) == LeftOver(RowsOf(c), iMCUheight(c))
set_bottom_pointers(d) ==
    [d EXCEPT !.rowgroups_avail = (rows_left(1) - 1) \div rgroup(1) + 1,
              !.xbuffer[d.whichptr] =
                  [c \in OutComps |-> [i \in FunnyRange(c) |->
                      IF i \in rows_left(c)..(rows_left(c) + 2 * rgroup(c) - 1) THEN @[c][rows_left(c) - 1]
                      ELSE @[c][i]]]]
-----------------------------------------------------------------------------
(* decompress_data: the next row of iMCUs into the list in use.  Rows of   *)
(* blocks below the last one of a component are not written.               *)
Pointer(d, c, i) == IF i \in DOMAIN d.xbuffer[d.whichptr][c] THEN d.xbuffer[d.whichptr][c][i] ELSE None
SampleRow(d, c, i) == LET p == Pointer(d, c, i) IN IF p = None THEN None ELSE d.buffer[c][p]

decompress_data(d) ==
    [d EXCEPT !.output_iMCU_row = @ + 1, !.iMCU_row_ctr = @ + 1, !.buffer_full = TRUE,
              !.buffer = [c \in OutComps |->
                  LET first == d.output_iMCU_row * iMCUheight(c)
                      new == {i \in 0..(iMCUheight(c) - 1) : first + i < RowsInBlocks(c)}
                      at == [i \in new |-> d.xbuffer[d.whichptr][c][i]]
                  IN  [p \in DOMAIN d.buffer[c] |->
                          IF \E i \in new : at[i] = p THEN first + (CHOOSE i \in new : at[i] = p)
                          ELSE d.buffer[c][p]]]]
-----------------------------------------------------------------------------
(* sep_upsample converts a row group at a time: of a full-size component   *)
(* it keeps a pointer into the list, of the others a copy.                 *)
Upsampled(d, c, base) ==
    [k \in 0..(maxv - 1) |->
        LET near == base + k \div Expand(c) IN
        IF h2v2_fancy(c) THEN <<SampleRow(d, c, near), SampleRow(d, c, IF k % 2 = 0 THEN near - 1 ELSE near + 1)>>
        ELSE <<SampleRow(d, c, near)>>]
ConvertGroup(d) ==
    [d EXCEPT !.next_row_out = 0,
              !.color_buf = [c \in OutComps |->
                  LET base == d.rowgroup_ctr * rgroup(c)
                  IN  [base |-> base, rows |-> IF Expand(c) = 1 THEN <<>> ELSE Upsampled(d, c, base)]]]
ColorRow(d, k) ==
    [c \in OutComps |-> IF Expand(c) = 1 THEN <<SampleRow(d, c, d.color_buf[c].base + k)>>
                        ELSE d.color_buf[c].rows[k]]

EmitRows(d, n) ==
    [d EXCEPT !.made = [k \in 1..n |-> ColorRow(d, d.next_row_out + k - 1)],
              !.rows_to_go = @ - n,
              !.next_row_out = @ + n,
              !.rowgroup_ctr = IF d.next_row_out + n >= maxv THEN @ + 1 ELSE @]
EmitWhatFits(d, room) == EmitRows(d, Min({maxv - d.next_row_out, d.rows_to_go, room}))
sep_upsample(d, room) == EmitWhatFits(IF d.next_row_out >= maxv THEN ConvertGroup(d) ELSE d, room)

(* jdmerge.c: a pair of rows at a time; the second waits in spare_row if   *)
(* the caller has no room for it.                                          *)
MergedRow(d, k) ==
    [c \in OutComps |-> <<SampleRow(d, c, d.rowgroup_ctr * rgroup(c) + k \div Expand(c))>>]
ReturnSpare(d) ==
    [d EXCEPT !.made = <<d.spare_row>>, !.spare_full = FALSE, !.rows_to_go = @ - 1, !.rowgroup_ctr = @ + 1]
UpsamplePair(d, n) ==
    [d EXCEPT !.made = [k \in 1..n |-> MergedRow(d, k - 1)],
              !.spare_full = n <= 1,
              !.spare_row = IF n <= 1 THEN MergedRow(d, 1) ELSE @,
              !.rows_to_go = @ - n,
              !.rowgroup_ctr = IF n <= 1 THEN @ ELSE @ + 1]
merged_2v_upsample(d, room) ==
    IF d.spare_full THEN ReturnSpare(d) ELSE UpsamplePair(d, Min({2, d.rows_to_go, room}))
merged_1v_upsample(d) == [d EXCEPT !.made = <<MergedRow(d, 0)>>, !.rowgroup_ctr = @ + 1]

upsample(d, room) ==
    CASE display.up = "sep" -> sep_upsample(d, room)
      [] display.up = "merged" /\ maxv = 2 -> merged_2v_upsample(d, room)
      [] display.up = "merged" /\ maxv # 2 -> merged_1v_upsample(d)
-----------------------------------------------------------------------------
(* post_process_data: straight to the application, through the strip of    *)
(* one-pass quantization, or through the array of the two-pass one.        *)
strip_height == maxv
Deliver(d) ==
    [d EXCEPT !.lines = @ \o d.made, !.out_row_ctr = @ + Len(d.made), !.made = <<>>]
post_process_1pass(d, room) == Deliver(upsample(d, Min({room, strip_height})))

NextStripUnreset(d) ==
    IF d.next_row >= strip_height THEN [d EXCEPT !.starting_row = @ + strip_height] ELSE d
NextStrip(d) ==
    IF d.next_row >= strip_height THEN [d EXCEPT !.starting_row = @ + strip_height, !.next_row = 0] ELSE d
InStrip(d) ==
    [d EXCEPT !.whole_image =
                  [r \in DOMAIN @ |-> LET k == r - d.starting_row - d.next_row + 1
                                      IN  IF k \in DOMAIN d.made THEN d.made[k] ELSE @[r]],
              !.scanned = @ \o d.made,
              !.next_row = @ + Len(d.made), !.out_row_ctr = @ + Len(d.made), !.made = <<>>]
post_process_prepass(d) == NextStrip(InStrip(upsample(d, strip_height - d.next_row)))

TakeStored(d, n) ==
    [d EXCEPT !.made = [k \in 1..n |-> d.whole_image[d.starting_row + d.next_row + k - 1]], !.next_row = @ + n]
post_process_2pass(d, room) ==
    NextStrip(Deliver(TakeStored(d, Min({strip_height - d.next_row, room, H - d.starting_row}))))

post_process_data(d, max) ==
    CASE d.post = "upsample" -> Deliver(upsample(d, max - d.out_row_ctr))
      [] d.post = "1pass" -> post_process_1pass(d, max - d.out_row_ctr)
      [] d.post = "prepass" -> post_process_prepass(d)
      [] d.post = "2pass" -> post_process_2pass(d, max - d.out_row_ctr)
-----------------------------------------------------------------------------
(* process_data: ready tells whether the source has another iMCU row.      *)
Emptied(d) == IF d.rowgroup_ctr >= M THEN [d EXCEPT !.buffer_full = FALSE, !.rowgroup_ctr = 0] ELSE d
process_data_simple_main(d, max) == Emptied(post_process_data(d, max))

PrepareForIMCU(d) == [d EXCEPT !.rowgroup_ctr = 0, !.rowgroups_avail = M - 1, !.context_state = "process"]
Prepared(d) ==
    IF d.iMCU_row_ctr = iMCURows THEN set_bottom_pointers(PrepareForIMCU(d)) ELSE PrepareForIMCU(d)
ToOtherList(d) ==
    [d EXCEPT !.whichptr = 1 - @, !.buffer_full = FALSE, !.rowgroup_ctr = M + 1,
              !.rowgroups_avail = M + 2, !.context_state = "postponed"]
AfterIMCU(d) ==
    IF d.rowgroup_ctr < d.rowgroups_avail THEN d
    ELSE ToOtherList(IF d.iMCU_row_ctr = 1 THEN set_wraparound_pointers(d) ELSE d)
ProcessIMCU(d, max) == AfterIMCU(post_process_data(d, max))
AfterPostponed(d, max) ==
    IF d.rowgroup_ctr < d.rowgroups_avail THEN d
    ELSE IF d.out_row_ctr >= max THEN [d EXCEPT !.context_state = "prepare"]
    ELSE ProcessIMCU(Prepared(d), max)
process_data_context_main(d, max) ==
    CASE d.context_state = "postponed" -> AfterPostponed(post_process_data(d, max), max)
      [] d.context_state = "prepare" -> ProcessIMCU(Prepared(d), max)
      [] d.context_state = "process" -> ProcessIMCU(d, max)

WithData(d, max) ==
    IF need_context_rows THEN process_data_context_main(d, max) ELSE process_data_simple_main(d, max)
process_data(d, max, ready) ==
    IF d.post = "2pass" THEN post_process_data(d, max)
    ELSE IF d.buffer_full THEN WithData(d, max)
    ELSE IF ready THEN WithData(decompress_data(d), max)
    ELSE d
-----------------------------------------------------------------------------
(* prepare_for_output_pass and the start_pass methods it calls.  A         *)
(* two-pass quantizer makes a dummy pass first, unless it has a colormap.  *)
StartModules(d, method) ==
    [d EXCEPT !.post = method, !.starting_row = 0, !.next_row = 0,
              !.output_iMCU_row = 0, !.rows_to_go = H, !.next_row_out = maxv, !.spare_full = FALSE,
              !.xbuffer = IF need_context_rows THEN make_funny_pointers ELSE PlainPointers,
              !.whichptr = 0, !.context_state = "prepare", !.iMCU_row_ctr = 0,
              !.buffer_full = FALSE, !.rowgroup_ctr = 0]
FinalPass(d) == [d EXCEPT !.is_dummy_pass = FALSE, !.post = "2pass", !.starting_row = 0, !.next_row = 0]
prepare_for_output_pass(d) ==
    CASE d.is_dummy_pass -> FinalPass(d)
      [] ~d.is_dummy_pass /\ display.quant = "none" -> StartModules(d, "upsample")
      [] ~d.is_dummy_pass /\ display.quant = "2pass" /\ ~d.colormap ->
             [StartModules(d, "prepass") EXCEPT !.is_dummy_pass = TRUE]
      [] ~d.is_dummy_pass /\ (display.quant = "1pass" \/ (display.quant = "2pass" /\ d.colormap)) ->
             StartModules(d, "1pass")

SetUp(d) == [prepare_for_output_pass(d) EXCEPT !.output_scanline = 0, !.lines = <<>>]
Opened(d) == [d EXCEPT !.state = IF d.is_dummy_pass THEN "DSTATE_PRESCAN" ELSE "DSTATE_SCANNING"]
NextPass(d) == IF d.output_scanline < H THEN d ELSE Opened(SetUp([d EXCEPT !.colormap = TRUE]))

NewObject ==
    [state |-> "DSTATE_READY", pass |-> 0, is_dummy_pass |-> FALSE, colormap |-> FALSE,
     output_scanline |-> 0, out_row_ctr |-> 0, lines |-> <<>>, scanned |-> <<>>, made |-> <<>>, stalled |-> FALSE,
     output_iMCU_row |-> 0, buffer_full |-> FALSE, rowgroup_ctr |-> 0, rowgroups_avail |-> 0,
     whichptr |-> 0, context_state |-> "prepare", iMCU_row_ctr |-> 0, xbuffer |-> PlainPointers,
     buffer |-> [c \in OutComps |-> [p \in 0..(Workspace(c) - 1) |-> None]],
     next_row_out |-> 0, rows_to_go |-> 0, color_buf |-> <<>>, spare_full |-> FALSE, spare_row |-> <<>>,
     post |-> "upsample", starting_row |-> 0, next_row |-> 0,
     whole_image |-> [r \in 0..(jround_up(H, strip_height) - 1) |-> <<>>]]
-----------------------------------------------------------------------------
OutputStart == dinfo = NewObject
InitOutput == display \in Displays /\ OutputStart

(* jpeg_start_decompress, or jpeg_start_output of a later pass. *)
StartOutput ==
    /\ dinfo.state \in {"DSTATE_READY", "DSTATE_BUFIMAGE"} /\ dinfo.pass < MaxPasses
    /\ dinfo' = Opened(SetUp([dinfo EXCEPT !.pass = @ + 1, !.scanned = <<>>]))
    /\ UNCHANGED display

(* output_pass_setup, once round its loop over the dummy pass: out_row_ctr *)
(* is output_scanline and there is no output buffer.  Without progress it  *)
(* returns FALSE and the application calls again.                          *)
Cranked(d, ready) == process_data([d EXCEPT !.out_row_ctr = d.output_scanline], 0, ready)
DummyDone(d, ready) ==
    NextPass([d EXCEPT !.output_scanline = d.out_row_ctr,
                       !.stalled = @ \/ (ready /\ d.out_row_ctr = d.output_scanline)])
DummyPass ==
    \E ready \in BOOLEAN :
        /\ dinfo.state = "DSTATE_PRESCAN"
        /\ dinfo' = DummyDone(Cranked(dinfo, ready), ready)
        /\ UNCHANGED display

ReadDone(d, ready) ==
    [d EXCEPT !.output_scanline = @ + d.out_row_ctr, !.stalled = @ \/ (ready /\ d.out_row_ctr = 0)]
jpeg_read_scanlines ==
    \E max_lines \in 1..MaxLines, ready \in BOOLEAN :
        /\ dinfo.state = "DSTATE_SCANNING" /\ dinfo.output_scanline < H
        /\ dinfo' = ReadDone(process_data([dinfo EXCEPT !.out_row_ctr = 0], max_lines, ready), ready)
        /\ UNCHANGED display

(* "We do not require the whole pass to have been completed." *)
jpeg_finish_output ==
    /\ dinfo.state = "DSTATE_SCANNING" /\ dinfo.pass < MaxPasses
    /\ dinfo' = [dinfo EXCEPT !.state = "DSTATE_BUFIMAGE"]
    /\ UNCHANGED display

NextOutput == StartOutput \/ DummyPass \/ jpeg_read_scanlines \/ jpeg_finish_output
-----------------------------------------------------------------------------
(* The rows that row y of the image is to be made from. *)
Clamp(c, r) == Max({0, Min({r, RowsOf(c) - 1})})
TrueRow(y) ==
    [c \in OutComps |->
        LET near == y \div Expand(c) IN
        IF h2v2_fancy(c) /\ display.up = "sep"
        THEN <<near, Clamp(c, IF y % 2 = 0 THEN near - 1 ELSE near + 1)>> ELSE <<near>>]

(* post_process_2pass bounds the rows of a strip by what the image has     *)
(* left from the start of the strip, not from the row it has come to.      *)
BelowBottom == dinfo.post = "2pass" /\ strip_height > 2 /\ H % strip_height > 1

(* Each output pass delivers the rows of the image in order and once, each *)
(* made from its own sample rows and, for context, its true neighbours or  *)
(* itself at the top and bottom, whatever the application asks for at once *)
(* and wherever the source suspends; the quantizer's prepass has seen the  *)
(* same rows.  jdpostct.c goes below the bottom in the one case above.     *)
OutputRowsRight ==
    /\ \A y \in DOMAIN dinfo.lines : y <= H => dinfo.lines[y] = TrueRow(y - 1)
    /\ dinfo.state = "DSTATE_SCANNING" => Len(dinfo.lines) = dinfo.output_scanline
    /\ Len(dinfo.lines) > H => BelowBottom
    /\ \A y \in DOMAIN dinfo.scanned : dinfo.scanned[y] = TrueRow(y - 1)
    /\ dinfo.post = "2pass" => Len(dinfo.scanned) = H

(* While the image has rows left a call that finds data makes progress, so *)
(* the loops of the application and of output_pass_setup over              *)
(* output_scanline end, and "no progress" means that the source is dry.    *)
NeverStalls == ~dinfo.stalled
=============================================================================
