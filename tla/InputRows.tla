----------------------------- MODULE InputRows ------------------------------
(***************************************************************************)
(* The way of sample rows from the application to the forward DCT:         *)
(* jpeg_write_scanlines (jcapistd.c), the main controller (jcmainct.c),    *)
(* the preprocessing controller (jcprepct.c) and the downsamplers          *)
(* (jcsample.c).  A row of the image is its number, a row of samples the   *)
(* sequence of the image rows it was made from.  The application may pass  *)
(* any number of rows and the compressor may suspend at any iMCU row.      *)
(***************************************************************************)
EXTENDS JpegGeometry, SequencesExt

CONSTANTS
    Sources,   \* records [h, samp, smooth]: image_height, v_samp_factors, smoothing_factor # 0
    MaxRows    \* the most rows passed at once

ASSUME SourceAssumption == MaxRows \in Nat \ {0}

VARIABLES
    source,   \* the image and the parameters of the compression
    cinfo     \* the compression object and its modules

cvars == <<source, cinfo>>

InComps == DOMAIN source.samp
image_height == source.h
max_v == max_v_samp_factor(source)
iMCU_rows == total_iMCU_rows(source)
NoRow == -1
-----------------------------------------------------------------------------
(* jinit_downsampler: with smoothing, components of full and of half size  *)
(* take a row of context above and below; the others do not.               *)
v_expand(c) == max_v \div source.samp[c].v
smoothed(c) == source.smooth /\ ((source.samp[c].h = max_h_samp_factor(source) /\ v_expand(c) = 1)
                                 \/ (2 * source.samp[c].h = max_h_samp_factor(source) /\ v_expand(c) = 2))
in_context == \E c \in InComps : smoothed(c)

(* create_context_buffer: three row groups, with pointers to the last and  *)
(* the first of them above and below; or a single row group.               *)
buf_height == 3 * max_v
ColorRows == IF in_context THEN 0..(buf_height - 1) ELSE 0..(max_v - 1)
At(i) == IF in_context THEN i % buf_height ELSE i
-----------------------------------------------------------------------------
(* sep_downsample into row group g of the main buffer. *)
RowsUsed(c, j) ==
    IF smoothed(c) THEN [k \in 1..(v_expand(c) + 2) |-> j * v_expand(c) + k - 2]
    ELSE [k \in 1..v_expand(c) |-> j * v_expand(c) + k - 1]
InGroup(c, i, g) == i \in (g * source.samp[c].v)..((g + 1) * source.samp[c].v - 1)
Downsampled(e, c, j, in) == [k \in DOMAIN RowsUsed(c, j) |-> e.color_buf[At(in + RowsUsed(c, j)[k])]]
sep_downsample(e, in) ==
    [e EXCEPT !.buffer = [c \in InComps |-> [i \in DOMAIN @[c] |->
                  IF InGroup(c, i, e.rowgroup_ctr) THEN Downsampled(e, c, i % source.samp[c].v, in) ELSE @[c][i]]],
              !.rowgroup_ctr = @ + 1]

(* color_convert of the next n rows passed by the application. *)
ConvertRows(e, n) ==
    [e EXCEPT !.color_buf = [r \in DOMAIN @ |->
                  IF r \in e.next_buf_row..(e.next_buf_row + n - 1)
                  THEN e.next_scanline + e.in_row_ctr + r - e.next_buf_row ELSE @[r]],
              !.in_row_ctr = @ + n, !.next_buf_row = @ + n, !.rows_to_go = @ - n]

(* expand_bottom_edge of the conversion buffer up to row stop. *)
ExpandColor(e, stop) ==
    [e EXCEPT !.color_buf = [r \in DOMAIN @ |->
                  IF r \in e.next_buf_row..(stop - 1) THEN @[At(e.next_buf_row - 1)] ELSE @[r]],
              !.next_buf_row = stop]
-----------------------------------------------------------------------------
(* pre_process_data: the rounds of its loop, rg the rounds it may make.    *)
BottomOfGroup(e) == IF e.rows_to_go = 0 /\ e.next_buf_row < max_v THEN ExpandColor(e, max_v) ELSE e
EmptyGroup(e) == IF e.next_buf_row = max_v THEN [sep_downsample(e, 0) EXCEPT !.next_buf_row = 0] ELSE e
(* At the bottom the last row of samples fills up the row of iMCUs.        *)
LastSample(e, c) == e.buffer[c][e.rowgroup_ctr * source.samp[c].v - 1]
BottomOfIMCU(e) ==
    IF e.rows_to_go = 0 /\ e.rowgroup_ctr < DCTSIZE
    THEN [e EXCEPT !.buffer = [c \in InComps |-> [i \in DOMAIN @[c] |->
                       IF i >= e.rowgroup_ctr * source.samp[c].v THEN LastSample(e, c) ELSE @[c][i]]],
                   !.rowgroup_ctr = DCTSIZE]
    ELSE e
SimpleRound(e, avail) ==
    IF e.in_row_ctr < avail /\ e.rowgroup_ctr < DCTSIZE
    THEN BottomOfIMCU(EmptyGroup(BottomOfGroup(ConvertRows(e, Min({max_v - e.next_buf_row, avail - e.in_row_ctr})))))
    ELSE e

(* pre_process_context *)
PadTop(e, first) ==
    IF first THEN [e EXCEPT !.color_buf = [r \in DOMAIN @ |-> IF r >= 2 * max_v THEN @[0] ELSE @[r]]] ELSE e
TakeRows(e, n) == PadTop(ConvertRows(e, n), e.rows_to_go = image_height)
BottomOfBuffer(e) == IF e.next_buf_row < e.next_buf_stop THEN ExpandColor(e, e.next_buf_stop) ELSE e
Advance(e) ==
    LET next == IF e.next_buf_row >= buf_height THEN 0 ELSE e.next_buf_row
        this == e.this_row_group + max_v
    IN  [e EXCEPT !.this_row_group = IF this >= buf_height THEN 0 ELSE this,
                  !.next_buf_row = next, !.next_buf_stop = next + max_v]
EmptyThisGroup(e) ==
    IF e.next_buf_row = e.next_buf_stop THEN Advance(sep_downsample(e, e.this_row_group)) ELSE e
ContextRound(e, avail) ==
    IF e.rowgroup_ctr >= DCTSIZE THEN e
    ELSE IF e.in_row_ctr < avail
         THEN EmptyThisGroup(TakeRows(e, Min({e.next_buf_stop - e.next_buf_row, avail - e.in_row_ctr})))
    ELSE IF e.rows_to_go # 0 THEN e ELSE EmptyThisGroup(BottomOfBuffer(e))

(* A round converts at least one row, or finishes a row group. *)
Rounds(avail) == 1..(MaxRows + DCTSIZE)
pre_process(e, avail) ==
    FoldLeft(LAMBDA x, k : IF in_context THEN ContextRound(x, avail) ELSE SimpleRound(x, avail),
             e, [k \in Rounds(avail) |-> k])
-----------------------------------------------------------------------------
(* process_data_simple_main.  compress_data takes the buffered row of      *)
(* iMCUs or suspends; then the last row passed counts as not consumed.     *)
SuspendOnly(e) == [e EXCEPT !.suspended = TRUE]
Suspend(e) == IF e.suspended THEN e ELSE [e EXCEPT !.in_row_ctr = @ - 1, !.suspended = TRUE]
Compressed(e) ==
    [e EXCEPT !.compressed = Append(@, e.buffer),
              !.in_row_ctr = IF e.suspended THEN @ + 1 ELSE @,
              !.suspended = FALSE, !.rowgroup_ctr = 0, !.cur_iMCU_row = @ + 1]
Filled(e, avail) == IF e.rowgroup_ctr < DCTSIZE THEN pre_process(e, avail) ELSE e

(* accepts: the rows of iMCUs that compress_data takes in this call before *)
(* it suspends.                                                            *)
Sent(e, accepts) ==
    IF e.rowgroup_ctr # DCTSIZE THEN [e EXCEPT !.back = TRUE]
    ELSE IF e.accepted < accepts THEN [Compressed(e) EXCEPT !.accepted = @ + 1]
    ELSE [Suspend(e) EXCEPT !.back = TRUE]
MainRound(e, avail, accepts) ==
    IF e.back \/ e.cur_iMCU_row >= iMCU_rows THEN e ELSE Sent(Filled(e, avail), accepts)
process_data_simple(e, avail, accepts) ==
    FoldLeft(LAMBDA x, k : MainRound(x, avail, accepts), e, [k \in 1..(iMCU_rows + 1) |-> k])
-----------------------------------------------------------------------------
(* jpeg_start_compress and the start_pass methods. *)
InputStart ==
    cinfo = [next_scanline |-> 0, in_row_ctr |-> 0, rows_to_go |-> image_height, next_buf_row |-> 0,
             this_row_group |-> 0, next_buf_stop |-> 2 * max_v,
             color_buf |-> [r \in ColorRows |-> NoRow],
             buffer |-> [c \in InComps |-> [i \in 0..(source.samp[c].v * DCTSIZE - 1) |-> <<NoRow>>]],
             cur_iMCU_row |-> 0, rowgroup_ctr |-> 0, suspended |-> FALSE, compressed |-> <<>>,
             back |-> FALSE, accepted |-> 0, stalled |-> FALSE]
InitInput == source \in Sources /\ InputStart

(* jpeg_write_scanlines passes rows from next_scanline on; those below the *)
(* image are ignored.                                                      *)
Returned(e, ready) ==
    [e EXCEPT !.next_scanline = @ + e.in_row_ctr, !.stalled = @ \/ (ready /\ e.in_row_ctr <= 0)]
jpeg_write_scanlines ==
    \E num_lines \in 1..MaxRows, accepts \in 0..iMCU_rows :
        /\ cinfo.next_scanline < image_height
        /\ cinfo' = Returned(process_data_simple([cinfo EXCEPT !.in_row_ctr = 0, !.back = FALSE, !.accepted = 0],
                                 Min({num_lines, image_height - cinfo.next_scanline}), accepts),
                             accepts = iMCU_rows)
        /\ UNCHANGED source

NextInput == jpeg_write_scanlines
-----------------------------------------------------------------------------
(* What the samples of a row are to be made from: the rows of the image,   *)
(* the first and the last repeated outside it.  Without context the rows   *)
(* of samples below the last row group repeat the last one.                *)
InImage(r) == Max({0, Min({r, image_height - 1})})
LastGroupEnd(c) == jdiv_round_up(image_height, max_v) * source.samp[c].v
MadeFrom(c, s) == [k \in DOMAIN RowsUsed(c, s) |-> InImage(RowsUsed(c, s)[k])]
TrueSamples(c, s) == MadeFrom(c, IF in_context THEN s ELSE Min({s, LastGroupEnd(c) - 1}))

(* Every row of samples that goes to the forward DCT, of whichever row of  *)
(* iMCUs, is made from its own rows of the image, each passed once, and    *)
(* never from what a buffer held before, however the application cuts the  *)
(* image into calls and whenever the compressor suspends; and              *)
(* next_scanline reaches image_height, where jpeg_finish_compress is       *)
(* allowed, only when all rows of iMCUs have been compressed.              *)
InputRowsRight ==
    /\ \A n \in DOMAIN cinfo.compressed : \A c \in InComps : \A i \in DOMAIN cinfo.compressed[n][c] :
           cinfo.compressed[n][c][i] = TrueSamples(c, (n - 1) * source.samp[c].v * DCTSIZE + i)
    /\ cinfo.next_scanline = image_height <=> Len(cinfo.compressed) = iMCU_rows
    /\ ~cinfo.stalled
=============================================================================
