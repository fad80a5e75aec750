--------------------------- MODULE CoefController ---------------------------
(***************************************************************************)
(* The coefficient buffer controllers: jdcoefct.c of the decompressor,     *)
(* jccoefct.c of the compressor and the one of jctrans.c, which take the   *)
(* blocks of an image to and from MCUs.  A picture goes one of four ways:  *)
(*   "transcode": a file is read into the arrays, figleaf exchanges the    *)
(*                blocks, and the arrays are written as one scan;          *)
(*   "jpegtran":  the same with the transformation xf of transupp.c        *)
(*                between, which turns the image src into img;             *)
(*   "single":    compress_data writes one scan straight from the samples; *)
(*   "multi":     compress_first_pass fills the arrays and writes the      *)
(*                first scan, compress_output the others.                  *)
(* What was written is read back, by decompress_onepass if it has one scan *)
(* and by consume_data and decompress_data otherwise.                      *)
(***************************************************************************)
EXTENDS Transupp, SequencesExt

CONSTANTS
    Pictures   \* the records [img, src, scans, way, xf]

VARIABLES
    pic,      \* the picture
    pass,     \* what runs: read, process, write, again, end
    scan,     \* the scan that is read or written
    row,      \* input_iMCU_row or iMCU_row_num
    yoffset,  \* MCU_vert_offset
    ctr,      \* MCU_ctr
    arr,      \* whole_image
    file,     \* the MCUs of the scans: of the input, or written by now
    pos,      \* MCUs of the file consumed by now
    shown,    \* history: the blocks each position of the output got
    oscan,    \* output_scan_number
    orow,     \* output_iMCU_row
    stray     \* history: an access outside an array, or an IDCT of a dummy

vars == <<pic, pass, scan, row, yoffset, ctr, arr, file, pos, shown, oscan, orow, stray>>

img == pic.img
Comps == 1..NumComponents(img)
FromFile == pic.way \in {"transcode", "jpegtran"}
AllTogether == <<[c \in Comps |-> c]>>

(* The scans of the file in hand. *)
Scans == IF pass \in {"read", "process"} \/ pic.way = "multi" THEN pic.scans ELSE AllTogether
TheScan == Scans[scan]
LastRow == total_iMCU_rows(img) - 1

(* A block: where in the picture its DC value comes from, whether figleaf  *)
(* has processed it, whether it has AC coefficients of its own, and how    *)
(* transupp.c turned it.                                                   *)
Real(c, y, x, p) == [at |-> <<c, y, x>>, processed |-> p, ac |-> TRUE, turn |-> Upright]
Dummy(b) == [b EXCEPT !.ac = FALSE]
Zero == [at |-> <<>>, processed |-> FALSE, ac |-> FALSE, turn |-> Upright]
Junk == [Zero EXCEPT !.ac = TRUE]         \* what a workspace holds at first

NoArrays == [c \in Comps |-> [y \in 0..(ArrayHeight(img, c) - 1) |-> [x \in 0..(ArrayWidth(img, c) - 1) |-> Zero]]]
NothingShownOf(i) == [c \in DOMAIN i.samp |-> [y \in 0..(height_in_blocks(i, c) - 1) |->
                                                [x \in 0..(width_in_blocks(i, c) - 1) |-> <<>>]]]
NothingShown == NothingShownOf(img)
-----------------------------------------------------------------------------
(* The blocks of an MCU as <<component, row, column>>, in the order in     *)
(* which the controllers' loops over ci, yindex and xindex come to them.   *)
Grid(i, c, r, yo, m) ==
    LET w == MCU_width(i, c.scan, c.c)
        h == MCU_height(i, c.scan, c.c)
    IN  [k \in 1..(w * h) |-> <<c.c, r * i.samp[c.c].v + yo + (k - 1) \div w, m * w + ((k - 1) % w)>>]
McuBlocks(i, s, r, yo, m) ==
    FlattenSeq([k \in DOMAIN s |-> Grid(i, [c |-> s[k], scan |-> s], r, yo, m)])

(* consume_data and decompress_onepass take dummy blocks with the rest;    *)
(* the latter shows the useful ones only.                                  *)
UsefulColumn(i, s, c, m, x) ==
    x - m * MCU_width(i, s, c) < IF m < MCUs_per_row(i, s) - 1 THEN MCU_width(i, s, c)
                                 ELSE last_col_width(i, s, c)
UsefulRow(i, s, c, r, y) ==
    r < total_iMCU_rows(i) - 1 \/ y - r * i.samp[c].v < last_row_height(i, s, c)
UsefulEverywhere(i, s, c, r, m, y, x) == TRUE

Useful(i, s, c, r, m, y, x) == UsefulColumn(i, s, c, m, x) /\ UsefulRow(i, s, c, r, y)

Inside(c, y, x) == y \in DOMAIN arr[c] /\ x \in DOMAIN arr[c][y]
-----------------------------------------------------------------------------
(* The counters of all controllers: the next MCU of the row, the next MCU  *)
(* row, start_iMCU_row for the next iMCU row.                              *)
LastInRow == ctr = MCUs_per_row(img, TheScan) - 1
LastInIMCURow == LastInRow /\ yoffset = MCU_rows_per_iMCU_row(img, TheScan, row) - 1
LastInScan == LastInIMCURow /\ row = LastRow
LastOfAll == LastInScan /\ scan = Len(Scans)

Step ==
    /\ ctr' = IF LastInRow THEN 0 ELSE ctr + 1
    /\ yoffset' = IF LastInIMCURow THEN 0 ELSE IF LastInRow THEN yoffset + 1 ELSE yoffset
    /\ row' = IF LastInScan THEN 0 ELSE IF LastInIMCURow THEN row + 1 ELSE row
    /\ scan' = IF LastOfAll THEN 1 ELSE IF LastInScan THEN scan + 1 ELSE scan

Here == McuBlocks(img, TheScan, row, yoffset, ctr)
Useful_(b) == Useful(img, TheScan, b[1], row, ctr, b[2], b[3])
-----------------------------------------------------------------------------
(* consume_data: the blocks of an MCU are decoded into the arrays. *)
Put(blocks, mcu) ==
    [c \in Comps |-> [y \in DOMAIN arr[c] |-> [x \in DOMAIN arr[c][y] |->
        IF \E k \in DOMAIN blocks : blocks[k] = <<c, y, x>>
        THEN mcu[CHOOSE k \in DOMAIN blocks : blocks[k] = <<c, y, x>>] ELSE arr[c][y][x]]]]

consume_data ==
    /\ arr' = Put(Here, file[pos + 1])
    /\ stray' = (stray \/ \E k \in DOMAIN Here : ~Inside(Here[k][1], Here[k][2], Here[k][3]))
    /\ pos' = pos + 1
    /\ Step

Read ==
    /\ pass = "read"
    /\ consume_data
    /\ IF LastOfAll THEN pass' = "process" ELSE UNCHANGED pass
    /\ UNCHANGED <<pic, file, shown, oscan, orow>>

(* jpeg_prepare_blocks, the cipher and jpeg_return_blocks (jutil.c): the   *)
(* blocks of width_in_blocks by height_in_blocks, not the padding.         *)
Writable(i) == blocks_in_MCU(i, [c \in DOMAIN i.samp |-> c]) <= MAX_BLOCKS_IN_MCU
ProcessBlocks ==
    /\ pass = "process" /\ pic.way = "transcode"
    /\ arr' = [c \in Comps |-> [y \in DOMAIN arr[c] |-> [x \in DOMAIN arr[c][y] |->
                 IF y < height_in_blocks(img, c) /\ x < width_in_blocks(img, c)
                 THEN [arr[c][y][x] EXCEPT !.processed = TRUE] ELSE arr[c][y][x]]]]
    /\ pass' = IF Writable(img) THEN "write" ELSE "refused"
    /\ file' = <<>> /\ pos' = 0
    /\ UNCHANGED <<pic, scan, row, yoffset, ctr, shown, oscan, orow, stray>>

(* jpegtran: the workspace is requested before the coefficients are read,  *)
(* the parameters are adjusted before the first header is written and the  *)
(* blocks are turned before the first MCU is.                              *)
TransformBlocks ==
    /\ pass = "process" /\ pic.way = "jpegtran"
    /\ LET d   == jtransform_adjust_parameters(img, pic.xf)
           dst == IF InPlace(pic.xf) THEN arr ELSE Workspace(img, pic.xf, Junk)
           out == LeavesArrays(d, arr, dst, pic.xf)
       IN  IF CannotConvert(img, pic.xf) \/ ~Writable(d)
           THEN pass' = "refused" /\ UNCHANGED <<pic, arr, shown, stray>>
           ELSE /\ pass' = "write"
                /\ pic' = [pic EXCEPT !.img = d]
                /\ arr' = IF out THEN arr ELSE jtransform_execute_transformation(d, arr, dst, pic.xf)
                /\ stray' = (stray \/ out)
                /\ shown' = NothingShownOf(d)
    /\ file' = <<>> /\ pos' = 0
    /\ UNCHANGED <<scan, row, yoffset, ctr, oscan, orow>>
-----------------------------------------------------------------------------
(* compress_output of jctrans.c and compress_data of jccoefct.c: useful    *)
(* blocks from the source, and for the others a dummy with the DC value of *)
(* the block before.                                                       *)
Gathered(value(_, _, _)) ==
    LET mcu[k \in DOMAIN Here] ==
            LET b == Here[k]
            IN  IF Useful_(b) THEN value(b[1], b[2], b[3]) ELSE Dummy(mcu[k - 1])
    IN  mcu

FromArrays(c, y, x) == arr[c][y][x]
FromSamples(c, y, x) == Real(c, y, x, FALSE)

Emitted(mcu) ==
    /\ file' = Append(file, mcu)
    /\ Step
    /\ IF LastOfAll THEN pass' = "again" ELSE UNCHANGED pass
    /\ UNCHANGED <<pic, pos, shown, oscan, orow>>

TranscodeMcu ==
    /\ pass = "write" /\ FromFile
    /\ stray' = (stray \/ \E k \in DOMAIN Here : Useful_(Here[k]) /\ ~Inside(Here[k][1], Here[k][2], Here[k][3]))
    /\ Emitted(Gathered(FromArrays))
    /\ UNCHANGED arr

CompressMcu ==
    /\ pass = "write" /\ pic.way = "single"
    /\ stray' = (stray \/ \E k \in DOMAIN Here : Useful_(Here[k]) /\ (Here[k][2] >= height_in_blocks(img, Here[k][1])
                                                  \/ Here[k][3] >= width_in_blocks(img, Here[k][1])))
    /\ Emitted(Gathered(FromSamples))
    /\ UNCHANGED arr

BlockAbove(x, h) == x

LastOfMcu(x, h) == (x \div h) * h + h - 1

(* compress_first_pass, before it emits the iMCU row: all components,      *)
(* whichever the scan has.  Dummies at the right copy the last block of    *)
(* the row, those below the last block of the MCU in the row above.        *)
FilledRow(c) ==
    LET wide == width_in_blocks(img, c)
        h == img.samp[c].h
        rows == IF row < LastRow THEN img.samp[c].v ELSE LeftOver(height_in_blocks(img, c), img.samp[c].v)
        at[y \in 0..(img.samp[c].v - 1), x \in 0..(ArrayWidth(img, c) - 1)] ==
            CASE y < rows /\ x < wide -> Real(c, row * img.samp[c].v + y, x, FALSE)
              [] y < rows /\ x >= wide -> Dummy(at[y, wide - 1])
              [] OTHER -> Dummy(at[y - 1, LastOfMcu(x, h)])
    IN  at

WithRow ==
    [c \in Comps |-> LET new == FilledRow(c)
                     IN  [y \in DOMAIN arr[c] |-> IF y \div img.samp[c].v = row
                                                  THEN [x \in DOMAIN arr[c][y] |-> new[y % img.samp[c].v, x]]
                                                  ELSE arr[c][y]]]

FirstPassMcu ==
    /\ pass = "write" /\ pic.way = "multi" /\ scan = 1
    /\ arr' = IF ctr = 0 /\ yoffset = 0 THEN WithRow ELSE arr
    /\ stray' = (stray \/ \E k \in DOMAIN Here : ~Inside(Here[k][1], Here[k][2], Here[k][3]))
    /\ Emitted([k \in DOMAIN Here |-> arr'[Here[k][1]][Here[k][2]][Here[k][3]]])

OutputMcu ==
    /\ pass = "write" /\ pic.way = "multi" /\ scan > 1
    /\ stray' = (stray \/ \E k \in DOMAIN Here : ~Inside(Here[k][1], Here[k][2], Here[k][3]))
    /\ Emitted([k \in DOMAIN Here |-> arr[Here[k][1]][Here[k][2]][Here[k][3]]])
    /\ UNCHANGED arr
-----------------------------------------------------------------------------
Show(set) ==   \* set of <<component, row, column, block>>
    [c \in Comps |-> [y \in DOMAIN shown[c] |-> [x \in DOMAIN shown[c][y] |->
        shown[c][y][x] \o SetToSeq({e[4] : e \in {f \in set : f[1] = c /\ f[2] = y /\ f[3] = x}})]]]
Outside(set) == \E e \in set : e[2] \notin DOMAIN shown[e[1]] \/ e[3] \notin DOMAIN shown[e[1]][e[2]]

(* decompress_onepass: one scan, the IDCT at once. *)
OnePassMcu ==
    /\ pass = "again" /\ Len(Scans) = 1
    /\ LET got == {<<Here[k][1], Here[k][2], Here[k][3], file[pos + 1][k]>> : k \in {j \in DOMAIN Here : Useful_(Here[j])}}
       IN  shown' = Show(got) /\ stray' = (stray \/ Outside(got))
    /\ pos' = pos + 1
    /\ Step
    /\ IF LastOfAll THEN pass' = "end" ELSE UNCHANGED pass
    /\ UNCHANGED <<pic, arr, file, oscan, orow>>

(* Several scans: input goes into empty arrays, and output passes may run  *)
(* while it comes in.                                                      *)
StartBuffered ==
    /\ pass = "again" /\ Len(Scans) > 1 /\ oscan = 0
    /\ oscan' = 1 /\ arr' = NoArrays
    /\ UNCHANGED <<pic, pass, scan, row, yoffset, ctr, file, pos, shown, orow, stray>>

InputDone == pos = Len(file)

ConsumeAgain ==
    /\ pass = "again" /\ oscan > 0 /\ ~InputDone
    /\ consume_data
    /\ UNCHANGED <<pic, pass, file, shown, oscan, orow>>

(* decompress_data: an iMCU row of the output, once the input is beyond it.*)
InputAtRow == InputDone \/ scan > oscan \/ (scan = oscan /\ row >= orow)

InputBeyond == InputDone \/ scan > oscan \/ (scan = oscan /\ row > orow)

BlockRowsOfLast(c) == LeftOver(height_in_blocks(img, c), img.samp[c].v)

BlockRows(c) == IF orow < LastRow THEN img.samp[c].v ELSE LeftOver(height_in_blocks(img, c), img.samp[c].v)

decompress_data ==
    /\ pass = "again" /\ oscan > 0 /\ orow <= LastRow /\ InputBeyond
    /\ LET got == UNION {{<<c, orow * img.samp[c].v + y, x, arr[c][orow * img.samp[c].v + y][x]>> :
                          y \in 0..(BlockRows(c) - 1), x \in 0..(width_in_blocks(img, c) - 1)} : c \in Comps}
       IN  shown' = Show(got) /\ stray' = (stray \/ Outside(got))
    /\ orow' = orow + 1
    /\ UNCHANGED <<pic, pass, scan, row, yoffset, ctr, arr, file, pos, oscan>>

(* jpeg_finish_output waits for the input to leave the scan on show, and   *)
(* jpeg_start_output shows one that has come in by now.                    *)
NextOutputPass ==
    /\ pass = "again" /\ oscan > 0 /\ orow > LastRow
    /\ InputDone \/ scan > oscan
    /\ IF oscan = Len(Scans) THEN pass' = "end" /\ UNCHANGED <<oscan, orow, shown>>
       ELSE /\ oscan' \in (oscan + 1)..(IF InputDone THEN Len(Scans) ELSE scan)
            /\ orow' = 0 /\ shown' = NothingShown /\ UNCHANGED pass
    /\ UNCHANGED <<pic, scan, row, yoffset, ctr, arr, file, pos, stray>>
-----------------------------------------------------------------------------
(* The order of blocks in a scan according to the JPEG standard (A.2).     *)
BlocksAcross(c) == jdiv_round_up(downsampled_width(img, c), DCTSIZE)
BlocksDown(c) == jdiv_round_up(downsampled_height(img, c), DCTSIZE)
McusAcross(s) == IF Interleaved(s) THEN jdiv_round_up(img.w, max_h_samp_factor(img) * DCTSIZE) ELSE BlocksAcross(s[1])
McusDown(s) == IF Interleaved(s) THEN jdiv_round_up(img.h, max_v_samp_factor(img) * DCTSIZE) ELSE BlocksDown(s[1])

StandardMcu(s, n) ==
    LET my == n \div McusAcross(s)
        mx == n % McusAcross(s)
        of(c) == LET h == IF Interleaved(s) THEN img.samp[c].h ELSE 1
                     v == IF Interleaved(s) THEN img.samp[c].v ELSE 1
                 IN  [k \in 1..(h * v) |-> <<c, my * v + (k - 1) \div h, mx * h + ((k - 1) % h)>>]
    IN  FlattenSeq([k \in DOMAIN s |-> of(s[k])])
StandardScan(s) == [n \in 1..(McusAcross(s) * McusDown(s)) |-> StandardMcu(s, n - 1)]
StandardFile(scans) == FlattenSeq([i \in DOMAIN scans |-> StandardScan(scans[i])])

InPicture(b) == b[2] < BlocksDown(b[1]) /\ b[3] < BlocksAcross(b[1])

(* The input of a transcoder comes from any encoder, which may put anything *)
(* into the blocks that pad its MCUs.                                       *)
Coded(scans) ==
    LET positions == StandardFile(scans)
    IN  [n \in DOMAIN positions |-> [k \in DOMAIN positions[n] |->
            Real(positions[n][k][1], positions[n][k][2], positions[n][k][3], FALSE)]]

Init ==
    /\ pic \in Pictures
    /\ pass = IF FromFile THEN "read" ELSE "write"
    /\ scan = 1 /\ row = 0 /\ yoffset = 0 /\ ctr = 0 /\ pos = 0
    /\ arr = NoArrays /\ shown = NothingShown
    /\ file = IF FromFile THEN Coded(pic.scans) ELSE <<>>
    /\ oscan = 0 /\ orow = 0 /\ stray = FALSE

Ended == pass \in {"end", "refused"} /\ UNCHANGED vars

Next == \/ Read \/ ProcessBlocks \/ TransformBlocks
        \/ TranscodeMcu \/ CompressMcu \/ FirstPassMcu \/ OutputMcu
        \/ OnePassMcu \/ StartBuffered \/ ConsumeAgain \/ decompress_data \/ NextOutputPass
        \/ Ended

Spec == Init /\ [][Next]_vars
-----------------------------------------------------------------------------
(* No controller touches a block outside a component's array, transforms   *)
(* samples beyond the picture, or shows a padding block (the loops of      *)
(* consume_data, compress_output, compress_data and decompress_onepass).   *)
NoStray == ~stray

(* What jpegtran is to make of the picture src, in pixels: each step turns *)
(* the area of whole iMCUs, and with it every block inside (A.1 of the     *)
(* standard; transupp.c: "90 degree rotation is equivalent to transposing  *)
(* the image, horizontal mirroring" and so on).                            *)
WholeWidth(i) == (i.w \div (max_h_samp_factor(i) * DCTSIZE)) * max_h_samp_factor(i) * DCTSIZE
BlockSpan(i, c) == (DCTSIZE * max_h_samp_factor(i)) \div i.samp[c].h
FlipPixels(q) ==
    [q EXCEPT !.blocks = [c \in DOMAIN @ |-> [y \in DOMAIN @[c] |-> [x \in DOMAIN @[c][y] |->
        LET left == WholeWidth(q.img) - (x + 1) * BlockSpan(q.img, c)
        IN  IF left < 0 THEN @[c][y][x]
            ELSE Turned(@[c][y][left \div BlockSpan(q.img, c)], [Upright EXCEPT !.h = TRUE])]]]]
TransposePixels(q) ==
    [img |-> transpose_critical_parameters(q.img),
     blocks |-> [c \in DOMAIN q.blocks |-> [y \in DOMAIN q.blocks[c][0] |-> [x \in DOMAIN q.blocks[c] |->
                    Turned(q.blocks[c][x][y], [Upright EXCEPT !.t = TRUE])]]]]
FlipRows(q) == TransposePixels(FlipPixels(TransposePixels(q)))
Original ==
    LET i == IF pic.xf.grey THEN Greyed(pic.src) ELSE pic.src
    IN  [img |-> i, blocks |-> [c \in DOMAIN i.samp |-> [y \in 0..(height_in_blocks(i, c) - 1) |->
                                   [x \in 0..(width_in_blocks(i, c) - 1) |-> Real(c, y, x, FALSE)]]]]
TruePicture ==
    CASE pic.xf.transform = "NONE"       -> Original
      [] pic.xf.transform = "FLIP_H"     -> FlipPixels(Original)
      [] pic.xf.transform = "FLIP_V"     -> FlipRows(Original)
      [] pic.xf.transform = "TRANSPOSE"  -> TransposePixels(Original)
      [] pic.xf.transform = "ROT_90"     -> FlipPixels(TransposePixels(Original))
      [] pic.xf.transform = "ROT_180"    -> FlipPixels(FlipRows(Original))
      [] pic.xf.transform = "ROT_270"    -> TransposePixels(FlipPixels(Original))
      [] pic.xf.transform = "TRANSVERSE" -> TransposePixels(FlipPixels(FlipRows(Original)))
TrueBlock(c, y, x) ==
    IF pic.way = "jpegtran" THEN TruePicture.blocks[c][y][x] ELSE Real(c, y, x, pic.way = "transcode")

(* Whichever of the three controllers wrote it, the file has the MCUs the  *)
(* JPEG standard prescribes: the picture's blocks in their places, each    *)
(* processed by figleaf or turned by jpegtran if it was to be, and all     *)
(* alike if jpegtran was to trim the edges it cannot turn; and everywhere  *)
(* else a dummy that repeats the DC value of the block before it, of the   *)
(* same component (jccoefct.c, "encode to the smallest amount of data").   *)
RightBlock(b, p, before, true) ==
    IF InPicture(p) THEN /\ b = true[p[1]][p[2]][p[3]]
                         /\ pic.xf.trim => b.turn = true[1][0][0].turn
    ELSE ~b.ac /\ b.at = before.at /\ b.at[1] = p[1] /\ b.processed = before.processed

StreamIsStandard ==
    pass = "again" /\ pos = 0 /\ oscan = 0 =>
        LET positions == StandardFile(Scans)
            true == [c \in Comps |-> [y \in 0..(BlocksDown(c) - 1) |-> [x \in 0..(BlocksAcross(c) - 1) |->
                        TrueBlock(c, y, x)]]]
        IN  /\ Len(file) = Len(positions)
            /\ \A n \in DOMAIN file :
                  /\ Len(file[n]) = Len(positions[n])
                  /\ \A k \in DOMAIN file[n] :
                        RightBlock(file[n][k], positions[n][k], file[n][IF k = 1 THEN 1 ELSE k - 1], true)

(* A decoder of that file shows each block of the picture once, in its     *)
(* place (jdcoefct.c).                                                     *)
ShownOnce ==
    pass = "end" => \A c \in Comps : \A y \in DOMAIN shown[c] : \A x \in DOMAIN shown[c][y] :
                       shown[c][y][x] = <<TrueBlock(c, y, x)>>

(* An output pass that shows scan n while later scans come in has, in each  *)
(* row it shows, the blocks of all the scans up to n (decompress_data:      *)
(* "Force some input to be done if we are getting ahead of the input").     *)
ScansUpTo(n) == UNION {{Scans[i][k] : k \in DOMAIN Scans[i]} : i \in 1..n}
OutputSeesInput ==
    \A c \in ScansUpTo(oscan) : \A y \in DOMAIN shown[c] : \A x \in DOMAIN shown[c][y] :
        \A k \in DOMAIN shown[c][y][x] : shown[c][y][x][k].ac
=============================================================================
