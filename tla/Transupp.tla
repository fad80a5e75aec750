------------------------------ MODULE Transupp ------------------------------
(***************************************************************************)
(* transupp.c: the lossless transformations of jpegtran, on arrays of DCT  *)
(* blocks.  The parameters are a record [transform, trim, grey] and an     *)
(* image is one of JpegGeometry.  Of a block matters which one it is and   *)
(* its field turn: whether its rows and columns were exchanged (t), and    *)
(* then whether it was mirrored left to right (h) or upside down (v), the  *)
(* signs of its odd columns or rows changed.                               *)
(***************************************************************************)
EXTENDS JpegGeometry

Transforms == {"NONE", "FLIP_H", "FLIP_V", "TRANSPOSE", "TRANSVERSE", "ROT_90", "ROT_180", "ROT_270"}
Upright == [t |-> FALSE, h |-> FALSE, v |-> FALSE]
Transposing(xf) == xf.transform \in {"TRANSPOSE", "TRANSVERSE", "ROT_90", "ROT_270"}
MirrorsColumns(xf) == xf.transform \in {"FLIP_H", "TRANSVERSE", "ROT_90", "ROT_180"}
MirrorsRows(xf) == xf.transform \in {"FLIP_V", "TRANSVERSE", "ROT_270", "ROT_180"}
-----------------------------------------------------------------------------
(* jtransform_request_workspace: no workspace for a flip in place.         *)
InPlace(xf) == xf.transform \in {"NONE", "FLIP_H"}
WorkspaceWidth(i, c, xf) == IF Transposing(xf) THEN ArrayHeight(i, c) ELSE ArrayWidth(i, c)
WorkspaceHeight(i, c, xf) == IF Transposing(xf) THEN ArrayWidth(i, c) ELSE ArrayHeight(i, c)
Workspace(i, xf, junk) ==
    [c \in 1..(IF xf.grey /\ NumComponents(i) = 3 THEN 1 ELSE NumComponents(i)) |->
        [y \in 0..(WorkspaceHeight(i, c, xf) - 1) |-> [x \in 0..(WorkspaceWidth(i, c, xf) - 1) |-> junk]]]
-----------------------------------------------------------------------------
(* jtransform_adjust_parameters.  Three components are taken for YCbCr,    *)
(* one for grey, and nothing else can be made grey.                        *)
CannotConvert(i, xf) == xf.grey /\ NumComponents(i) \notin {1, 3}
Greyed(i) == [i EXCEPT !.samp = <<[h |-> 1, v |-> 1]>>]
transpose_critical_parameters(i) ==
    [w |-> i.h, h |-> i.w, samp |-> [c \in DOMAIN i.samp |-> [h |-> i.samp[c].v, v |-> i.samp[c].h]]]

(* Down to whole iMCUs, but not to nothing. *)
Trimmed(n, unit) == IF n \div unit > 0 THEN (n \div unit) * unit ELSE n
trim_right_edge(i) == [i EXCEPT !.w = Trimmed(@, max_h_samp_factor(i) * DCTSIZE)]
trim_bottom_edge(i) == [i EXCEPT !.h = Trimmed(@, max_v_samp_factor(i) * DCTSIZE)]

jtransform_adjust_parameters(i, xf) ==
    LET grey    == IF xf.grey THEN Greyed(i) ELSE i
        turned  == IF Transposing(xf) THEN transpose_critical_parameters(grey) ELSE grey
        right   == IF xf.trim /\ MirrorsColumns(xf) THEN trim_right_edge(turned) ELSE turned
    IN  IF xf.trim /\ MirrorsRows(xf) THEN trim_bottom_edge(right) ELSE right
-----------------------------------------------------------------------------
(* The transformations: which block of the source goes to row y, column x  *)
(* of component c of the destination image d, and how it is turned.        *)
(* Partial iMCUs at the edge to which blocks are mirrored stay in place.   *)
comp_width(d, c) == (d.w \div (max_h_samp_factor(d) * DCTSIZE)) * d.samp[c].h
comp_height(d, c) == (d.h \div (max_v_samp_factor(d) * DCTSIZE)) * d.samp[c].v
Mirror(n, k) == IF k < n THEN n - 1 - k ELSE k
Take(y, x, t, h, v) == [y |-> y, x |-> x, turn |-> [t |-> t, h |-> h, v |-> v]]

do_flip_h(y, x, cw) == Take(y, Mirror(cw, x), FALSE, x < cw, FALSE)
do_flip_v(y, x, ch) == Take(Mirror(ch, y), x, FALSE, FALSE, y < ch)
do_rot_180(y, x, cw, ch) == Take(Mirror(ch, y), Mirror(cw, x), FALSE, x < cw, y < ch)
do_transpose(y, x) == Take(x, y, TRUE, FALSE, FALSE)
do_rot_90(y, x, cw) == Take(Mirror(cw, x), y, TRUE, x < cw, FALSE)
do_rot_270(y, x, ch) == Take(x, Mirror(ch, y), TRUE, FALSE, y < ch)
do_transverse(y, x, cw, ch) == Take(Mirror(cw, x), Mirror(ch, y), TRUE, x < cw, y < ch)

Taken(d, c, y, x, xf) ==
    LET cw == comp_width(d, c)
        ch == comp_height(d, c)
    IN  CASE xf.transform = "NONE"       -> Take(y, x, FALSE, FALSE, FALSE)
          [] xf.transform = "FLIP_H"     -> do_flip_h(y, x, cw)
          [] xf.transform = "FLIP_V"     -> do_flip_v(y, x, ch)
          [] xf.transform = "TRANSPOSE"  -> do_transpose(y, x)
          [] xf.transform = "TRANSVERSE" -> do_transverse(y, x, cw, ch)
          [] xf.transform = "ROT_90"     -> do_rot_90(y, x, cw)
          [] xf.transform = "ROT_180"    -> do_rot_180(y, x, cw, ch)
          [] xf.transform = "ROT_270"    -> do_rot_270(y, x, ch)

(* The loops end with the last row of iMCUs; those that do not transpose   *)
(* stop at the last block of a row.                                        *)
Columns(d, c, xf) == 0..((IF Transposing(xf) THEN ArrayWidth(d, c) ELSE width_in_blocks(d, c)) - 1)
WrittenTo(d, xf) ==
    UNION {{<<c, y, x>> : y \in 0..(ArrayHeight(d, c) - 1), x \in Columns(d, c, xf)} : c \in DOMAIN d.samp}

Within(a, c, y, x) == c \in DOMAIN a /\ y \in DOMAIN a[c] /\ x \in DOMAIN a[c][y]
(* An access outside the array it is made to. *)
LeavesArrays(d, src, dst, xf) ==
    \E p \in WrittenTo(d, xf) :
        LET from == Taken(d, p[1], p[2], p[3], xf)
        IN  ~Within(dst, p[1], p[2], p[3]) \/ ~Within(src, p[1], from.y, from.x)

Turned(b, turn) ==
    LET was == IF turn.t THEN [t |-> ~b.turn.t, h |-> b.turn.v, v |-> b.turn.h] ELSE b.turn
    IN  [b EXCEPT !.turn = [t |-> was.t, h |-> was.h # turn.h, v |-> was.v # turn.v]]

jtransform_execute_transformation(d, src, dst, xf) ==
    LET written == WrittenTo(d, xf)
        block(c, y, x) == LET from == Taken(d, c, y, x, xf) IN Turned(src[c][from.y][from.x], from.turn)
    IN  [c \in DOMAIN d.samp |-> [y \in DOMAIN dst[c] |-> [x \in DOMAIN dst[c][y] |->
            IF <<c, y, x>> \in written THEN block(c, y, x) ELSE dst[c][y][x]]]]
=============================================================================
