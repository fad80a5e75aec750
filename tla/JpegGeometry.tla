---------------------------- MODULE JpegGeometry ----------------------------
(***************************************************************************)
(* How an image divides into blocks and MCUs: the setup of an image and of *)
(* a scan, which jdinput.c and jcmaster.c compute alike.  An image is a    *)
(* record [w, h, samp] with samp[c] = [h, v] the sampling factors of       *)
(* component c; a scan is the sequence of its components.                  *)
(***************************************************************************)
EXTENDS Integers, Sequences, FiniteSetsExt

CONSTANTS
    DCTSIZE,            \* samples across a block
    MAX_BLOCKS_IN_MCU,  \* C_MAX_BLOCKS_IN_MCU, D_MAX_BLOCKS_IN_MCU
    MAX_SAMP_FACTOR, MAX_COMPS_IN_SCAN

ASSUME GeometryAssumption ==
    DCTSIZE \in Nat \ {0} /\ MAX_SAMP_FACTOR \in Nat \ {0}
    /\ MAX_BLOCKS_IN_MCU \in Nat \ {0} /\ MAX_COMPS_IN_SCAN \in Nat \ {0}

(* jutils.c *)
jdiv_round_up(a, b) == (a + b - 1) \div b
jround_up(a, b) == jdiv_round_up(a, b) * b
-----------------------------------------------------------------------------
(* initial_setup *)
NumComponents(img) == Len(img.samp)
max_h_samp_factor(img) == Max({img.samp[c].h : c \in DOMAIN img.samp})
max_v_samp_factor(img) == Max({img.samp[c].v : c \in DOMAIN img.samp})
BadSampling(img) == \E c \in DOMAIN img.samp : \/ img.samp[c].h \notin 1..MAX_SAMP_FACTOR
                                              \/ img.samp[c].v \notin 1..MAX_SAMP_FACTOR

width_in_blocks(img, c) == jdiv_round_up(img.w * img.samp[c].h, max_h_samp_factor(img) * DCTSIZE)
height_in_blocks(img, c) == jdiv_round_up(img.h * img.samp[c].v, max_v_samp_factor(img) * DCTSIZE)
downsampled_width(img, c) == jdiv_round_up(img.w * img.samp[c].h, max_h_samp_factor(img))
downsampled_height(img, c) == jdiv_round_up(img.h * img.samp[c].v, max_v_samp_factor(img))
total_iMCU_rows(img) == jdiv_round_up(img.h, max_v_samp_factor(img) * DCTSIZE)

(* The virtual array of a component is padded to whole MCUs. *)
ArrayWidth(img, c) == jround_up(width_in_blocks(img, c), img.samp[c].h)
ArrayHeight(img, c) == jround_up(height_in_blocks(img, c), img.samp[c].v)
-----------------------------------------------------------------------------
(* per_scan_setup *)
Interleaved(scan) == Len(scan) > 1

MCUs_per_row(img, scan) ==
    IF Interleaved(scan) THEN jdiv_round_up(img.w, max_h_samp_factor(img) * DCTSIZE)
    ELSE width_in_blocks(img, scan[1])
MCU_rows_in_scan(img, scan) ==
    IF Interleaved(scan) THEN total_iMCU_rows(img) ELSE height_in_blocks(img, scan[1])

MCU_width(img, scan, c) == IF Interleaved(scan) THEN img.samp[c].h ELSE 1
MCU_height(img, scan, c) == IF Interleaved(scan) THEN img.samp[c].v ELSE 1

LeftOver(n, unit) == IF n % unit = 0 THEN unit ELSE n % unit
last_col_width(img, scan, c) == LeftOver(width_in_blocks(img, c), MCU_width(img, scan, c))
last_row_height(img, scan, c) == LeftOver(height_in_blocks(img, c), img.samp[c].v)

blocks_in_MCU(img, scan) ==
    MapThenSumSet(LAMBDA i : MCU_width(img, scan, scan[i]) * MCU_height(img, scan, scan[i]), DOMAIN scan)

(* start_iMCU_row: MCU rows that make up an iMCU row of the scan. *)
MCU_rows_per_iMCU_row(img, scan, row) ==
    IF Interleaved(scan) THEN 1
    ELSE IF row < total_iMCU_rows(img) - 1 THEN img.samp[scan[1]].v
    ELSE last_row_height(img, scan, scan[1])
=============================================================================
