-------------------------------- MODULE Tpe --------------------------------
(***************************************************************************)
(* tpe.c: how tpe_process_image walks an image block by block and          *)
(* frequency by frequency, and what tweak each call of the block cipher    *)
(* gets.  The image is encrypted, then decrypted by a second run with the  *)
(* same block size.  The range function and the cipher of a method are     *)
(* together one function of tweak and block here: TpeBlock opens it.       *)
(***************************************************************************)
EXTENDS Integers

CONSTANTS
  Comps,                  \* je->comp, the number of color components
  MaxSide,                \* bound: the longest side of a component, in blocks
  MaxStride,              \* bound: the largest blocksize / 8
  DCTSIZE2,               \* the number of frequencies, 64
  Coefs,                  \* the values of a coefficient
  Image(_, _, _),         \* the coefficients of the input image
  DC_crypto_fcn(_, _, _), \* (pass, tweak, block): the block after the call
  AC_crypto_fcn(_, _, _)

ASSUME TpeAssumption ==
  /\ Comps \in Nat \ {0}
  /\ MaxSide \in Nat \ {0}
  /\ MaxStride \in Nat \ {0}
  /\ DCTSIZE2 \in Nat \ {0}

VARIABLES
  pass,           \* "encrypt", "decrypt", "done"
  width, height,  \* je->width and je->height of every component
  stride,         \* ctx->blocksize / 8
  c, y, x,        \* the loop variables of tpe_process_image
  freq,           \* the loop variable of tpe_process_block
  blocks,         \* je->blocks[c][n][freq] is blocks[<<c, n, freq>>]
  used            \* history: the tweaks this pass has used

geometry == <<width, height, stride>>
vars == <<pass, width, height, stride, c, y, x, freq, blocks, used>>

Colors == 0 .. Comps - 1
Freqs == 0 .. DCTSIZE2 - 1
Lesser(a, b) == IF a < b THEN a ELSE b

(* Mutants, here and below: plausible slips in the code that follows. *)
XMaxUncut(k, px) == px + stride - 1

(* The last column and row of the block at (px, py), as tpe_process_block   *)
(* cuts it off at the right and lower border of component k.               *)
XMax(k, px) == Lesser(px + stride - 1, width[k] - 1)
YMax(k, py) == Lesser(py + stride - 1, height[k] - 1)

BlockNum(k, px, py) == py * width[k] + px

(* The coefficients that one call of the cipher gets, named by where they  *)
(* are in je->blocks; both copying loops visit them in the same order.     *)
Gathered(k, px, py, f) ==
  {<<k, BlockNum(k, ix, iy), f>> : ix \in px .. XMax(k, px), iy \in py .. YMax(k, py)}

TweakWithoutFrequency(k, px, py, f) == <<k, XMax(k, px) + 1, YMax(k, py) + 1, 0>>

(* tweakinput holds the values x and y have after the copying loops. *)
Tweak(k, px, py, f) == <<k, XMax(k, px) + 1, YMax(k, py) + 1, f>>

Crypt(ps, t, b) ==
  IF t[4] > 0 THEN AC_crypto_fcn(ps, t, b) ELSE DC_crypto_fcn(ps, t, b)

Cells == UNION {{k} \X (0 .. width[k] * height[k] - 1) \X Freqs : k \in Colors}

InputImage == [k \in Cells |-> Image(k[1], k[2], k[3])]

AtStart == c' = 0 /\ y' = 0 /\ x' = 0 /\ freq' = 0 /\ used' = {}

Init ==
  /\ pass = "encrypt"
  /\ width \in [Colors -> 1 .. MaxSide]
  /\ height \in [Colors -> 1 .. MaxSide]
  /\ stride \in 1 .. MaxStride
  /\ c = 0 /\ y = 0 /\ x = 0 /\ freq = 0
  /\ blocks = InputImage
  /\ used = {}

(* One iteration of tpe_process_block's loop: gather, crypt, put back. *)
ProcessFrequency ==
  /\ pass # "done" /\ freq < DCTSIZE2
  /\ LET spots == Gathered(c, x, y, freq)
         tweak == Tweak(c, x, y, freq)
         out   == Crypt(pass, tweak, [k \in spots |-> blocks[k]])
     IN  /\ blocks' = [k \in DOMAIN blocks |->
                         IF k \in spots THEN out[k] ELSE blocks[k]]
         /\ used' = used \cup {tweak}
  /\ freq' = freq + 1
  /\ UNCHANGED <<pass, geometry, c, y, x>>

BlockDone == pass # "done" /\ freq = DCTSIZE2
LastColumn == x + stride >= width[c]
LastRow == y + stride >= height[c]

NextColumn ==
  /\ BlockDone /\ ~LastColumn
  /\ x' = x + stride
  /\ freq' = 0
  /\ UNCHANGED <<pass, geometry, c, y, blocks, used>>

NextRowByOne ==
  /\ BlockDone /\ LastColumn /\ ~LastRow
  /\ y' = y + 1
  /\ x' = 0 /\ freq' = 0
  /\ UNCHANGED <<pass, geometry, c, blocks, used>>

NextRow ==
  /\ BlockDone /\ LastColumn /\ ~LastRow
  /\ y' = y + stride
  /\ x' = 0
  /\ freq' = 0
  /\ UNCHANGED <<pass, geometry, c, blocks, used>>

NextComponent ==
  /\ BlockDone /\ LastColumn /\ LastRow /\ c < Comps - 1
  /\ c' = c + 1
  /\ y' = 0 /\ x' = 0 /\ freq' = 0
  /\ UNCHANGED <<pass, geometry, blocks, used>>

(* The image is done; it is written, read back and decrypted. *)
EndPass ==
  /\ BlockDone /\ LastColumn /\ LastRow /\ c = Comps - 1
  /\ pass' = IF pass = "encrypt" THEN "decrypt" ELSE "done"
  /\ AtStart
  /\ UNCHANGED <<geometry, blocks>>

Next == ProcessFrequency \/ NextColumn \/ NextRow \/ NextComponent \/ EndPass

Spec == Init /\ [][Next]_vars /\ WF_vars(Next)
-----------------------------------------------------------------------------
(* je->blocks is only ever accessed inside its bounds, at the borders of   *)
(* every component and for every block size.                               *)
InBounds == freq < DCTSIZE2 => Gathered(c, x, y, freq) \subseteq Cells

(* No two calls of the cipher in one pass get the same tweak, which is     *)
(* built from the loop variables after the loops: no nonce serves twice.   *)
TweaksAreFresh ==
  [][ProcessFrequency => Tweak(c, x, y, freq) \notin used]_vars

(* The blocks of component k start at the multiples of stride. *)
StartsX(k) == {s \in 0 .. width[k] - 1 : s % stride = 0}
StartsY(k) == {s \in 0 .. height[k] - 1 : s % stride = 0}

Unit(k, px, py, f) == [tweak |-> Tweak(k, px, py, f),
                       cells |-> Gathered(k, px, py, f)]

AllUnits == UNION {{Unit(k, px, py, f) :
                     px \in StartsX(k), py \in StartsY(k), f \in Freqs} : k \in Colors}

(* The walk is an implementation of ImageCipher: its units are the blocks  *)
(* at each frequency, and those whose tweak was not used are still to do.  *)
Abstract == INSTANCE ImageCipher WITH
  image <- blocks,
  units <- AllUnits,
  todo <- IF pass = "done" THEN {} ELSE {u \in AllUnits : u.tweak \notin used},
  Crypt <- Crypt

ImplementsImageCipher == Abstract!Spec
=============================================================================
