----------------------------- MODULE WalkProofs -----------------------------
(***************************************************************************)
(* Proofs about the two walks over an image, for every size of image:      *)
(* block by block through the cipher (tpe.c), and row by row from the      *)
(* inverse DCT to the application (the output side of libjpeg).  Each      *)
(* comes to every part of the image once, in order, and at the right       *)
(* place, however the work is cut up.  No proof about one uses the other.  *)
(***************************************************************************)
EXTENDS Tpe, OutputRows, TLAPS

(* Induction and recursion over numbers are among the facts proved there.  *)
Facts == INSTANCE CoefTheorems
-----------------------------------------------------------------------------
(***************************************************************************)
(* About the walk of tpe_process_image, for every size of image and block: *)
(* it stays inside je->blocks, never uses a tweak twice in a pass, and     *)
(* puts every unit of the image through the cipher exactly once.  None of  *)
(* this needs to know what the cipher does.                                *)
(***************************************************************************)
(* The type of the walk.                                                 *)
WalkOK ==
  /\ pass \in {"encrypt", "decrypt", "done"}
  /\ width \in [Colors -> 1 .. MaxSide]
  /\ height \in [Colors -> 1 .. MaxSide]
  /\ stride \in 1 .. MaxStride
  /\ c \in Colors
  /\ y \in 0 .. height[c] - 1
  /\ x \in 0 .. width[c] - 1
  /\ freq \in 0 .. DCTSIZE2
  /\ used \subseteq Colors \X (1 .. MaxSide) \X (1 .. MaxSide) \X Freqs

(* A tweak of an earlier call: the component was finished, or the row of   *)
(* blocks, or the block, or the frequency.  A block's tweak holds where it *)
(* ends, and the next block starts at or after that.                       *)
Earlier(t) ==
  \/ t[1] < c
  \/ t[1] = c /\ t[3] <= y
  \/ t[1] = c /\ t[3] = YMax(c, y) + 1 /\ t[2] <= x
  \/ t[1] = c /\ t[3] = YMax(c, y) + 1 /\ t[2] = XMax(c, x) + 1 /\ t[4] < freq

IInv == WalkOK /\ \A t \in used : Earlier(t)

(* The types of the loop variables and of the present component's sides.  *)
LEMMA LoopTypes ==
  ASSUME WalkOK
  PROVE  /\ c \in Colors /\ c \in Nat /\ x \in Nat /\ y \in Nat /\ freq \in Nat
         /\ stride \in Nat \ {0}
         /\ MaxSide \in Nat
         /\ width[c] \in 1 .. MaxSide
         /\ height[c] \in 1 .. MaxSide
         /\ x < width[c] /\ y < height[c]
BY TpeAssumption DEF WalkOK, Colors

LEMMA TweakTypes ==
  ASSUME WalkOK, NEW t \in used
  PROVE  t[1] \in Int /\ t[2] \in Int /\ t[3] \in Int /\ t[4] \in Int
<1>1. t \in Colors \X (1 .. MaxSide) \X (1 .. MaxSide) \X Freqs
  BY DEF WalkOK
<1>2. t[1] \in Colors /\ t[2] \in 1 .. MaxSide /\ t[3] \in 1 .. MaxSide /\ t[4] \in Freqs
  BY <1>1
<1>3. QED
  BY <1>2, TpeAssumption DEF Colors, Freqs

(* The block at (x, y) is not empty and ends inside its component. *)
LEMMA Ends ==
  ASSUME WalkOK
  PROVE  /\ XMax(c, x) \in x .. width[c] - 1
         /\ YMax(c, y) \in y .. height[c] - 1
         /\ XMax(c, x) + 1 <= x + stride
         /\ YMax(c, y) + 1 <= y + stride
BY LoopTypes DEF XMax, YMax, Lesser

LEMMA InitInv == Init => IInv
BY TpeAssumption DEF Init, IInv, WalkOK, Colors, Freqs

LEMMA ProcessFrequencyInv == IInv /\ ProcessFrequency => IInv'
<1> SUFFICES ASSUME IInv, ProcessFrequency PROVE IInv'
  OBVIOUS
<1> USE TpeAssumption
<1> DEFINE tweak == Tweak(c, x, y, freq)
<1>1. used' = used \cup {tweak} /\ freq' = freq + 1 /\ freq \in Freqs
      /\ UNCHANGED <<pass, width, height, stride, c, y, x>>
  BY DEF IInv, WalkOK, ProcessFrequency, Freqs, geometry
<1>2. tweak \in Colors \X (1 .. MaxSide) \X (1 .. MaxSide) \X Freqs
  <2>1. /\ XMax(c, x) + 1 \in 1 .. MaxSide
        /\ YMax(c, y) + 1 \in 1 .. MaxSide
        /\ c \in Colors
    BY Ends DEF IInv, WalkOK
  <2>2. QED
    BY <2>1, <1>1 DEF Tweak
<1>3. WalkOK'
  <2>1. used' \subseteq Colors \X (1 .. MaxSide) \X (1 .. MaxSide) \X Freqs
    BY <1>1, <1>2 DEF IInv, WalkOK
  <2>2. freq' \in 0 .. DCTSIZE2
    BY <1>1 DEF Freqs
  <2>3. QED
    BY <1>1, <2>1, <2>2 DEF IInv, WalkOK, Colors, Freqs
<1>4. ASSUME NEW t \in used' PROVE Earlier(t)'
  <2>1. /\ XMax(c, x)' = XMax(c, x) /\ YMax(c, y)' = YMax(c, y)
        /\ c' = c /\ x' = x /\ y' = y
    BY <1>1 DEF XMax, YMax
  <2>2. CASE t = tweak
    BY <2>1, <2>2, <1>1 DEF Earlier, Tweak, Freqs
  <2>3. CASE t \in used
    <3>1. Earlier(t) /\ t[4] \in Freqs
      BY <2>3 DEF IInv, WalkOK
    <3>2. QED
      BY <3>1, <2>1, <1>1 DEF Earlier, Freqs
  <2>4. QED
    BY <2>2, <2>3, <1>1
<1>5. QED
  BY <1>3, <1>4 DEF IInv

LEMMA NextColumnInv == IInv /\ NextColumn => IInv'
<1> SUFFICES ASSUME IInv, NextColumn PROVE IInv'
  OBVIOUS
<1>1. WalkOK'
  <2>1. x + stride \in 0 .. width[c] - 1
    BY LoopTypes DEF IInv, NextColumn, LastColumn
  <2>2. QED
    BY <2>1, TpeAssumption, SMTT(40) DEF IInv, WalkOK, NextColumn, geometry, Colors, Freqs
<1>2. ASSUME NEW t \in used' PROVE Earlier(t)'
  <2>1. t \in used /\ Earlier(t) /\ c' = c /\ y' = y /\ x' = x + stride
        /\ YMax(c, y)' = YMax(c, y)
    BY DEF IInv, NextColumn, geometry, YMax
  <2>2. /\ t[2] \in Int /\ t[3] \in Int /\ x \in Int /\ stride \in Int /\ stride > 0
    BY <2>1, TweakTypes, LoopTypes DEF IInv
  <2>3. XMax(c, x) + 1 <= x + stride
    BY Ends DEF IInv
  <2>4. QED
    BY <2>1, <2>2, <2>3 DEF Earlier
<1>3. QED
  BY <1>1, <1>2 DEF IInv

LEMMA NextRowInv == IInv /\ NextRow => IInv'
<1> SUFFICES ASSUME IInv, NextRow PROVE IInv'
  OBVIOUS
<1>1. WalkOK'
  <2>1. y + stride \in 0 .. height[c] - 1 /\ 0 \in 0 .. width[c] - 1
    BY LoopTypes DEF IInv, NextRow, LastRow
  <2>2. QED
    BY <2>1, TpeAssumption, SMTT(40) DEF IInv, WalkOK, NextRow, geometry, Colors, Freqs
<1>2. ASSUME NEW t \in used' PROVE Earlier(t)'
  <2>1. t \in used /\ Earlier(t) /\ c' = c /\ y' = y + stride
    BY DEF IInv, NextRow
  <2>2. t[3] \in Int /\ y \in Int /\ stride \in Int /\ stride > 0
    BY <2>1, TweakTypes, LoopTypes DEF IInv
  <2>3. YMax(c, y) + 1 <= y + stride
    BY Ends DEF IInv
  <2>4. QED
    BY <2>1, <2>2, <2>3 DEF Earlier
<1>3. QED
  BY <1>1, <1>2 DEF IInv

LEMMA NextComponentInv == IInv /\ NextComponent => IInv'
<1> SUFFICES ASSUME IInv, NextComponent PROVE IInv'
  OBVIOUS
<1>1. WalkOK'
  <2>1. c + 1 \in Colors
    BY LoopTypes, TpeAssumption DEF IInv, NextComponent, Colors
  <2>2. width[c + 1] \in 1 .. MaxSide /\ height[c + 1] \in 1 .. MaxSide
    BY <2>1 DEF IInv, WalkOK
  <2>3. 0 \in 0 .. width[c + 1] - 1 /\ 0 \in 0 .. height[c + 1] - 1
    BY <2>2, TpeAssumption
  <2>4. QED
    BY <2>1, <2>3, TpeAssumption DEF IInv, WalkOK, NextComponent, geometry
<1>2. ASSUME NEW t \in used' PROVE Earlier(t)'
  <2>1. t \in used /\ Earlier(t) /\ c' = c + 1
    BY DEF IInv, NextComponent
  <2>2. t[1] \in Int /\ c \in Int
    BY <2>1, TweakTypes, LoopTypes DEF IInv
  <2>3. QED
    BY <2>1, <2>2 DEF Earlier
<1>3. QED
  BY <1>1, <1>2 DEF IInv

LEMMA EndPassInv == IInv /\ EndPass => IInv'
BY TpeAssumption, SMTT(40) DEF IInv, WalkOK, EndPass, AtStart, geometry, Colors

(* IInv is inductive. *)
LEMMA Invariance == Spec => []IInv
<1>1. IInv /\ UNCHANGED vars => IInv'
  BY DEF IInv, WalkOK, Earlier, XMax, YMax, Lesser, vars
<1>2. IInv /\ [Next]_vars => IInv'
  BY <1>1, ProcessFrequencyInv, NextColumnInv, NextRowInv, NextComponentInv,
     EndPassInv DEF Next
<1>3. QED
  BY InitInv, <1>2, PTL DEF Spec

(* Row-major numbering stays below width times height. *)
LEMMA NumberInBounds ==
  ASSUME NEW w \in Nat \ {0}, NEW h \in Nat \ {0},
         NEW p \in 0 .. w - 1, NEW q \in 0 .. h - 1
  PROVE  q * w + p \in 0 .. w * h - 1
<1>1. q * w >= 0 /\ q * w \in Int
  OBVIOUS
<1>2. (h - 1 - q) * w >= 0
  OBVIOUS
<1>3. (h - 1 - q) * w = h * w - w - q * w
  OBVIOUS
<1>4. w * h \in Int /\ h * w = w * h
  OBVIOUS
<1>5. QED
  BY <1>1, <1>2, <1>3, <1>4

(* je->blocks is never accessed out of bounds, for any size of image and   *)
(* block, the borders included.                                            *)
THEOREM AccessInBounds == Spec => []InBounds
<1>1. IInv => InBounds
  <2> SUFFICES ASSUME IInv, freq < DCTSIZE2,
                      NEW ix \in x .. XMax(c, x), NEW iy \in y .. YMax(c, y)
               PROVE  <<c, BlockNum(c, ix, iy), freq>> \in Cells
    BY DEF InBounds, Gathered
  <2>1. c \in Colors /\ freq \in Freqs
    BY LoopTypes, TpeAssumption DEF IInv, Freqs
  <2>2. width[c] \in Nat \ {0} /\ height[c] \in Nat \ {0}
    BY LoopTypes DEF IInv
  <2>3. ix \in 0 .. width[c] - 1 /\ iy \in 0 .. height[c] - 1
    BY <2>2, LoopTypes, Ends DEF IInv
  <2>4. BlockNum(c, ix, iy) \in 0 .. width[c] * height[c] - 1
    BY <2>2, <2>3, NumberInBounds DEF BlockNum
  <2>5. QED
    BY <2>1, <2>4 DEF Cells
<1>2. QED
  BY Invariance, <1>1, PTL

(* No nonce serves two calls of the cipher in one pass: the tweak of the   *)
(* present block and frequency lies beyond all tweaks used so far.         *)
THEOREM FreshTweaks == Spec => TweaksAreFresh
<1>1. IInv /\ ProcessFrequency => Tweak(c, x, y, freq) \notin used
  <2> SUFFICES ASSUME IInv, Tweak(c, x, y, freq) \in used PROVE FALSE
    OBVIOUS
  <2> DEFINE t == Tweak(c, x, y, freq)
  <2>1. Earlier(t)
    BY DEF IInv
  <2>2. t[1] = c /\ t[2] = XMax(c, x) + 1 /\ t[3] = YMax(c, y) + 1 /\ t[4] = freq
    BY DEF Tweak
  <2>3. t[2] > x /\ t[3] > y /\ c \in Int /\ freq \in Int /\ x \in Int /\ y \in Int
        /\ t[2] \in Int /\ t[3] \in Int
    BY <2>2, LoopTypes, Ends DEF IInv
  <2>4. QED
    BY <2>1, <2>2, <2>3 DEF Earlier
<1>2. QED
  BY Invariance, <1>1, PTL DEF TweaksAreFresh
-----------------------------------------------------------------------------
(* Row-major numbers tell the places of a component apart.                 *)
LEMMA RowMajor ==
  ASSUME NEW w \in Nat \ {0}, NEW p \in 0 .. w - 1, NEW q \in Nat,
         NEW r \in 0 .. w - 1, NEW t \in Nat, q * w + p = t * w + r
  PROVE  p = r /\ q = t
<1>1. ASSUME NEW i \in Nat, NEW j \in Nat, NEW a \in 0 .. w - 1, NEW b \in 0 .. w - 1,
             i * w + a = j * w + b
      PROVE  ~ i < j
  <2>1. SUFFICES ASSUME i < j PROVE FALSE
    OBVIOUS
  <2>2. (j - i - 1) * w >= 0 /\ (j - i - 1) * w = j * w - i * w - w
    BY <2>1
  <2>3. i * w \in Int /\ j * w \in Int
    OBVIOUS
  <2>4. QED
    BY <1>1, <2>2, <2>3
<1>2. q = t
  BY <1>1
<1>3. QED
  BY <1>2
-----------------------------------------------------------------------------
(* The place of a unit: a block and a frequency.                           *)
Place(k, px, py, f) == k \in Colors /\ px \in StartsX(k) /\ py \in StartsY(k) /\ f \in Freqs

(* The units that the walk has passed.                                     *)
Passed(k, px, py, f) ==
  \/ k < c
  \/ k = c /\ py < y
  \/ k = c /\ py = y /\ px < x
  \/ k = c /\ py = y /\ px = x /\ f < freq

(* The walk stops at multiples of stride, and the tweaks used so far are   *)
(* those of the units it has passed.                                       *)
Aligned == x % stride = 0 /\ y % stride = 0

UsedArePassed ==
  \A k, px, py, f : Place(k, px, py, f) =>
    (Tweak(k, px, py, f) \in used <=> Passed(k, px, py, f))

(* What is known of the numbers in a place.                                *)
LEMMA PlaceTypes ==
  ASSUME WalkOK, NEW k, NEW px, NEW py, NEW f, Place(k, px, py, f)
  PROVE  /\ k \in Nat /\ k \in Colors /\ f \in Nat /\ f < DCTSIZE2
         /\ stride \in Nat \ {0}
         /\ width[k] \in Nat \ {0} /\ height[k] \in Nat \ {0}
         /\ px \in Nat /\ px < width[k] /\ px % stride = 0
         /\ py \in Nat /\ py < height[k] /\ py % stride = 0
         /\ XMax(k, px) \in px .. width[k] - 1 /\ XMax(k, px) < px + stride
         /\ YMax(k, py) \in py .. height[k] - 1 /\ YMax(k, py) < py + stride
<1>1. k \in Colors /\ px \in StartsX(k) /\ py \in StartsY(k) /\ f \in Freqs
  BY DEF Place
<1>2. width[k] \in 1 .. MaxSide /\ height[k] \in 1 .. MaxSide /\ stride \in 1 .. MaxStride
  BY <1>1 DEF WalkOK
<1>3. k \in Nat /\ f \in Nat /\ f < DCTSIZE2 /\ stride \in Nat \ {0}
      /\ width[k] \in Nat \ {0} /\ height[k] \in Nat \ {0}
  BY <1>1, <1>2, TpeAssumption DEF Colors, Freqs
<1>4. /\ px \in Nat /\ px < width[k] /\ px % stride = 0
      /\ py \in Nat /\ py < height[k] /\ py % stride = 0
  BY <1>1, <1>3 DEF StartsX, StartsY
<1>5. /\ XMax(k, px) \in px .. width[k] - 1 /\ XMax(k, px) < px + stride
      /\ YMax(k, py) \in py .. height[k] - 1 /\ YMax(k, py) < py + stride
  BY <1>3, <1>4 DEF XMax, YMax, Lesser
<1>6. QED
  BY <1>1, <1>3, <1>4, <1>5

(* Where a block ends tells where it starts.                               *)
LEMMA EndsTell ==
  ASSUME WalkOK, NEW k \in Colors,
         NEW px \in StartsX(k), NEW qx \in StartsX(k), NEW py \in StartsY(k), NEW qy \in StartsY(k)
  PROVE  /\ px < qx => XMax(k, px) < qx /\ XMax(k, px) < XMax(k, qx)
         /\ py < qy => YMax(k, py) < qy /\ YMax(k, py) < YMax(k, qy)
<1>1. 0 \in Freqs
  BY TpeAssumption DEF Freqs
<1>2. Place(k, px, py, 0) /\ Place(k, qx, qy, 0)
  BY <1>1 DEF Place
<1>3. /\ stride \in Nat \ {0}
      /\ px \in Nat /\ px % stride = 0 /\ XMax(k, px) \in Int /\ XMax(k, px) < px + stride
      /\ py \in Nat /\ py % stride = 0 /\ YMax(k, py) \in Int /\ YMax(k, py) < py + stride
  BY <1>2, PlaceTypes
<1>4. /\ qx \in Nat /\ qx % stride = 0 /\ XMax(k, qx) \in Int /\ XMax(k, qx) >= qx
      /\ qy \in Nat /\ qy % stride = 0 /\ YMax(k, qy) \in Int /\ YMax(k, qy) >= qy
  BY <1>2, PlaceTypes
<1>5. px < qx => px + stride <= qx
  BY <1>3, <1>4, Facts!MultiplesApart
<1>6. py < qy => py + stride <= qy
  BY <1>3, <1>4, Facts!MultiplesApart
<1>7. QED
  BY <1>3, <1>4, <1>5, <1>6

(* No two units have the same tweak.                                       *)
LEMMA TweaksTell ==
  ASSUME WalkOK,
         NEW k, NEW px, NEW py, NEW f, Place(k, px, py, f),
         NEW l, NEW qx, NEW qy, NEW g, Place(l, qx, qy, g),
         Tweak(k, px, py, f) = Tweak(l, qx, qy, g)
  PROVE  k = l /\ px = qx /\ py = qy /\ f = g
<1>1. k = l /\ f = g /\ XMax(k, px) + 1 = XMax(l, qx) + 1 /\ YMax(k, py) + 1 = YMax(l, qy) + 1
  BY DEF Tweak
<1>2. k \in Colors /\ px \in StartsX(k) /\ py \in StartsY(k)
      /\ qx \in StartsX(k) /\ qy \in StartsY(k)
  BY <1>1 DEF Place
<1>3. XMax(k, px) \in Int /\ px \in Int /\ YMax(k, py) \in Int /\ py \in Int
  BY PlaceTypes
<1>4. XMax(l, qx) \in Int /\ qx \in Int /\ YMax(l, qy) \in Int /\ qy \in Int
  BY PlaceTypes
<1>5. ~ px < qx /\ ~ qx < px
  BY <1>1, <1>2, <1>3, <1>4, EndsTell
<1>6. ~ py < qy /\ ~ qy < py
  BY <1>1, <1>2, <1>3, <1>4, EndsTell
<1>7. QED
  BY <1>1, <1>3, <1>4, <1>5, <1>6

(* The walk is at a place, as long as it has frequencies to do.            *)
LEMMA HerePlace ==
  ASSUME WalkOK, Aligned, freq < DCTSIZE2
  PROVE  Place(c, x, y, freq)
<1>1. x \in 0 .. width[c] - 1 /\ y \in 0 .. height[c] - 1 /\ c \in Colors
      /\ freq \in 0 .. DCTSIZE2
  BY DEF WalkOK
<1>2. freq \in Freqs
  BY <1>1, TpeAssumption DEF Freqs
<1>3. QED
  BY <1>1, <1>2 DEF Aligned, Place, StartsX, StartsY

RInv == IInv /\ Aligned /\ UsedArePassed

(* The units stay the same as long as the image does not change its shape. *)
LEMMA SameUnits ==
  ASSUME UNCHANGED geometry
  PROVE  /\ \A k, px, py, f : Place(k, px, py, f)' <=> Place(k, px, py, f)
         /\ \A k, px, py, f : Tweak(k, px, py, f)' = Tweak(k, px, py, f)
         /\ AllUnits' = AllUnits
<1>1. width' = width /\ height' = height /\ stride' = stride
  BY DEF geometry
<1>2. \A k, px, py, f : Place(k, px, py, f)' <=> Place(k, px, py, f)
  BY <1>1 DEF Place, StartsX, StartsY
<1>3. \A k, p : XMax(k, p)' = XMax(k, p) /\ YMax(k, p)' = YMax(k, p)
  BY <1>1 DEF XMax, YMax
<1>4. \A k, px, py, f : Tweak(k, px, py, f)' = Tweak(k, px, py, f)
  BY <1>3 DEF Tweak
<1>5. AllUnits' = AllUnits
  BY <1>1 DEF AllUnits, Unit, Tweak, Gathered, BlockNum, XMax, YMax, StartsX, StartsY
<1>6. QED
  BY <1>2, <1>4, <1>5

(* At the start of a pass nothing has been passed.                         *)
LEMMA StartRInv ==
  ASSUME WalkOK, c = 0, y = 0, x = 0, freq = 0, used = {}
  PROVE  Aligned /\ UsedArePassed
<1>1. Aligned
  BY LoopTypes, Facts!Multiples DEF Aligned
<1>2. ASSUME NEW k, NEW px, NEW py, NEW f, Place(k, px, py, f)
      PROVE  ~ Passed(k, px, py, f)
  BY <1>2, PlaceTypes DEF Passed
<1>3. QED
  BY <1>1, <1>2 DEF UsedArePassed

(* The frequency that was just processed is the one that is passed now.    *)
LEMMA ProcessFrequencyRInv ==
  ASSUME RInv, ProcessFrequency
  PROVE  Aligned' /\ UsedArePassed'
<1>1. /\ WalkOK /\ Aligned /\ UsedArePassed /\ freq < DCTSIZE2
      /\ UNCHANGED geometry /\ c' = c /\ y' = y /\ x' = x /\ stride' = stride
      /\ freq' = freq + 1 /\ used' = used \cup {Tweak(c, x, y, freq)}
  BY DEF RInv, IInv, ProcessFrequency, geometry
<1>2. Place(c, x, y, freq)
  BY <1>1, HerePlace
<1>3. Aligned'
  BY <1>1 DEF Aligned
<1>4. ASSUME NEW k, NEW px, NEW py, NEW f, Place(k, px, py, f)
      PROVE  Tweak(k, px, py, f) \in used' <=> Passed(k, px, py, f)'
  <2>1. Tweak(k, px, py, f) \in used <=> Passed(k, px, py, f)
    BY <1>1, <1>4 DEF UsedArePassed
  <2>2. Tweak(k, px, py, f) = Tweak(c, x, y, freq) <=> k = c /\ px = x /\ py = y /\ f = freq
    BY <1>1, <1>2, <1>4, TweaksTell
  <2>3. f \in Nat /\ freq \in Nat
    BY <1>1, <1>4, PlaceTypes, LoopTypes
  <2>4. QED
    BY <1>1, <2>1, <2>2, <2>3 DEF Passed
<1>5. UsedArePassed'
  BY <1>1, <1>4, SameUnits DEF UsedArePassed
<1>6. QED
  BY <1>3, <1>5

(* A step to the next block passes no unit if the walk has come to the end *)
(* of what lies before that block.                                         *)
LEMMA MoveRInv ==
  ASSUME RInv, UNCHANGED geometry, used' = used, Aligned',
         \A k, px, py, f : Place(k, px, py, f) => (Passed(k, px, py, f)' <=> Passed(k, px, py, f))
  PROVE  UsedArePassed'
BY SameUnits DEF RInv, UsedArePassed

(* Between two neighbouring blocks of a row there is no other.             *)
LEMMA NextColumnRInv ==
  ASSUME RInv, NextColumn
  PROVE  Aligned' /\ UsedArePassed'
<1>1. /\ WalkOK /\ Aligned /\ UsedArePassed /\ freq = DCTSIZE2
      /\ UNCHANGED geometry /\ c' = c /\ y' = y /\ x' = x + stride /\ stride' = stride
      /\ freq' = 0 /\ used' = used
  BY DEF RInv, IInv, NextColumn, BlockDone, geometry
<1>2. x \in Nat /\ y \in Nat /\ stride \in Nat \ {0} /\ x % stride = 0 /\ y % stride = 0
  BY <1>1, LoopTypes DEF Aligned
<1>3. Aligned'
  BY <1>1, <1>2, Facts!Multiples DEF Aligned
<1>4. ASSUME NEW k, NEW px, NEW py, NEW f, Place(k, px, py, f)
      PROVE  Passed(k, px, py, f)' <=> Passed(k, px, py, f)
  <2>1. px \in Nat /\ px % stride = 0 /\ f \in Nat /\ f < DCTSIZE2
    BY <1>1, <1>4, PlaceTypes
  <2>2. x < px => x + stride <= px
    BY <1>2, <2>1, Facts!MultiplesApart
  <2>3. QED
    BY <1>1, <1>2, <2>1, <2>2, TpeAssumption DEF Passed
<1>5. QED
  BY <1>1, <1>3, <1>4, MoveRInv

(* At the end of a row of blocks all of it is passed.                      *)
LEMMA NextRowRInv ==
  ASSUME RInv, NextRow
  PROVE  Aligned' /\ UsedArePassed'
<1>1. /\ WalkOK /\ Aligned /\ UsedArePassed /\ freq = DCTSIZE2 /\ x + stride >= width[c]
      /\ UNCHANGED geometry /\ c' = c /\ y' = y + stride /\ x' = 0 /\ stride' = stride
      /\ freq' = 0 /\ used' = used
  BY DEF RInv, IInv, NextRow, BlockDone, LastColumn, geometry
<1>2. x \in Nat /\ y \in Nat /\ stride \in Nat \ {0} /\ x % stride = 0 /\ y % stride = 0
      /\ width[c] \in Int
  BY <1>1, LoopTypes DEF Aligned
<1>3. Aligned'
  BY <1>1, <1>2, Facts!Multiples DEF Aligned
<1>4. ASSUME NEW k, NEW px, NEW py, NEW f, Place(k, px, py, f)
      PROVE  Passed(k, px, py, f)' <=> Passed(k, px, py, f)
  <2>1. /\ px \in Nat /\ px % stride = 0 /\ f \in Nat /\ f < DCTSIZE2
        /\ py \in Nat /\ py % stride = 0
        /\ px < width[k]
    BY <1>1, <1>4, PlaceTypes
  <2>2. /\ x < px => x + stride <= px
        /\ y < py => y + stride <= py
    BY <1>2, <2>1, Facts!MultiplesApart
  <2>3. QED
    BY <1>1, <1>2, <2>1, <2>2, TpeAssumption DEF Passed
<1>5. QED
  BY <1>1, <1>3, <1>4, MoveRInv

(* At the end of a component all of it is passed.                          *)
LEMMA NextComponentRInv ==
  ASSUME RInv, NextComponent
  PROVE  Aligned' /\ UsedArePassed'
<1>1. /\ WalkOK /\ Aligned /\ UsedArePassed /\ freq = DCTSIZE2
      /\ x + stride >= width[c] /\ y + stride >= height[c]
      /\ UNCHANGED geometry /\ c' = c + 1 /\ y' = 0 /\ x' = 0 /\ stride' = stride
      /\ freq' = 0 /\ used' = used
  BY DEF RInv, IInv, NextComponent, BlockDone, LastColumn, LastRow, geometry
<1>2. x \in Nat /\ y \in Nat /\ stride \in Nat \ {0} /\ x % stride = 0 /\ y % stride = 0
      /\ width[c] \in Int /\ height[c] \in Int /\ c \in Nat
  BY <1>1, LoopTypes DEF Aligned
<1>3. Aligned'
  BY <1>1, <1>2, Facts!Multiples DEF Aligned
<1>4. ASSUME NEW k, NEW px, NEW py, NEW f, Place(k, px, py, f)
      PROVE  Passed(k, px, py, f)' <=> Passed(k, px, py, f)
  <2>1. /\ px \in Nat /\ px % stride = 0 /\ f \in Nat /\ f < DCTSIZE2
        /\ py \in Nat /\ py % stride = 0
        /\ px < width[k] /\ py < height[k] /\ k \in Nat
    BY <1>1, <1>4, PlaceTypes
  <2>2. /\ x < px => x + stride <= px
        /\ y < py => y + stride <= py
    BY <1>2, <2>1, Facts!MultiplesApart
  <2>3. QED
    BY <1>1, <1>2, <2>1, <2>2, TpeAssumption DEF Passed
<1>5. QED
  BY <1>1, <1>3, <1>4, MoveRInv

(* RInv is inductive.                                                      *)
LEMMA RInvariance == Spec => []RInv
<1>1. Init => RInv
  BY InitInv, StartRInv DEF RInv, IInv, Init
<1>2. RInv /\ [Next]_vars => RInv'
  <2>1. SUFFICES ASSUME RInv, [Next]_vars PROVE IInv' /\ Aligned' /\ UsedArePassed'
    BY DEF RInv
  <2>2. IInv'
    <3>1. IInv /\ UNCHANGED vars => IInv'
      BY DEF IInv, WalkOK, Earlier, XMax, YMax, Lesser, vars
    <3>2. QED
      BY <2>1, <3>1, ProcessFrequencyInv, NextColumnInv, NextRowInv, NextComponentInv,
         EndPassInv DEF Next, RInv
  <2>3. CASE EndPass
    <3>1. /\ WalkOK /\ UNCHANGED geometry /\ stride' = stride /\ stride \in Nat \ {0}
          /\ c' = 0 /\ y' = 0 /\ x' = 0 /\ freq' = 0 /\ used' = {}
      BY <2>1, <2>3, LoopTypes DEF EndPass, AtStart, RInv, IInv, geometry
    <3>2. Aligned'
      BY <3>1, Facts!Multiples DEF Aligned
    <3>3. ASSUME NEW k, NEW px, NEW py, NEW f, Place(k, px, py, f)
          PROVE  ~ Passed(k, px, py, f)'
      BY <3>1, <3>3, PlaceTypes DEF Passed
    <3>4. UsedArePassed'
      BY <3>1, <3>3, SameUnits DEF UsedArePassed
    <3>5. QED
      BY <2>2, <3>2, <3>4
  <2>4. CASE UNCHANGED vars
    <3>1. /\ UNCHANGED geometry /\ stride' = stride /\ c' = c /\ y' = y /\ x' = x
          /\ freq' = freq /\ used' = used
      BY <2>4 DEF vars, geometry
    <3>2. Aligned'
      BY <2>1, <3>1 DEF Aligned, RInv
    <3>3. \A k, px, py, f : Passed(k, px, py, f)' <=> Passed(k, px, py, f)
      BY <3>1 DEF Passed
    <3>4. QED
      BY <2>1, <2>2, <3>1, <3>2, <3>3, MoveRInv
  <2>5. QED
    BY <2>1, <2>2, <2>3, <2>4, ProcessFrequencyRInv, NextColumnRInv, NextRowRInv,
       NextComponentRInv DEF Next
<1>3. QED
  BY <1>1, <1>2, PTL DEF Spec
-----------------------------------------------------------------------------
(* The units, one by one. *)
LEMMA UnitsArePlaces ==
  \A u : u \in AllUnits <=>
    \E k, px, py, f : Place(k, px, py, f) /\ u = Unit(k, px, py, f)
BY DEF AllUnits, Place

(* The cells of a unit are cells of the image.                             *)
LEMMA UnitInImage ==
  ASSUME WalkOK, NEW k, NEW px, NEW py, NEW f, Place(k, px, py, f)
  PROVE  Gathered(k, px, py, f) \subseteq Cells
<1>1. SUFFICES ASSUME NEW ix \in px .. XMax(k, px), NEW iy \in py .. YMax(k, py)
               PROVE  <<k, BlockNum(k, ix, iy), f>> \in Cells
  BY DEF Gathered
<1>2. /\ k \in Colors /\ width[k] \in Nat \ {0} /\ height[k] \in Nat \ {0}
      /\ ix \in 0 .. width[k] - 1 /\ iy \in 0 .. height[k] - 1
  BY PlaceTypes
<1>3. BlockNum(k, ix, iy) \in 0 .. width[k] * height[k] - 1
  BY <1>2, NumberInBounds DEF BlockNum
<1>4. QED
  BY <1>2, <1>3 DEF Cells, Place

(* Every cell is in a unit: its column and row are cut at multiples of the *)
(* stride.                                                                 *)
LEMMA CellInUnit ==
  ASSUME WalkOK, NEW k \in Colors, NEW n \in 0 .. width[k] * height[k] - 1, NEW f \in Freqs
  PROVE  \E px, py : Place(k, px, py, f) /\ <<k, n, f>> \in Gathered(k, px, py, f)
<1> DEFINE w == width[k]
           h == height[k]
           ix == n % w
           iy == n \div w
           px == ix - (ix % stride)
           py == iy - (iy % stride)
<1>1. w \in Nat \ {0} /\ h \in Nat \ {0} /\ stride \in Nat \ {0}
  BY DEF WalkOK
<1>2. n \in Nat /\ n < w * h /\ w * h \in Nat
  BY <1>1
<1>3. ix \in 0 .. w - 1 /\ iy \in Int /\ n = w * iy + ix
  BY <1>1, <1>2
<1> HIDE DEF w, h, ix, iy
<1>4. iy \in 0 .. h - 1
  <2>1. CASE iy < 0
    <3>1. w * (-iy - 1) >= 0 /\ w * (-iy - 1) = -(w * iy) - w /\ w * iy \in Int
      BY <1>1, <1>3, <2>1
    <3>2. QED
      BY <1>1, <1>2, <1>3, <3>1
  <2>2. CASE iy >= h
    <3>1. w * (iy - h) >= 0 /\ w * (iy - h) = w * iy - w * h /\ w * iy \in Int
      BY <1>1, <1>3, <2>2
    <3>2. QED
      BY <1>1, <1>2, <1>3, <3>1
  <2>3. QED
    BY <1>1, <1>3, <2>1, <2>2
<1>5. /\ px \in 0 .. ix /\ ix < px + stride /\ px % stride = 0
      /\ py \in 0 .. iy /\ iy < py + stride /\ py % stride = 0
  BY <1>1, <1>3, <1>4, Facts!Multiples, SMTT(40)
<1> HIDE DEF px, py
<1>6. px \in 0 .. w - 1 /\ py \in 0 .. h - 1
  BY <1>1, <1>3, <1>4, <1>5
<1>7. Place(k, px, py, f)
  BY <1>5, <1>6 DEF Place, StartsX, StartsY, w, h
<1>8. ix \in px .. XMax(k, px) /\ iy \in py .. YMax(k, py)
  BY <1>1, <1>3, <1>4, <1>5, <1>6 DEF XMax, YMax, Lesser, w, h
<1>9. n = BlockNum(k, ix, iy)
  BY <1>1, <1>3, <1>4 DEF BlockNum, w
<1>10. <<k, n, f>> \in Gathered(k, px, py, f)
  BY <1>8, <1>9 DEF Gathered
<1>11. QED
  BY <1>7, <1>10

(* A cell is in one unit only.                                             *)
LEMMA CellsTell ==
  ASSUME WalkOK,
         NEW k, NEW px, NEW py, NEW f, Place(k, px, py, f),
         NEW l, NEW qx, NEW qy, NEW g, Place(l, qx, qy, g),
         NEW cell \in Gathered(k, px, py, f), cell \in Gathered(l, qx, qy, g)
  PROVE  k = l /\ px = qx /\ py = qy /\ f = g
<1>1. PICK ix \in px .. XMax(k, px), iy \in py .. YMax(k, py) :
        cell = <<k, BlockNum(k, ix, iy), f>>
  BY DEF Gathered
<1>2. PICK jx \in qx .. XMax(l, qx), jy \in qy .. YMax(l, qy) :
        cell = <<l, BlockNum(l, jx, jy), g>>
  BY DEF Gathered
<1>3. k = l /\ f = g /\ iy * width[k] + ix = jy * width[k] + jx
  BY <1>1, <1>2 DEF BlockNum
<1>4. /\ k \in Colors /\ px \in StartsX(k) /\ py \in StartsY(k)
      /\ qx \in StartsX(k) /\ qy \in StartsY(k)
  BY <1>3 DEF Place
<1>5. /\ width[k] \in Nat \ {0} /\ px \in Nat /\ py \in Nat
      /\ XMax(k, px) \in Int /\ YMax(k, py) \in Int
      /\ ix \in 0 .. width[k] - 1 /\ iy \in Nat
  BY <1>1, PlaceTypes
<1>6. /\ qx \in Nat /\ qy \in Nat /\ XMax(l, qx) \in Int /\ YMax(l, qy) \in Int
      /\ jx \in 0 .. width[l] - 1 /\ jy \in Nat
  BY <1>2, PlaceTypes
<1>7. ix = jx /\ iy = jy
  <2>1. jx \in 0 .. width[k] - 1
    BY <1>3, <1>6
  <2> DEFINE w == width[k]
  <2>2. /\ w \in Nat \ {0} /\ ix \in 0 .. w - 1 /\ jx \in 0 .. w - 1 /\ iy \in Nat /\ jy \in Nat
        /\ iy * w + ix = jy * w + jx
    BY <1>3, <1>5, <1>6, <2>1
  <2> HIDE DEF w
  <2>3. QED
    BY <2>2, RowMajor
<1>8. ~ px < qx /\ ~ qx < px
  BY <1>1, <1>2, <1>3, <1>4, <1>5, <1>6, <1>7, EndsTell
<1>9. ~ py < qy /\ ~ qy < py
  BY <1>1, <1>2, <1>3, <1>4, <1>5, <1>6, <1>7, EndsTell
<1>10. QED
  BY <1>3, <1>5, <1>6, <1>8, <1>9

(* What is to do in a pass, as ImageCipher sees it.                        *)
Todo == IF pass = "done" THEN {} ELSE {u \in AllUnits : u.tweak \notin used}

(* The units divide the image.                                             *)
LEMMA WellDividedImage ==
  ASSUME WalkOK, DOMAIN blocks = Cells
  PROVE  Abstract!WellDivided
<1>1. ASSUME NEW u \in AllUnits PROVE u.cells \subseteq Cells
  <2>1. PICK k, px, py, f : Place(k, px, py, f) /\ u = Unit(k, px, py, f)
    BY <1>1, UnitsArePlaces
  <2>2. u.cells = Gathered(k, px, py, f)
    BY <2>1 DEF Unit
  <2>3. QED
    BY <2>1, <2>2, UnitInImage
<1>2. ASSUME NEW cell \in Cells PROVE \E u \in AllUnits : cell \in u.cells
  <2>1. PICK k \in Colors : cell \in {k} \X (0 .. width[k] * height[k] - 1) \X Freqs
    BY <1>2 DEF Cells
  <2>2. PICK n \in 0 .. width[k] * height[k] - 1, f \in Freqs : cell = <<k, n, f>>
    BY <2>1
  <2>3. PICK px, py : Place(k, px, py, f) /\ cell \in Gathered(k, px, py, f)
    BY <2>2, CellInUnit
  <2>4. Unit(k, px, py, f) \in AllUnits /\ cell \in Unit(k, px, py, f).cells
    BY <2>3, UnitsArePlaces DEF Unit
  <2>5. QED
    BY <2>4
<1>3. ASSUME NEW u \in AllUnits, NEW v \in AllUnits, u # v
      PROVE  u.cells \cap v.cells = {} /\ u.tweak # v.tweak
  <2>1. PICK k, px, py, f : Place(k, px, py, f) /\ u = Unit(k, px, py, f)
    BY <1>3, UnitsArePlaces
  <2>2. PICK l, qx, qy, g : Place(l, qx, qy, g) /\ v = Unit(l, qx, qy, g)
    BY <1>3, UnitsArePlaces
  <2>3. ~ (k = l /\ px = qx /\ py = qy /\ f = g)
    BY <1>3, <2>1, <2>2
  <2>4. u.cells = Gathered(k, px, py, f) /\ u.tweak = Tweak(k, px, py, f)
    BY <2>1 DEF Unit
  <2>5. v.cells = Gathered(l, qx, qy, g) /\ v.tweak = Tweak(l, qx, qy, g)
    BY <2>2 DEF Unit
  <2>6. u.tweak # v.tweak
    BY <2>1, <2>2, <2>3, <2>4, <2>5, TweaksTell
  <2>7. ASSUME NEW cell \in u.cells PROVE cell \notin v.cells
    BY <2>1, <2>2, <2>3, <2>4, <2>5, <2>7, CellsTell
  <2>8. QED
    BY <2>6, <2>7
<1>4. UNION {u.cells : u \in AllUnits} = Cells
  BY <1>1, <1>2
<1>5. QED
  BY <1>3, <1>4 DEF Abstract!WellDivided

(* Before the first pass every unit is still to do.                        *)
LEMMA InitAbstract == Init => Abstract!Init
<1> SUFFICES ASSUME Init PROVE Abstract!Init
  OBVIOUS
<1>1. WalkOK /\ pass = "encrypt" /\ used = {} /\ DOMAIN blocks = Cells
  BY InitInv DEF Init, IInv, InputImage
<1>2. Abstract!WellDivided
  BY <1>1, WellDividedImage
<1>3. QED
  BY <1>1, <1>2 DEF Abstract!Init

(* One frequency of one block is one unit of the image.                    *)
LEMMA ProcessFrequencyAbstract ==
  ASSUME RInv, ProcessFrequency
  PROVE  \E u \in Todo : Abstract!Process(u)
<1> DEFINE u == Unit(c, x, y, freq)
           out == Crypt(pass, Tweak(c, x, y, freq), [k \in Gathered(c, x, y, freq) |-> blocks[k]])
<1>1. /\ WalkOK /\ Aligned /\ UsedArePassed /\ pass # "done" /\ freq < DCTSIZE2
      /\ UNCHANGED geometry /\ pass' = pass
      /\ used' = used \cup {Tweak(c, x, y, freq)}
      /\ blocks' = [k \in DOMAIN blocks |->
                      IF k \in Gathered(c, x, y, freq) THEN out[k] ELSE blocks[k]]
  BY DEF RInv, IInv, ProcessFrequency
<1>2. Place(c, x, y, freq)
  BY <1>1, HerePlace
<1>3. u \in AllUnits /\ u.tweak = Tweak(c, x, y, freq) /\ u.cells = Gathered(c, x, y, freq)
  BY <1>2, UnitsArePlaces DEF Unit
<1>4. freq \in Int /\ x \in Int /\ y \in Int /\ c \in Int
  BY <1>1, LoopTypes
<1>5. u.tweak \notin used
  BY <1>1, <1>2, <1>3, <1>4 DEF UsedArePassed, Passed
<1>6. u \in Todo
  BY <1>1, <1>3, <1>5 DEF Todo
<1>7. AllUnits' = AllUnits
  BY <1>1, SameUnits
<1>8. \A v \in AllUnits : v.tweak = u.tweak => v = u
  <2>1. SUFFICES ASSUME NEW v \in AllUnits, v.tweak = u.tweak PROVE v = u
    OBVIOUS
  <2>2. PICK l, qx, qy, g : Place(l, qx, qy, g) /\ v = Unit(l, qx, qy, g)
    BY <2>1, UnitsArePlaces
  <2>3. v.tweak = Tweak(l, qx, qy, g)
    BY <2>2 DEF Unit
  <2>4. l = c /\ qx = x /\ qy = y /\ g = freq
    BY <1>1, <1>2, <1>3, <2>1, <2>2, <2>3, TweaksTell
  <2>5. QED
    BY <2>2, <2>4
<1> HIDE DEF u
<1>9. Todo' = Todo \ {u}
  BY <1>1, <1>3, <1>7, <1>8 DEF Todo
<1>10. blocks' = [k \in DOMAIN blocks |->
                   IF k \in u.cells THEN Crypt(pass, u.tweak, Abstract!Contents(u))[k]
                                    ELSE blocks[k]]
  BY <1>1, <1>3 DEF Abstract!Contents
<1>11. QED
  BY <1>1, <1>6, <1>7, <1>9, <1>10 DEF Abstract!Process, Todo

(* A pass ends when every unit is done.                                    *)
LEMMA EndPassAbstract ==
  ASSUME RInv, EndPass
  PROVE  Abstract!EndPass
<1>1. /\ WalkOK /\ UsedArePassed /\ pass # "done" /\ freq = DCTSIZE2 /\ c = Comps - 1
      /\ x + stride >= width[c] /\ y + stride >= height[c] /\ Aligned
      /\ UNCHANGED geometry /\ blocks' = blocks /\ used' = {}
      /\ pass' = IF pass = "encrypt" THEN "decrypt" ELSE "done"
  BY DEF RInv, IInv, EndPass, BlockDone, LastColumn, LastRow, AtStart
<1>2. pass \in {"encrypt", "decrypt"}
  BY <1>1 DEF WalkOK
<1>3. x \in Nat /\ y \in Nat /\ stride \in Nat \ {0} /\ x % stride = 0 /\ y % stride = 0
      /\ width[c] \in Int /\ height[c] \in Int /\ c \in Nat
  BY <1>1, LoopTypes DEF Aligned
<1>4. ASSUME NEW k, NEW px, NEW py, NEW f, Place(k, px, py, f)
      PROVE  Passed(k, px, py, f)
  <2>1. /\ px \in Nat /\ px % stride = 0 /\ f \in Nat /\ f < DCTSIZE2
        /\ py \in Nat /\ py % stride = 0
        /\ px < width[k] /\ py < height[k] /\ k \in Nat /\ k <= Comps - 1
    BY <1>1, <1>4, PlaceTypes, TpeAssumption DEF Colors
  <2>2. /\ x < px => x + stride <= px
        /\ y < py => y + stride <= py
    BY <1>3, <2>1, Facts!MultiplesApart
  <2>3. QED
    BY <1>1, <1>3, <2>1, <2>2, TpeAssumption DEF Passed
<1>5. \A u \in AllUnits : u.tweak \in used
  <2>1. SUFFICES ASSUME NEW u \in AllUnits PROVE u.tweak \in used
    OBVIOUS
  <2>2. PICK k, px, py, f : Place(k, px, py, f) /\ u = Unit(k, px, py, f)
    BY UnitsArePlaces
  <2>3. u.tweak = Tweak(k, px, py, f)
    BY <2>2 DEF Unit
  <2>4. QED
    BY <1>1, <1>4, <2>2, <2>3 DEF UsedArePassed
<1>6. AllUnits' = AllUnits
  BY <1>1, SameUnits
<1>7. Todo = {}
  BY <1>5 DEF Todo
<1>8. Todo' = IF pass = "encrypt" THEN AllUnits ELSE {}
  BY <1>1, <1>2, <1>6 DEF Todo
<1>9. QED
  BY <1>1, <1>2, <1>6, <1>7, <1>8 DEF Abstract!EndPass, Todo

(* To its users tpe_process_image puts every unit of the image through the *)
(* cipher once, with a tweak of its own: where a block is cut and where    *)
(* the walk stands is of no consequence.                                   *)
THEOREM Implementation == Spec => ImplementsImageCipher
<1>1. RInv /\ [Next]_vars => [Abstract!Next]_(Abstract!vars)
  <2>1. SUFFICES ASSUME RInv, [Next]_vars PROVE [Abstract!Next]_(Abstract!vars)
    OBVIOUS
  <2>2. CASE ProcessFrequency
    BY <2>1, <2>2, ProcessFrequencyAbstract DEF Abstract!Next, Todo
  <2>3. CASE EndPass
    BY <2>1, <2>3, EndPassAbstract DEF Abstract!Next
  <2>4. CASE NextColumn \/ NextRow \/ NextComponent \/ UNCHANGED vars
    <3>1. UNCHANGED geometry /\ blocks' = blocks /\ used' = used /\ pass' = pass
      BY <2>4 DEF NextColumn, NextRow, NextComponent, vars, geometry
    <3>2. AllUnits' = AllUnits
      BY <3>1, SameUnits
    <3>3. Todo' = Todo
      BY <3>1, <3>2 DEF Todo
    <3>4. QED
      BY <3>1, <3>2, <3>3 DEF Abstract!vars, Todo
  <2>5. QED
    BY <2>1, <2>2, <2>3, <2>4 DEF Next
<1>2. QED
  BY InitAbstract, RInvariance, <1>1, PTL DEF Spec, ImplementsImageCipher, Abstract!Spec

-----------------------------------------------------------------------------
(***************************************************************************)
(* The output of sample rows (jdmainct.c, jdsample.c, jdmerge.c,           *)
(* jdpostct.c): that it makes progress.                                    *)
(***************************************************************************)
(* The least of three numbers is one of them and none is below it. *)
LEMMA MinOfThree ==
  ASSUME NEW a \in Int, NEW b \in Int, NEW z \in Int
  PROVE  /\ Min({a, b, z}) \in {a, b, z}
         /\ Min({a, b, z}) <= a /\ Min({a, b, z}) <= b /\ Min({a, b, z}) <= z
<1>1. \E m \in {a, b, z} : \A n \in {a, b, z} : m <= n
  OBVIOUS
<1>2. QED
  BY <1>1 DEF Min

(* The least of two numbers is one of them and neither is below it. *)
LEMMA MinOfTwo ==
  ASSUME NEW a \in Int, NEW b \in Int
  PROVE  Min({a, b}) \in {a, b} /\ Min({a, b}) <= a /\ Min({a, b}) <= b
<1>1. \E m \in {a, b} : \A n \in {a, b} : m <= n
  OBVIOUS
<1>2. QED
  BY <1>1 DEF Min

(* The fields that the way of the rows through the modules changes.        *)
Counters == {"state", "output_scanline", "out_row_ctr", "stalled", "post", "is_dummy_pass", "colormap",
             "next_row_out", "rows_to_go", "rowgroup_ctr", "rowgroups_avail", "context_state",
             "buffer_full", "spare_full", "spare_row", "starting_row", "next_row", "made", "lines", "scanned",
             "whole_image", "color_buf", "pass", "whichptr", "xbuffer", "buffer", "output_iMCU_row",
             "iMCU_row_ctr"}
Object(d) == Counters \subseteq DOMAIN d

Merged1 == display.up = "merged" /\ maxv # 2

(* One call of the upsampler leaves everything outside it alone.           *)
SameOutside(d, e) ==
  /\ Object(e)
  /\ e.state = d.state /\ e.output_scanline = d.output_scanline /\ e.out_row_ctr = d.out_row_ctr
  /\ e.stalled = d.stalled /\ e.post = d.post /\ e.starting_row = d.starting_row
  /\ e.next_row = d.next_row /\ e.is_dummy_pass = d.is_dummy_pass /\ e.colormap = d.colormap

Upsampler(d) ==
  /\ Object(d)
  /\ d.rows_to_go \in Nat /\ d.next_row_out \in 0 .. maxv /\ d.rowgroup_ctr \in Int
  /\ d.context_state \in {"prepare", "process", "postponed"}

DisplayOK == /\ H \in Positive /\ M \in Positive /\ maxv \in Positive
             /\ display.up \in {"sep", "merged"} /\ display.quant \in {"none", "1pass", "2pass"}
             /\ display.up = "merged" => maxv \in {1, 2}

(* A call of the upsampler with rows left and room makes at least one      *)
(* row, no more than there is room for, and counts the rows it makes off   *)
(* rows_to_go (merged_1v_upsample makes one and does not count).           *)
LEMMA UpsamplerAdvances ==
  ASSUME DisplayOK, NEW d, Upsampler(d), NEW room \in Nat, room > 0,
         d.rows_to_go > 0 \/ display.up = "sep"
  PROVE  LET e == upsample(d, room)
         IN  /\ SameOutside(d, e) /\ Upsampler(e)
             /\ Len(e.made) \in Nat /\ Len(e.made) <= room
             /\ d.rows_to_go > 0 => Len(e.made) > 0
             /\ e.rows_to_go = IF Merged1 THEN d.rows_to_go ELSE d.rows_to_go - Len(e.made)
<1> USE DEF Counters, Object
<1>2. CASE display.up = "sep"
  <2> DEFINE f == IF d.next_row_out >= maxv THEN ConvertGroup(d) ELSE d
             n == Min({maxv - f.next_row_out, f.rows_to_go, room})
  <2>1. Upsampler(f) /\ SameOutside(d, f) /\ f.next_row_out < maxv /\ f.rows_to_go = d.rows_to_go
    BY DEF ConvertGroup, Upsampler, SameOutside, DisplayOK, Positive
  <2>2. upsample(d, room) = EmitRows(f, n)
    BY <1>2 DEF upsample, sep_upsample, EmitWhatFits
  <2> HIDE DEF f
  <2>3. n \in Nat /\ n <= room /\ n <= f.rows_to_go /\ n <= maxv - f.next_row_out
        /\ (f.rows_to_go > 0 => n > 0)
    <3>1. maxv - f.next_row_out \in Int /\ maxv - f.next_row_out > 0 /\ f.rows_to_go \in Int
          /\ f.rows_to_go >= 0 /\ room \in Int
      BY <2>1 DEF Upsampler, DisplayOK, Positive
    <3>2. /\ n \in {maxv - f.next_row_out, f.rows_to_go, room}
          /\ n <= maxv - f.next_row_out /\ n <= f.rows_to_go /\ n <= room
      BY <3>1, MinOfThree, Zenon DEF n
    <3>3. QED
      BY <3>1, <3>2
  <2> HIDE DEF n
  <2> DEFINE e == EmitRows(f, n)
  <2>4. Len(e.made) = n
    BY <2>1, <2>3 DEF EmitRows, Upsampler
  <2>5. SameOutside(f, e) /\ Upsampler(e) /\ e.rows_to_go = f.rows_to_go - n
    BY <2>1, <2>3 DEF EmitRows, Upsampler, SameOutside, DisplayOK, Positive
  <2> HIDE DEF e
  <2>6. ~Merged1
    BY <1>2 DEF Merged1
  <2>7. QED
    BY <2>1, <2>2, <2>3, <2>4, <2>5, <2>6 DEF SameOutside, e
<1>3. CASE display.up = "merged" /\ maxv = 2
  <2> DEFINE n == Min({2, d.rows_to_go, room})
  <2>1. n \in Nat /\ n <= room /\ n <= d.rows_to_go /\ n > 0
    <3>1. 2 \in Int /\ d.rows_to_go \in Int /\ d.rows_to_go > 0 /\ room \in Int
      BY <1>3 DEF Upsampler
    <3>2. n \in {2, d.rows_to_go, room} /\ n <= d.rows_to_go /\ n <= room
      BY <3>1, MinOfThree, Zenon DEF n
    <3>3. QED
      BY <3>1, <3>2
  <2>2. upsample(d, room) = IF d.spare_full THEN ReturnSpare(d) ELSE UpsamplePair(d, n)
    BY <1>3 DEF upsample, merged_2v_upsample
  <2> HIDE DEF n
  <2>3. Len(UpsamplePair(d, n).made) = n
    BY <2>1 DEF UpsamplePair, Upsampler
  <2>4. SameOutside(d, UpsamplePair(d, n)) /\ Upsampler(UpsamplePair(d, n))
        /\ UpsamplePair(d, n).rows_to_go = d.rows_to_go - n
    BY <2>1 DEF UpsamplePair, Upsampler, SameOutside
  <2>5. SameOutside(d, ReturnSpare(d)) /\ Upsampler(ReturnSpare(d))
        /\ Len(ReturnSpare(d).made) = 1 /\ ReturnSpare(d).rows_to_go = d.rows_to_go - 1
    BY <1>3 DEF ReturnSpare, Upsampler, SameOutside
  <2>6. n \in Nat /\ 1 \in Nat /\ n > 0 /\ ~Merged1
    BY <1>3, <2>1 DEF Merged1
  <2>7. CASE d.spare_full
    <3>1. upsample(d, room) = ReturnSpare(d)
      BY <2>2, <2>7, Zenon
    <3>2. 1 \in Nat /\ 1 <= room /\ d.rows_to_go > 0
      BY <1>3
    <3> DEFINE e == ReturnSpare(d)
    <3>3. Len(e.made) = 1 /\ Len(e.made) \in Nat /\ Len(e.made) <= room /\ Len(e.made) > 0
      BY <2>5, <3>2
    <3>4. SameOutside(d, e) /\ Upsampler(e) /\ e.rows_to_go = d.rows_to_go - Len(e.made)
      BY <2>5
    <3> HIDE DEF e
    <3>5. upsample(d, room) = e
      BY <3>1 DEF e
    <3>6. QED
      BY <2>6, <3>3, <3>4, <3>5
  <2>8. CASE ~d.spare_full
    <3>1. upsample(d, room) = UpsamplePair(d, n)
      BY <2>2, <2>8, Zenon
    <3>2. QED
      BY <2>1, <2>3, <2>4, <2>6, <3>1
  <2>9. QED
    BY <2>7, <2>8
<1>4. CASE display.up = "merged" /\ maxv # 2
  <2>1. upsample(d, room) = merged_1v_upsample(d)
    BY <1>4 DEF upsample
  <2>2. SameOutside(d, merged_1v_upsample(d)) /\ Upsampler(merged_1v_upsample(d))
        /\ Len(merged_1v_upsample(d).made) = 1 /\ merged_1v_upsample(d).rows_to_go = d.rows_to_go
    BY DEF merged_1v_upsample, Upsampler, SameOutside
  <2>3. QED
    BY <1>4, <2>1, <2>2 DEF Merged1
<1>5. QED
  BY <1>2, <1>3, <1>4 DEF DisplayOK

(* What the main controller leaves alone.                                  *)
SameCounters(d, e) ==
  /\ SameOutside(d, e) /\ Upsampler(e)
  /\ e.rows_to_go = d.rows_to_go /\ e.next_row_out = d.next_row_out

(* What the main controller does between two calls of the postprocessing   *)
(* controller moves pointers and counts row groups and iMCUs, and touches  *)
(* no row that is on its way out (jdmainct.c, jdcoefct.c).                 *)
LEMMA MainOnlyMoves ==
  ASSUME DisplayOK, NEW d, Upsampler(d)
  PROVE  /\ SameCounters(d, decompress_data(d)) /\ SameCounters(d, Emptied(d))
         /\ SameCounters(d, Prepared(d)) /\ SameCounters(d, AfterIMCU(d))
<1> USE DEF Counters, Object, Upsampler, SameOutside, SameCounters
<1>1. SameCounters(d, decompress_data(d)) /\ SameCounters(d, Emptied(d))
  BY DEF decompress_data, Emptied
<1>2. SameCounters(d, PrepareForIMCU(d))
  BY DEF PrepareForIMCU
<1>3. ASSUME NEW f, SameCounters(d, f) PROVE SameCounters(d, set_bottom_pointers(f))
  BY <1>3 DEF set_bottom_pointers
<1>4. SameCounters(d, Prepared(d))
  <2> DEFINE f == PrepareForIMCU(d)
  <2> HIDE DEF f
  <2>1. SameCounters(d, f) /\ SameCounters(d, set_bottom_pointers(f))
    BY <1>2, <1>3 DEF f
  <2>2. Prepared(d) = f \/ Prepared(d) = set_bottom_pointers(f)
    BY DEF Prepared, f
  <2> HIDE DEF SameCounters
  <2>3. QED
    BY <2>1, <2>2
<1>5. SameCounters(d, set_wraparound_pointers(d))
  BY DEF set_wraparound_pointers
<1>6. ASSUME NEW f, SameCounters(d, f) PROVE SameCounters(d, ToOtherList(f))
  BY <1>6 DEF ToOtherList, DisplayOK, Positive
<1>7. SameCounters(d, d)
  OBVIOUS
<1>8. SameCounters(d, AfterIMCU(d))
  <2> HIDE DEF SameCounters
  <2>1. \/ AfterIMCU(d) = d \/ AfterIMCU(d) = ToOtherList(d)
        \/ AfterIMCU(d) = ToOtherList(set_wraparound_pointers(d))
    BY DEF AfterIMCU
  <2>2. QED
    BY <1>5, <1>6, <1>7, <2>1
<1>9. QED
  BY <1>1, <1>4, <1>8

(* The postprocessing controller: what a call of process_data or of        *)
(* post_process_data makes of the counters, with max rows in all.          *)
Rest(d) == d.out_row_ctr + d.rows_to_go
SameRest(d, e) == IF Merged1 THEN e.rows_to_go = d.rows_to_go ELSE Rest(e) = Rest(d)
Going(d) == Upsampler(d) /\ d.out_row_ctr \in Nat
Advanced(d, e) ==
  /\ Going(e) /\ e.out_row_ctr >= d.out_row_ctr /\ SameRest(d, e)
  /\ e.state = d.state /\ e.output_scanline = d.output_scanline /\ e.stalled = d.stalled
  /\ e.post = d.post /\ e.is_dummy_pass = d.is_dummy_pass /\ e.colormap = d.colormap

(* Without an array for a second pass, a call with room delivers at least  *)
(* one row and every row the upsampler makes (jdpostct.c,                  *)
(* post_process_1pass).                                                    *)
LEMMA DirectlyDelivered ==
  ASSUME DisplayOK, NEW d, Going(d), NEW max \in Nat, max > d.out_row_ctr,
         d.post \in {"upsample", "1pass"}, d.rows_to_go > 0 \/ display.up = "sep"
  PROVE  LET e == post_process_data(d, max)
         IN  /\ Advanced(d, e)
             /\ d.rows_to_go > 0 => e.out_row_ctr > d.out_row_ctr
<1> DEFINE room == IF d.post = "upsample" THEN max - d.out_row_ctr
                   ELSE Min({max - d.out_row_ctr, strip_height})
           u == upsample(d, room)
           e == Deliver(u)
<1>1. post_process_data(d, max) = e
  BY DEF post_process_data, post_process_1pass
<1>2. room \in Nat /\ room > 0
  <2>1. max - d.out_row_ctr \in Int /\ strip_height \in Int
        /\ max - d.out_row_ctr > 0 /\ strip_height > 0
    BY DEF Going, DisplayOK, Positive, strip_height
  <2>2. Min({max - d.out_row_ctr, strip_height}) \in {max - d.out_row_ctr, strip_height}
    BY <2>1, MinOfTwo, Zenon
  <2>3. QED
    BY <2>1, <2>2
<1> HIDE DEF room
<1>3. /\ SameOutside(d, u) /\ Upsampler(u) /\ Len(u.made) \in Nat
      /\ d.rows_to_go > 0 => Len(u.made) > 0
      /\ u.rows_to_go = IF Merged1 THEN d.rows_to_go ELSE d.rows_to_go - Len(u.made)
  BY <1>2, UpsamplerAdvances DEF Going
<1> HIDE DEF u
<1>4. /\ Object(e) /\ Upsampler(e) /\ e.out_row_ctr = u.out_row_ctr + Len(u.made)
      /\ e.rows_to_go = u.rows_to_go /\ e.state = u.state /\ e.stalled = u.stalled
      /\ e.output_scanline = u.output_scanline /\ e.post = u.post
      /\ e.is_dummy_pass = u.is_dummy_pass /\ e.colormap = u.colormap
  BY <1>3 DEF Deliver, Upsampler, Object, Counters
<1> HIDE DEF e
<1>5. /\ d.out_row_ctr \in Nat /\ d.rows_to_go \in Nat /\ u.rows_to_go \in Nat
      /\ u.out_row_ctr = d.out_row_ctr
  BY <1>3 DEF Going, Upsampler, SameOutside
<1>6. /\ e.out_row_ctr \in Nat /\ e.out_row_ctr >= d.out_row_ctr
      /\ d.rows_to_go > 0 => e.out_row_ctr > d.out_row_ctr
      /\ SameRest(d, e)
  BY <1>3, <1>4, <1>5 DEF SameRest, Rest
<1>7. Advanced(d, e)
  BY <1>3, <1>4, <1>6 DEF Advanced, Going, SameOutside
<1>8. QED
  BY <1>1, <1>6, <1>7

(* With a quantizer of two passes, rows are first stored strip by strip;   *)
(* each call stores at least one and never leaves a strip that is full     *)
(* (post_process_prepass).                                                 *)
LEMMA StripStored ==
  ASSUME DisplayOK, NEW d, Going(d), NEW max, d.post = "prepass", d.rows_to_go > 0,
         d.next_row \in 0 .. maxv - 1, d.starting_row \in Nat
  PROVE  LET e == post_process_data(d, max)
         IN  /\ Advanced(d, e) /\ e.out_row_ctr > d.out_row_ctr
             /\ e.next_row \in 0 .. maxv - 1 /\ e.starting_row \in Nat
<1> DEFINE u == upsample(d, strip_height - d.next_row)
           f == InStrip(u)
<1>1. post_process_data(d, max) = NextStrip(f)
  BY DEF post_process_data, post_process_prepass
<1>2. strip_height - d.next_row \in Nat /\ strip_height - d.next_row > 0 /\ strip_height = maxv
  BY DEF DisplayOK, Positive, strip_height
<1>3. /\ SameOutside(d, u) /\ Upsampler(u) /\ Len(u.made) \in Nat
      /\ Len(u.made) <= maxv - d.next_row
      /\ Len(u.made) > 0
      /\ u.rows_to_go = IF Merged1 THEN d.rows_to_go ELSE d.rows_to_go - Len(u.made)
  BY <1>2, UpsamplerAdvances DEF Going
<1> HIDE DEF u
<1>4. /\ Object(f) /\ Upsampler(f) /\ f.out_row_ctr = u.out_row_ctr + Len(u.made)
      /\ f.rows_to_go = u.rows_to_go /\ f.state = u.state /\ f.stalled = u.stalled
      /\ f.output_scanline = u.output_scanline /\ f.post = u.post
      /\ f.is_dummy_pass = u.is_dummy_pass /\ f.colormap = u.colormap /\ f.starting_row = u.starting_row
      /\ f.next_row = u.next_row + Len(u.made)
  BY <1>3 DEF InStrip, Upsampler, Object, Counters
<1> HIDE DEF f
<1>5. f.next_row \in 0 .. maxv /\ f.starting_row \in Nat /\ maxv \in Nat /\ maxv > 0
  BY <1>3, <1>4 DEF SameOutside, DisplayOK, Positive
<1> DEFINE e == NextStrip(f)
<1>6. /\ Object(e) /\ Upsampler(e) /\ e.out_row_ctr = f.out_row_ctr
      /\ e.rows_to_go = f.rows_to_go /\ e.state = f.state /\ e.stalled = f.stalled
      /\ e.output_scanline = f.output_scanline /\ e.post = f.post
      /\ e.is_dummy_pass = f.is_dummy_pass /\ e.colormap = f.colormap
      /\ e.next_row \in 0 .. maxv - 1 /\ e.starting_row \in Nat
  <2>1. CASE f.next_row >= strip_height
    BY <1>2, <1>4, <1>5, <2>1 DEF NextStrip, Upsampler, Object, Counters
  <2>2. CASE ~(f.next_row >= strip_height)
    <3>1. e = f
      BY <2>2 DEF NextStrip
    <3>2. QED
      BY <1>2, <1>4, <1>5, <2>2, <3>1
  <2>3. QED
    BY <2>1, <2>2
<1> HIDE DEF e
<1>7. Going(e) /\ e.out_row_ctr > d.out_row_ctr /\ SameRest(d, e)
  <2>1. /\ d.out_row_ctr \in Nat /\ d.rows_to_go \in Nat /\ u.rows_to_go \in Nat
        /\ u.out_row_ctr = d.out_row_ctr
    BY <1>3 DEF Going, Upsampler, SameOutside
  <2>2. e.out_row_ctr \in Nat /\ e.out_row_ctr > d.out_row_ctr /\ SameRest(d, e)
    BY <1>3, <1>4, <1>6, <2>1 DEF SameRest, Rest
  <2>3. QED
    BY <1>6, <2>2 DEF Going
<1>8. QED
  BY <1>1, <1>3, <1>4, <1>6, <1>7 DEF Advanced, Going, SameOutside, e

(* Then they are taken from there: each call with room takes at least one  *)
(* row, and the place in the array moves as the rows delivered do          *)
(* (post_process_2pass).                                                   *)
LEMMA StripTaken ==
  ASSUME DisplayOK, NEW d, Going(d), NEW max \in Nat, max > d.out_row_ctr, d.post = "2pass",
         d.next_row \in 0 .. maxv - 1, d.starting_row \in Nat, d.starting_row < H
  PROVE  LET e == post_process_data(d, max)
         IN  /\ Going(e) /\ e.out_row_ctr > d.out_row_ctr /\ e.rows_to_go = d.rows_to_go
             /\ e.next_row \in 0 .. maxv - 1 /\ e.starting_row \in Nat
             /\ e.starting_row + e.next_row - e.out_row_ctr
                  = d.starting_row + d.next_row - d.out_row_ctr
             /\ e.state = d.state /\ e.output_scanline = d.output_scanline
             /\ e.stalled = d.stalled /\ e.post = d.post /\ e.is_dummy_pass = d.is_dummy_pass /\ e.colormap = d.colormap
<1> DEFINE n == Min({strip_height - d.next_row, max - d.out_row_ctr, H - d.starting_row})
           f == Deliver(TakeStored(d, n))
           e == NextStrip(f)
<1>1. post_process_data(d, max) = e
  BY DEF post_process_data, post_process_2pass
<1>2. n \in Nat /\ n > 0 /\ n <= maxv - d.next_row
  <2>1. /\ strip_height - d.next_row \in Int /\ strip_height - d.next_row > 0
        /\ max - d.out_row_ctr \in Int /\ max - d.out_row_ctr > 0
        /\ H - d.starting_row \in Int /\ H - d.starting_row > 0
        /\ strip_height = maxv
    BY DEF DisplayOK, Positive, strip_height, Going
  <2>2. /\ n \in {strip_height - d.next_row, max - d.out_row_ctr, H - d.starting_row}
        /\ n <= strip_height - d.next_row
    BY <2>1, MinOfThree, Zenon
  <2>3. QED
    BY <2>1, <2>2
<1> HIDE DEF n
<1>3. Len(TakeStored(d, n).made) = n
  BY <1>2 DEF TakeStored, Going, Upsampler, Object, Counters
<1>4. /\ Upsampler(f) /\ f.rows_to_go = d.rows_to_go /\ f.out_row_ctr = d.out_row_ctr + n
      /\ f.next_row = d.next_row + n /\ f.starting_row = d.starting_row
      /\ f.state = d.state /\ f.output_scanline = d.output_scanline
      /\ f.stalled = d.stalled /\ f.post = d.post /\ f.is_dummy_pass = d.is_dummy_pass /\ f.colormap = d.colormap
  BY <1>2, <1>3 DEF TakeStored, Deliver, Going, Upsampler, Object, Counters
<1> HIDE DEF f
<1>5. /\ Upsampler(e) /\ e.rows_to_go = d.rows_to_go /\ e.out_row_ctr = d.out_row_ctr + n
      /\ e.next_row \in 0 .. maxv - 1 /\ e.starting_row \in Nat
      /\ e.starting_row + e.next_row = d.starting_row + d.next_row + n
      /\ e.state = d.state /\ e.output_scanline = d.output_scanline
      /\ e.stalled = d.stalled /\ e.post = d.post /\ e.is_dummy_pass = d.is_dummy_pass /\ e.colormap = d.colormap
  BY <1>2, <1>4 DEF NextStrip, Upsampler, Object, Counters, DisplayOK, Positive, strip_height
<1> HIDE DEF e
<1>6. QED
  BY <1>1, <1>2, <1>5 DEF Going, e

(* The main controller. Whatever it does besides, the rows it asks the     *)
(* postprocessing controller for are made.                                 *)
Grown(d, e) == Advanced(d, e) /\ (d.rows_to_go > 0 => e.out_row_ctr > d.out_row_ctr)

(* Moving pointers is no loss of progress. *)
LEMMA MovesAreGrowth ==
  ASSUME DisplayOK, NEW d, Going(d), NEW e, SameCounters(d, e)
  PROVE  Advanced(d, e) /\ Going(e) /\ e.rows_to_go = d.rows_to_go /\ e.out_row_ctr = d.out_row_ctr
BY DEF SameCounters, SameOutside, Advanced, Going, SameRest, Rest, Upsampler

(* Progress and then no loss of it is progress. *)
LEMMA GrowthAddsUp ==
  ASSUME NEW d, NEW e, NEW f, Going(d),
         \/ Advanced(d, e) /\ Advanced(e, f)
         \/ Grown(d, e) /\ Advanced(e, f)
  PROVE  /\ Advanced(d, f)
         /\ Grown(d, e) => Grown(d, f)
BY DEF Grown, Advanced, Going, SameRest, Rest, Upsampler

(* And so is no loss and then progress. *)
LEMMA MovedThenGrown ==
  ASSUME DisplayOK, NEW d, Going(d), NEW e, SameCounters(d, e), NEW f, Grown(e, f)
  PROVE  Grown(d, f)
<1>1. Advanced(d, e) /\ e.rows_to_go = d.rows_to_go /\ e.out_row_ctr = d.out_row_ctr
  BY MovesAreGrowth
<1>2. Advanced(d, f)
  BY <1>1, GrowthAddsUp DEF Grown
<1>3. QED
  BY <1>1, <1>2 DEF Grown

(* With data at hand and room, a call of the main controller, context      *)
(* rows or not, delivers rows; in particular the postponed last group and  *)
(* the step to the next list never come to nothing                         *)
(* (process_data_simple_main, process_data_context_main).                  *)
LEMMA DataIsDelivered ==
  ASSUME DisplayOK, NEW d, Going(d), NEW max \in Nat, max > d.out_row_ctr,
         d.post \in {"upsample", "1pass"}, d.rows_to_go > 0
  PROVE  Grown(d, WithData(d, max))
<1>1. ASSUME NEW f, Going(f), max > f.out_row_ctr, f.post \in {"upsample", "1pass"},
             f.rows_to_go > 0 \/ display.up = "sep"
      PROVE  Grown(f, post_process_data(f, max)) /\ Grown(f, ProcessIMCU(f, max))
  <2> DEFINE e == post_process_data(f, max)
  <2>1. Grown(f, e)
    BY <1>1, DirectlyDelivered DEF Grown
  <2> HIDE DEF e
  <2>2. Advanced(e, AfterIMCU(e))
    BY <2>1, MainOnlyMoves, MovesAreGrowth DEF Grown, Advanced, Going
  <2>3. Grown(f, AfterIMCU(e))
    BY <1>1, <2>1, <2>2, GrowthAddsUp
  <2>4. QED
    BY <2>1, <2>3 DEF ProcessIMCU, e
<1>2. CASE need_context_rows
  <2>0. display.up = "sep"
    BY <1>2 DEF need_context_rows
  <2>1. ASSUME NEW f, Going(f), max > f.out_row_ctr, f.post \in {"upsample", "1pass"}
        PROVE  Grown(f, ProcessIMCU(Prepared(f), max))
    <3> DEFINE g == Prepared(f)
    <3>1. SameCounters(f, g)
      BY <2>1, MainOnlyMoves DEF Going
    <3> HIDE DEF g
    <3>2. Going(g) /\ max > g.out_row_ctr /\ g.post \in {"upsample", "1pass"}
      BY <2>1, <3>1, MovesAreGrowth DEF SameCounters, SameOutside
    <3>3. Grown(g, ProcessIMCU(g, max))
      BY <1>1, <2>0, <3>2
    <3>4. QED
      BY <2>1, <3>1, <3>3, MovedThenGrown DEF g
  <2>2. CASE d.context_state = "postponed"
    <3> DEFINE f == post_process_data(d, max)
    <3>1. Grown(d, f)
      BY <1>1
    <3>2. WithData(d, max) = AfterPostponed(f, max)
      BY <1>2, <2>2 DEF WithData, process_data_context_main
    <3> HIDE DEF f
    <3>3. Going(f) /\ f.post = d.post
      BY <3>1 DEF Grown, Advanced
    <3>4. Advanced(f, AfterPostponed(f, max))
      <4>1. CASE f.rowgroup_ctr < f.rowgroups_avail
        <5>1. AfterPostponed(f, max) = f
          BY <4>1 DEF AfterPostponed
        <5>2. QED
          BY <3>3, <5>1 DEF Advanced, Going, Upsampler, SameRest
      <4>2. CASE ~(f.rowgroup_ctr < f.rowgroups_avail) /\ f.out_row_ctr >= max
        <5>1. AfterPostponed(f, max) = [f EXCEPT !.context_state = "prepare"]
          BY <4>2 DEF AfterPostponed
        <5>2. QED
          BY <3>3, <5>1 DEF Advanced, Going, Upsampler, Object, Counters, SameRest, Rest
      <4>3. CASE ~(f.rowgroup_ctr < f.rowgroups_avail) /\ ~(f.out_row_ctr >= max)
        <5>1. AfterPostponed(f, max) = ProcessIMCU(Prepared(f), max)
          BY <4>3 DEF AfterPostponed
        <5>2. max > f.out_row_ctr
          BY <3>3, <4>3 DEF Going
        <5>3. QED
          BY <2>1, <3>3, <5>1, <5>2 DEF Grown
      <4>4. QED
        BY <4>1, <4>2, <4>3
    <3>5. QED
      BY <3>1, <3>2, <3>4, GrowthAddsUp
  <2>3. CASE d.context_state = "prepare"
    BY <1>2, <2>1, <2>3 DEF WithData, process_data_context_main
  <2>4. CASE d.context_state = "process"
    BY <1>1, <1>2, <2>4 DEF WithData, process_data_context_main
  <2>5. QED
    BY <2>2, <2>3, <2>4 DEF Going, Upsampler
<1>3. CASE ~need_context_rows
  <2> DEFINE e == post_process_data(d, max)
  <2>1. Grown(d, e)
    BY <1>1
  <2>2. WithData(d, max) = Emptied(e)
    BY <1>3 DEF WithData, process_data_simple_main
  <2> HIDE DEF e
  <2>3. Advanced(e, Emptied(e))
    BY <2>1, MainOnlyMoves, MovesAreGrowth DEF Grown, Advanced, Going
  <2>4. QED
    BY <2>1, <2>2, <2>3, GrowthAddsUp
<1>4. QED
  BY <1>2, <1>3

Strip(d) == d.next_row \in 0 .. maxv - 1 /\ d.starting_row \in Nat

(* The same of a dummy pass, which asks for no rows at all: the main       *)
(* controller still calls the postprocessing controller, which fills its   *)
(* strip.                                                                  *)
LEMMA StripsAreFilled ==
  ASSUME DisplayOK, NEW d, Going(d), d.post = "prepass", d.rows_to_go > 0, Strip(d)
  PROVE  Grown(d, WithData(d, 0)) /\ Strip(WithData(d, 0))
<1>1. ASSUME NEW f, Going(f), f.post = "prepass", f.rows_to_go > 0, Strip(f)
      PROVE  LET e == post_process_data(f, 0)
             IN  /\ Grown(f, e) /\ Strip(e) /\ Going(e)
                 /\ Grown(f, AfterIMCU(e)) /\ Strip(AfterIMCU(e))
                 /\ Grown(f, Emptied(e)) /\ Strip(Emptied(e))
  <2> DEFINE e == post_process_data(f, 0)
  <2>1. Grown(f, e) /\ Strip(e) /\ Going(e)
    BY <1>1, StripStored DEF Grown, Strip, Advanced
  <2> HIDE DEF e
  <2>2. SameCounters(e, AfterIMCU(e)) /\ SameCounters(e, Emptied(e))
    BY <2>1, MainOnlyMoves DEF Going
  <2>3. Advanced(e, AfterIMCU(e)) /\ Advanced(e, Emptied(e))
    BY <2>1, <2>2, MovesAreGrowth
  <2>4. Strip(AfterIMCU(e)) /\ Strip(Emptied(e))
    BY <2>1, <2>2 DEF Strip, SameCounters, SameOutside
  <2>5. Grown(f, AfterIMCU(e)) /\ Grown(f, Emptied(e))
    BY <1>1, <2>1, <2>3, GrowthAddsUp
  <2>6. QED
    BY <2>1, <2>4, <2>5 DEF e
<1>2. CASE need_context_rows
  <2>1. CASE d.context_state = "postponed"
    <3> DEFINE f == post_process_data(d, 0)
    <3>1. Grown(d, f) /\ Strip(f) /\ Going(f)
      BY <1>1
    <3>2. WithData(d, 0) = AfterPostponed(f, 0)
      BY <1>2, <2>1 DEF WithData, process_data_context_main
    <3> HIDE DEF f
    <3>3. CASE f.rowgroup_ctr < f.rowgroups_avail
      <4>1. AfterPostponed(f, 0) = f
        BY <3>3 DEF AfterPostponed
      <4>2. QED
        BY <3>1, <3>2, <4>1
    <3>4. CASE ~(f.rowgroup_ctr < f.rowgroups_avail)
      <4> DEFINE g == [f EXCEPT !.context_state = "prepare"]
      <4>1. AfterPostponed(f, 0) = g
        BY <3>1, <3>4 DEF AfterPostponed, Going
      <4>2. Advanced(f, g) /\ Strip(g)
        BY <3>1 DEF Advanced, Going, Upsampler, Object, Counters, SameRest, Rest, Strip
      <4> HIDE DEF g
      <4>3. QED
        BY <3>1, <3>2, <4>1, <4>2, GrowthAddsUp
    <3>5. QED
      BY <3>3, <3>4
  <2>2. CASE d.context_state = "prepare"
    <3> DEFINE f == Prepared(d)
    <3>1. SameCounters(d, f)
      BY MainOnlyMoves DEF Going
    <3>2. WithData(d, 0) = ProcessIMCU(f, 0)
      BY <1>2, <2>2 DEF WithData, process_data_context_main
    <3> HIDE DEF f
    <3>3. Going(f) /\ f.post = "prepass" /\ f.rows_to_go > 0 /\ Strip(f)
      BY <3>1, MovesAreGrowth DEF SameCounters, SameOutside, Strip
    <3>4. Grown(f, ProcessIMCU(f, 0)) /\ Strip(ProcessIMCU(f, 0))
      BY <1>1, <3>3 DEF ProcessIMCU
    <3>5. QED
      BY <3>1, <3>2, <3>4, MovedThenGrown
  <2>3. CASE d.context_state = "process"
    BY <1>1, <1>2, <2>3 DEF WithData, process_data_context_main, ProcessIMCU
  <2>4. QED
    BY <2>1, <2>2, <2>3 DEF Going, Upsampler
<1>3. CASE ~need_context_rows
  BY <1>1, <1>3 DEF WithData, process_data_simple_main
<1>4. QED
  BY <1>2, <1>3

(* A call of process_data without data loses nothing; with data it makes   *)
(* progress.                                                               *)
LEMMA RowsArrive ==
  ASSUME DisplayOK, NEW d, Going(d), d.rows_to_go > 0, NEW max \in Nat, NEW ready \in BOOLEAN,
         \/ d.post \in {"upsample", "1pass"} /\ max > d.out_row_ctr
         \/ d.post = "prepass" /\ max = 0 /\ Strip(d)
  PROVE  LET e == process_data(d, max, ready)
         IN  /\ Advanced(d, e)
             /\ ready => e.out_row_ctr > d.out_row_ctr
             /\ d.post = "prepass" => Strip(e)
<1>1. ASSUME NEW f, Going(f), f.rows_to_go > 0,
             \/ f.post \in {"upsample", "1pass"} /\ max > f.out_row_ctr
             \/ f.post = "prepass" /\ max = 0 /\ Strip(f)
      PROVE  Grown(f, WithData(f, max)) /\ (f.post = "prepass" => Strip(WithData(f, max)))
  BY <1>1, DataIsDelivered, StripsAreFilled
<1>2. d.post # "2pass"
  OBVIOUS
<1>3. CASE process_data(d, max, ready) = WithData(d, max)
  BY <1>1, <1>3 DEF Grown
<1>4. CASE ready /\ process_data(d, max, ready) = WithData(decompress_data(d), max)
  <2> DEFINE f == decompress_data(d)
  <2>1. SameCounters(d, f)
    BY MainOnlyMoves DEF Going
  <2> HIDE DEF f
  <2>2. Going(f) /\ f.rows_to_go > 0 /\ f.post = d.post /\ f.out_row_ctr = d.out_row_ctr
        /\ (Strip(d) => Strip(f))
    BY <2>1, MovesAreGrowth DEF SameCounters, SameOutside, Strip
  <2>3. Grown(f, WithData(f, max)) /\ (f.post = "prepass" => Strip(WithData(f, max)))
    BY <1>1, <2>2
  <2>4. Grown(d, WithData(f, max))
    BY <2>1, <2>3, MovedThenGrown
  <2>5. QED
    BY <1>4, <2>2, <2>3, <2>4 DEF Grown, f
<1>5. CASE ~ready /\ process_data(d, max, ready) = d
  <2>1. Advanced(d, d)
    BY DEF Advanced, Going, Upsampler, SameRest
  <2>2. QED
    BY <1>5, <2>1
<1>6. QED
  BY <1>2, <1>3, <1>4, <1>5 DEF process_data

(* The application's loop and that of output_pass_setup.                   *)
Underway(d) ==
  /\ Upsampler(d) /\ d.output_scanline \in Nat
  /\ d.post \in {"prepass", "2pass"} => Strip(d)
  /\ \/ d.state = "DSTATE_PRESCAN" /\ d.post = "prepass" /\ d.is_dummy_pass = TRUE
        /\ d.output_scanline < H
     \/ d.state = "DSTATE_SCANNING" /\ d.post \in {"upsample", "1pass", "2pass"}
        /\ d.is_dummy_pass = FALSE
  /\ d.post # "2pass" => Merged1 \/ d.output_scanline + d.rows_to_go = H
  /\ d.post = "2pass" => d.starting_row + d.next_row = d.output_scanline
  /\ Merged1 => d.rows_to_go > 0

StallInv ==
  /\ display \in Displays
  /\ Object(dinfo) /\ dinfo.colormap \in BOOLEAN /\ dinfo.stalled = FALSE
  /\ \/ dinfo.state \in {"DSTATE_READY", "DSTATE_BUFIMAGE"} /\ dinfo.is_dummy_pass = FALSE
     \/ Underway(dinfo)

(* What is assumed of every display holds of the one at hand. *)
LEMMA TheDisplay ==
  ASSUME display \in Displays
  PROVE  DisplayOK
BY DisplayAssumption DEF DisplayOK, H, M, maxv

(* A pass begins with all rows to go, at the first row of the image        *)
(* (jpeg_start_output, prepare_for_output_pass).                           *)
LEMMA PassBegins ==
  ASSUME DisplayOK, NEW d, Object(d), d.colormap \in BOOLEAN, d.is_dummy_pass = FALSE
  PROVE  LET e == Opened(SetUp(d))
         IN  Object(e) /\ e.colormap \in BOOLEAN /\ e.stalled = d.stalled /\ Underway(e)
<1> USE DEF Counters, Object
<1> DEFINE f == SetUp(d)
           e == Opened(f)
<1>1. ASSUME NEW method \in {"upsample", "1pass", "prepass"}
      PROVE  LET g == StartModules(d, method)
             IN  /\ Upsampler(g) /\ Strip(g) /\ g.rows_to_go = H /\ g.post = method
                 /\ g.colormap = d.colormap /\ g.stalled = d.stalled
                 /\ g.is_dummy_pass = FALSE
  <2> DEFINE g == StartModules(d, method)
  <2>1. /\ g.rows_to_go = H /\ g.post = method /\ g.colormap = d.colormap /\ g.stalled = d.stalled
        /\ g.is_dummy_pass = FALSE /\ g.next_row_out = maxv /\ g.rowgroup_ctr = 0
        /\ g.context_state = "prepare" /\ g.starting_row = 0 /\ g.next_row = 0
    BY DEF StartModules
  <2>2. Counters \subseteq DOMAIN g
    BY DEF StartModules
  <2> HIDE DEF g, Counters
  <2>3. QED
    BY <2>1, <2>2 DEF Upsampler, Strip, DisplayOK, Positive, g
<1> DEFINE g(method) == StartModules(d, method)
<1>2. \/ prepare_for_output_pass(d) = g("upsample")
      \/ prepare_for_output_pass(d) = g("1pass")
      \/ prepare_for_output_pass(d) = [g("prepass") EXCEPT !.is_dummy_pass = TRUE]
  BY DEF prepare_for_output_pass, DisplayOK
<1> HIDE DEF g
<1>3. LET p == prepare_for_output_pass(d)
      IN  /\ Upsampler(p) /\ Strip(p) /\ p.rows_to_go = H
          /\ p.colormap = d.colormap /\ p.stalled = d.stalled
          /\ \/ p.post \in {"upsample", "1pass"} /\ p.is_dummy_pass = FALSE
             \/ p.post = "prepass" /\ p.is_dummy_pass = TRUE
  <2>1. CASE prepare_for_output_pass(d) = g("upsample")
    BY <1>1, <2>1 DEF g
  <2>2. CASE prepare_for_output_pass(d) = g("1pass")
    BY <1>1, <2>2 DEF g
  <2>3. CASE prepare_for_output_pass(d) = [g("prepass") EXCEPT !.is_dummy_pass = TRUE]
    <3>1. /\ Upsampler(g("prepass")) /\ Strip(g("prepass")) /\ g("prepass").rows_to_go = H
          /\ g("prepass").post = "prepass"
          /\ g("prepass").colormap = d.colormap /\ g("prepass").stalled = d.stalled
      BY <1>1 DEF g
    <3>2. QED
      BY <2>3, <3>1 DEF Upsampler, Strip
  <2>4. QED
    BY <1>2, <2>1, <2>2, <2>3
<1>4. /\ Upsampler(f) /\ Strip(f) /\ f.rows_to_go = H /\ f.output_scanline = 0
      /\ f.colormap = d.colormap /\ f.stalled = d.stalled
      /\ \/ f.post \in {"upsample", "1pass"} /\ f.is_dummy_pass = FALSE
         \/ f.post = "prepass" /\ f.is_dummy_pass = TRUE
  <2> DEFINE p == prepare_for_output_pass(d)
  <2> HIDE DEF p
  <2>1. f = [p EXCEPT !.output_scanline = 0, !.lines = <<>>]
    BY DEF SetUp, p
  <2>2. QED
    BY <1>3, <2>1 DEF p, Upsampler, Strip
<1> HIDE DEF f
<1>5. /\ Upsampler(e) /\ Strip(e) /\ e.rows_to_go = H /\ e.output_scanline = 0
      /\ e.colormap = d.colormap /\ e.stalled = d.stalled
      /\ \/ e.post \in {"upsample", "1pass"} /\ e.is_dummy_pass = FALSE
            /\ e.state = "DSTATE_SCANNING"
         \/ e.post = "prepass" /\ e.is_dummy_pass = TRUE /\ e.state = "DSTATE_PRESCAN"
  <2>1. e = [f EXCEPT !.state = IF f.is_dummy_pass THEN "DSTATE_PRESCAN" ELSE "DSTATE_SCANNING"]
    BY DEF Opened
  <2>2. QED
    BY <1>4, <2>1 DEF Upsampler, Strip
<1> HIDE DEF e
<1>6. Object(e) /\ Underway(e)
  BY <1>5 DEF Upsampler, Underway, DisplayOK, Positive
<1>7. QED
  BY <1>5, <1>6 DEF e, f

(* Once round the loop of output_pass_setup a dummy pass has made          *)
(* progress if the source had data, and at its end the final pass begins   *)
(* (jdapistd.c).                                                           *)
LEMMA DummyPassGoesOn ==
  ASSUME DisplayOK, NEW d, d.state = "DSTATE_PRESCAN", Underway(d), d.stalled = FALSE,
         d.colormap \in BOOLEAN, NEW ready \in BOOLEAN
  PROVE  LET e == DummyDone(Cranked(d, ready), ready)
         IN  Object(e) /\ e.colormap \in BOOLEAN /\ e.stalled = FALSE /\ Underway(e)
<1> DEFINE b == [d EXCEPT !.out_row_ctr = d.output_scanline]
           f == Cranked(d, ready)
<1>0. d.post = "prepass" /\ d.is_dummy_pass = TRUE /\ Object(d)
  BY DEF Underway, Upsampler
<1>1. /\ Going(b) /\ Strip(b) /\ b.post = "prepass" /\ b.rows_to_go > 0 /\ b.out_row_ctr = d.output_scanline
      /\ b.output_scanline = d.output_scanline /\ b.state = d.state /\ b.stalled = FALSE
      /\ b.is_dummy_pass = TRUE /\ b.colormap = d.colormap /\ b.rows_to_go = d.rows_to_go
  BY <1>0 DEF Underway, Going, Upsampler, Object, Counters, Strip, DisplayOK, Positive
<1> HIDE DEF b
<1>2. f = process_data(b, 0, ready)
  BY DEF Cranked, b
<1>3. Advanced(b, f) /\ (ready => f.out_row_ctr > b.out_row_ctr) /\ Strip(f)
  BY <1>1, <1>2, RowsArrive
<1> HIDE DEF f
<1> DEFINE g == [f EXCEPT !.output_scanline = f.out_row_ctr,
                          !.stalled = @ \/ (ready /\ f.out_row_ctr = f.output_scanline)]
<1>4. DummyDone(f, ready) = NextPass(g)
  BY DEF DummyDone
<1>5. /\ Upsampler(g) /\ Strip(g) /\ g.output_scanline = f.out_row_ctr /\ g.stalled = FALSE
      /\ g.post = "prepass" /\ g.state = "DSTATE_PRESCAN" /\ g.is_dummy_pass = TRUE
      /\ g.colormap = d.colormap /\ g.rows_to_go = f.rows_to_go /\ Object(g)
  <2>1. /\ Upsampler(f) /\ f.stalled = FALSE /\ f.post = "prepass" /\ f.state = "DSTATE_PRESCAN"
        /\ f.is_dummy_pass = TRUE /\ f.colormap = d.colormap /\ Object(f)
        /\ f.output_scanline = d.output_scanline
    BY <1>1, <1>3 DEF Advanced, Going, Upsampler
  <2>2. ~(ready /\ f.out_row_ctr = f.output_scanline)
    BY <1>1, <1>3, <2>1 DEF Underway
  <2>3. g.stalled = (f.stalled \/ (ready /\ f.out_row_ctr = f.output_scanline))
    BY <2>1 DEF Object, Counters
  <2>4. g.stalled = FALSE
    BY <2>1, <2>2, <2>3
  <2>5. QED
    BY <1>3, <2>1, <2>4 DEF Upsampler, Object, Counters, Strip
<1>6. f.out_row_ctr \in Nat /\ (Merged1 \/ f.out_row_ctr + f.rows_to_go = H)
      /\ (Merged1 => f.rows_to_go > 0)
  <2>1. f.out_row_ctr \in Nat /\ SameRest(b, f)
    BY <1>3 DEF Advanced, Going
  <2>2. Merged1 \/ d.output_scanline + d.rows_to_go = H
    BY <1>0 DEF Underway
  <2>3. QED
    BY <1>1, <2>1, <2>2 DEF SameRest, Rest
<1> HIDE DEF g
<1>7. CASE g.output_scanline < H
  <2>1. NextPass(g) = g
    BY <1>7 DEF NextPass
  <2>2. Underway(g)
    BY <1>5, <1>6, <1>7 DEF Underway
  <2>3. QED
    BY <1>4, <1>5, <2>1, <2>2 DEF f
<1>8. CASE ~(g.output_scanline < H)
  <2> DEFINE h == [g EXCEPT !.colormap = TRUE]
             e == Opened(SetUp(h))
  <2>1. NextPass(g) = e
    BY <1>8 DEF NextPass
  <2>2. /\ Upsampler(h) /\ h.stalled = FALSE /\ h.is_dummy_pass = TRUE /\ h.colormap = TRUE
        /\ Object(h) /\ h.rows_to_go = f.rows_to_go
    BY <1>5 DEF Upsampler, Object, Counters
  <2> HIDE DEF h
  <2>3. SetUp(h) = [FinalPass(h) EXCEPT !.output_scanline = 0, !.lines = <<>>]
    BY <2>2 DEF SetUp, prepare_for_output_pass
  <2>4. LET s == SetUp(h)
        IN  /\ Upsampler(s) /\ s.stalled = FALSE /\ s.is_dummy_pass = FALSE /\ s.colormap = TRUE
            /\ s.rows_to_go = f.rows_to_go /\ s.post = "2pass"
            /\ s.output_scanline = 0 /\ s.starting_row = 0 /\ s.next_row = 0
    BY <2>2, <2>3 DEF FinalPass, Upsampler, Object, Counters
  <2> DEFINE s == SetUp(h)
  <2> HIDE DEF s
  <2>5. /\ Upsampler(e) /\ e.stalled = FALSE /\ e.is_dummy_pass = FALSE /\ e.colormap = TRUE
        /\ e.rows_to_go = f.rows_to_go /\ e.post = "2pass" /\ e.state = "DSTATE_SCANNING"
        /\ e.output_scanline = 0 /\ e.starting_row = 0 /\ e.next_row = 0
    <3>1. e = [s EXCEPT !.state = IF s.is_dummy_pass THEN "DSTATE_PRESCAN" ELSE "DSTATE_SCANNING"]
      BY DEF Opened, s
    <3>2. QED
      BY <2>4, <3>1 DEF s, Upsampler, Object, Counters
  <2> HIDE DEF e
  <2>6. Underway(e)
    BY <1>6, <2>5 DEF Underway, Strip, DisplayOK, Positive
  <2>7. QED
    BY <1>4, <2>1, <2>5, <2>6 DEF Upsampler, e, f
<1>9. QED
  BY <1>7, <1>8 DEF f

(* jpeg_read_scanlines makes progress if the source has data, whatever     *)
(* the number of rows it is asked for.                                     *)
LEMMA ReadingGoesOn ==
  ASSUME DisplayOK, NEW d, d.state = "DSTATE_SCANNING", Underway(d), d.stalled = FALSE,
         d.output_scanline < H, NEW max \in Nat, max > 0, NEW ready \in BOOLEAN
  PROVE  LET e == ReadDone(process_data([d EXCEPT !.out_row_ctr = 0], max, ready), ready)
         IN  Object(e) /\ e.colormap = d.colormap /\ e.stalled = FALSE /\ Underway(e)
<1> DEFINE b == [d EXCEPT !.out_row_ctr = 0]
           f == process_data(b, max, ready)
           e == ReadDone(f, ready)
<1>0. Object(d) /\ d.output_scanline \in Nat /\ d.rows_to_go \in Nat
  BY DEF Underway, Upsampler
<1>1. /\ Going(b) /\ b.post = d.post /\ b.out_row_ctr = 0
      /\ b.output_scanline = d.output_scanline /\ b.state = d.state /\ b.stalled = FALSE
      /\ b.is_dummy_pass = d.is_dummy_pass /\ b.colormap = d.colormap
      /\ b.rows_to_go = d.rows_to_go /\ b.starting_row = d.starting_row /\ b.next_row = d.next_row
  BY <1>0 DEF Underway, Going, Upsampler, Object, Counters, Strip
<1> HIDE DEF b
<1>2. /\ Going(f) /\ (ready => f.out_row_ctr > 0)
      /\ f.state = d.state /\ f.output_scanline = d.output_scanline /\ f.stalled = FALSE
      /\ f.post = d.post /\ f.is_dummy_pass = d.is_dummy_pass /\ f.colormap = d.colormap
      /\ d.post # "2pass" => SameRest(b, f)
      /\ d.post = "2pass" => /\ f.starting_row + f.next_row = d.output_scanline + f.out_row_ctr
                             /\ Strip(f) /\ f.rows_to_go = d.rows_to_go
  <2>1. CASE d.post = "2pass"
    <3>1. d.starting_row + d.next_row = d.output_scanline /\ Strip(d)
      BY <2>1 DEF Underway
    <3>2. Strip(b) /\ b.starting_row < H
      BY <1>0, <1>1, <3>1 DEF Strip, DisplayOK, Positive
    <3>3. f = post_process_data(b, max)
      BY <1>1, <2>1 DEF process_data
    <3>4. /\ Going(f) /\ f.out_row_ctr > 0 /\ Strip(f) /\ f.rows_to_go = b.rows_to_go
          /\ f.starting_row + f.next_row - f.out_row_ctr = b.starting_row + b.next_row
          /\ f.state = b.state /\ f.output_scanline = b.output_scanline
          /\ f.stalled = b.stalled /\ f.post = b.post /\ f.is_dummy_pass = b.is_dummy_pass
          /\ f.colormap = b.colormap
      <4>1. b.next_row \in 0 .. maxv - 1 /\ b.starting_row \in Nat /\ max > b.out_row_ctr
            /\ b.post = "2pass" /\ b.out_row_ctr = 0
        BY <1>1, <2>1, <3>2 DEF Strip
      <4>2. b.starting_row + b.next_row - 0 = b.starting_row + b.next_row
        BY <4>1
      <4> HIDE DEF f
      <4>3. QED
        BY <1>1, <3>2, <3>3, <4>1, <4>2, StripTaken DEF Strip
    <3> HIDE DEF f
    <3>5. f.starting_row + f.next_row = d.output_scanline + f.out_row_ctr
      <4>1. f.starting_row \in Int /\ f.next_row \in Int /\ f.out_row_ctr \in Int
        BY <3>4 DEF Strip, Going
      <4>2. f.starting_row + f.next_row - f.out_row_ctr = d.output_scanline
        BY <1>1, <3>1, <3>4
      <4>3. QED
        BY <1>0, <4>1, <4>2
    <3>6. QED
      BY <1>1, <2>1, <3>4, <3>5
  <2>2. CASE d.post # "2pass"
    <3>1. b.post \in {"upsample", "1pass"} /\ b.rows_to_go > 0
      BY <1>0, <1>1, <2>2 DEF Underway, DisplayOK, Positive
    <3>2. Advanced(b, f) /\ (ready => f.out_row_ctr > b.out_row_ctr)
      BY <1>1, <3>1, RowsArrive
    <3> HIDE DEF f
    <3>3. QED
      BY <1>1, <2>2, <3>2 DEF Advanced
  <2>3. QED
    BY <2>1, <2>2
<1> HIDE DEF f
<1>3. /\ Upsampler(e) /\ e.state = "DSTATE_SCANNING" /\ e.post = d.post /\ e.colormap = d.colormap
      /\ e.is_dummy_pass = d.is_dummy_pass /\ e.rows_to_go = f.rows_to_go
      /\ e.output_scanline = d.output_scanline + f.out_row_ctr /\ e.stalled = FALSE
      /\ e.starting_row = f.starting_row /\ e.next_row = f.next_row
  <2>1. Object(f) /\ f.out_row_ctr \in Nat
    BY <1>2 DEF Going, Upsampler
  <2>2. e = [f EXCEPT !.output_scanline = f.output_scanline + f.out_row_ctr,
                      !.stalled = f.stalled \/ (ready /\ f.out_row_ctr = 0)]
    BY DEF ReadDone
  <2>3. e.stalled = (f.stalled \/ (ready /\ f.out_row_ctr = 0))
    BY <2>1, <2>2 DEF Object, Counters
  <2>4. e.stalled = FALSE
    <3>1. ~(ready /\ f.out_row_ctr = 0) /\ f.stalled = FALSE
      BY <1>2, <2>1
    <3>2. QED
      BY <2>3, <3>1
  <2>5. QED
    BY <1>2, <2>1, <2>2, <2>4 DEF Going, Upsampler, Object, Counters
<1> HIDE DEF e
<1>4. Underway(e)
  <2>1. f.out_row_ctr \in Nat /\ d.rows_to_go \in Nat /\ f.rows_to_go \in Nat
    BY <1>0, <1>2 DEF Going, Upsampler
  <2>2. e.output_scanline \in Nat /\ e.is_dummy_pass = FALSE /\ e.post \in {"upsample", "1pass", "2pass"}
    BY <1>0, <1>3, <2>1 DEF Underway
  <2>3. CASE d.post # "2pass"
    <3>1. Merged1 \/ d.output_scanline + d.rows_to_go = H
      BY <2>3 DEF Underway
    <3>2. (Merged1 \/ e.output_scanline + e.rows_to_go = H) /\ (Merged1 => e.rows_to_go > 0)
      BY <1>0, <1>1, <1>2, <1>3, <2>1, <2>3, <3>1 DEF SameRest, Rest, Underway
    <3>3. QED
      BY <1>3, <2>2, <2>3, <3>2 DEF Underway
  <2>4. CASE d.post = "2pass"
    <3>1. Strip(e) /\ e.starting_row + e.next_row = e.output_scanline
      BY <1>2, <1>3, <2>4 DEF Strip
    <3>2. Merged1 => e.rows_to_go > 0
      BY <1>2, <1>3, <2>4 DEF Underway
    <3>3. QED
      BY <1>3, <2>2, <2>4, <3>1, <3>2 DEF Underway
  <2>5. QED
    BY <2>3, <2>4
<1>5. QED
  BY <1>3, <1>4 DEF Upsampler, e, f, b

(* Every step keeps the invariant of the theorem below. *)
LEMMA StallKept == StallInv /\ [NextOutput]_dvars => StallInv'
<1> SUFFICES ASSUME StallInv, [NextOutput]_dvars PROVE StallInv'
  OBVIOUS
<1>0. DisplayOK /\ display' = display
  BY TheDisplay DEF StallInv, NextOutput, StartOutput, DummyPass, jpeg_read_scanlines,
     jpeg_finish_output, dvars
<1>7. ASSUME NEW e, dinfo' = e, Object(e), e.colormap \in BOOLEAN, e.stalled = FALSE, Underway(e)
      PROVE  StallInv'
  BY <1>0, <1>7 DEF StallInv, Underway, Upsampler, Object, Strip, Merged1, H, maxv
<1>1. CASE StartOutput
  <2> DEFINE d == [dinfo EXCEPT !.pass = @ + 1, !.scanned = <<>>]
  <2>1. dinfo' = Opened(SetUp(d)) /\ dinfo.is_dummy_pass = FALSE
    BY <1>1 DEF StartOutput, StallInv, Underway
  <2>2. Object(d) /\ d.colormap \in BOOLEAN /\ d.is_dummy_pass = FALSE /\ d.stalled = FALSE
    BY <2>1 DEF StallInv, Object, Counters
  <2> HIDE DEF d
  <2>3. QED
    BY <1>0, <1>7, <2>1, <2>2, PassBegins
<1>2. CASE DummyPass
  <2>1. PICK ready \in BOOLEAN : dinfo' = DummyDone(Cranked(dinfo, ready), ready)
    BY <1>2 DEF DummyPass
  <2>2. dinfo.state = "DSTATE_PRESCAN" /\ Underway(dinfo)
    BY <1>2 DEF DummyPass, StallInv
  <2>3. QED
    BY <1>0, <1>7, <2>1, <2>2, DummyPassGoesOn DEF StallInv
<1>3. CASE jpeg_read_scanlines
  <2>1. PICK max \in 1 .. MaxLines, ready \in BOOLEAN :
          dinfo' = ReadDone(process_data([dinfo EXCEPT !.out_row_ctr = 0], max, ready), ready)
    BY <1>3 DEF jpeg_read_scanlines
  <2>2. dinfo.state = "DSTATE_SCANNING" /\ Underway(dinfo) /\ dinfo.output_scanline < H
    BY <1>3 DEF jpeg_read_scanlines, StallInv
  <2>3. max \in Nat /\ max > 0 /\ dinfo.stalled = FALSE /\ dinfo.colormap \in BOOLEAN
    BY DEF StallInv
  <2>4. QED
    BY <1>0, <1>7, <2>1, <2>2, <2>3, ReadingGoesOn
<1>4. CASE jpeg_finish_output
  <2>1. dinfo.state = "DSTATE_SCANNING" /\ dinfo' = [dinfo EXCEPT !.state = "DSTATE_BUFIMAGE"]
    BY <1>4 DEF jpeg_finish_output
  <2>2. dinfo.is_dummy_pass = FALSE
    BY <2>1 DEF StallInv, Underway
  <2>3. QED
    BY <1>0, <2>1, <2>2 DEF StallInv, Object, Counters
<1>5. CASE UNCHANGED dvars
  BY <1>5 DEF dvars, StallInv, Underway, Upsampler, Object, Strip, Merged1, H, maxv
<1>6. QED
  BY <1>1, <1>2, <1>3, <1>4, <1>5 DEF NextOutput

(* For every image, sampling, upsampler and quantizer, any number of rows  *)
(* asked for at once and any suspension of the source: while the image     *)
(* has rows left, a call of jpeg_read_scanlines or a turn of the loop of   *)
(* output_pass_setup that finds data delivers or stores at least one row,  *)
(* so that both loops over output_scanline end and no progress means that  *)
(* the source is dry.                                                      *)
THEOREM NoStall == InitOutput /\ [][NextOutput]_dvars => []NeverStalls
<1>1. InitOutput => StallInv
  BY DEF InitOutput, OutputStart, NewObject, StallInv, Object, Counters
<1>2. StallInv /\ [NextOutput]_dvars => StallInv'
  BY StallKept
<1>3. StallInv => NeverStalls
  BY DEF StallInv, NeverStalls
<1>4. QED
  BY <1>1, <1>2, <1>3, PTL

-----------------------------------------------------------------------------
(***************************************************************************)
(* And that the rows are the right ones.  The invariant says, for the      *)
(* state between two calls, what each row of the workspace holds, where    *)
(* the two lists of pointers point, and which row of the image comes next. *)
(* The row number counts through it all: main controller and upsampler     *)
(* agree with what has been delivered, or stored, on how many rows there   *)
(* have been, and a call moves all of them by the rows it hands on.        *)
(***************************************************************************)
(* A multiple of the greater is the greater. *)
LEMMA ProductGrows ==
  ASSUME NEW e \in Nat, NEW a \in Int, NEW b \in Int, a <= b
  PROVE  a * e \in Int /\ b * e \in Int /\ a * e <= b * e
<1>1. e * (b - a) >= 0 /\ e * (b - a) = e * b - e * a
  OBVIOUS
<1>2. e * b = b * e /\ e * a = a * e
  OBVIOUS
<1>3. QED
  BY <1>1, <1>2

(* What is below a quotient rounded up: what is below the dividend as a    *)
(* multiple.                                                               *)
LEMMA BelowQuotient ==
  ASSUME NEW a \in Int, NEW e \in Positive, NEW num \in Int
  PROVE  jdiv_round_up(a, e) \in Int /\ (num < jdiv_round_up(a, e) <=> num * e < a)
<1> DEFINE q == jdiv_round_up(a, e)
           r == (a + e - 1) % e
<1>0. e \in Nat \ {0} /\ e \in Nat /\ a + e - 1 \in Int
  BY DEF Positive
<1>1. q \in Int /\ r \in 0 .. e - 1 /\ a + e - 1 = e * q + r /\ e \in Nat
  BY <1>0, Facts!Division, Zenon DEF jdiv_round_up
<1> HIDE DEF q, r
<1>2. e * q = q * e /\ q * e \in Int /\ num * e \in Int
  BY <1>1
<1>3. ASSUME num < q PROVE num * e < a
  <2>1. (num + 1) * e <= q * e
    BY <1>1, <1>3, ProductGrows
  <2>2. (num + 1) * e = num * e + e
    BY <1>1
  <2>3. QED
    BY <1>1, <1>2, <2>1, <2>2
<1>4. ASSUME num * e < a PROVE num < q
  <2>1. CASE q <= num
    <3>1. q * e <= num * e
      BY <1>1, <2>1, ProductGrows
    <3>2. QED
      BY <1>1, <1>2, <1>4, <3>1
  <2>2. QED
    BY <1>1, <2>1
<1>5. QED
  BY <1>1, <1>3, <1>4 DEF q

(* Whole multiples leave a quotient whole. *)
LEMMA ShiftedQuotient ==
  ASSUME NEW e \in Positive, NEW num \in Int, NEW k \in Int
  PROVE  (num * e + k) \div e = num + k \div e
<1>1. k \div e \in Int /\ k % e \in 0 .. e - 1 /\ k = e * (k \div e) + (k % e) /\ e \in Nat \ {0}
  BY Facts!Division DEF Positive
<1> DEFINE q == k \div e
           r == k % e
<1> HIDE DEF q, r
<1>2. q \in Int /\ r \in 0 .. e - 1 /\ k = e * q + r
  BY <1>1 DEF q, r
<1>3. num * e + k = e * (num + q) + r /\ num + q \in Int /\ num * e + k \in Int
  BY <1>1, <1>2
<1>4. (num * e + k) \div e = num + q
  <2> DEFINE v == num * e + k
             s == num + q
  <2>1. v \in Int /\ s \in Int /\ v = e * s + r /\ e \in Nat \ {0} /\ r \in 0 .. e - 1
    BY <1>1, <1>2, <1>3
  <2> HIDE DEF v, s
  <2>2. v \div e = s
    BY <2>1, Facts!DivisionUnique
  <2>3. QED
    BY <2>2 DEF v, s
<1>5. QED
  BY <1>4 DEF q

(* A number below a product has its quotient and its rest. *)
LEMMA QuotientBelow ==
  ASSUME NEW e \in Positive, NEW g \in Nat, NEW k \in Int, 0 <= k, k < g * e
  PROVE  k \div e \in 0 .. g - 1 /\ k % e \in 0 .. e - 1 /\ k = (k \div e) * e + (k % e)
<1>1. k \div e \in Int /\ k % e \in 0 .. e - 1 /\ k = e * (k \div e) + (k % e) /\ e \in Nat \ {0}
  BY Facts!Division DEF Positive
<1> DEFINE q == k \div e
           r == k % e
<1> HIDE DEF q, r
<1>2. q \in Int /\ r \in 0 .. e - 1 /\ k = e * q + r /\ e * q = q * e
  BY <1>1 DEF q, r
<1>3. CASE q >= g
  <2>1. g * e <= q * e
    BY <1>1, <1>2, <1>3, ProductGrows
  <2>2. QED
    BY <1>1, <1>2, <2>1
<1>4. CASE q < 0
  <2>1. q * e <= (-1) * e
    BY <1>1, <1>2, <1>4, ProductGrows
  <2>2. QED
    BY <1>1, <1>2, <2>1
<1>5. QED
  BY <1>1, <1>2, <1>3, <1>4 DEF q, r

(* What is known of every component: its row groups make up iMCUs, and an  *)
(* upsampled row group is one of the image.                                *)
ComponentOK(ci) ==
  /\ rgroup(ci) \in Positive /\ Expand(ci) \in Positive /\ maxv = rgroup(ci) * Expand(ci)
  /\ iMCUheight(ci) = rgroup(ci) * M /\ display.comp[ci].D \in Positive
ComponentsOK == 1 \in OutComps /\ \A ci \in OutComps : ComponentOK(ci)

(* What is assumed of every display says so of the components of the one   *)
(* at hand.                                                                *)
LEMMA TheComponents ==
  ASSUME display \in Displays
  PROVE  ComponentsOK
<1>1. /\ display.comp # <<>> /\ display.comp \in Seq([v : Positive, D : Positive, fancy : BOOLEAN])
      /\ M \in Positive /\ maxv \in Positive
      /\ \A ci \in OutComps : /\ iMCUheight(ci) = rgroup(ci) * M
                              /\ maxv = rgroup(ci) * Expand(ci)
  BY DisplayAssumption DEF M, maxv, rgroup, iMCUheight, Expand, OutComps
<1>2. 1 \in OutComps
  BY <1>1 DEF OutComps
<1>3. ASSUME NEW ci \in OutComps PROVE ComponentOK(ci)
  <2>1. display.comp[ci].v \in Positive /\ display.comp[ci].D \in Positive
    <3>1. ASSUME NEW T, NEW s \in Seq(T), NEW i \in DOMAIN s PROVE s[i] \in T
      BY <3>1
    <3>2. display.comp[ci] \in [v : Positive, D : Positive, fancy : BOOLEAN]
      BY <1>1, <3>1, Zenon DEF OutComps
    <3>3. QED
      BY <3>2
  <2>2. iMCUheight(ci) \in Int /\ iMCUheight(ci) > 0
    <3> DEFINE v == display.comp[ci].v
               dd == display.comp[ci].D
    <3>1. v \in Int /\ v > 0 /\ dd \in Int /\ dd > 0
      BY <2>1 DEF Positive
    <3> HIDE DEF v, dd
    <3>2. v * dd \in Int /\ (v - 1) * dd >= 0 /\ v * dd = (v - 1) * dd + dd
      BY <3>1
    <3>3. v * dd > 0
      BY <3>1, <3>2
    <3>4. QED
      BY <3>2, <3>3 DEF iMCUheight, v, dd
  <2> DEFINE g == rgroup(ci)
             e == Expand(ci)
             i == iMCUheight(ci)
  <2>3. g \in Int /\ i = g * M
    BY <1>1, <2>2 DEF rgroup, Positive
  <2>4. e \in Int /\ maxv = g * e
    <3> HIDE DEF e
    <3>1. maxv = g * e
      BY <1>1 DEF e
    <3>2. g \in Positive
      <4>1. M \in Int /\ M > 0 /\ i \in Int /\ i > 0
        BY <1>1, <2>2 DEF Positive
      <4> HIDE DEF g, i
      <4>2. CASE g <= 0
        <5>1. g * M <= 0 * M
          BY <2>3, <4>1, <4>2, ProductGrows
        <5>2. QED
          BY <2>3, <4>1, <5>1
      <4>3. QED
        BY <2>3, <4>2 DEF Positive
    <3>3. e \in Int
      BY <1>1, <3>2 DEF e, Expand, Positive
    <3>4. QED
      BY <3>1, <3>3
  <2> HIDE DEF g, e, i
  <2>5. g > 0
    <3>1. M \in Nat /\ M > 0
      BY <1>1 DEF Positive
    <3>2. CASE g <= 0
      <4>1. g * M <= 0 * M
        BY <2>3, <3>1, <3>2, ProductGrows
      <4>2. QED
        BY <2>2, <2>3, <3>1, <4>1 DEF i
    <3>3. QED
      BY <2>3, <3>2
  <2>6. e > 0
    <3>1. CASE e <= 0
      <4>1. e * g <= 0 * g
        BY <2>3, <2>4, <2>5, <3>1, ProductGrows
      <4>2. e * g = g * e /\ maxv > 0
        BY <1>1, <2>3, <2>4 DEF Positive
      <4>3. QED
        BY <2>4, <2>3, <4>1, <4>2
    <3>2. QED
      BY <2>4, <3>1
  <2>7. rgroup(ci) \in Positive /\ Expand(ci) \in Positive
    BY <2>3, <2>4, <2>5, <2>6 DEF Positive, g, e
  <2>8. QED
    BY <1>1, <2>1, <2>7 DEF ComponentOK
<1>4. QED
  BY <1>2, <1>3 DEF ComponentsOK

DisplayRight == DisplayOK /\ ComponentsOK

(* The numbers of a display and of its components. *)
LEMMA DisplayNumbers ==
  ASSUME DisplayRight
  PROVE  /\ H \in Int /\ H > 0 /\ M \in Int /\ M > 0 /\ maxv \in Int /\ maxv > 0
         /\ maxv \in Positive /\ M \in Positive
         /\ \A ci \in OutComps : /\ rgroup(ci) \in Int /\ rgroup(ci) > 0 /\ Expand(ci) \in Int /\ Expand(ci) > 0
                                 /\ rgroup(ci) \in Positive /\ Expand(ci) \in Positive
                                 /\ maxv = rgroup(ci) * Expand(ci) /\ iMCUheight(ci) = rgroup(ci) * M
                                 /\ rgroup(ci) * M \in Int /\ rgroup(ci) * M >= rgroup(ci)
<1>1. /\ H \in Int /\ H > 0 /\ M \in Int /\ M > 0 /\ maxv \in Int /\ maxv > 0
      /\ maxv \in Positive /\ M \in Positive
  BY DEF DisplayRight, DisplayOK, Positive
<1>2. ASSUME NEW ci \in OutComps
      PROVE  /\ rgroup(ci) \in Int /\ rgroup(ci) > 0 /\ Expand(ci) \in Int /\ Expand(ci) > 0
             /\ rgroup(ci) \in Positive /\ Expand(ci) \in Positive
             /\ maxv = rgroup(ci) * Expand(ci) /\ iMCUheight(ci) = rgroup(ci) * M
             /\ rgroup(ci) * M \in Int /\ rgroup(ci) * M >= rgroup(ci)
  <2>1. ComponentOK(ci)
    BY DEF DisplayRight, ComponentsOK
  <2>2. rgroup(ci) \in Int /\ rgroup(ci) > 0 /\ Expand(ci) \in Int /\ Expand(ci) > 0
    BY <2>1 DEF ComponentOK, Positive
  <2> DEFINE g == rgroup(ci)
  <2>3. g \in Int /\ g > 0
    BY <2>2
  <2> HIDE DEF g
  <2>4. 1 * g <= M * g /\ M * g = g * M /\ g * M \in Int
    BY <1>1, <2>3, ProductGrows
  <2>5. g * M >= g
    BY <2>3, <2>4
  <2>6. QED
    BY <2>1, <2>2, <2>4, <2>5 DEF ComponentOK, g
<1>3. QED
  BY <1>1, <1>2

(* Rows of a component, and iMCUs, as far as the image goes.               *)
LEMMA RowsOfBelow ==
  ASSUME DisplayRight, NEW ci \in OutComps, NEW num \in Int
  PROVE  RowsOf(ci) \in Int /\ num * Expand(ci) \in Int /\ (num < RowsOf(ci) <=> num * Expand(ci) < H)
<1> DEFINE g == rgroup(ci)
           e == Expand(ci)
           h == H
           v == maxv
<1>1. g \in Int /\ g > 0 /\ e \in Int /\ e > 0 /\ v = g * e /\ h \in Int /\ v \in Positive
  BY DisplayNumbers
<1>2. RowsOf(ci) = jdiv_round_up(h * g, v)
  BY DEF RowsOf
<1> HIDE DEF g, e, h, v
<1>3. h * g \in Int /\ num * e \in Int
  BY <1>1
<1>4. RowsOf(ci) \in Int /\ (num < RowsOf(ci) <=> num * v < h * g)
  BY <1>1, <1>2, <1>3, BelowQuotient
<1> DEFINE xe == num * e
<1>5. num * v = xe * g /\ xe \in Int
  BY <1>1
<1> HIDE DEF xe
<1>6. xe * g \in Int
  BY <1>1, <1>5
<1>7. ASSUME xe < h PROVE xe * g < h * g
  <2>1. (xe + 1) * g <= h * g
    BY <1>1, <1>5, <1>7, ProductGrows
  <2>2. (xe + 1) * g = xe * g + g
    BY <1>1, <1>5
  <2>3. QED
    BY <1>1, <1>3, <1>6, <2>1, <2>2
<1>8. ASSUME h <= xe PROVE h * g <= xe * g
  BY <1>1, <1>5, <1>8, ProductGrows
<1>9. xe < h <=> xe * g < h * g
  BY <1>1, <1>3, <1>5, <1>6, <1>7, <1>8
<1>10. QED
  BY <1>3, <1>4, <1>5, <1>9 DEF xe, e, h

(* A row of iMCUs is in the image if its first row is. *)
LEMMA iMCUsBelow ==
  ASSUME DisplayRight
  PROVE  /\ iMCURows \in Int /\ iMCURows >= 1
         /\ \A n \in Int : n < iMCURows <=> (n * M) * maxv < H
<1> DEFINE m == M
           v == maxv
           vm == maxv * M
           h == H
<1>1. m \in Int /\ m > 0 /\ v \in Int /\ v > 0 /\ h \in Int /\ h > 0 /\ vm = v * m
  BY DisplayNumbers
<1>2. iMCURows = jdiv_round_up(h, vm)
  BY DEF iMCURows
<1> HIDE DEF m, v, vm, h
<1>3. vm \in Positive
  <2>1. 1 * m <= v * m /\ v * m \in Int
    BY <1>1, ProductGrows
  <2>2. QED
    BY <1>1, <2>1 DEF Positive
<1>4. ASSUME NEW n \in Int
      PROVE  iMCURows \in Int /\ (n < iMCURows <=> (n * m) * v < h)
  <2>1. iMCURows \in Int /\ (n < iMCURows <=> n * vm < h)
    BY <1>1, <1>2, <1>3, BelowQuotient
  <2>2. n * vm = (n * m) * v
    BY <1>1
  <2>3. QED
    BY <2>1, <2>2
<1>5. iMCURows \in Int /\ 0 < iMCURows
  <2>1. (0 * m) * v = 0
    BY <1>1
  <2>2. iMCURows \in Int /\ (0 < iMCURows <=> (0 * m) * v < h)
    BY <1>4
  <2>3. QED
    BY <1>1, <2>1, <2>2
<1>6. QED
  BY <1>4, <1>5 DEF m, v, h

(* The last iMCU of a component.                                           *)
LEMMA LastRows ==
  ASSUME DisplayRight, NEW ci \in OutComps
  PROVE  /\ rows_left(ci) \in 1 .. rgroup(ci) * M
         /\ (iMCURows - 1) * (rgroup(ci) * M) \in Int
         /\ RowsOf(ci) = (iMCURows - 1) * (rgroup(ci) * M) + rows_left(ci)
<1> DEFINE g == rgroup(ci)
           e == Expand(ci)
           m == M
           v == maxv
           n == iMCURows
           gm == rgroup(ci) * M
           r == RowsOf(ci)
<1>1. /\ g \in Int /\ g > 0 /\ e \in Int /\ e > 0 /\ v = g * e /\ m \in Int /\ m > 0 /\ gm = g * m
      /\ gm \in Int /\ gm >= g /\ H \in Int
  BY DisplayNumbers
<1>2. n \in Int /\ n >= 1 /\ ((n - 1) * m) * v < H /\ ~((n * m) * v < H)
  <2>1. n \in Int /\ n >= 1 /\ n - 1 < n /\ n - 1 \in Int
    BY iMCUsBelow
  <2>2. QED
    BY <2>1, iMCUsBelow
<1>3. \A num \in Int : r \in Int /\ (num < r <=> num * e < H)
  BY RowsOfBelow
<1>4. rows_left(ci) = LeftOver(r, gm)
  BY DisplayNumbers DEF rows_left
<1> HIDE DEF g, e, m, v, n, gm, r
<1>5. (n - 1) * gm \in Int /\ n * gm \in Int /\ n * gm = (n - 1) * gm + gm
  BY <1>1, <1>2
<1>6. ((n - 1) * gm) * e = ((n - 1) * m) * v /\ (n * gm) * e = (n * m) * v
  <2>1. \A k \in Int : (k * (g * m)) * e = (k * m) * (g * e)
    BY <1>1
  <2>2. QED
    BY <1>1, <1>2, <2>1
<1>7. (n - 1) * gm < r /\ r <= (n - 1) * gm + gm
  BY <1>2, <1>3, <1>5, <1>6
<1> DEFINE b == (n - 1) * gm
           k == r - b
<1>8. k \in 1 .. gm /\ r = b + k /\ b \in Int
  BY <1>1, <1>3, <1>5, <1>7
<1>9. LeftOver(r, gm) = k
  <2>1. gm \in Nat \ {0} /\ r \in Int /\ b = gm * (n - 1) /\ n - 1 \in Int
    BY <1>1, <1>2, <1>3
  <2> HIDE DEF b, k
  <2>2. CASE k = gm
    <3> DEFINE j == n - 1 + 1
    <3>1. r = gm * j + 0 /\ j \in Int /\ 0 \in 0 .. gm - 1
      <4>1. gm * j = gm * (n - 1) + gm
        BY <1>1, <1>2
      <4>2. QED
        BY <1>1, <1>2, <1>8, <2>1, <2>2, <4>1
    <3> HIDE DEF j
    <3>2. r % gm = 0
      BY <2>1, <3>1, Facts!DivisionUnique
    <3>3. QED
      BY <2>2, <3>2 DEF LeftOver
  <2>3. CASE k < gm
    <3> DEFINE j == n - 1
    <3>1. r = gm * j + k /\ j \in Int /\ k \in 0 .. gm - 1
      BY <1>1, <1>8, <2>1, <2>3
    <3> HIDE DEF j
    <3>2. r % gm = k
      BY <2>1, <3>1, Facts!DivisionUnique
    <3>3. QED
      BY <1>8, <3>2 DEF LeftOver
  <2>4. QED
    BY <1>1, <1>8, <2>2, <2>3
<1>10. QED
  BY <1>4, <1>5, <1>8, <1>9 DEF b, gm, n, r, g, m

(* The blocks of a component hold all its rows. *)
LEMMA RowsPadded ==
  ASSUME DisplayRight, NEW ci \in OutComps
  PROVE  RowsOf(ci) \in Int /\ RowsInBlocks(ci) \in Int /\ RowsOf(ci) <= RowsInBlocks(ci)
<1> DEFINE a == RowsOf(ci)
           e == display.comp[ci].D
           q == jdiv_round_up(a, e)
<1>1. a \in Int
  BY RowsOfBelow
<1>2. e \in Positive
  BY DEF DisplayRight, ComponentsOK, ComponentOK
<1>3. RowsInBlocks(ci) = q * e
  BY DEF RowsInBlocks, jround_up
<1> HIDE DEF a, e
<1>4. q \in Int
  BY <1>1, <1>2, BelowQuotient
<1> HIDE DEF q
<1>5. ~(q * e < a)
  BY <1>1, <1>2, <1>4, BelowQuotient DEF q
<1>6. QED
  BY <1>1, <1>2, <1>3, <1>4, <1>5 DEF a, Positive

(* Every row of iMCUs of the image has a row of every component. *)
LEMMA FirstOfMCU ==
  ASSUME DisplayRight, NEW ci \in OutComps, NEW b \in Int, b < iMCURows
  PROVE  b * (rgroup(ci) * M) \in Int /\ b * (rgroup(ci) * M) < RowsOf(ci)
<1> DEFINE g == rgroup(ci)
           e == Expand(ci)
           m == M
           v == maxv
           num == b * (g * m)
<1>1. g \in Int /\ e \in Int /\ v = g * e /\ m \in Int /\ (b * m) * v < H
  BY DisplayNumbers, iMCUsBelow
<1> HIDE DEF g, e, m, v
<1>2. num \in Int /\ num * e = (b * m) * v
  <2>1. (b * (g * m)) * e = (b * m) * (g * e)
    BY <1>1
  <2>2. QED
    BY <1>1, <2>1
<1> HIDE DEF num
<1>3. num < RowsOf(ci)
  BY <1>1, <1>2, RowsOfBelow DEF e
<1>4. QED
  BY <1>2, <1>3 DEF num, g, m

(* Row k of row group g of the image.                                      *)
LEMMA RowOfGroup ==
  ASSUME DisplayRight, NEW ci \in OutComps, NEW g \in Int, NEW k \in 0 .. maxv - 1
  PROVE  /\ k \div Expand(ci) \in 0 .. rgroup(ci) - 1
         /\ g * rgroup(ci) \in Int
         /\ (g * maxv + k) \div Expand(ci) = g * rgroup(ci) + k \div Expand(ci)
         /\ g * maxv + k < H => g * rgroup(ci) + k \div Expand(ci) < RowsOf(ci)
         /\ Expand(ci) = 2 => (g * maxv + k) % 2 = k % 2
         /\ Expand(ci) = 1 => k \div Expand(ci) = k
<1> DEFINE r == rgroup(ci)
           e == Expand(ci)
           v == maxv
           num == g * r
           q == k \div e
           s == k % e
<1>1. r \in Int /\ r > 0 /\ e \in Int /\ e > 0 /\ e \in Positive /\ v = r * e /\ v \in Int /\ H \in Int
  BY DisplayNumbers
<1> HIDE DEF r, e, v
<1>2. num \in Int /\ g * v = num * e /\ num * e \in Int
  BY <1>1
<1> HIDE DEF num
<1>3. q \in 0 .. r - 1 /\ s \in 0 .. e - 1 /\ k = q * e + s
  <2>1. k \in Int /\ 0 <= k /\ k < r * e /\ r \in Nat
    BY <1>1 DEF v
  <2>2. QED
    BY <1>1, <2>1, QuotientBelow
<1>4. (num * e + k) \div e = num + q
  <2>1. k \in Int
    BY <1>1 DEF v
  <2>2. QED
    BY <1>1, <1>2, <2>1, ShiftedQuotient
<1>5. g * v + k < H => num + q < RowsOf(ci)
  <2> HIDE DEF q, s
  <2>1. (num + q) * e = num * e + q * e /\ num + q \in Int /\ q * e \in Int
    BY <1>1, <1>2, <1>3
  <2>2. g * v + k < H => (num + q) * e < H
    BY <1>1, <1>2, <1>3, <2>1
  <2>3. QED
    BY <2>1, <2>2, RowsOfBelow DEF e
<1>6. e = 2 => (g * v + k) % 2 = k % 2
  <2>1. g * v = num * e /\ k \in Int
    BY <1>1, <1>2 DEF v
  <2>2. (num * 2 + k) % 2 = k % 2
    BY <1>2, <2>1
  <2>3. QED
    BY <2>1, <2>2
<1>7. e = 1 => q = k
  <2>1. k \in Int
    BY <1>1 DEF v
  <2>2. k \div 1 = k
    BY <2>1
  <2>3. QED
    BY <2>2 DEF q
<1>8. QED
  BY <1>2, <1>3, <1>4, <1>5, <1>6, <1>7 DEF r, e, v, num, q

(* The row groups of the last iMCU, as set_bottom_pointers counts them.    *)
LastGroups == (rows_left(1) - 1) \div rgroup(1) + 1

(* The bottom row of iMCUs has a row group, at most M, and ends below the  *)
(* image.                                                                  *)
LEMMA GroupsLeft ==
  ASSUME DisplayRight
  PROVE  LastGroups \in 1 .. M /\ ~(((iMCURows - 1) * M + LastGroups) * maxv < H)
<1> DEFINE r == rgroup(1)
           e == Expand(1)
           m == M
           v == maxv
           n == iMCURows - 1
           left == rows_left(1)
           k == left - 1
           q == k \div r
           s == k % r
           rm == r * m
<1>0. 1 \in OutComps
  BY DEF DisplayRight, ComponentsOK
<1>1. /\ r \in Int /\ r > 0 /\ r \in Positive /\ e \in Int /\ e > 0 /\ v = r * e /\ v \in Int
      /\ m \in Int /\ m > 0 /\ n \in Int /\ H \in Int /\ rm \in Int
  BY <1>0, DisplayNumbers, iMCUsBelow
<1>2. left \in 1 .. rm /\ n * rm \in Int /\ RowsOf(1) = n * rm + left
  BY <1>0, LastRows
<1> HIDE DEF r, e, m, v, n, left
<1>3. q \in 0 .. m - 1 /\ s \in 0 .. r - 1 /\ k = q * r + s
  <2>1. k \in Int /\ 0 <= k /\ k < m * r /\ m \in Nat /\ m * r = rm
    BY <1>1, <1>2
  <2> HIDE DEF k, rm
  <2>2. QED
    BY <1>1, <2>1, QuotientBelow
<1> HIDE DEF q, s
<1> DEFINE num == (n * m + (q + 1)) * r
<1>4. num \in Int /\ ~(num < RowsOf(1))
  <2>1. n * m \in Int /\ (n * m) * r = n * rm /\ q * r \in Int
    BY <1>1, <1>3
  <2>2. num = (n * m) * r + q * r + r
    <3> DEFINE w == n * m
    <3>1. w \in Int /\ q \in Int /\ r \in Int
      BY <1>1, <1>3, <2>1
    <3> HIDE DEF w
    <3>2. (w + (q + 1)) * r = w * r + q * r + r
      BY <3>1
    <3>3. QED
      BY <3>2 DEF w
  <2>3. QED
    BY <1>1, <1>2, <1>3, <2>1, <2>2
<1>5. num * e = (n * m + (q + 1)) * v
  <2> DEFINE w == n * m + (q + 1)
  <2>1. w \in Int
    BY <1>1, <1>3
  <2> HIDE DEF w
  <2>2. (w * r) * e = w * (r * e)
    BY <1>1, <2>1
  <2>3. QED
    BY <1>1, <2>2 DEF w
<1> HIDE DEF num
<1>6. ~(num * e < H)
  BY <1>0, <1>4, RowsOfBelow DEF e
<1>7. LastGroups = q + 1
  BY DEF LastGroups, q, k, r, left
<1>8. ~((n * m + LastGroups) * v < H)
  BY <1>5, <1>6, <1>7, Zenon
<1>9. LastGroups \in 1 .. m
  BY <1>1, <1>3, <1>7
<1>10. QED
  BY <1>8, <1>9 DEF m, v, n

(* The two lists: where a row of the workspace is when list l is in use.   *)
List(l, ci) == IF l = 0 THEN FirstList(ci) ELSE SecondList(ci)
Around(ci) == rgroup(ci) * M + 2 * rgroup(ci)

(* The workspace with context is two row groups longer than a row of       *)
(* iMCUs, and only separate upsampling of at least two row groups asks     *)
(* for it.                                                                 *)
LEMMA Workspaces ==
  ASSUME DisplayRight, NEW ci \in OutComps
  PROVE  /\ rgroup(ci) * (M + 2) = Around(ci) /\ rgroup(ci) * (M + 3) = Around(ci) + rgroup(ci)
         /\ rgroup(ci) * (M - 2) = rgroup(ci) * M - 2 * rgroup(ci) /\ Around(ci) \in Int
         /\ FunnyRange(ci) = -rgroup(ci) .. Around(ci) + rgroup(ci) - 1
         /\ need_context_rows => /\ display.up = "sep" /\ M >= 2 /\ Workspace(ci) = Around(ci)
                                 /\ rgroup(ci) * M - 2 * rgroup(ci) >= 0
<1> DEFINE g == rgroup(ci)
           m == M
<1>1. g \in Int /\ g > 0 /\ m \in Int /\ m > 0
  BY DisplayNumbers
<1>2. need_context_rows => display.up = "sep" /\ m >= 2
  BY <1>1 DEF need_context_rows, h2v2_fancy
<1>3. Workspace(ci) = IF need_context_rows THEN g * (m + 2) ELSE g * m
  BY DEF Workspace
<1>4. FunnyRange(ci) = -g .. (g * (m + 3) - 1) /\ Around(ci) = g * m + 2 * g
  BY DEF FunnyRange, Around
<1> HIDE DEF g, m
<1>5. g * m \in Int /\ g * (m + 2) = g * m + 2 * g /\ g * (m + 3) = g * m + 3 * g
      /\ g * (m - 2) = g * m - 2 * g
  BY <1>1
<1>6. m >= 2 => g * m - 2 * g >= 0
  <2>1. m >= 2 => 2 * g <= m * g /\ m * g = g * m
    BY <1>1, ProductGrows
  <2>2. QED
    BY <1>1, <1>5, <2>1
<1>7. /\ g * (m + 2) = Around(ci) /\ g * (m + 3) = Around(ci) + g /\ g * (m - 2) = g * m - 2 * g
      /\ Around(ci) \in Int
  BY <1>1, <1>4, <1>5
<1>8. FunnyRange(ci) = -g .. Around(ci) + g - 1
  <2>1. FunnyRange(ci) = -g .. (Around(ci) + g) - 1
    BY <1>4, <1>7, Zenon
  <2>2. QED
    BY <1>1, <1>7, <2>1
<1>9. need_context_rows => Workspace(ci) = Around(ci)
  BY <1>3, <1>7, Zenon
<1>10. QED
  BY <1>2, <1>6, <1>7, <1>8, <1>9, Zenon DEF g, m

(* What the two lists of make_funny_pointers point to: their ends are      *)
(* exchanged.                                                              *)
LEMMA Lists ==
  ASSUME DisplayRight, need_context_rows, NEW ci \in OutComps, NEW l \in 0 .. 1
  PROVE  LET gm == rgroup(ci) * M IN
         /\ DOMAIN List(l, ci) = FunnyRange(ci)
         /\ \A i \in 0 .. Around(ci) - 1 :
              List(l, ci)[i] = IF l = 1 /\ i >= gm - 2 * rgroup(ci)
                               THEN IF i < gm THEN i + 2 * rgroup(ci) ELSE i - 2 * rgroup(ci)
                               ELSE i
<1> DEFINE g == rgroup(ci)
           gm == rgroup(ci) * M
           w == Around(ci)
<1>1. /\ g \in Int /\ g > 0 /\ gm \in Int /\ w = gm + 2 * g /\ gm - 2 * g >= 0
      /\ FunnyRange(ci) = -g .. w + g - 1
      /\ g * (M + 2) = w /\ g * (M - 2) = gm - 2 * g
  BY DisplayNumbers, Workspaces DEF Around
<1>2. FirstList(ci) = [i \in FunnyRange(ci) |-> IF i < 0 THEN 0 ELSE IF i < w THEN i ELSE None]
  BY <1>1 DEF FirstList
<1>3. SecondList(ci) =
        [i \in FunnyRange(ci) |->
            IF i \in gm - 2 * g .. gm - 1 THEN i + 2 * g
            ELSE IF i \in gm .. w - 1 THEN i - 2 * g
            ELSE IF i < 0 THEN None ELSE FirstList(ci)[i]]
  BY <1>1 DEF SecondList
<1>4. List(l, ci) = IF l = 0 THEN FirstList(ci) ELSE SecondList(ci)
  BY DEF List
<1> HIDE DEF g, gm, w
<1>5. DOMAIN List(l, ci) = FunnyRange(ci)
  BY <1>2, <1>3, <1>4
<1>6. ASSUME NEW i \in 0 .. w - 1
      PROVE  List(l, ci)[i] = IF l = 1 /\ i >= gm - 2 * g THEN IF i < gm THEN i + 2 * g ELSE i - 2 * g ELSE i
  <2>1. i \in FunnyRange(ci) /\ FirstList(ci)[i] = i
    BY <1>1, <1>2
  <2>2. SecondList(ci)[i] = IF i \in gm - 2 * g .. gm - 1 THEN i + 2 * g
                            ELSE IF i \in gm .. w - 1 THEN i - 2 * g ELSE i
    BY <1>1, <1>3, <2>1
  <2>3. CASE l = 0
    BY <1>4, <2>1, <2>3
  <2>4. CASE l = 1
    BY <1>1, <1>4, <2>2, <2>4
  <2>5. QED
    BY <2>3, <2>4
<1>7. QED
  BY <1>5, <1>6 DEF g, gm, w

(* Each list points to every row of the workspace once, and the last two   *)
(* row groups of an iMCU row of one list lie above the next one in the     *)
(* other list.                                                             *)
LEMMA ListsApart ==
  ASSUME DisplayRight, need_context_rows, NEW ci \in OutComps, NEW l \in 0 .. 1
  PROVE  /\ \A i \in 0 .. Around(ci) - 1 : List(l, ci)[i] \in 0 .. Around(ci) - 1
         /\ \A i, j \in 0 .. Around(ci) - 1 : List(l, ci)[i] = List(l, ci)[j] => i = j
         /\ \A i \in rgroup(ci) * M .. Around(ci) - 1 :
              i - 2 * rgroup(ci) \in 0 .. rgroup(ci) * M - 1 /\ List(1 - l, ci)[i] = List(l, ci)[i - 2 * rgroup(ci)]
<1> DEFINE g == rgroup(ci)
           gm == rgroup(ci) * M
           w == Around(ci)
           F(k, i) == IF k = 1 /\ i >= gm - 2 * g THEN IF i < gm THEN i + 2 * g ELSE i - 2 * g ELSE i
<1>1. g \in Int /\ g > 0 /\ gm \in Int /\ w = gm + 2 * g /\ gm - 2 * g >= 0
  BY DisplayNumbers, Workspaces DEF Around
<1>2. \A i \in 0 .. w - 1 : List(l, ci)[i] = F(l, i)
  BY Lists
<1>3. \A i \in 0 .. w - 1 : List(1 - l, ci)[i] = F(1 - l, i)
  <2>1. 1 - l \in 0 .. 1
    OBVIOUS
  <2> DEFINE k == 1 - l
  <2> HIDE DEF k
  <2>2. k \in 0 .. 1
    BY <2>1 DEF k
  <2>3. \A i \in 0 .. w - 1 : List(k, ci)[i] = F(k, i)
    BY <2>2, Lists
  <2>4. QED
    BY <2>3 DEF k
<1> HIDE DEF g, gm, w
<1>4. \A i \in 0 .. w - 1 : F(l, i) \in 0 .. w - 1
  BY <1>1
<1>5. \A i, j \in 0 .. w - 1 : F(l, i) = F(l, j) => i = j
  BY <1>1
<1>6. \A i \in gm .. w - 1 : i \in 0 .. w - 1 /\ i - 2 * g \in 0 .. gm - 1 /\ i - 2 * g \in 0 .. w - 1
  BY <1>1
<1>7. \A i \in gm .. w - 1 : F(1 - l, i) = F(l, i - 2 * g)
  BY <1>1
<1> HIDE DEF F
<1>8. \A i \in gm .. w - 1 : List(1 - l, ci)[i] = List(l, ci)[i - 2 * g]
  BY <1>2, <1>3, <1>6, <1>7
<1>9. \A i \in 0 .. w - 1 : List(l, ci)[i] \in 0 .. w - 1
  BY <1>2, <1>4
<1>10. \A i, j \in 0 .. w - 1 : List(l, ci)[i] = List(l, ci)[j] => i = j
  BY <1>2, <1>5
<1>11. QED
  BY <1>6, <1>8, <1>9, <1>10 DEF g, gm, w

(* The pointers: list w in use, wrapped around once the first row of iMCUs *)
(* is done, with its bottom row repeated when the last one is read.        *)
Usual(edge, l, ci) == IF edge THEN Wrapped(ci, List(l, ci)) ELSE List(l, ci)
BottomRange(ci) == rows_left(ci) .. (rows_left(ci) + 2 * rgroup(ci) - 1)
Table(w, edge, bottom) ==
  [l \in 0 .. 1 |-> [ci \in OutComps |-> [i \in FunnyRange(ci) |->
      IF l = w /\ bottom /\ i \in BottomRange(ci) THEN Usual(edge, l, ci)[rows_left(ci) - 1]
      ELSE Usual(edge, l, ci)[i]]]]

(* The pointers around the workspace, before and after                     *)
(* set_wraparound_pointers.                                                *)
LEMMA UsualAt ==
  ASSUME DisplayRight, need_context_rows, NEW ci \in OutComps, NEW l \in 0 .. 1, NEW edge \in BOOLEAN
  PROVE  /\ \A i \in 0 .. Around(ci) - 1 : i \in FunnyRange(ci) /\ Usual(edge, l, ci)[i] = List(l, ci)[i]
         /\ -1 \in FunnyRange(ci) /\ Around(ci) \in FunnyRange(ci)
         /\ edge => /\ Usual(edge, l, ci)[-1] = List(l, ci)[Around(ci) - 1]
                    /\ Usual(edge, l, ci)[Around(ci)] = List(l, ci)[0]
         /\ ~edge /\ l = 0 => Usual(edge, l, ci)[-1] = 0
         /\ 0 \in 0 .. Around(ci) - 1 /\ Around(ci) - 1 \in 0 .. Around(ci) - 1
         /\ List(0, ci)[0] = 0
<1> DEFINE g == rgroup(ci)
           w == Around(ci)
           gm == rgroup(ci) * M
           list == List(l, ci)
           R == FunnyRange(ci)
<1>0. w \in Int /\ w > 0
  <2>1. w = gm + 2 * g /\ gm \in Int /\ gm >= g /\ g \in Int /\ g > 0
    BY DisplayNumbers DEF Around
  <2> HIDE DEF w, gm, g
  <2>2. QED
    BY <2>1
<1>1. g \in Int /\ g > 0 /\ w \in Int /\ w > 0 /\ g * (M + 2) = w /\ R = -g .. w + g - 1
  <2>1. g \in Int /\ g > 0
    BY DisplayNumbers
  <2>2. g * (M + 2) = w /\ R = -g .. w + g - 1
    BY Workspaces, Zenon
  <2>3. QED
    BY <1>0, <2>1, <2>2, Zenon
<1>2. Wrapped(ci, list) = [i \in R |-> IF i < 0 THEN list[i + w] ELSE IF i >= w THEN list[i - w] ELSE list[i]]
  BY <1>1 DEF Wrapped
<1>3. List(0, ci)[0] = 0 /\ List(0, ci)[-1] = 0
  <2>1. FirstList(ci) = [i \in R |-> IF i < 0 THEN 0 ELSE IF i < w THEN i ELSE None]
    BY <1>1 DEF FirstList
  <2>2. List(0, ci) = FirstList(ci)
    BY DEF List
  <2> HIDE DEF R, g, w
  <2>3. 0 \in R /\ -1 \in R
    BY <1>1
  <2>4. QED
    BY <1>1, <2>1, <2>2, <2>3
<1> HIDE DEF g, w, list, R
<1>4. -1 \in R /\ w \in R /\ 0 \in 0 .. w - 1 /\ w - 1 \in 0 .. w - 1
  BY <1>1
<1>5. \A i \in 0 .. w - 1 : i \in R /\ Wrapped(ci, list)[i] = list[i]
  BY <1>1, <1>2
<1>6. Wrapped(ci, list)[-1] = list[w - 1] /\ Wrapped(ci, list)[w] = list[0]
  <2>1. Wrapped(ci, list)[-1] = list[-1 + w]
    BY <1>1, <1>2, <1>4
  <2>2. Wrapped(ci, list)[w] = list[w - w]
    BY <1>1, <1>2, <1>4
  <2>3. -1 + w = w - 1 /\ w - w = 0
    BY <1>1
  <2>4. QED
    BY <2>1, <2>2, <2>3
<1>7. Usual(edge, l, ci) = IF edge THEN Wrapped(ci, list) ELSE list
  BY DEF Usual, list
<1>8. ~edge /\ l = 0 => Usual(edge, l, ci)[-1] = 0
  BY <1>3, <1>7 DEF list
<1>9. /\ \A i \in 0 .. w - 1 : i \in R /\ Usual(edge, l, ci)[i] = list[i]
      /\ edge => Usual(edge, l, ci)[-1] = list[w - 1] /\ Usual(edge, l, ci)[w] = list[0]
  BY <1>5, <1>6, <1>7
<1>10. QED
  BY <1>3, <1>4, <1>8, <1>9, Zenon DEF w, list, R

(* The row i of the list in use.                                           *)
Cell(d, ci, i) == d.buffer[ci][List(d.whichptr, ci)[i]]

(* So the upsampler finds the workspace by way of the list in use, with    *)
(* what was before above it and the last row repeated below the bottom.    *)
LEMMA SampleRows ==
  ASSUME DisplayRight, need_context_rows, NEW ci \in OutComps, NEW d, d.whichptr \in 0 .. 1,
         NEW edge \in BOOLEAN, NEW bottom \in BOOLEAN, d.xbuffer = Table(d.whichptr, edge, bottom),
         edge \/ d.whichptr = 0
  PROVE  /\ \A i \in 0 .. Around(ci) - 1 : ~bottom \/ i < rows_left(ci) => SampleRow(d, ci, i) = Cell(d, ci, i)
         /\ bottom => SampleRow(d, ci, rows_left(ci)) = Cell(d, ci, rows_left(ci) - 1)
         /\ SampleRow(d, ci, -1) = Cell(d, ci, IF edge THEN Around(ci) - 1 ELSE 0)
         /\ edge /\ ~bottom => SampleRow(d, ci, Around(ci)) = Cell(d, ci, 0)
<1> DEFINE l == d.whichptr
           w == Around(ci)
           g == rgroup(ci)
           left == rows_left(ci)
           u == Usual(edge, l, ci)
           R == FunnyRange(ci)
           t == d.xbuffer[l][ci]
<1>1. /\ g \in Int /\ g > 0 /\ w \in Int /\ left \in Int /\ left >= 1 /\ left < w
      /\ left - 1 \in 0 .. w - 1 /\ left \in 0 .. w - 1
  <2>1. left \in 1 .. rgroup(ci) * M /\ w = rgroup(ci) * M + 2 * g /\ g \in Int /\ g > 0 /\ rgroup(ci) * M \in Int
    BY LastRows, DisplayNumbers DEF Around
  <2> HIDE DEF left, w
  <2>2. QED
    BY <2>1
<1>2. t = [i \in R |-> IF bottom /\ i \in left .. (left + 2 * g - 1) THEN u[left - 1] ELSE u[i]]
  <2>1. d.xbuffer[l] = [cc \in OutComps |-> [i \in FunnyRange(cc) |->
          IF l = l /\ bottom /\ i \in BottomRange(cc) THEN Usual(edge, l, cc)[rows_left(cc) - 1]
          ELSE Usual(edge, l, cc)[i]]]
    BY Zenon DEF Table
  <2>2. t = [i \in FunnyRange(ci) |->
          IF l = l /\ bottom /\ i \in BottomRange(ci) THEN Usual(edge, l, ci)[rows_left(ci) - 1]
          ELSE Usual(edge, l, ci)[i]]
    BY <2>1, Zenon
  <2>3. BottomRange(ci) = left .. (left + 2 * g - 1)
    BY DEF BottomRange
  <2>4. QED
    BY <2>2, <2>3
<1>3. /\ \A i \in 0 .. w - 1 : i \in R /\ u[i] = List(l, ci)[i] /\ List(l, ci)[i] \in 0 .. w - 1
      /\ -1 \in R /\ w \in R /\ 0 \in 0 .. w - 1 /\ w - 1 \in 0 .. w - 1
      /\ edge => u[-1] = List(l, ci)[w - 1] /\ u[w] = List(l, ci)[0]
      /\ ~edge => u[-1] = List(l, ci)[0]
  BY UsualAt, ListsApart
<1>4. ASSUME NEW i \in R, NEW j \in 0 .. w - 1, t[i] = List(l, ci)[j]
      PROVE  SampleRow(d, ci, i) = Cell(d, ci, j)
  <2>1. DOMAIN t = R
    BY <1>2, Zenon
  <2>2. Pointer(d, ci, i) = List(l, ci)[j]
    BY <1>4, <2>1, Zenon DEF Pointer
  <2>3. List(l, ci)[j] # None
    <3>1. List(l, ci)[j] \in 0 .. w - 1
      BY <1>3
    <3> HIDE DEF l
    <3>2. QED
      BY <1>1, <3>1 DEF None
  <2>4. QED
    BY <2>2, <2>3, Zenon DEF SampleRow, Cell
<1> HIDE DEF l, w, g, left, u, R, t
<1>5. ASSUME NEW i \in 0 .. w - 1, ~bottom \/ i < left
      PROVE  SampleRow(d, ci, i) = Cell(d, ci, i)
  <2>1. i \in R /\ ~(bottom /\ i \in left .. (left + 2 * g - 1))
    BY <1>1, <1>3, <1>5
  <2>2. t[i] = u[i]
    BY <1>2, <2>1, Zenon
  <2>3. t[i] = List(l, ci)[i]
    BY <1>3, <2>2
  <2>4. QED
    BY <1>4, <2>1, <2>3
<1>6. ASSUME bottom PROVE SampleRow(d, ci, left) = Cell(d, ci, left - 1)
  <2>1. left \in R /\ left \in left .. (left + 2 * g - 1)
    BY <1>1, <1>3
  <2>2. t[left] = u[left - 1]
    BY <1>2, <1>6, <2>1, Zenon
  <2>3. t[left] = List(l, ci)[left - 1]
    BY <1>1, <1>3, <2>2
  <2>4. QED
    BY <1>1, <1>4, <2>1, <2>3
<1>7. SampleRow(d, ci, -1) = Cell(d, ci, IF edge THEN w - 1 ELSE 0)
  <2>1. -1 \in R /\ ~(-1 \in left .. (left + 2 * g - 1))
    BY <1>1, <1>3
  <2>2. t[-1] = u[-1]
    BY <1>2, <2>1, Zenon
  <2>3. CASE edge
    BY <1>3, <1>4, <2>1, <2>2, <2>3
  <2>4. CASE ~edge
    BY <1>3, <1>4, <2>1, <2>2, <2>4
  <2>5. QED
    BY <2>3, <2>4
<1>8. ASSUME edge, ~bottom PROVE SampleRow(d, ci, w) = Cell(d, ci, 0)
  <2>1. t[w] = u[w]
    BY <1>2, <1>3, <1>8, Zenon
  <2>2. QED
    BY <1>3, <1>4, <1>8, <2>1
<1>9. QED
  BY <1>5, <1>6, <1>7, <1>8 DEF w, left

(* The greatest of two numbers is one of them and neither is above it. *)
LEMMA MaxOfTwo ==
  ASSUME NEW a \in Int, NEW b \in Int
  PROVE  Max({a, b}) \in {a, b} /\ a <= Max({a, b}) /\ b <= Max({a, b})
<1>1. \E m \in {a, b} : \A n \in {a, b} : m >= n
  OBVIOUS
<1>2. QED
  BY <1>1 DEF Max

(* Every component has a row. *)
LEMMA SomeRows ==
  ASSUME DisplayRight, NEW ci \in OutComps
  PROVE  RowsOf(ci) \in Int /\ RowsOf(ci) >= 1
<1>1. 0 \in Int /\ 0 * Expand(ci) = 0 /\ 0 < H
  BY DisplayNumbers
<1>2. RowsOf(ci) \in Int /\ (0 < RowsOf(ci) <=> 0 * Expand(ci) < H)
  BY <1>1, RowsOfBelow
<1>3. QED
  BY <1>1, <1>2

(* The row next to a row of the image: itself at the top and at the bottom. *)
LEMMA Clamped ==
  ASSUME DisplayRight, NEW ci \in OutComps, NEW num \in Int
  PROVE  /\ 0 <= num /\ num < RowsOf(ci) => Clamp(ci, num) = num
         /\ num = -1 => Clamp(ci, num) = 0
         /\ num = RowsOf(ci) => Clamp(ci, num) = RowsOf(ci) - 1
<1> DEFINE r == RowsOf(ci)
           low == Min({num, r - 1})
<1>1. r \in Int /\ r >= 1
  BY SomeRows
<1>2. Clamp(ci, num) = Max({0, low})
  BY DEF Clamp
<1> HIDE DEF r
<1>3. low \in {num, r - 1} /\ low <= num /\ low <= r - 1
  <2>1. r - 1 \in Int
    BY <1>1
  <2>2. QED
    BY <2>1, MinOfTwo, Zenon
<1> HIDE DEF low
<1>4. low \in Int
  BY <1>1, <1>3
<1>5. Max({0, low}) \in {0, low} /\ 0 <= Max({0, low}) /\ low <= Max({0, low})
  <2>1. 0 \in Int
    OBVIOUS
  <2>2. QED
    BY <1>4, <2>1, MaxOfTwo, Zenon
<1> DEFINE high == Max({0, low})
<1> HIDE DEF high
<1>6. high \in {0, low} /\ 0 <= high /\ low <= high
  BY <1>5 DEF high
<1>7. /\ 0 <= num /\ num < r => high = num
      /\ num = -1 => high = 0
      /\ num = r => high = r - 1
  BY <1>1, <1>3, <1>4, <1>6
<1>8. QED
  BY <1>2, <1>7 DEF r, high

(* The main controller: the rows of iMCUs before the one whose data are in *)
(* the list in use, or will be, and the row group that comes next.         *)
Behind(d) == IF d.buffer_full THEN d.iMCU_row_ctr - 1 ELSE d.iMCU_row_ctr
Group(d) == IF need_context_rows /\ d.context_state = "prepare" THEN 0
            ELSE IF need_context_rows /\ d.context_state = "postponed" THEN d.rowgroup_ctr - (M + 2)
            ELSE d.rowgroup_ctr
NextGroup(d) == Behind(d) * M + Group(d)

HasGroup(d) ==
  /\ d.buffer_full
  /\ IF need_context_rows THEN d.context_state # "prepare" /\ d.rowgroup_ctr < d.rowgroups_avail
     ELSE d.rowgroup_ctr < M

SimpleMain(d) ==
  /\ d.rowgroup_ctr \in 0 .. M
  /\ IF d.buffer_full THEN d.iMCU_row_ctr >= 1 ELSE d.rowgroup_ctr = 0
Process(d) ==
  /\ d.context_state = "process" /\ d.buffer_full /\ d.iMCU_row_ctr >= 1
  /\ d.rowgroups_avail = IF d.iMCU_row_ctr < iMCURows THEN M - 1 ELSE LastGroups
  /\ d.rowgroup_ctr \in 0 .. d.rowgroups_avail
Postponed(d) ==
  /\ d.context_state = "postponed" /\ d.rowgroups_avail = M + 2
  /\ d.rowgroup_ctr \in {M + 1, M + 2}
  /\ IF d.buffer_full THEN d.iMCU_row_ctr >= 2
     ELSE d.iMCU_row_ctr \in 1 .. iMCURows - 1 /\ d.rowgroup_ctr = M + 1
Prepare(d) ==
  /\ d.context_state = "prepare"
  /\ IF d.buffer_full THEN d.iMCU_row_ctr >= 1 ELSE d.iMCU_row_ctr = 0
ContextMain(d) == Process(d) \/ Postponed(d) \/ Prepare(d)

Edge(d) == d.iMCU_row_ctr >= 2 \/ d.context_state = "postponed"
Bottom(d) == d.context_state = "process" /\ d.iMCU_row_ctr = iMCURows
PointersRight(d) ==
  /\ d.whichptr \in 0 .. 1 /\ (Edge(d) \/ d.whichptr = 0)
  /\ d.xbuffer = Table(d.whichptr, Edge(d), Bottom(d))

(* The workspace holds the iMCUs in hand, and above them the end of those  *)
(* before.                                                                 *)
CellsRight(d) ==
  \A ci \in OutComps :
    LET before == Behind(d) * (rgroup(ci) * M)
    IN  /\ d.buffer_full => \A i \in 0 .. rgroup(ci) * M - 1 :
             before + i < RowsInBlocks(ci) => Cell(d, ci, i) = before + i
        /\ Behind(d) >= 1 => \A i \in rgroup(ci) * M .. Around(ci) - 1 :
             Cell(d, ci, i) = before + i - Around(ci)

PlainRight(d) ==
  /\ d.xbuffer = PlainPointers /\ d.whichptr = 0
  /\ d.buffer_full => \A ci \in OutComps : \A i \in 0 .. rgroup(ci) * M - 1 :
       Behind(d) * (rgroup(ci) * M) + i < RowsInBlocks(ci)
         => d.buffer[ci][i] = Behind(d) * (rgroup(ci) * M) + i

Workspaced(d) == \A ci \in OutComps : DOMAIN d.buffer[ci] = 0 .. Workspace(ci) - 1

Main(d) ==
  /\ d.output_iMCU_row = d.iMCU_row_ctr /\ d.iMCU_row_ctr \in 0 .. iMCURows /\ d.buffer_full \in BOOLEAN
  /\ Workspaced(d)
  /\ IF need_context_rows THEN ContextMain(d) /\ PointersRight(d) /\ CellsRight(d)
     ELSE SimpleMain(d) /\ PlainRight(d)

(* The upsampler finds the rows of the next row group, and for context the *)
(* rows around it.                                                         *)
Finds(d, ci, j) ==
  SampleRow(d, ci, d.rowgroup_ctr * rgroup(ci) + j) = Clamp(ci, NextGroup(d) * rgroup(ci) + j)
GroupRight(d) ==
  \A ci \in OutComps : \A j \in -1 .. rgroup(ci) :
    /\ NextGroup(d) * rgroup(ci) + j <= RowsOf(ci)
    /\ need_context_rows \/ (0 <= j /\ j < rgroup(ci) /\ NextGroup(d) * rgroup(ci) + j < RowsOf(ci))
    => Finds(d, ci, j)

(* Row groups of a row of iMCUs, as rows of a component. *)
LEMMA RowOfWorkspace ==
  ASSUME DisplayRight, NEW ci \in OutComps, NEW b \in Int, NEW r \in Int
  PROVE  /\ b * (rgroup(ci) * M) \in Int /\ r * rgroup(ci) \in Int
         /\ (b * M + r) * rgroup(ci) = b * (rgroup(ci) * M) + r * rgroup(ci)
         /\ (M + 2) * rgroup(ci) = Around(ci)
         /\ \A k \in Int : 0 <= r /\ r < k
              => 0 <= r * rgroup(ci) /\ k * rgroup(ci) \in Int /\ r * rgroup(ci) + rgroup(ci) <= k * rgroup(ci)
<1> DEFINE g == rgroup(ci)
           m == M
<1>1. g \in Int /\ g > 0 /\ m \in Int /\ Around(ci) = g * m + 2 * g
  BY DisplayNumbers DEF Around
<1> HIDE DEF g, m
<1>2. b * (g * m) \in Int /\ r * g \in Int
  BY <1>1
<1>3. (b * m + r) * g = b * (g * m) + r * g
  <2>1. b * m \in Int /\ (b * m) * g = b * (g * m)
    BY <1>1
  <2> DEFINE num == b * m
  <2> HIDE DEF num
  <2>2. num \in Int
    BY <2>1 DEF num
  <2>3. (num + r) * g = num * g + r * g
    BY <1>1, <2>2
  <2>4. QED
    BY <2>1, <2>3 DEF num
<1>4. (m + 2) * g = Around(ci)
  BY <1>1
<1>5. ASSUME NEW k \in Int, 0 <= r, r < k
      PROVE  0 <= r * g /\ k * g \in Int /\ r * g + g <= k * g
  <2>1. 0 * g <= r * g
    BY <1>1, <1>5, ProductGrows
  <2>2. (r + 1) * g <= k * g
    BY <1>1, <1>5, ProductGrows
  <2>3. (r + 1) * g = r * g + g /\ 0 * g = 0 /\ k * g \in Int
    BY <1>1
  <2>4. QED
    BY <1>2, <2>1, <2>2, <2>3
<1>6. QED
  BY <1>2, <1>3, <1>4, <1>5 DEF g, m

(* Without context rows the workspace is one row of iMCUs.                 *)
LEMMA PlainSample ==
  ASSUME DisplayRight, ~need_context_rows, NEW d, d.xbuffer = PlainPointers, d.whichptr = 0,
         NEW ci \in OutComps, NEW i \in 0 .. rgroup(ci) * M - 1
  PROVE  SampleRow(d, ci, i) = d.buffer[ci][i]
<1>1. d.xbuffer[d.whichptr][ci] = [k \in 0 .. (rgroup(ci) * M - 1) |-> k]
  BY DEF PlainPointers
<1>2. Pointer(d, ci, i) = i
  <2> DEFINE R == 0 .. (rgroup(ci) * M - 1)
  <2> HIDE DEF R
  <2>1. i \in R /\ d.xbuffer[d.whichptr][ci] = [k \in R |-> k]
    BY <1>1 DEF R
  <2>2. QED
    BY <2>1, Zenon DEF Pointer
<1>3. i # None
  BY DEF None
<1>4. QED
  BY <1>2, <1>3, Zenon DEF SampleRow

(* Without context the next row group is found in the workspace. *)
LEMMA GroupOfPlain ==
  ASSUME DisplayRight, ~need_context_rows, NEW d, Main(d), HasGroup(d)
  PROVE  GroupRight(d)
<1> SUFFICES ASSUME NEW ci \in OutComps, NEW j \in -1 .. rgroup(ci), 0 <= j, j < rgroup(ci),
                    NextGroup(d) * rgroup(ci) + j < RowsOf(ci)
             PROVE  Finds(d, ci, j)
  BY DEF GroupRight
<1> DEFINE g == rgroup(ci)
           gm == rgroup(ci) * M
           r == d.rowgroup_ctr
           b == Behind(d)
           i == r * g + j
           rg == r * g
           before == b * gm
<1>1. /\ d.buffer_full /\ r \in 0 .. M - 1 /\ d.iMCU_row_ctr \in 1 .. iMCURows /\ M \in Int
      /\ d.xbuffer = PlainPointers /\ d.whichptr = 0
      /\ \A k \in 0 .. gm - 1 : before + k < RowsInBlocks(ci) => d.buffer[ci][k] = before + k
  BY DisplayNumbers, iMCUsBelow DEF Main, HasGroup, SimpleMain, PlainRight
<1>2. b \in Int /\ b >= 0 /\ NextGroup(d) = b * M + r
  BY <1>1, DisplayNumbers, iMCUsBelow DEF Behind, NextGroup, Group
<1>3. r \in Int /\ g \in Int /\ g > 0 /\ M * g = gm /\ gm \in Int
  BY <1>1, DisplayNumbers
<1>4. before \in Int /\ rg \in Int /\ NextGroup(d) * g = before + rg /\ 0 <= rg /\ rg + g <= gm
  BY <1>1, <1>2, <1>3, RowOfWorkspace
<1>5. 0 <= before
  <2>1. 0 * gm <= b * gm /\ 0 * gm = 0
    <3>1. gm \in Nat
      BY <1>3, <1>4
    <3> HIDE DEF gm, b
    <3>2. QED
      BY <1>2, <3>1, ProductGrows
  <2>2. QED
    BY <2>1
<1>6. RowsOf(ci) \in Int /\ RowsInBlocks(ci) \in Int /\ RowsOf(ci) <= RowsInBlocks(ci)
  BY RowsPadded
<1> HIDE DEF g, gm, r, b, rg, before
<1>7. i = rg + j /\ i \in 0 .. gm - 1 /\ before + i = NextGroup(d) * g + j
      /\ before + i < RowsOf(ci) /\ before + i < RowsInBlocks(ci) /\ 0 <= before + i /\ before + i \in Int
  <2>1. j \in Int /\ 0 <= j /\ j < g /\ i = rg + j
    BY <1>3 DEF g, rg
  <2>2. NextGroup(d) * g + j < RowsOf(ci)
    BY DEF g
  <2> HIDE DEF i
  <2>3. QED
    BY <1>3, <1>4, <1>5, <1>6, <2>1, <2>2
<1> HIDE DEF i
<1>8. SampleRow(d, ci, i) = d.buffer[ci][i]
  BY <1>1, <1>7, PlainSample DEF gm
<1>9. d.buffer[ci][i] = before + i
  BY <1>1, <1>7
<1>10. Clamp(ci, before + i) = before + i
  BY <1>7, Clamped
<1>11. QED
  BY <1>7, <1>8, <1>9, <1>10, Zenon DEF Finds, i, r, g

(* In the state CTX_PROCESS_IMCU the next row group and its context are    *)
(* found, at the top from the pointers before the first row, at the        *)
(* bottom from the repeated ones.                                          *)
LEMMA GroupOfProcess ==
  ASSUME DisplayRight, need_context_rows, NEW d, Main(d), HasGroup(d), Process(d)
  PROVE  GroupRight(d)
<1> SUFFICES ASSUME NEW ci \in OutComps, NEW j \in -1 .. rgroup(ci),
                    NextGroup(d) * rgroup(ci) + j <= RowsOf(ci)
             PROVE  Finds(d, ci, j)
  BY DEF GroupRight
<1> DEFINE g == rgroup(ci)
           gm == rgroup(ci) * M
           w == Around(ci)
           r == d.rowgroup_ctr
           b == Behind(d)
           i == r * g + j
           rg == r * g
           before == b * gm
           last == d.iMCU_row_ctr = iMCURows
           left == rows_left(ci)
           a == IF last THEN M ELSE M - 1
           ag == a * g
           edge == Edge(d)
<1>1. /\ d.buffer_full /\ d.iMCU_row_ctr \in 1 .. iMCURows /\ M \in Int /\ iMCURows \in Int
      /\ b = d.iMCU_row_ctr - 1 /\ NextGroup(d) = b * M + r
      /\ d.whichptr \in 0 .. 1 /\ (edge \/ d.whichptr = 0) /\ d.xbuffer = Table(d.whichptr, edge, last)
      /\ edge \in BOOLEAN /\ last \in BOOLEAN
      /\ edge = (b >= 1)
      /\ r \in Int /\ 0 <= r /\ r < d.rowgroups_avail
  <2>1. /\ d.buffer_full /\ d.iMCU_row_ctr \in 0 .. iMCURows /\ d.iMCU_row_ctr >= 1 /\ PointersRight(d)
        /\ d.context_state = "process" /\ d.rowgroup_ctr \in 0 .. d.rowgroups_avail
        /\ d.rowgroup_ctr < d.rowgroups_avail
    BY DEF Main, HasGroup, Process
  <2>2. iMCURows \in Int /\ M \in Int
    BY iMCUsBelow, DisplayNumbers
  <2>3. Bottom(d) = last /\ edge = (d.iMCU_row_ctr >= 2)
    BY <2>1 DEF Bottom, Edge
  <2>4. b = d.iMCU_row_ctr - 1 /\ NextGroup(d) = b * M + r
    BY <2>1 DEF Behind, NextGroup, Group
  <2> HIDE DEF last, edge, b
  <2>5. /\ d.whichptr \in 0 .. 1 /\ (edge \/ d.whichptr = 0) /\ d.xbuffer = Table(d.whichptr, edge, last)
    BY <2>1, <2>3 DEF PointersRight, edge
  <2>6. edge \in BOOLEAN /\ last \in BOOLEAN /\ edge = (b >= 1)
    BY <2>1, <2>2, <2>3, <2>4 DEF last
  <2>7. QED
    BY <2>1, <2>2, <2>4, <2>5, <2>6
<1>16. (edge => b >= 1) /\ (~edge => ~(b >= 1)) /\ (~last => b + 1 < iMCURows)
  <2>1. ~last => b + 1 < iMCURows
    <3>1. b = d.iMCU_row_ctr - 1 /\ d.iMCU_row_ctr \in 1 .. iMCURows /\ iMCURows \in Int
      BY <1>1, Zenon
    <3> HIDE DEF b
    <3>2. QED
      BY <3>1
  <2>2. QED
    BY <1>1, <2>1, Zenon
<1>2. a \in Int /\ r < a
  <2>1. d.rowgroups_avail = IF d.iMCU_row_ctr < iMCURows THEN M - 1 ELSE LastGroups
    BY DEF Process
  <2>2. LastGroups \in 1 .. M
    BY GroupsLeft
  <2>3. QED
    BY <1>1, <2>1, <2>2
<1>3. g \in Int /\ g > 0 /\ M * g = gm /\ gm \in Int /\ w = gm + 2 * g /\ (M - 1) * g = gm - g
  <2>1. g \in Int /\ g > 0 /\ M \in Int /\ w = g * M + 2 * g
    BY DisplayNumbers DEF Around
  <2> HIDE DEF g
  <2>2. M * g = g * M /\ g * M \in Int /\ (M - 1) * g = g * M - g
    BY <2>1
  <2>3. QED
    BY <2>1, <2>2 DEF g
<1>4. /\ before \in Int /\ rg \in Int /\ NextGroup(d) * g = before + rg /\ 0 <= rg
      /\ rg + g <= ag /\ ag = IF last THEN gm ELSE gm - g
  <2>1. b \in Int
    BY <1>1
  <2>2. before \in Int /\ rg \in Int /\ NextGroup(d) * g = before + rg /\ 0 <= rg /\ rg + g <= ag
    <3>1. before \in Int /\ rg \in Int /\ (b * M + r) * g = before + rg
      BY <1>1, <2>1, RowOfWorkspace
    <3>2. NextGroup(d) * g = before + rg
      BY <1>1, <3>1, Zenon
    <3> HIDE DEF a, b
    <3>3. 0 <= rg /\ rg + g <= ag
      BY <1>1, <1>2, <2>1, RowOfWorkspace
    <3>4. QED
      BY <3>1, <3>2, <3>3
  <2>3. ag = IF last THEN gm ELSE gm - g
    BY <1>3
  <2>4. QED
    BY <2>2, <2>3
<1>5. b >= 0 /\ 0 <= before /\ before < RowsOf(ci) /\ (b >= 1 => before >= gm)
  <2>1. b \in Int /\ b >= 0 /\ b < iMCURows
    BY <1>1
  <2>2. before < RowsOf(ci)
    BY <2>1, FirstOfMCU
  <2>3. 0 * gm <= b * gm /\ 0 * gm = 0 /\ (1 <= b => 1 * gm <= b * gm) /\ 1 * gm = gm
    <3>1. gm \in Nat
      BY <1>3, <1>4
    <3> HIDE DEF gm, b
    <3>2. QED
      BY <2>1, <3>1, ProductGrows
  <2>4. QED
    BY <2>1, <2>2, <2>3
<1>6. /\ RowsOf(ci) \in Int /\ RowsInBlocks(ci) \in Int /\ RowsOf(ci) <= RowsInBlocks(ci)
      /\ left \in 1 .. gm
      /\ last => RowsOf(ci) = before + left
  <2>1. last => b = iMCURows - 1
    BY <1>1
  <2>2. QED
    BY <2>1, RowsPadded, LastRows
<1>7. /\ \A k \in 0 .. gm - 1 : before + k < RowsInBlocks(ci) => Cell(d, ci, k) = before + k
      /\ b >= 1 => \A k \in gm .. w - 1 : Cell(d, ci, k) = before + k - w
  BY <1>1 DEF Main, CellsRight
<1>8. /\ \A k \in 0 .. w - 1 : ~last \/ k < left => SampleRow(d, ci, k) = Cell(d, ci, k)
      /\ last => SampleRow(d, ci, left) = Cell(d, ci, left - 1)
      /\ SampleRow(d, ci, -1) = Cell(d, ci, IF edge THEN w - 1 ELSE 0)
  <2> HIDE DEF edge, last
  <2>1. /\ d.whichptr \in 0 .. 1 /\ (edge \/ d.whichptr = 0) /\ d.xbuffer = Table(d.whichptr, edge, last)
        /\ edge \in BOOLEAN /\ last \in BOOLEAN
    BY <1>1, Zenon
  <2>2. QED
    BY <2>1, SampleRows, Zenon
<1>9. j \in Int /\ j >= -1 /\ j <= g
  BY <1>3
<1>10. i = rg + j /\ NextGroup(d) * g + j = before + i /\ before + i <= RowsOf(ci)
  <2>1. i = rg + j /\ NextGroup(d) * g + j <= RowsOf(ci)
    OBVIOUS
  <2> HIDE DEF i, g, rg
  <2>2. QED
    BY <1>4, <1>9, <2>1
<1> HIDE DEF g, gm, w, r, b, i, rg, before, last, left, a, ag, edge
<1>11. i \in Int /\ -1 <= i /\ i <= gm /\ (~last => i < gm)
  BY <1>3, <1>4, <1>9, <1>10
<1>12. CASE i = -1
  <2>1. CASE edge
    <3>0. b >= 1
      BY <1>16, <2>1, Zenon
    <3>1. b >= 1 /\ w - 1 \in gm .. w - 1 /\ before + i = before + (w - 1) - w
      BY <1>3, <1>4, <1>12, <3>0
    <3>2. Cell(d, ci, w - 1) = before + i
      BY <1>7, <3>1
    <3>3. before + i \in Int /\ 0 <= before + i /\ before + i < RowsOf(ci)
      BY <1>3, <1>4, <1>5, <1>6, <1>12, <3>1
    <3>4. SampleRow(d, ci, i) = before + i /\ Clamp(ci, before + i) = before + i
      BY <1>8, <1>12, <2>1, <3>2, <3>3, Clamped
    <3>5. QED
      BY <1>10, <3>4, Zenon DEF Finds, i, r, g
  <2>2. CASE ~edge
    <3>0. ~(b >= 1) /\ b >= 0 /\ b = d.iMCU_row_ctr - 1 /\ d.iMCU_row_ctr \in 1 .. iMCURows
      BY <1>1, <1>5, <1>16, <2>2, Zenon
    <3>1. b = 0
      BY <3>0
    <3>2. before = 0
      BY <1>3, <3>1 DEF before
    <3>3. 0 \in 0 .. gm - 1 /\ before + 0 < RowsInBlocks(ci) /\ before + i = -1 /\ before + 0 = 0
      BY <1>3, <1>4, <1>5, <1>6, <1>12, <3>2
    <3>4. Cell(d, ci, 0) = 0
      BY <1>7, <3>3
    <3>5. SampleRow(d, ci, i) = 0 /\ Clamp(ci, before + i) = 0
      BY <1>8, <1>12, <2>2, <3>3, <3>4, Clamped
    <3>6. QED
      BY <1>10, <3>5, Zenon DEF Finds, i, r, g
  <2>3. QED
    BY <2>1, <2>2
<1>13. CASE i >= 0 /\ ~(last /\ i = left)
  <2>1. before + i < RowsOf(ci) /\ i \in 0 .. gm - 1 /\ i \in 0 .. w - 1 /\ (~last \/ i < left)
        /\ before + i \in Int /\ 0 <= before + i /\ before + i < RowsInBlocks(ci)
    <3>1. CASE last
      BY <1>3, <1>4, <1>5, <1>6, <1>10, <1>11, <1>13, <3>1
    <3>2. CASE ~last
      <4>1. before + gm <= RowsOf(ci)
        <5>0. b + 1 < iMCURows /\ b = d.iMCU_row_ctr - 1 /\ d.iMCU_row_ctr \in 1 .. iMCURows
          BY <1>1, <1>16, <3>2, Zenon
        <5>1. b + 1 \in Int /\ b + 1 < iMCURows
          BY <5>0
        <5>2. (b + 1) * gm < RowsOf(ci)
          BY <5>1, FirstOfMCU DEF gm
        <5>3. (b + 1) * gm = before + gm
          BY <1>1, <1>3 DEF before
        <5>4. QED
          BY <1>3, <1>4, <1>6, <5>2, <5>3
      <4>2. QED
        BY <1>3, <1>4, <1>5, <1>6, <1>11, <1>13, <3>2, <4>1
    <3>3. QED
      BY <3>1, <3>2
  <2>2. SampleRow(d, ci, i) = Cell(d, ci, i) /\ Cell(d, ci, i) = before + i
    BY <1>7, <1>8, <2>1
  <2>3. Clamp(ci, before + i) = before + i
    BY <2>1, Clamped
  <2>4. QED
    BY <1>10, <2>2, <2>3, Zenon DEF Finds, i, r, g
<1>14. CASE last /\ i = left
  <2>1. left - 1 \in 0 .. gm - 1 /\ before + (left - 1) < RowsInBlocks(ci)
        /\ before + i = RowsOf(ci) /\ before + (left - 1) = RowsOf(ci) - 1
    BY <1>3, <1>4, <1>6, <1>14
  <2>2. SampleRow(d, ci, i) = RowsOf(ci) - 1
    <3>1. Cell(d, ci, left - 1) = before + (left - 1)
      BY <1>7, <2>1
    <3>2. SampleRow(d, ci, i) = Cell(d, ci, left - 1)
      BY <1>8, <1>14
    <3>3. QED
      BY <2>1, <3>1, <3>2
  <2>3. before + i \in Int
    BY <1>6, <2>1
  <2>4. Clamp(ci, before + i) = RowsOf(ci) - 1
    BY <2>1, <2>3, Clamped
  <2>5. QED
    BY <1>10, <2>2, <2>4, Zenon DEF Finds, i, r, g
<1>15. QED
  BY <1>11, <1>12, <1>13, <1>14

(* In the state CTX_POSTPONED_ROW the last row group of the iMCUs before   *)
(* is found, and its context below it in the iMCUs that have come.         *)
LEMMA GroupOfPostponed ==
  ASSUME DisplayRight, need_context_rows, NEW d, Main(d), HasGroup(d), Postponed(d)
  PROVE  GroupRight(d)
<1> SUFFICES ASSUME NEW ci \in OutComps, NEW j \in -1 .. rgroup(ci),
                    NextGroup(d) * rgroup(ci) + j <= RowsOf(ci)
             PROVE  Finds(d, ci, j)
  BY DEF GroupRight
<1> DEFINE g == rgroup(ci)
           gm == rgroup(ci) * M
           w == Around(ci)
           r == d.rowgroup_ctr
           b == Behind(d)
           i == r * g + j
           rg == r * g
           before == b * gm
           left == rows_left(ci)
<1>1. /\ d.buffer_full /\ d.iMCU_row_ctr \in 2 .. iMCURows /\ M \in Int /\ iMCURows \in Int
      /\ r = M + 1 /\ d.context_state = "postponed" /\ PointersRight(d)
  BY DisplayNumbers, iMCUsBelow DEF Main, HasGroup, Postponed
<1>2. b = d.iMCU_row_ctr - 1 /\ NextGroup(d) = b * M + (r - (M + 2))
  BY <1>1 DEF Behind, NextGroup, Group
<1>3. /\ b \in Int /\ b >= 1 /\ b < iMCURows /\ r \in Int /\ r - (M + 2) = -1
  <2> HIDE DEF b, r
  <2>1. QED
    BY <1>1, <1>2
<1>4. /\ d.whichptr \in 0 .. 1 /\ d.xbuffer = Table(d.whichptr, TRUE, FALSE)
  <2>1. Edge(d) = TRUE /\ Bottom(d) = FALSE
    BY <1>1 DEF Edge, Bottom
  <2>2. QED
    BY <1>1, <2>1, Zenon DEF PointersRight
<1>5. g \in Int /\ g > 0 /\ gm \in Int /\ gm >= g /\ w = gm + 2 * g /\ (M + 2) * g = w
  <2>1. (M + 2) * g = w
    BY <1>3, RowOfWorkspace, Zenon
  <2>2. QED
    BY <2>1, DisplayNumbers DEF Around
<1>6. before \in Int /\ rg \in Int /\ NextGroup(d) * g = before - g /\ rg = w - g
  <2>1. before \in Int /\ rg \in Int /\ (b * M + (-1)) * g = before + (-1) * g
    <3>1. -1 \in Int
      OBVIOUS
    <3>2. before \in Int /\ (b * M + (-1)) * g = before + (-1) * g
      BY <1>3, <3>1, RowOfWorkspace, Zenon
    <3>3. rg \in Int
      BY <1>3, RowOfWorkspace, Zenon
    <3>4. QED
      BY <3>2, <3>3
  <2>2. NextGroup(d) * g = (b * M + (-1)) * g
    <3>1. r - (M + 2) = -1
      BY <1>3, Zenon
    <3>2. NextGroup(d) = b * M + (-1)
      BY <1>2, <3>1, Zenon
    <3>3. QED
      BY <3>2, Zenon
  <2>3. (-1) * g = -g
    BY <1>5
  <2>4. rg = w - g
    <3>1. rg = (M + 1) * g
      BY <1>1, Zenon
    <3> HIDE DEF rg, w, g
    <3>2. (M + 2) * g = (M + 1) * g + g /\ (M + 1) * g \in Int
      BY <1>1, <1>5
    <3>3. QED
      BY <1>5, <3>1, <3>2
  <2> HIDE DEF before, rg, g, w
  <2>5. QED
    BY <1>5, <2>1, <2>2, <2>3, <2>4
<1>7. before >= gm /\ before < RowsOf(ci) /\ RowsOf(ci) \in Int /\ RowsInBlocks(ci) \in Int /\ RowsOf(ci) <= RowsInBlocks(ci)
  <2>1. before < RowsOf(ci)
    BY <1>3, FirstOfMCU
  <2>2. 1 * gm <= b * gm /\ 1 * gm = gm
    <3>1. gm \in Nat
      BY <1>5
    <3> HIDE DEF gm, b
    <3>2. QED
      BY <1>3, <3>1, ProductGrows
  <2>3. QED
    BY <2>1, <2>2, RowsPadded
<1>8. /\ \A k \in 0 .. gm - 1 : before + k < RowsInBlocks(ci) => Cell(d, ci, k) = before + k
      /\ \A k \in gm .. w - 1 : Cell(d, ci, k) = before + k - w
  BY <1>1, <1>3 DEF Main, CellsRight
<1>9. /\ \A k \in 0 .. w - 1 : SampleRow(d, ci, k) = Cell(d, ci, k)
      /\ SampleRow(d, ci, w) = Cell(d, ci, 0)
  <2>1. TRUE \in BOOLEAN /\ FALSE \in BOOLEAN
    OBVIOUS
  <2>2. /\ \A k \in 0 .. w - 1 : ~FALSE \/ k < left => SampleRow(d, ci, k) = Cell(d, ci, k)
        /\ TRUE /\ ~FALSE => SampleRow(d, ci, w) = Cell(d, ci, 0)
    BY <1>4, <2>1, SampleRows, Zenon
  <2>3. QED
    BY <2>2
<1>10. i = rg + j /\ j \in Int /\ j >= -1 /\ j <= g
  BY <1>5
<1> HIDE DEF g, gm, w, r, b, i, rg, before, left
<1>11. NextGroup(d) * g + j = before - g + j /\ before - g + j \in Int /\ 0 <= before - g + j
       /\ before - g + j < RowsOf(ci) /\ Clamp(ci, before - g + j) = before - g + j
  <2>1. NextGroup(d) * g + j = before - g + j /\ before - g + j \in Int
    BY <1>5, <1>6, <1>10
  <2>2. before - g + j < RowsOf(ci)
    BY <1>5, <1>6, <1>7, <1>10
  <2>3. 0 <= before - g + j
    <3>1. CASE gm >= g + 1
      BY <1>5, <1>6, <1>7, <1>10, <3>1
    <3>2. CASE gm = g
      <4>1. gm - 2 * g >= 0
        BY Workspaces DEF gm, g
      <4>2. QED
        BY <1>5, <3>2, <4>1
    <3>3. QED
      BY <1>5, <3>1, <3>2
  <2>4. QED
    BY <2>1, <2>2, <2>3, Clamped
<1>12. CASE j = g
  <2>1. i = w /\ before - g + j = before + 0 /\ 0 \in 0 .. gm - 1 /\ before + 0 < RowsInBlocks(ci)
    BY <1>5, <1>6, <1>7, <1>10, <1>12
  <2>2. SampleRow(d, ci, i) = before - g + j
    BY <1>8, <1>9, <2>1
  <2>3. QED
    BY <1>11, <2>2, Zenon DEF Finds, i, r, g
<1>13. CASE j < g
  <2>1. i \in gm .. w - 1 /\ i \in 0 .. w - 1 /\ before + i - w = before - g + j
    BY <1>5, <1>6, <1>10, <1>13
  <2>2. SampleRow(d, ci, i) = before - g + j
    BY <1>8, <1>9, <2>1
  <2>3. QED
    BY <1>11, <2>2, Zenon DEF Finds, i, r, g
<1>14. QED
  BY <1>5, <1>10, <1>12, <1>13

(* In every state of the main controller that has a row group to give,     *)
(* the upsampler finds the rows of that group and its context.             *)
LEMMA GroupIsRight ==
  ASSUME DisplayRight, NEW d, Main(d), HasGroup(d)
  PROVE  GroupRight(d)
<1>1. CASE need_context_rows
  <2>1. Process(d) \/ Postponed(d)
    BY <1>1 DEF Main, HasGroup, ContextMain, Prepare
  <2>2. QED
    BY <1>1, <2>1, GroupOfProcess, GroupOfPostponed
<1>2. QED
  BY <1>1, GroupOfPlain

(* The upsampler: a row group may have been handed out in part.            *)
Open(d) == IF display.up = "sep" THEN d.next_row_out < maxv ELSE maxv = 2 /\ d.spare_full
Done(d) == IF Open(d) THEN IF display.up = "sep" THEN d.next_row_out ELSE 1 ELSE 0
RowNo(d) == NextGroup(d) * maxv + Done(d)

KeptOf(d, ci) ==
  IF Expand(ci) = 1 THEN d.color_buf[ci].base = d.rowgroup_ctr * rgroup(ci)
  ELSE \A k \in 0 .. maxv - 1 : NextGroup(d) * maxv + k < H =>
         d.color_buf[ci].rows[k] = TrueRow(NextGroup(d) * maxv + k)[ci]
Kept(d) ==
  Open(d) => IF display.up = "sep" THEN \A ci \in OutComps : KeptOf(d, ci)
             ELSE NextGroup(d) * maxv + 1 < H => d.spare_row = TrueRow(NextGroup(d) * maxv + 1)

SameMain(d, e) ==
  /\ e.xbuffer = d.xbuffer /\ e.buffer = d.buffer /\ e.whichptr = d.whichptr
  /\ e.context_state = d.context_state /\ e.buffer_full = d.buffer_full
  /\ e.iMCU_row_ctr = d.iMCU_row_ctr /\ e.output_iMCU_row = d.output_iMCU_row
  /\ e.rowgroups_avail = d.rowgroups_avail

(* What the main controller does not touch stays to be found. *)
LEMMA SameSamples ==
  ASSUME NEW d, NEW e, SameMain(d, e)
  PROVE  /\ \A ci, i : SampleRow(e, ci, i) = SampleRow(d, ci, i)
         /\ \A ci, i : Cell(e, ci, i) = Cell(d, ci, i)
         /\ e.rowgroup_ctr = d.rowgroup_ctr => /\ NextGroup(e) = NextGroup(d)
                                               /\ GroupRight(d) => GroupRight(e)
<1>1. ASSUME NEW ci, NEW i PROVE SampleRow(e, ci, i) = SampleRow(d, ci, i)
  BY DEF SampleRow, Pointer, SameMain
<1>2. ASSUME NEW ci, NEW i PROVE Cell(e, ci, i) = Cell(d, ci, i)
  BY DEF Cell, SameMain
<1>3. e.rowgroup_ctr = d.rowgroup_ctr => NextGroup(e) = NextGroup(d)
  BY DEF NextGroup, Behind, Group, SameMain
<1>4. ASSUME e.rowgroup_ctr = d.rowgroup_ctr, GroupRight(d) PROVE GroupRight(e)
  BY <1>1, <1>3, <1>4 DEF GroupRight, Finds
<1>5. QED
  BY <1>1, <1>2, <1>3, <1>4

(* The sample rows that row k of the group is made from.                   *)
LEMMA RowFound ==
  ASSUME DisplayRight, NEW d, GroupRight(d), NextGroup(d) \in Nat, d.rowgroup_ctr \in Int,
         NEW ci \in OutComps, NEW k \in 0 .. maxv - 1, NextGroup(d) * maxv + k < H
  PROVE  LET row == NextGroup(d) * maxv + k
             at == d.rowgroup_ctr * rgroup(ci) + k \div Expand(ci)
         IN  /\ SampleRow(d, ci, at) = row \div Expand(ci)
             /\ need_context_rows => /\ SampleRow(d, ci, at - 1) = Clamp(ci, row \div Expand(ci) - 1)
                                     /\ SampleRow(d, ci, at + 1) = Clamp(ci, row \div Expand(ci) + 1)
             /\ Expand(ci) = 2 => row % 2 = k % 2
             /\ Expand(ci) = 1 => k \div Expand(ci) = k
<1> DEFINE g == rgroup(ci)
           n == NextGroup(d)
           j == k \div Expand(ci)
           ng == n * g
           rg == d.rowgroup_ctr * g
           row == n * maxv + k
           num == row \div Expand(ci)
<1>1. /\ j \in 0 .. g - 1 /\ ng \in Int /\ num = ng + j /\ ng + j < RowsOf(ci)
      /\ Expand(ci) = 2 => row % 2 = k % 2
      /\ Expand(ci) = 1 => j = k
  <2>1. n \in Int /\ n * maxv + k < H
    OBVIOUS
  <2> HIDE DEF n
  <2>2. QED
    BY <2>1, RowOfGroup
<1>2. g \in Int /\ g > 0 /\ RowsOf(ci) \in Int /\ rg \in Int /\ ng >= 0
  <2>1. g \in Int /\ g > 0
    BY DisplayNumbers
  <2>2. rg \in Int
    <3> HIDE DEF g
    <3>1. QED
      BY <2>1
  <2>3. 0 * g <= n * g /\ 0 * g = 0
    <3>1. n \in Nat /\ g \in Nat
      BY <2>1
    <3> HIDE DEF g, n
    <3>2. QED
      BY <3>1, ProductGrows
  <2>4. QED
    BY <2>1, <2>2, <2>3, SomeRows
<1>3. ASSUME NEW i \in -1 .. g, ng + i <= RowsOf(ci),
             need_context_rows \/ (0 <= i /\ i < g /\ ng + i < RowsOf(ci))
      PROVE  SampleRow(d, ci, rg + i) = Clamp(ci, ng + i)
  BY <1>3 DEF GroupRight, Finds
<1> HIDE DEF g, n, j, ng, rg, row, num
<1>4. SampleRow(d, ci, rg + j) = num
  <2>1. j \in -1 .. g /\ 0 <= j /\ j < g /\ ng + j <= RowsOf(ci) /\ ng + j \in Int /\ 0 <= ng + j
    BY <1>1, <1>2
  <2>2. Clamp(ci, ng + j) = ng + j
    BY <1>1, <2>1, Clamped
  <2>3. QED
    BY <1>1, <1>3, <2>1, <2>2
<1>5. ASSUME need_context_rows
      PROVE  /\ SampleRow(d, ci, (rg + j) - 1) = Clamp(ci, num - 1)
             /\ SampleRow(d, ci, (rg + j) + 1) = Clamp(ci, num + 1)
  <2>1. /\ j - 1 \in -1 .. g /\ ng + (j - 1) <= RowsOf(ci) /\ j + 1 \in -1 .. g /\ ng + (j + 1) <= RowsOf(ci)
        /\ rg + (j - 1) = (rg + j) - 1 /\ rg + (j + 1) = (rg + j) + 1
        /\ ng + (j - 1) = num - 1 /\ ng + (j + 1) = num + 1
    BY <1>1, <1>2
  <2>2. QED
    BY <1>3, <1>5, <2>1
<1>6. QED
  BY <1>1, <1>4, <1>5 DEF g, n, j, rg, row, num

(* What the upsamplers make of the rows found is a row of the image. *)
LEMMA UpsampledRight ==
  ASSUME DisplayRight, NEW d, GroupRight(d), NextGroup(d) \in Nat, d.rowgroup_ctr \in Int,
         NEW ci \in OutComps, NEW k \in 0 .. maxv - 1, NextGroup(d) * maxv + k < H
  PROVE  LET row == NextGroup(d) * maxv + k
             base == d.rowgroup_ctr * rgroup(ci)
         IN  /\ display.up = "sep" => Upsampled(d, ci, base)[k] = TrueRow(row)[ci]
             /\ display.up = "sep" /\ Expand(ci) = 1 => <<SampleRow(d, ci, base + k)>> = TrueRow(row)[ci]
             /\ display.up = "merged" => <<SampleRow(d, ci, base + k \div Expand(ci))>> = TrueRow(row)[ci]
<1> DEFINE row == NextGroup(d) * maxv + k
           base == d.rowgroup_ctr * rgroup(ci)
           near == base + k \div Expand(ci)
           num == row \div Expand(ci)
<1>1. /\ SampleRow(d, ci, near) = num
      /\ need_context_rows => /\ SampleRow(d, ci, near - 1) = Clamp(ci, num - 1)
                              /\ SampleRow(d, ci, near + 1) = Clamp(ci, num + 1)
      /\ Expand(ci) = 2 => row % 2 = k % 2
      /\ Expand(ci) = 1 => k \div Expand(ci) = k
  BY RowFound
<1>2. TrueRow(row)[ci] = IF h2v2_fancy(ci) /\ display.up = "sep"
                         THEN <<num, Clamp(ci, IF row % 2 = 0 THEN num - 1 ELSE num + 1)>> ELSE <<num>>
  BY Zenon DEF TrueRow
<1>3. Upsampled(d, ci, base)[k] =
        IF h2v2_fancy(ci) THEN <<SampleRow(d, ci, near), SampleRow(d, ci, IF k % 2 = 0 THEN near - 1 ELSE near + 1)>>
        ELSE <<SampleRow(d, ci, near)>>
  <2> DEFINE R == 0 .. (maxv - 1)
  <2>1. k \in R
    OBVIOUS
  <2> HIDE DEF R
  <2>2. Upsampled(d, ci, base) = [kk \in R |->
          LET nr == base + kk \div Expand(ci) IN
          IF h2v2_fancy(ci) THEN <<SampleRow(d, ci, nr), SampleRow(d, ci, IF kk % 2 = 0 THEN nr - 1 ELSE nr + 1)>>
          ELSE <<SampleRow(d, ci, nr)>>]
    BY DEF Upsampled, R
  <2>3. QED
    BY <2>1, <2>2, Zenon
<1>4. h2v2_fancy(ci) => Expand(ci) = 2
  BY DEF h2v2_fancy
<1>5. display.up = "sep" /\ h2v2_fancy(ci) => need_context_rows
  BY DEF need_context_rows
<1> HIDE DEF row, base, near, num
<1>6. ASSUME display.up = "sep" PROVE Upsampled(d, ci, base)[k] = TrueRow(row)[ci]
  <2>1. CASE h2v2_fancy(ci)
    <3>1. row % 2 = k % 2 /\ need_context_rows
      BY <1>1, <1>4, <1>5, <1>6, <2>1
    <3>2. SampleRow(d, ci, IF k % 2 = 0 THEN near - 1 ELSE near + 1) = Clamp(ci, IF row % 2 = 0 THEN num - 1 ELSE num + 1)
      BY <1>1, <3>1
    <3>3. Upsampled(d, ci, base)[k] = <<num, Clamp(ci, IF row % 2 = 0 THEN num - 1 ELSE num + 1)>>
      BY <1>1, <1>3, <2>1, <3>2, Zenon
    <3>4. QED
      BY <1>2, <1>6, <2>1, <3>3, Zenon
  <2>2. CASE ~h2v2_fancy(ci)
    BY <1>1, <1>2, <1>3, <2>2, Zenon
  <2>3. QED
    BY <2>1, <2>2
<1>7. ASSUME display.up = "sep", Expand(ci) = 1 PROVE <<SampleRow(d, ci, base + k)>> = TrueRow(row)[ci]
  <2>1. ~h2v2_fancy(ci)
    BY <1>4, <1>7
  <2>2. near = base + k
    BY <1>1, <1>7, Zenon DEF near
  <2>3. QED
    BY <1>1, <1>2, <2>1, <2>2, Zenon
<1>8. ASSUME display.up = "merged" PROVE <<SampleRow(d, ci, near)>> = TrueRow(row)[ci]
  <2>1. ~(display.up = "sep")
    BY <1>8
  <2>2. QED
    BY <1>1, <1>2, <2>1, Zenon
<1>9. QED
  BY <1>6, <1>7, <1>8, Zenon DEF row, base, near

(* Rows of the image in order, n from row y on.                            *)
RowsFrom(row, n) == [k \in 1 .. n |-> TrueRow(row + k - 1)]

SameDelivery(d, e) == e.lines = d.lines /\ e.scanned = d.scanned /\ e.whole_image = d.whole_image

(* One row group up is as many rows of the image as it makes. *)
LEMMA GroupAdvances ==
  ASSUME DisplayRight, NEW d, NEW e, SameMain(d, e), d.rowgroup_ctr \in Int, NextGroup(d) \in Int,
         need_context_rows => d.context_state # "prepare",
         d.buffer_full \in BOOLEAN, d.iMCU_row_ctr \in Int
  PROVE  /\ e.rowgroup_ctr = d.rowgroup_ctr => NextGroup(e) = NextGroup(d)
         /\ e.rowgroup_ctr = d.rowgroup_ctr + 1
              => /\ NextGroup(e) = NextGroup(d) + 1
                 /\ NextGroup(e) * maxv = NextGroup(d) * maxv + maxv
<1>1. M \in Int /\ maxv \in Int
  BY DisplayNumbers
<1>2. Behind(e) = Behind(d) /\ Behind(d) \in Int
  BY DEF Behind, SameMain
<1>3. e.rowgroup_ctr = d.rowgroup_ctr => Group(e) = Group(d)
  BY DEF Group, SameMain
<1>4. e.rowgroup_ctr = d.rowgroup_ctr + 1 => Group(e) = Group(d) + 1 /\ Group(d) \in Int
  BY <1>1 DEF Group, SameMain
<1>5. NextGroup(e) = Behind(d) * M + Group(e) /\ NextGroup(d) = Behind(d) * M + Group(d)
      /\ Behind(d) * M \in Int
  BY <1>1, <1>2 DEF NextGroup
<1> DEFINE b == Behind(d) * M
           n == NextGroup(d)
           v == maxv
<1> HIDE DEF b
<1>6. e.rowgroup_ctr = d.rowgroup_ctr => NextGroup(e) = n
  BY <1>3, <1>5
<1>7. e.rowgroup_ctr = d.rowgroup_ctr + 1 => NextGroup(e) = n + 1
  BY <1>4, <1>5 DEF b
<1> HIDE DEF n, v
<1>8. (n + 1) * v = n * v + v
  BY <1>1 DEF n, v
<1>9. QED
  BY <1>6, <1>7, <1>8, Zenon DEF n, v

(* The rows that sep_upsample makes of a converted group are those of the  *)
(* image.                                                                  *)
LEMMA ColorRowRight ==
  ASSUME DisplayRight, NEW d, GroupRight(d), NextGroup(d) \in Nat, d.rowgroup_ctr \in Int,
         display.up = "sep", \A ci \in OutComps : KeptOf(d, ci),
         NEW k \in 0 .. maxv - 1, NextGroup(d) * maxv + k < H
  PROVE  ColorRow(d, k) = TrueRow(NextGroup(d) * maxv + k)
<1> DEFINE row == NextGroup(d) * maxv + k
<1>1. ASSUME NEW ci \in OutComps PROVE ColorRow(d, k)[ci] = TrueRow(row)[ci]
  <2>1. ColorRow(d, k)[ci] = IF Expand(ci) = 1 THEN <<SampleRow(d, ci, d.color_buf[ci].base + k)>>
                             ELSE d.color_buf[ci].rows[k]
    BY Zenon DEF ColorRow
  <2>2. CASE Expand(ci) = 1
    <3>1. <<SampleRow(d, ci, d.rowgroup_ctr * rgroup(ci) + k)>> = TrueRow(row)[ci]
      BY <2>2, UpsampledRight
    <3>2. d.color_buf[ci].base = d.rowgroup_ctr * rgroup(ci)
      BY <2>2 DEF KeptOf
    <3>3. QED
      BY <2>1, <2>2, <3>1, <3>2, Zenon
  <2>3. CASE Expand(ci) # 1
    <3>1. d.color_buf[ci].rows[k] = TrueRow(row)[ci]
      BY <2>3, Zenon DEF KeptOf
    <3>2. QED
      BY <2>1, <2>3, <3>1, Zenon
  <2>4. QED
    BY <2>2, <2>3
<1> HIDE DEF row
<1>2. ColorRow(d, k) = [ci \in OutComps |-> ColorRow(d, k)[ci]]
  BY DEF ColorRow
<1>3. TrueRow(row) = [ci \in OutComps |-> TrueRow(row)[ci]]
  BY DEF TrueRow
<1>4. ColorRow(d, k) = TrueRow(row)
  <2> DEFINE A(ci) == ColorRow(d, k)[ci]
             B(ci) == TrueRow(row)[ci]
  <2>1. \A ci \in OutComps : A(ci) = B(ci)
    BY <1>1
  <2> HIDE DEF A, B
  <2>2. [ci \in OutComps |-> A(ci)] = [ci \in OutComps |-> B(ci)]
    BY <2>1
  <2>3. QED
    BY <1>2, <1>3, <2>2, Zenon DEF A, B
<1>5. QED
  BY <1>4 DEF row

(* So are those of merged upsampling. *)
LEMMA MergedRowRight ==
  ASSUME DisplayRight, NEW d, GroupRight(d), NextGroup(d) \in Nat, d.rowgroup_ctr \in Int,
         display.up = "merged", NEW k \in 0 .. maxv - 1, NextGroup(d) * maxv + k < H
  PROVE  MergedRow(d, k) = TrueRow(NextGroup(d) * maxv + k)
<1> DEFINE row == NextGroup(d) * maxv + k
           A(ci) == <<SampleRow(d, ci, d.rowgroup_ctr * rgroup(ci) + k \div Expand(ci))>>
           B(ci) == TrueRow(row)[ci]
<1>1. \A ci \in OutComps : A(ci) = B(ci)
  BY UpsampledRight
<1>2. MergedRow(d, k) = [ci \in OutComps |-> A(ci)]
  BY Zenon DEF MergedRow
<1> HIDE DEF A, row
<1>3. TrueRow(row) = [ci \in OutComps |-> B(ci)]
  BY DEF TrueRow
<1> HIDE DEF B
<1>4. [ci \in OutComps |-> A(ci)] = [ci \in OutComps |-> B(ci)]
  BY <1>1
<1>5. QED
  BY <1>2, <1>3, <1>4, Zenon DEF row

(* A row group begins.                                                     *)
Ready(d) ==
  /\ Upsampler(d) /\ GroupRight(d) /\ NextGroup(d) \in Nat /\ Kept(d) /\ RowNo(d) < H
  /\ need_context_rows => d.context_state # "prepare"
  /\ d.buffer_full \in BOOLEAN /\ d.iMCU_row_ctr \in Int
  /\ Merged1 \/ d.rows_to_go = H - RowNo(d)

HandsOut(d, e, n) ==
  /\ SameMain(d, e) /\ SameDelivery(d, e) /\ n \in Nat /\ n > 0 /\ RowNo(d) + n <= H
  /\ e.made = RowsFrom(RowNo(d), n) /\ Kept(e) /\ RowNo(e) = RowNo(d) + n
  /\ \/ e.rowgroup_ctr = d.rowgroup_ctr
     \/ e.rowgroup_ctr = d.rowgroup_ctr + 1 /\ ~Open(e)

(* The place of the next row within its row group. *)
LEMMA RowNumbers ==
  ASSUME DisplayRight, NEW d, Ready(d)
  PROVE  /\ NextGroup(d) * maxv \in Int /\ d.rowgroup_ctr \in Int /\ Done(d) \in 0 .. maxv - 1
         /\ RowNo(d) \in Int /\ H \in Int /\ maxv \in Int /\ maxv > 0
<1>1. maxv \in Int /\ maxv > 0 /\ H \in Int
  BY DisplayNumbers
<1>2. Done(d) \in 0 .. maxv - 1 /\ d.rowgroup_ctr \in Int
  BY <1>1 DEF Done, Open, Ready, Upsampler
<1>3. NextGroup(d) * maxv \in Int
  <2> DEFINE n == NextGroup(d)
             v == maxv
  <2>1. n \in Int /\ v \in Int
    BY <1>1 DEF Ready
  <2> HIDE DEF n, v
  <2>2. n * v \in Int
    BY <2>1
  <2>3. QED
    BY <2>2 DEF n, v
<1> DEFINE num == NextGroup(d) * maxv
<1>4. RowNo(d) = num + Done(d)
  BY DEF RowNo
<1> HIDE DEF num
<1>5. RowNo(d) \in Int
  BY <1>1, <1>2, <1>3, <1>4 DEF num
<1>6. QED
  BY <1>1, <1>2, <1>3, <1>5

(* A group that sep_upsample has just converted, or is part way through,   *)
(* is right.                                                               *)
LEMMA SepGroup ==
  ASSUME DisplayRight, NEW d, Ready(d), display.up = "sep"
  PROVE  LET f == IF d.next_row_out >= maxv THEN ConvertGroup(d) ELSE d
         IN  /\ Ready(f) /\ SameMain(d, f) /\ SameDelivery(d, f) /\ RowNo(f) = RowNo(d)
             /\ f.rowgroup_ctr = d.rowgroup_ctr /\ f.next_row_out < maxv /\ f.next_row_out = Done(d)
             /\ f.rows_to_go = d.rows_to_go /\ \A ci \in OutComps : KeptOf(f, ci)
<1>0. maxv \in Int /\ maxv > 0 /\ d.next_row_out \in 0 .. maxv
  BY DisplayNumbers DEF Ready, Upsampler
<1>1. CASE d.next_row_out >= maxv
  <2> DEFINE f == ConvertGroup(d)
             buf(ci) == [base |-> d.rowgroup_ctr * rgroup(ci),
                         rows |-> IF Expand(ci) = 1 THEN <<>> ELSE Upsampled(d, ci, d.rowgroup_ctr * rgroup(ci))]
  <2>1. /\ SameMain(d, f) /\ SameDelivery(d, f) /\ f.rowgroup_ctr = d.rowgroup_ctr /\ f.next_row_out = 0
        /\ f.rows_to_go = d.rows_to_go /\ Upsampler(f)
        /\ f.color_buf = [ci \in OutComps |-> buf(ci)]
    BY <1>0 DEF ConvertGroup, SameMain, SameDelivery, Ready, Upsampler, Object, Counters
  <2> HIDE DEF f
  <2>2. GroupRight(f) /\ NextGroup(f) = NextGroup(d)
    BY <2>1, SameSamples DEF Ready
  <2>3. ASSUME NEW ci \in OutComps PROVE KeptOf(f, ci)
    <3>1. f.color_buf[ci] = buf(ci)
      BY <2>1, Zenon
    <3>2. CASE Expand(ci) = 1
      BY <2>1, <3>1, <3>2 DEF KeptOf
    <3>3. CASE Expand(ci) # 1
      <4>1. f.color_buf[ci].rows = Upsampled(d, ci, d.rowgroup_ctr * rgroup(ci))
        BY <3>1, <3>3
      <4>2. ASSUME NEW k \in 0 .. maxv - 1, NextGroup(d) * maxv + k < H
            PROVE  Upsampled(d, ci, d.rowgroup_ctr * rgroup(ci))[k] = TrueRow(NextGroup(d) * maxv + k)[ci]
        <5>1. GroupRight(d) /\ NextGroup(d) \in Nat /\ d.rowgroup_ctr \in Int
          BY DEF Ready, Upsampler
        <5>2. QED
          BY <4>2, <5>1, UpsampledRight
      <4>3. QED
        BY <2>2, <3>3, <4>1, <4>2, Zenon DEF KeptOf
    <3>4. QED
      BY <3>2, <3>3
  <2>4. Done(f) = 0 /\ Done(d) = 0
    BY <1>0, <1>1, <2>1 DEF Done, Open
  <2>5. RowNo(f) = RowNo(d)
    BY <2>2, <2>4 DEF RowNo
  <2>6. Kept(f)
    BY <2>3 DEF Kept
  <2>7. Ready(f)
    BY <2>1, <2>2, <2>5, <2>6 DEF Ready, SameMain
  <2>8. QED
    BY <1>0, <1>1, <2>1, <2>3, <2>4, <2>5, <2>7 DEF f
<1>2. CASE ~(d.next_row_out >= maxv)
  <2>1. Open(d) /\ Done(d) = d.next_row_out /\ d.next_row_out < maxv
    BY <1>0, <1>2 DEF Open, Done
  <2>2. \A ci \in OutComps : KeptOf(d, ci)
    BY <2>1 DEF Ready, Kept
  <2>3. QED
    BY <1>2, <2>1, <2>2 DEF SameMain, SameDelivery
<1>3. QED
  BY <1>1, <1>2

(* sep_upsample hands out the next rows of the image. *)
LEMMA SepHandsOut ==
  ASSUME DisplayRight, NEW d, Ready(d), display.up = "sep", NEW room \in Nat, room > 0
  PROVE  \E n \in Nat : HandsOut(d, upsample(d, room), n)
<1> DEFINE f == IF d.next_row_out >= maxv THEN ConvertGroup(d) ELSE d
           n == Min({maxv - f.next_row_out, f.rows_to_go, room})
           e == EmitRows(f, n)
           p == f.next_row_out
           row == RowNo(d)
           gv == NextGroup(f) * maxv
<1>1. upsample(d, room) = e
  BY DEF upsample, sep_upsample, EmitWhatFits
<1>2. /\ Ready(f) /\ SameMain(d, f) /\ SameDelivery(d, f) /\ RowNo(f) = row
      /\ f.rowgroup_ctr = d.rowgroup_ctr /\ p < maxv /\ p = Done(d)
      /\ f.rows_to_go = d.rows_to_go /\ \A ci \in OutComps : KeptOf(f, ci)
  BY SepGroup
<1> HIDE DEF f
<1>3. /\ maxv \in Int /\ maxv > 0 /\ H \in Int /\ row \in Int /\ gv \in Int /\ row = gv + p /\ p \in 0 .. maxv - 1 /\ row < H
      /\ d.rows_to_go = H - row
  <2>1. /\ gv \in Int /\ Done(f) \in 0 .. maxv - 1 /\ RowNo(f) \in Int /\ H \in Int /\ maxv \in Int /\ maxv > 0
    BY <1>2, RowNumbers
  <2>2. Done(f) = p
    BY <1>2 DEF Done, Open
  <2>3. RowNo(f) = gv + Done(f) /\ RowNo(d) < H
    BY DEF RowNo, Ready
  <2>4. ~Merged1
    BY DEF Merged1
  <2>5. d.rows_to_go = H - row
    BY <2>4 DEF Ready
  <2> HIDE DEF row, gv, p
  <2>6. QED
    BY <1>2, <2>1, <2>2, <2>3, <2>5 DEF row
<1>4. n \in Nat /\ n > 0 /\ n <= maxv - p /\ n <= H - row
  <2>1. maxv - p \in Int /\ maxv - p > 0 /\ f.rows_to_go = H - row /\ H - row \in Int /\ H - row > 0 /\ room \in Int
    <3> HIDE DEF row, p
    <3>1. QED
      BY <1>2, <1>3
  <2>2. /\ n \in {maxv - p, f.rows_to_go, room} /\ n <= maxv - p /\ n <= f.rows_to_go /\ n <= room
    <3>1. maxv - p \in Int /\ f.rows_to_go \in Int /\ room \in Int
      BY <2>1, Zenon
    <3>2. QED
      BY <3>1, MinOfThree, Zenon
  <2> HIDE DEF n, row, p
  <2>3. QED
    BY <2>1, <2>2
<1> HIDE DEF n
<1>5. /\ e.made = [k \in 1 .. n |-> ColorRow(f, p + k - 1)]
      /\ e.next_row_out = p + n
      /\ e.rowgroup_ctr = IF p + n >= maxv THEN f.rowgroup_ctr + 1 ELSE f.rowgroup_ctr
      /\ e.color_buf = f.color_buf
      /\ SameMain(f, e) /\ SameDelivery(f, e)
  BY <1>2 DEF EmitRows, Ready, Upsampler, Object, Counters, SameMain, SameDelivery
<1> HIDE DEF e, p
<1>6. SameMain(d, e) /\ SameDelivery(d, e)
  BY <1>2, <1>5 DEF SameMain, SameDelivery
<1>7. e.made = RowsFrom(row, n)
  <2>1. ASSUME NEW k \in 1 .. n PROVE ColorRow(f, p + k - 1) = TrueRow(row + k - 1)
    <3> DEFINE kk == p + k - 1
    <3>1. kk \in 0 .. maxv - 1 /\ gv + kk = row + k - 1 /\ row + k - 1 < H
      <4> HIDE DEF row, gv
      <4>1. QED
        BY <1>3, <1>4
    <3> HIDE DEF kk
    <3>2. GroupRight(f) /\ NextGroup(f) \in Nat /\ f.rowgroup_ctr \in Int /\ gv + kk < H
      <4>1. gv + kk < H
        BY <3>1, Zenon
      <4>2. QED
        BY <1>2, <4>1 DEF Ready, Upsampler
    <3>3. ColorRow(f, kk) = TrueRow(gv + kk)
      BY <1>2, <3>1, <3>2, ColorRowRight
    <3>4. QED
      BY <3>1, <3>3, Zenon DEF kk
  <2> DEFINE A(k) == ColorRow(f, p + k - 1)
             B(k) == TrueRow(row + k - 1)
  <2>2. \A k \in 1 .. n : A(k) = B(k)
    BY <2>1
  <2>3. e.made = [k \in 1 .. n |-> A(k)] /\ RowsFrom(row, n) = [k \in 1 .. n |-> B(k)]
    BY <1>5 DEF RowsFrom
  <2> HIDE DEF A, B
  <2>4. QED
    BY <2>2, <2>3
<1>8. /\ e.rowgroup_ctr = f.rowgroup_ctr => NextGroup(e) = NextGroup(f)
      /\ e.rowgroup_ctr = f.rowgroup_ctr + 1 => NextGroup(e) * maxv = NextGroup(f) * maxv + maxv
  <2>1. /\ SameMain(f, e) /\ f.rowgroup_ctr \in Int /\ NextGroup(f) \in Int
        /\ need_context_rows => f.context_state # "prepare"
        /\ f.buffer_full \in BOOLEAN /\ f.iMCU_row_ctr \in Int
    BY <1>2, <1>5 DEF Ready, Upsampler
  <2>2. QED
    BY <2>1, GroupAdvances
<1>9. CASE p + n >= maxv
  <2>1. p + n = maxv /\ e.rowgroup_ctr = f.rowgroup_ctr + 1 /\ e.next_row_out = maxv
    <3>1. p + n = maxv
      <4> HIDE DEF row
      <4>1. QED
        BY <1>3, <1>4, <1>9
    <3>2. QED
      BY <1>5, <1>9, <3>1, Zenon
  <2>2. ~Open(e) /\ Done(e) = 0
    BY <1>3, <2>1 DEF Open, Done
  <2>3. RowNo(e) = row + n
    <3>1. RowNo(e) = NextGroup(e) * maxv + 0 /\ NextGroup(e) * maxv = gv + maxv
      BY <1>8, <2>1, <2>2 DEF RowNo
    <3> DEFINE z == NextGroup(e) * maxv
    <3> HIDE DEF row, gv, z
    <3>2. z = gv + maxv /\ RowNo(e) = z + 0
      BY <3>1 DEF z
    <3>3. QED
      BY <1>3, <1>4, <2>1, <3>2
  <2>4. Kept(e)
    BY <2>2 DEF Kept
  <2>5. row + n <= H
    <3> HIDE DEF row
    <3>1. QED
      BY <1>3, <1>4
  <2>6. HandsOut(d, e, n)
    BY <1>2, <1>4, <1>6, <1>7, <2>1, <2>2, <2>3, <2>4, <2>5 DEF HandsOut
  <2>7. QED
    BY <1>1, <1>4, <2>6
<1>10. CASE ~(p + n >= maxv)
  <2>1. e.rowgroup_ctr = f.rowgroup_ctr /\ e.next_row_out = p + n /\ p + n < maxv
    BY <1>3, <1>4, <1>5, <1>10
  <2>2. Open(e) /\ Done(e) = p + n /\ NextGroup(e) = NextGroup(f)
    BY <1>8, <2>1 DEF Open, Done
  <2>3. RowNo(e) = row + n
    <3>1. RowNo(e) = gv + (p + n)
      BY <2>2 DEF RowNo
    <3> HIDE DEF row, gv
    <3>2. QED
      BY <1>3, <1>4, <3>1
  <2>4. Kept(e)
    <3>1. \A ci \in OutComps : KeptOf(e, ci)
      BY <1>2, <1>5, <2>1, <2>2 DEF KeptOf
    <3>2. QED
      BY <3>1 DEF Kept
  <2>5. row + n <= H
    <3> HIDE DEF row
    <3>1. QED
      BY <1>3, <1>4
  <2>6. HandsOut(d, e, n)
    BY <1>2, <1>4, <1>6, <1>7, <2>1, <2>3, <2>4, <2>5 DEF HandsOut
  <2>7. QED
    BY <1>1, <1>4, <2>6
<1>11. QED
  BY <1>9, <1>10

(* So does merged upsampling, with or without a spare row. *)
LEMMA MergedHandsOut ==
  ASSUME DisplayRight, NEW d, Ready(d), display.up = "merged", NEW room \in Nat, room > 0
  PROVE  \E n \in Nat : HandsOut(d, upsample(d, room), n)
<1> DEFINE row == RowNo(d)
           gv == NextGroup(d) * maxv
           u == upsample(d, room)
<1>1. /\ gv \in Int /\ Done(d) \in 0 .. maxv - 1 /\ row \in Int /\ H \in Int /\ maxv \in {1, 2}
      /\ row = gv + Done(d) /\ row < H
  <2>1. gv \in Int /\ Done(d) \in 0 .. maxv - 1 /\ row \in Int /\ H \in Int /\ row = gv + Done(d)
    BY RowNumbers DEF RowNo
  <2>2. maxv \in {1, 2} /\ row < H
    BY DEF DisplayRight, DisplayOK, Ready
  <2>3. QED
    BY <2>1, <2>2, Zenon
<1>2. display.up # "sep"
  OBVIOUS
<1>3. ASSUME NEW k \in 0 .. maxv - 1, gv + k < H PROVE MergedRow(d, k) = TrueRow(gv + k)
  <2>1. GroupRight(d) /\ NextGroup(d) \in Nat /\ d.rowgroup_ctr \in Int
    BY DEF Ready, Upsampler
  <2>2. QED
    BY <1>3, <2>1, MergedRowRight
<1>4. ASSUME NEW e, SameMain(d, e)
      PROVE  /\ e.rowgroup_ctr = d.rowgroup_ctr => NextGroup(e) * maxv = gv /\ NextGroup(e) = NextGroup(d)
             /\ e.rowgroup_ctr = d.rowgroup_ctr + 1 => NextGroup(e) * maxv = gv + maxv
  <2>1. /\ d.rowgroup_ctr \in Int /\ NextGroup(d) \in Int
        /\ need_context_rows => d.context_state # "prepare"
        /\ d.buffer_full \in BOOLEAN /\ d.iMCU_row_ctr \in Int
    BY DEF Ready, Upsampler
  <2>2. QED
    BY <1>4, <2>1, GroupAdvances
<1>6. CASE maxv = 1
  <2> DEFINE e == merged_1v_upsample(d)
  <2>1. u = e
    BY <1>6 DEF upsample
  <2>2. /\ SameMain(d, e) /\ SameDelivery(d, e) /\ e.rowgroup_ctr = d.rowgroup_ctr + 1
        /\ e.made = <<MergedRow(d, 0)>>
    BY DEF merged_1v_upsample, Ready, Upsampler, Object, Counters, SameMain, SameDelivery
  <2> HIDE DEF e
  <2>3. ~Open(e) /\ Done(e) = 0 /\ Done(d) = 0 /\ Kept(e)
    BY <1>2, <1>6 DEF Open, Done, Kept
  <2>4. RowNo(e) = row + 1 /\ row = gv
    <3>1. RowNo(e) = NextGroup(e) * maxv + 0 /\ NextGroup(e) * maxv = gv + maxv
      BY <1>4, <2>2, <2>3 DEF RowNo
    <3> DEFINE z == NextGroup(e) * maxv
    <3> HIDE DEF row, gv, z
    <3>2. z = gv + maxv /\ RowNo(e) = z + 0
      BY <3>1 DEF z
    <3>3. QED
      BY <1>1, <1>6, <2>3, <3>2
  <2>5. e.made = RowsFrom(row, 1) /\ row + 1 <= H
    <3>1. MergedRow(d, 0) = TrueRow(gv + 0)
      <4>1. 0 \in 0 .. maxv - 1 /\ gv + 0 < H
        <5> HIDE DEF row, gv
        <5>1. QED
          BY <1>1, <1>6, <2>4
      <4>2. QED
        BY <1>3, <4>1
    <3> HIDE DEF row, gv
    <3>2. <<MergedRow(d, 0)>> = [k \in 1 .. 1 |-> TrueRow(row + k - 1)]
      <4>1. \A k \in 1 .. 1 : row + k - 1 = gv + 0
        BY <1>1, <2>4
      <4>2. QED
        BY <3>1, <4>1
    <3>3. QED
      BY <1>1, <2>2, <3>2 DEF RowsFrom
  <2>6. HandsOut(d, e, 1)
    BY <2>2, <2>3, <2>4, <2>5 DEF HandsOut
  <2>7. QED
    BY <2>1, <2>6
<1>7. CASE maxv = 2 /\ d.spare_full
  <2> DEFINE e == ReturnSpare(d)
  <2>1. u = e
    BY <1>7 DEF upsample, merged_2v_upsample
  <2>2. /\ SameMain(d, e) /\ SameDelivery(d, e) /\ e.rowgroup_ctr = d.rowgroup_ctr + 1
        /\ e.made = <<d.spare_row>> /\ e.spare_full = FALSE
    BY DEF ReturnSpare, Ready, Upsampler, Object, Counters, SameMain, SameDelivery
  <2> HIDE DEF e
  <2>3. ~Open(e) /\ Done(e) = 0 /\ Done(d) = 1 /\ Kept(e) /\ Open(d)
    BY <1>2, <1>7, <2>2 DEF Open, Done, Kept
  <2>4. RowNo(e) = row + 1 /\ row = gv + 1
    <3>1. RowNo(e) = NextGroup(e) * maxv + 0 /\ NextGroup(e) * maxv = gv + maxv
      BY <1>4, <2>2, <2>3 DEF RowNo
    <3> DEFINE z == NextGroup(e) * maxv
    <3> HIDE DEF row, gv, z
    <3>2. z = gv + maxv /\ RowNo(e) = z + 0
      BY <3>1 DEF z
    <3>3. QED
      BY <1>1, <1>7, <2>3, <3>2
  <2>5. e.made = RowsFrom(row, 1) /\ row + 1 <= H
    <3>1. d.spare_row = TrueRow(gv + 1)
      <4>1. gv + 1 < H
        BY <1>1, <2>4, Zenon
      <4>2. QED
        BY <1>2, <2>3, <4>1 DEF Ready, Kept
    <3> HIDE DEF row, gv
    <3>2. <<d.spare_row>> = [k \in 1 .. 1 |-> TrueRow(row + k - 1)]
      <4>1. \A k \in 1 .. 1 : row + k - 1 = gv + 1
        BY <1>1, <2>4
      <4>2. QED
        BY <3>1, <4>1
    <3>3. QED
      BY <1>1, <2>2, <3>2 DEF RowsFrom
  <2>6. HandsOut(d, e, 1)
    BY <2>2, <2>3, <2>4, <2>5 DEF HandsOut
  <2>7. QED
    BY <2>1, <2>6
<1>8. CASE maxv = 2 /\ ~d.spare_full
  <2> DEFINE n == Min({2, d.rows_to_go, room})
             e == UpsamplePair(d, n)
  <2>0. ~Open(d) /\ Done(d) = 0
    BY <1>2, <1>8 DEF Open, Done
  <2>1. u = e
    <3>1. u = merged_2v_upsample(d, room)
      BY <1>8 DEF upsample
    <3>2. QED
      BY <1>8, <3>1, Zenon DEF merged_2v_upsample
  <2>2. n \in {1, 2} /\ n <= H - row
    <3>1. d.rows_to_go = H - row
      BY <1>8 DEF Ready, Merged1
    <3>2. d.rows_to_go \in Int /\ d.rows_to_go > 0 /\ 2 \in Int /\ room \in Int /\ H - row \in Int
      <4> HIDE DEF row
      <4>1. QED
        BY <1>1, <3>1
    <3>3. /\ n \in {2, d.rows_to_go, room} /\ n <= 2 /\ n <= d.rows_to_go
      BY <3>2, MinOfThree, Zenon
    <3> HIDE DEF n, row
    <3>4. QED
      BY <3>1, <3>2, <3>3
  <2> HIDE DEF n
  <2>3. /\ SameMain(d, e) /\ SameDelivery(d, e)
        /\ e.rowgroup_ctr = IF n <= 1 THEN d.rowgroup_ctr ELSE d.rowgroup_ctr + 1
        /\ e.made = [k \in 1 .. n |-> MergedRow(d, k - 1)]
        /\ n <= 1 => e.spare_row = MergedRow(d, 1) /\ e.spare_full
        /\ ~(n <= 1) => ~e.spare_full
    <3>1. /\ SameMain(d, e) /\ SameDelivery(d, e)
          /\ e.rowgroup_ctr = IF n <= 1 THEN d.rowgroup_ctr ELSE d.rowgroup_ctr + 1
          /\ e.made = [k \in 1 .. n |-> MergedRow(d, k - 1)]
          /\ n <= 1 => e.spare_row = MergedRow(d, 1)
      BY DEF UpsamplePair, Ready, Upsampler, Object, Counters, SameMain, SameDelivery
    <3>2. e.spare_full = (n <= 1)
      BY DEF UpsamplePair, Ready, Upsampler, Object, Counters
    <3> HIDE DEF e
    <3>3. QED
      BY <3>1, <3>2, Zenon
  <2> HIDE DEF e
  <2>4. row = gv /\ row + n <= H
    <3> HIDE DEF row, gv
    <3>1. QED
      BY <1>1, <2>0, <2>2
  <2>5. e.made = RowsFrom(row, n)
    <3> DEFINE A(k) == MergedRow(d, k - 1)
               B(k) == TrueRow(row + k - 1)
    <3>1. ASSUME NEW k \in 1 .. n PROVE A(k) = B(k)
      <4>1. k - 1 \in 0 .. maxv - 1 /\ gv + (k - 1) < H /\ gv + (k - 1) = row + k - 1
        <5> HIDE DEF row, gv
        <5>1. QED
          BY <1>1, <1>8, <2>2, <2>4
      <4>2. MergedRow(d, k - 1) = TrueRow(gv + (k - 1))
        BY <1>3, <4>1
      <4>3. QED
        BY <4>1, <4>2, Zenon
    <3>2. e.made = [k \in 1 .. n |-> A(k)] /\ RowsFrom(row, n) = [k \in 1 .. n |-> B(k)]
      BY <2>3 DEF RowsFrom
    <3> HIDE DEF A, B
    <3>3. QED
      BY <3>1, <3>2
  <2>6. CASE n = 1
    <3>1. e.spare_full /\ e.rowgroup_ctr = d.rowgroup_ctr /\ e.spare_row = MergedRow(d, 1)
      BY <2>3, <2>6
    <3>2. Open(e) /\ Done(e) = 1
      BY <1>2, <1>8, <3>1 DEF Open, Done
    <3>3. NextGroup(e) * maxv = gv /\ NextGroup(e) = NextGroup(d)
      BY <1>4, <2>3, <3>1
    <3>4. RowNo(e) = row + n
      BY <2>4, <2>6, <3>2, <3>3, Zenon DEF RowNo
    <3>5. Kept(e)
      <4>1. ASSUME gv + 1 < H PROVE e.spare_row = TrueRow(gv + 1)
        <5>1. 1 \in 0 .. maxv - 1
          BY <1>8
        <5>2. QED
          BY <1>3, <3>1, <4>1, <5>1
      <4>2. QED
        BY <1>2, <3>3, <4>1, Zenon DEF Kept
    <3>6. HandsOut(d, e, n)
      BY <2>2, <2>3, <2>4, <2>5, <3>1, <3>4, <3>5 DEF HandsOut
    <3>7. QED
      BY <2>1, <2>2, <3>6
  <2>7. CASE n = 2
    <3>1. ~e.spare_full /\ e.rowgroup_ctr = d.rowgroup_ctr + 1
      BY <2>3, <2>7
    <3>2. ~Open(e) /\ Done(e) = 0
      BY <1>2, <3>1 DEF Open, Done
    <3>3. RowNo(e) = row + n
      <4>1. RowNo(e) = NextGroup(e) * maxv + 0 /\ NextGroup(e) * maxv = gv + maxv
        BY <1>4, <2>3, <3>1, <3>2 DEF RowNo
      <4> DEFINE z == NextGroup(e) * maxv
      <4> HIDE DEF row, gv, z
      <4>2. z = gv + maxv /\ RowNo(e) = z + 0
        BY <4>1 DEF z
      <4>3. QED
        BY <1>1, <1>8, <2>4, <2>7, <4>2
    <3>4. Kept(e)
      BY <3>2 DEF Kept
    <3>5. HandsOut(d, e, n)
      BY <2>2, <2>3, <2>4, <2>5, <3>1, <3>2, <3>3, <3>4 DEF HandsOut
    <3>6. QED
      BY <2>1, <2>2, <3>5
  <2>8. QED
    BY <2>2, <2>6, <2>7
<1>9. QED
  BY <1>1, <1>6, <1>7, <1>8

(* Whatever the upsampler, it hands out the next rows of the image. *)
LEMMA UpsamplerRight ==
  ASSUME DisplayRight, NEW d, Ready(d), NEW room \in Nat, room > 0
  PROVE  \E n \in Nat : HandsOut(d, upsample(d, room), n)
<1>1. display.up \in {"sep", "merged"}
  BY DEF DisplayRight, DisplayOK
<1>2. QED
  BY <1>1, SepHandsOut, MergedHandsOut

(* The main controller is at row y, between two calls of the upsampler.    *)
Placed(d, row) ==
  /\ Main(d) /\ Kept(d) /\ RowNo(d) = row /\ (Open(d) => HasGroup(d))

SameUpsampler(d, e) ==
  /\ e.rowgroup_ctr = d.rowgroup_ctr /\ e.next_row_out = d.next_row_out /\ e.spare_full = d.spare_full
  /\ e.spare_row = d.spare_row /\ e.color_buf = d.color_buf

(* The main controller's part of the state depends on its own fields. *)
LEMMA MainSame ==
  ASSUME NEW d, NEW e, SameMain(d, e)
  PROVE  /\ Workspaced(d) => Workspaced(e)
         /\ PointersRight(d) => PointersRight(e)
         /\ CellsRight(d) => CellsRight(e)
         /\ PlainRight(d) => PlainRight(e)
         /\ Behind(e) = Behind(d)
<1>1. Behind(e) = Behind(d) /\ Edge(e) = Edge(d) /\ Bottom(e) = Bottom(d)
  BY DEF SameMain, Behind, Edge, Bottom
<1>2. \A ci, i : Cell(e, ci, i) = Cell(d, ci, i)
  BY SameSamples
<1>3. CellsRight(d) => CellsRight(e)
  <2>1. d.buffer_full = e.buffer_full
    BY DEF SameMain
  <2> SUFFICES ASSUME CellsRight(d), NEW ci \in OutComps
               PROVE  LET before == Behind(e) * (rgroup(ci) * M)
                      IN  /\ e.buffer_full => \A i \in 0 .. rgroup(ci) * M - 1 :
                               before + i < RowsInBlocks(ci) => Cell(e, ci, i) = before + i
                          /\ Behind(e) >= 1 => \A i \in rgroup(ci) * M .. Around(ci) - 1 :
                               Cell(e, ci, i) = before + i - Around(ci)
    BY DEF CellsRight
  <2>2. /\ d.buffer_full => \A i \in 0 .. rgroup(ci) * M - 1 :
             Behind(d) * (rgroup(ci) * M) + i < RowsInBlocks(ci) => Cell(d, ci, i) = Behind(d) * (rgroup(ci) * M) + i
        /\ Behind(d) >= 1 => \A i \in rgroup(ci) * M .. Around(ci) - 1 :
             Cell(d, ci, i) = Behind(d) * (rgroup(ci) * M) + i - Around(ci)
    BY Zenon DEF CellsRight
  <2>3. QED
    BY <1>1, <1>2, <2>1, <2>2, Zenon
<1>4. PlainRight(d) => PlainRight(e)
  <2>1. d.buffer_full = e.buffer_full /\ d.buffer = e.buffer /\ d.xbuffer = e.xbuffer /\ d.whichptr = e.whichptr
    BY DEF SameMain
  <2>2. QED
    BY <1>1, <2>1, Zenon DEF PlainRight
<1>5. PointersRight(d) => PointersRight(e)
  BY <1>1, Zenon DEF PointersRight, SameMain
<1>6. Workspaced(d) => Workspaced(e)
  BY DEF Workspaced, SameMain
<1>7. QED
  BY <1>1, <1>3, <1>4, <1>5, <1>6

(* The place that the output has come to depends on the fields of the      *)
(* main controller and of the upsampler.                                   *)
LEMMA PlacedSame ==
  ASSUME NEW d, NEW e, NEW row, SameMain(d, e), SameUpsampler(d, e), Placed(d, row)
  PROVE  Placed(e, row) /\ (HasGroup(d) => HasGroup(e)) /\ RowNo(e) = RowNo(d)
<1>1. NextGroup(e) = NextGroup(d)
  BY SameSamples DEF SameUpsampler
<1>2. (Open(e) <=> Open(d)) /\ Done(e) = Done(d)
  BY DEF Open, Done, SameUpsampler
<1>3. RowNo(e) = RowNo(d)
  BY <1>1, <1>2 DEF RowNo
<1>4. Kept(d) => Kept(e)
  <2>1. ASSUME NEW ci, KeptOf(d, ci) PROVE KeptOf(e, ci)
    BY <1>1, <2>1, Zenon DEF KeptOf, SameUpsampler
  <2>2. d.spare_row = e.spare_row
    BY DEF SameUpsampler
  <2>3. QED
    BY <1>1, <1>2, <2>1, <2>2, Zenon DEF Kept
<1>5. HasGroup(d) => HasGroup(e)
  BY DEF HasGroup, SameMain, SameUpsampler
<1>6. Main(e)
  <2>1. (SimpleMain(d) => SimpleMain(e)) /\ (ContextMain(d) => ContextMain(e))
    BY DEF SimpleMain, ContextMain, Process, Postponed, Prepare, SameMain, SameUpsampler
  <2>2. e.output_iMCU_row = d.output_iMCU_row /\ e.iMCU_row_ctr = d.iMCU_row_ctr /\ e.buffer_full = d.buffer_full
    BY DEF SameMain
  <2>3. QED
    BY <2>1, <2>2, MainSame, Zenon DEF Main, Placed
<1>7. QED
  BY <1>2, <1>3, <1>4, <1>5, <1>6, Zenon DEF Placed

(* A group in hand is right for the upsampler, and what remains of it too. *)
LEMMA PlacedNumbers ==
  ASSUME DisplayRight, NEW d, Main(d)
  PROVE  /\ d.iMCU_row_ctr \in Int /\ Behind(d) \in Int /\ NextGroup(d) \in Int
         /\ d.buffer_full \in BOOLEAN
<1>1. M \in Int /\ iMCURows \in Int /\ LastGroups \in Int
  BY DisplayNumbers, iMCUsBelow, GroupsLeft
<1>2. d.iMCU_row_ctr \in Int /\ d.buffer_full \in BOOLEAN
  BY <1>1 DEF Main
<1>3. Group(d) \in Int
  <2>1. CASE need_context_rows
    <3>1. Process(d) => d.rowgroup_ctr \in Int /\ d.context_state = "process"
      BY <1>1 DEF Process
    <3>2. Postponed(d) => d.rowgroup_ctr \in Int
      BY <1>1 DEF Postponed
    <3>3. Prepare(d) => d.context_state = "prepare"
      BY DEF Prepare
    <3>4. QED
      BY <1>1, <2>1, <3>1, <3>2, <3>3 DEF Main, ContextMain, Group
  <2>2. CASE ~need_context_rows
    BY <1>1, <2>2 DEF Main, SimpleMain, Group
  <2>3. QED
    BY <2>1, <2>2
<1>4. Behind(d) \in Int
  BY <1>2 DEF Behind
<1>5. NextGroup(d) \in Int
  <2> DEFINE b == Behind(d)
             m == M
  <2>1. b \in Int /\ m \in Int
    BY <1>1, <1>4
  <2>2. NextGroup(d) = b * m + Group(d)
    BY DEF NextGroup
  <2> HIDE DEF b, m
  <2>3. QED
    BY <1>3, <2>1, <2>2
<1>6. QED
  BY <1>2, <1>4, <1>5

(* With a row group at hand the upsampler is ready. *)
LEMMA PlacedIsReady ==
  ASSUME DisplayRight, NEW row \in Nat, row < H, NEW d, Upsampler(d), Placed(d, row), HasGroup(d),
         Merged1 \/ d.rows_to_go = H - row
  PROVE  Ready(d)
<1>1. GroupRight(d)
  BY GroupIsRight DEF Placed
<1>2. d.iMCU_row_ctr \in Int /\ d.buffer_full \in BOOLEAN /\ NextGroup(d) \in Int
  BY PlacedNumbers DEF Placed
<1>3. need_context_rows => d.context_state # "prepare"
  BY DEF HasGroup
<1>4. NextGroup(d) \in Nat
  <2> DEFINE n == NextGroup(d)
             v == maxv
  <2>1. v \in Int /\ v > 0 /\ v \in Nat /\ Done(d) <= v - 1 /\ Done(d) \in Int
    BY DisplayNumbers DEF Done, Open, Upsampler
  <2>2. row = n * v + Done(d)
    BY DEF Placed, RowNo
  <2>3. n \in Int
    BY <1>2
  <2> HIDE DEF n, v
  <2>4. ASSUME n <= -1 PROVE FALSE
    <3>1. n * v <= (-1) * v /\ n * v \in Int
      BY <2>1, <2>3, <2>4, ProductGrows
    <3>2. (-1) * v = -v
      BY <2>1
    <3> DEFINE z == n * v
    <3> HIDE DEF z
    <3>3. z \in Int /\ z <= -v /\ row = z + Done(d)
      BY <2>2, <3>1, <3>2 DEF z
    <3>4. QED
      BY <2>1, <3>3
  <2>5. QED
    BY <2>3, <2>4 DEF n
<1>5. RowNo(d) < H /\ (Merged1 \/ d.rows_to_go = H - RowNo(d)) /\ Kept(d)
  BY DEF Placed
<1>6. QED
  BY <1>1, <1>2, <1>3, <1>4, <1>5 DEF Ready

(* What it hands out moves the place by as many rows. *)
LEMMA PlacedAfter ==
  ASSUME DisplayRight, NEW row \in Nat, NEW d, Placed(d, row), HasGroup(d), d.rowgroup_ctr \in Int,
         NEW e, NEW n \in Nat, HandsOut(d, e, n)
  PROVE  /\ Placed(e, row + n) /\ (e.buffer_full <=> d.buffer_full)
         /\ need_context_rows => (Process(d) => Process(e)) /\ (Postponed(d) => Postponed(e))
<1>1. /\ SameMain(d, e) /\ Kept(e) /\ RowNo(e) = row + n
      /\ \/ e.rowgroup_ctr = d.rowgroup_ctr
         \/ e.rowgroup_ctr = d.rowgroup_ctr + 1 /\ ~Open(e)
  BY DEF HandsOut, Placed
<1>2. (e.buffer_full <=> d.buffer_full) /\ d.buffer_full
  BY <1>1 DEF SameMain, HasGroup
<1>3. Open(e) => HasGroup(e)
  BY <1>1 DEF HasGroup, SameMain
<1>4. M \in Int /\ LastGroups \in Int
  BY DisplayNumbers, GroupsLeft
<1>5. ASSUME need_context_rows PROVE Process(d) => Process(e)
  <2>1. d.rowgroup_ctr < d.rowgroups_avail
    BY <1>5 DEF HasGroup
  <2>2. QED
    BY <1>1, <1>4, <2>1 DEF Process, SameMain
<1>6. ASSUME need_context_rows PROVE Postponed(d) => Postponed(e)
  <2>1. d.rowgroup_ctr < d.rowgroups_avail
    BY <1>6 DEF HasGroup
  <2>2. QED
    BY <1>1, <1>2, <1>4, <2>1 DEF Postponed, SameMain
<1>7. Main(e)
  <2>1. CASE need_context_rows
    <3>1. ContextMain(e)
      <4>1. Process(d) \/ Postponed(d)
        BY <2>1 DEF Placed, Main, HasGroup, ContextMain, Prepare
      <4>2. QED
        BY <1>5, <1>6, <2>1, <4>1 DEF ContextMain
    <3>2. PointersRight(e) /\ CellsRight(e) /\ Workspaced(e)
      BY <1>1, <2>1, MainSame DEF Placed, Main
    <3>3. QED
      BY <1>1, <2>1, <3>1, <3>2 DEF Placed, Main, SameMain
  <2>2. CASE ~need_context_rows
    <3>1. SimpleMain(e)
      BY <1>1, <1>2, <1>4, <2>2 DEF Placed, Main, SimpleMain, HasGroup, SameMain
    <3>2. PlainRight(e) /\ Workspaced(e)
      BY <1>1, <2>2, MainSame DEF Placed, Main
    <3>3. QED
      BY <1>1, <2>2, <3>1, <3>2 DEF Placed, Main, SameMain
  <2>3. QED
    BY <2>1, <2>2
<1>8. CASE need_context_rows
  BY <1>1, <1>2, <1>3, <1>5, <1>6, <1>7, <1>8 DEF Placed
<1>9. CASE ~need_context_rows
  BY <1>1, <1>2, <1>3, <1>7, <1>9 DEF Placed
<1>10. QED
  BY <1>8, <1>9

(* A row of iMCUs arrives at the places that the list in use gives.        *)
LEMMA Arrived ==
  ASSUME DisplayRight, NEW d, Object(d), Workspaced(d), d.output_iMCU_row = d.iMCU_row_ctr, d.iMCU_row_ctr \in Int,
         NEW ci \in OutComps, NEW L,
         \A i \in 0 .. rgroup(ci) * M - 1 : d.xbuffer[d.whichptr][ci][i] = L[i] /\ L[i] \in 0 .. Workspace(ci) - 1,
         \A i, j \in 0 .. rgroup(ci) * M - 1 : L[i] = L[j] => i = j
  PROVE  LET e == decompress_data(d)
             first == d.iMCU_row_ctr * (rgroup(ci) * M)
         IN  /\ DOMAIN e.buffer[ci] = 0 .. Workspace(ci) - 1
             /\ \A i \in 0 .. rgroup(ci) * M - 1 :
                  first + i < RowsInBlocks(ci) => e.buffer[ci][L[i]] = first + i
             /\ \A p \in 0 .. Workspace(ci) - 1 :
                  (\A i \in 0 .. rgroup(ci) * M - 1 : L[i] # p) => e.buffer[ci][p] = d.buffer[ci][p]
<1> DEFINE e == decompress_data(d)
           gm == rgroup(ci) * M
           first == d.iMCU_row_ctr * (rgroup(ci) * M)
           R == 0 .. gm - 1
           new == {i \in R : first + i < RowsInBlocks(ci)}
           at == [i \in new |-> d.xbuffer[d.whichptr][ci][i]]
           W == 0 .. Workspace(ci) - 1
           old == d.buffer[ci]
<1>1. iMCUheight(ci) = gm /\ d.output_iMCU_row * iMCUheight(ci) = first
  BY DisplayNumbers
<1>2. e.buffer[ci] = [p \in DOMAIN old |-> IF \E i \in new : at[i] = p
                                           THEN first + (CHOOSE i \in new : at[i] = p) ELSE old[p]]
  <2>1. e.buffer = [cc \in OutComps |->
          LET fst == d.output_iMCU_row * iMCUheight(cc)
              nw == {i \in 0..(iMCUheight(cc) - 1) : fst + i < RowsInBlocks(cc)}
              aw == [i \in nw |-> d.xbuffer[d.whichptr][cc][i]]
          IN  [p \in DOMAIN d.buffer[cc] |->
                  IF \E i \in nw : aw[i] = p THEN fst + (CHOOSE i \in nw : aw[i] = p)
                  ELSE d.buffer[cc][p]]]
    <3>1. "buffer" \in DOMAIN d
      BY DEF Object, Counters
    <3>2. QED
      BY <3>1, Zenon DEF decompress_data
  <2>2. e.buffer[ci] =
          LET fst == d.output_iMCU_row * iMCUheight(ci)
              nw == {i \in 0..(iMCUheight(ci) - 1) : fst + i < RowsInBlocks(ci)}
              aw == [i \in nw |-> d.xbuffer[d.whichptr][ci][i]]
          IN  [p \in DOMAIN d.buffer[ci] |->
                  IF \E i \in nw : aw[i] = p THEN fst + (CHOOSE i \in nw : aw[i] = p)
                  ELSE d.buffer[ci][p]]
    BY <2>1, Zenon
  <2> DEFINE fst == d.output_iMCU_row * iMCUheight(ci)
             nw == {i \in 0..(iMCUheight(ci) - 1) : fst + i < RowsInBlocks(ci)}
             aw == [i \in nw |-> d.xbuffer[d.whichptr][ci][i]]
  <2>3. fst = first /\ nw = new
    BY <1>1, Zenon
  <2>4. aw = at
    <3> HIDE DEF nw, new
    <3>1. QED
      BY <2>3, Zenon
  <2>5. e.buffer[ci] = [p \in DOMAIN old |-> IF \E i \in nw : aw[i] = p
                                            THEN fst + (CHOOSE i \in nw : aw[i] = p) ELSE old[p]]
    BY <2>2, Zenon
  <2> DEFINE Stored(f, s, a) == [p \in DOMAIN old |-> IF \E i \in s : a[i] = p
                                                  THEN f + (CHOOSE i \in s : a[i] = p) ELSE old[p]]
  <2>6. e.buffer[ci] = Stored(fst, nw, aw)
    BY <2>5, Zenon
  <2> HIDE DEF e, fst, nw, aw, first, new, at, Stored
  <2>7. e.buffer[ci] = Stored(first, new, at)
    BY <2>3, <2>4, <2>6, Zenon
  <2>8. QED
    BY <2>7, Zenon DEF Stored
<1>3. DOMAIN old = W
  BY DEF Workspaced
<1>4. \A i \in new : at[i] = L[i] /\ i \in R
  OBVIOUS
<1>5. \A i \in R : L[i] \in W
  OBVIOUS
<1>6. \A i, j \in R : L[i] = L[j] => i = j
  OBVIOUS
<1>7. \A i \in R : first + i < RowsInBlocks(ci) => i \in new
  OBVIOUS
<1> HIDE DEF e, first, R, at, W, old, gm
<1>8. DOMAIN e.buffer[ci] = W
  BY <1>2, <1>3, Zenon
<1>9. ASSUME NEW i \in R, first + i < RowsInBlocks(ci) PROVE e.buffer[ci][L[i]] = first + i
  <2>1. i \in new /\ at[i] = L[i] /\ L[i] \in W
    BY <1>4, <1>5, <1>7, <1>9
  <2> HIDE DEF new
  <2>2. \E j \in new : at[j] = L[i]
    BY <2>1
  <2> DEFINE ch == CHOOSE j \in new : at[j] = L[i]
  <2>3. ch \in new /\ at[ch] = L[i]
    BY <2>2
  <2> HIDE DEF ch
  <2>4. ch = i
    BY <1>4, <1>6, <2>3
  <2>5. e.buffer[ci][L[i]] = first + ch
    BY <1>2, <1>3, <2>1, <2>2, Zenon DEF ch
  <2>6. QED
    BY <2>4, <2>5
<1>10. ASSUME NEW p \in W, \A i \in R : L[i] # p PROVE e.buffer[ci][p] = old[p]
  <2>1. ~ \E i \in new : at[i] = p
    BY <1>4, <1>10
  <2> HIDE DEF new
  <2>2. QED
    BY <1>2, <1>3, <2>1, Zenon
<1>11. QED
  BY <1>8, <1>9, <1>10 DEF e, first, R, W, gm, old

(* What decompress_data changes besides. *)
LEMMA FieldsOfArrival ==
  ASSUME NEW d, Object(d)
  PROVE  LET e == decompress_data(d)
         IN  /\ e.output_iMCU_row = d.output_iMCU_row + 1 /\ e.iMCU_row_ctr = d.iMCU_row_ctr + 1
             /\ e.buffer_full /\ e.xbuffer = d.xbuffer /\ e.whichptr = d.whichptr
             /\ e.context_state = d.context_state /\ e.rowgroups_avail = d.rowgroups_avail
             /\ SameUpsampler(d, e) /\ SameDelivery(d, e)
BY DEF Object, Counters, decompress_data, SameUpsampler, SameDelivery

(* When a row of iMCUs arrives, there is a row group at hand, or the       *)
(* context of one is to be prepared.                                       *)
LEMMA DataArrives ==
  ASSUME DisplayRight, NEW row \in Nat, row < H, NEW d, Object(d), Placed(d, row), ~d.buffer_full
  PROVE  LET e == decompress_data(d)
         IN  /\ Placed(e, row) /\ e.buffer_full
             /\ HasGroup(e) \/ (need_context_rows /\ Prepare(e))
<1> DEFINE e == decompress_data(d)
           n == d.iMCU_row_ctr
<1>1. /\ e.output_iMCU_row = d.output_iMCU_row + 1 /\ e.iMCU_row_ctr = n + 1
      /\ e.buffer_full /\ e.xbuffer = d.xbuffer /\ e.whichptr = d.whichptr
      /\ e.context_state = d.context_state /\ e.rowgroups_avail = d.rowgroups_avail
      /\ SameUpsampler(d, e)
  BY FieldsOfArrival
<1>2. n \in Int /\ n >= 0 /\ n <= iMCURows /\ d.output_iMCU_row = n /\ Workspaced(d) /\ iMCURows \in Int
  BY iMCUsBelow DEF Placed, Main
<1>3. Behind(d) = n
  BY DEF Behind
<1>4. ~Open(d) /\ row = NextGroup(d) * maxv + 0
  <2>1. ~Open(d)
    BY DEF Placed, HasGroup
  <2>2. QED
    BY <2>1 DEF Placed, RowNo, Done
<1>5. M \in Int /\ M > 0 /\ maxv \in Int /\ maxv > 0
  BY DisplayNumbers
<1> HIDE DEF e
<1>6. Behind(e) = n
  BY <1>1, <1>2 DEF Behind
<1>7. Group(e) = Group(d) /\ NextGroup(e) = NextGroup(d)
  <2>1. Group(e) = Group(d)
    BY <1>1 DEF Group, SameUpsampler
  <2>2. QED
    BY <1>3, <1>6, <2>1, Zenon DEF NextGroup
<1>8. ~Open(e) /\ RowNo(e) = row /\ Kept(e)
  <2>1. ~Open(e)
    BY <1>1, <1>4 DEF Open, SameUpsampler
  <2>2. RowNo(e) = row
    BY <1>4, <1>7, <2>1, Zenon DEF RowNo, Done
  <2>3. QED
    BY <2>1, <2>2 DEF Kept
<1>9. CASE ~need_context_rows
  <2>1. d.rowgroup_ctr = 0 /\ d.xbuffer = PlainPointers /\ d.whichptr = 0
    BY <1>9 DEF Placed, Main, SimpleMain, PlainRight
  <2>2. n < iMCURows
    <3>1. NextGroup(d) = n * M + 0
      BY <1>3, <1>9, <2>1 DEF NextGroup, Group
    <3>2. n * M + 0 = n * M
      BY <1>2, <1>5
    <3>3. (n * M) * maxv + 0 = (n * M) * maxv
      <4> DEFINE z == n * M
                 v == maxv
      <4>1. z \in Int /\ v \in Int
        BY <1>2, <1>5
      <4> HIDE DEF z, v
      <4>2. z * v + 0 = z * v
        BY <4>1
      <4>3. QED
        BY <4>2 DEF z, v
    <3>4. (n * M) * maxv < H
      BY <1>4, <3>1, <3>2, <3>3, Zenon
    <3>5. QED
      BY <1>2, <3>4, iMCUsBelow
  <2>3. SimpleMain(e) /\ HasGroup(e)
    BY <1>1, <1>2, <1>5, <1>9, <2>1 DEF SimpleMain, HasGroup, SameUpsampler
  <2>4. ASSUME NEW ci \in OutComps
        PROVE  /\ DOMAIN e.buffer[ci] = 0 .. Workspace(ci) - 1
               /\ \A i \in 0 .. rgroup(ci) * M - 1 :
                    n * (rgroup(ci) * M) + i < RowsInBlocks(ci) => e.buffer[ci][i] = n * (rgroup(ci) * M) + i
    <3> DEFINE R == 0 .. rgroup(ci) * M - 1
               L == [i \in R |-> i]
    <3>1. Workspace(ci) = rgroup(ci) * M
      BY <1>9 DEF Workspace
    <3>2. \A i \in R : L[i] = i
      OBVIOUS
    <3>3. \A i \in R : d.xbuffer[d.whichptr][ci][i] = L[i] /\ L[i] \in 0 .. Workspace(ci) - 1
      <4>1. d.xbuffer[d.whichptr][ci] = [k \in R |-> k]
        BY <2>1 DEF PlainPointers
      <4> HIDE DEF R
      <4>2. \A i \in R : d.xbuffer[d.whichptr][ci][i] = i
        BY <4>1
      <4>3. \A i \in R : i \in 0 .. Workspace(ci) - 1
        BY <3>1 DEF R
      <4>4. QED
        BY <3>2, <4>2, <4>3
    <3>4. \A i, j \in R : L[i] = L[j] => i = j
      BY <3>2
    <3> HIDE DEF L
    <3>5. /\ DOMAIN e.buffer[ci] = 0 .. Workspace(ci) - 1
          /\ \A i \in R : n * (rgroup(ci) * M) + i < RowsInBlocks(ci) => e.buffer[ci][L[i]] = n * (rgroup(ci) * M) + i
      BY <1>2, <3>3, <3>4, Arrived DEF e
    <3>6. QED
      BY <3>2, <3>5
  <2>5. PlainRight(e) /\ Workspaced(e)
    BY <1>1, <1>6, <2>1, <2>4 DEF PlainRight, Workspaced
  <2>6. Main(e)
    BY <1>1, <1>2, <1>9, <2>2, <2>3, <2>5 DEF Main
  <2>7. QED
    BY <1>1, <1>8, <2>3, <2>6 DEF Placed, e
<1>10. CASE need_context_rows
  <2>1. Postponed(d) \/ Prepare(d)
    BY <1>10 DEF Placed, Main, ContextMain, Process
  <2>2. PointersRight(d) /\ CellsRight(d)
    BY <1>10 DEF Placed, Main
  <2>3. n < iMCURows /\ (Postponed(d) => n >= 1)
    <3>1. CASE Postponed(d)
      BY <1>2, <3>1 DEF Postponed
    <3>2. CASE Prepare(d)
      BY <1>2, <3>2, iMCUsBelow DEF Prepare, Postponed
    <3>3. QED
      BY <2>1, <3>1, <3>2
  <2>4. d.whichptr \in 0 .. 1 /\ d.xbuffer = Table(d.whichptr, Edge(d), FALSE) /\ (Edge(d) \/ d.whichptr = 0)
    <3>1. Bottom(d) = FALSE
      BY <2>1 DEF Bottom, Postponed, Prepare
    <3>2. QED
      BY <2>2, <3>1, Zenon DEF PointersRight
  <2>5. Edge(e) = Edge(d)
    BY <1>1, <1>2, <2>1 DEF Edge, Postponed, Prepare
  <2>6. PointersRight(e)
    <3>1. Bottom(e) = FALSE
      BY <1>1, <2>1 DEF Bottom, Postponed, Prepare
    <3>2. QED
      BY <1>1, <2>4, <2>5, <3>1, Zenon DEF PointersRight
  <2>7. ASSUME NEW ci \in OutComps
        PROVE  /\ DOMAIN e.buffer[ci] = 0 .. Workspace(ci) - 1
               /\ \A i \in 0 .. rgroup(ci) * M - 1 :
                    n * (rgroup(ci) * M) + i < RowsInBlocks(ci) => Cell(e, ci, i) = n * (rgroup(ci) * M) + i
               /\ \A i \in rgroup(ci) * M .. Around(ci) - 1 : Cell(e, ci, i) = Cell(d, ci, i)
    <3> DEFINE gm == rgroup(ci) * M
               R == 0 .. gm - 1
               w == Around(ci)
               L == List(d.whichptr, ci)
    <3>1. /\ gm \in Int /\ w \in Int /\ gm < w /\ Workspace(ci) = w
      <4>1. w = gm + 2 * rgroup(ci) /\ gm \in Int /\ rgroup(ci) \in Int /\ rgroup(ci) > 0 /\ Workspace(ci) = w
        BY <1>10, DisplayNumbers, Workspaces DEF Around
      <4> HIDE DEF gm, w
      <4>2. QED
        BY <4>1
    <3>2. /\ \A i \in 0 .. w - 1 : L[i] \in 0 .. w - 1
          /\ \A i, j \in 0 .. w - 1 : L[i] = L[j] => i = j
      BY <1>10, <2>4, ListsApart
    <3>3. \A i \in 0 .. w - 1 : d.xbuffer[d.whichptr][ci][i] = L[i]
      <4>1. ASSUME NEW i \in 0 .. w - 1 PROVE d.xbuffer[d.whichptr][ci][i] = L[i]
        <5>1. Edge(d) \in BOOLEAN
          BY DEF Edge
        <5>2. i \in FunnyRange(ci) /\ Usual(Edge(d), d.whichptr, ci)[i] = L[i]
          BY <1>10, <2>4, <5>1, UsualAt
        <5>3. Table(d.whichptr, Edge(d), FALSE)[d.whichptr][ci][i] = Usual(Edge(d), d.whichptr, ci)[i]
          <6>1. Table(d.whichptr, Edge(d), FALSE)[d.whichptr] =
                  [cc \in OutComps |-> [k \in FunnyRange(cc) |->
                      IF d.whichptr = d.whichptr /\ FALSE /\ k \in BottomRange(cc)
                      THEN Usual(Edge(d), d.whichptr, cc)[rows_left(cc) - 1]
                      ELSE Usual(Edge(d), d.whichptr, cc)[k]]]
            BY <2>4, Zenon DEF Table
          <6>2. Table(d.whichptr, Edge(d), FALSE)[d.whichptr][ci] =
                  [k \in FunnyRange(ci) |->
                      IF d.whichptr = d.whichptr /\ FALSE /\ k \in BottomRange(ci)
                      THEN Usual(Edge(d), d.whichptr, ci)[rows_left(ci) - 1]
                      ELSE Usual(Edge(d), d.whichptr, ci)[k]]
            BY <6>1, Zenon
          <6>3. QED
            BY <5>2, <6>2, Zenon
        <5>4. QED
          BY <2>4, <5>2, <5>3, Zenon
      <4>2. QED
        BY <4>1
    <3> HIDE DEF gm, w, L
    <3>4. /\ \A i \in R : d.xbuffer[d.whichptr][ci][i] = L[i] /\ L[i] \in 0 .. Workspace(ci) - 1
          /\ \A i, j \in R : L[i] = L[j] => i = j
      <4>1. \A i \in R : i \in 0 .. w - 1
        BY <3>1
      <4> HIDE DEF R
      <4>2. 0 .. Workspace(ci) - 1 = 0 .. w - 1
        BY <3>1
      <4>3. QED
        BY <3>2, <3>3, <4>1, <4>2, Zenon
    <3>5. /\ DOMAIN e.buffer[ci] = 0 .. Workspace(ci) - 1
          /\ \A i \in R : n * gm + i < RowsInBlocks(ci) => e.buffer[ci][L[i]] = n * gm + i
          /\ \A p \in 0 .. Workspace(ci) - 1 : (\A i \in R : L[i] # p) => e.buffer[ci][p] = d.buffer[ci][p]
      BY <1>2, <3>4, Arrived DEF e, gm
    <3>6. \A i : Cell(e, ci, i) = e.buffer[ci][L[i]] /\ Cell(d, ci, i) = d.buffer[ci][L[i]]
      BY <1>1 DEF Cell, L
    <3>7. ASSUME NEW i \in gm .. w - 1 PROVE Cell(e, ci, i) = Cell(d, ci, i)
      <4>1. i \in 0 .. w - 1 /\ \A j \in R : j \in 0 .. w - 1 /\ j # i
        <5>1. 0 <= gm
          BY DisplayNumbers DEF gm
        <5>2. QED
          BY <3>1, <5>1
      <4> HIDE DEF R
      <4>2. \A j \in R : L[j] # L[i]
        BY <3>2, <4>1
      <4>3. L[i] \in 0 .. Workspace(ci) - 1
        BY <3>1, <3>2, <4>1
      <4>4. QED
        BY <3>5, <3>6, <4>2, <4>3
    <3>8. QED
      BY <3>5, <3>6, <3>7 DEF gm, w
  <2>8. CellsRight(e) /\ Workspaced(e)
    <3>1. CellsRight(e)
      <4> SUFFICES ASSUME NEW ci \in OutComps
                   PROVE  LET before == Behind(e) * (rgroup(ci) * M)
                          IN  /\ e.buffer_full => \A i \in 0 .. rgroup(ci) * M - 1 :
                                   before + i < RowsInBlocks(ci) => Cell(e, ci, i) = before + i
                              /\ Behind(e) >= 1 => \A i \in rgroup(ci) * M .. Around(ci) - 1 :
                                   Cell(e, ci, i) = before + i - Around(ci)
        BY DEF CellsRight
      <4>1. Behind(d) >= 1 => \A i \in rgroup(ci) * M .. Around(ci) - 1 :
               Cell(d, ci, i) = Behind(d) * (rgroup(ci) * M) + i - Around(ci)
        BY <2>2, Zenon DEF CellsRight
      <4>2. QED
        BY <1>3, <1>6, <2>7, <4>1, Zenon
    <3>2. QED
      BY <2>7, <3>1 DEF Workspaced
  <2>9. ContextMain(e) /\ (HasGroup(e) \/ Prepare(e))
    <3>1. CASE Postponed(d)
      <4>1. /\ d.context_state = "postponed" /\ d.rowgroups_avail = M + 2 /\ d.rowgroup_ctr = M + 1 /\ n >= 1
        BY <3>1 DEF Postponed
      <4>2. Postponed(e) /\ HasGroup(e)
        BY <1>1, <1>2, <1>5, <1>10, <4>1 DEF Postponed, HasGroup, SameUpsampler
      <4>3. QED
        BY <4>2 DEF ContextMain
    <3>2. CASE Prepare(d)
      <4>1. Prepare(e)
        BY <1>1, <1>2, <3>2 DEF Prepare
      <4>2. QED
        BY <4>1 DEF ContextMain
    <3>3. QED
      BY <2>1, <3>1, <3>2
  <2>10. Main(e)
    BY <1>1, <1>2, <1>10, <2>3, <2>6, <2>8, <2>9 DEF Main
  <2>11. QED
    BY <1>1, <1>8, <1>10, <2>9, <2>10 DEF Placed, e
<1>11. QED
  BY <1>9, <1>10

(* set_bottom_pointers and set_wraparound_pointers on the lists.           *)
LEMMA BottomSet ==
  ASSUME DisplayRight, need_context_rows, NEW w \in 0 .. 1, NEW edge \in BOOLEAN
  PROVE  LET t == Table(w, edge, FALSE)
         IN  [t EXCEPT ![w] = [ci \in OutComps |-> [i \in FunnyRange(ci) |->
                 IF i \in rows_left(ci)..(rows_left(ci) + 2 * rgroup(ci) - 1) THEN @[ci][rows_left(ci) - 1]
                 ELSE @[ci][i]]]]
             = Table(w, edge, TRUE)
<1> DEFINE t == Table(w, edge, FALSE)
           b == Table(w, edge, TRUE)
           Rep(ci) == [i \in FunnyRange(ci) |->
                 IF i \in rows_left(ci)..(rows_left(ci) + 2 * rgroup(ci) - 1) THEN t[w][ci][rows_left(ci) - 1]
                 ELSE t[w][ci][i]]
           e == [t EXCEPT ![w] = [ci \in OutComps |-> Rep(ci)]]
           A(l) == e[l]
           B(l) == b[l]
<1>1. DOMAIN t = 0 .. 1 /\ DOMAIN b = 0 .. 1 /\ DOMAIN e = 0 .. 1
  BY DEF Table
<1>2. ASSUME NEW l \in 0 .. 1, l # w PROVE A(l) = B(l)
  <2>1. A(l) = t[l]
    BY <1>1, <1>2
  <2>2. t[l] = [ci \in OutComps |-> [i \in FunnyRange(ci) |->
           IF l = w /\ FALSE /\ i \in BottomRange(ci) THEN Usual(edge, l, ci)[rows_left(ci) - 1]
           ELSE Usual(edge, l, ci)[i]]]
    BY Zenon DEF Table
  <2>3. b[l] = [ci \in OutComps |-> [i \in FunnyRange(ci) |->
           IF l = w /\ TRUE /\ i \in BottomRange(ci) THEN Usual(edge, l, ci)[rows_left(ci) - 1]
           ELSE Usual(edge, l, ci)[i]]]
    BY Zenon DEF Table
  <2>4. t[l] = [ci \in OutComps |-> [i \in FunnyRange(ci) |-> Usual(edge, l, ci)[i]]]
    BY <2>2
  <2>5. b[l] = [ci \in OutComps |-> [i \in FunnyRange(ci) |-> Usual(edge, l, ci)[i]]]
    BY <1>2, <2>3
  <2>6. QED
    BY <2>1, <2>4, <2>5, Zenon
<1>3. A(w) = B(w)
  <2>1. A(w) = [ci \in OutComps |-> Rep(ci)]
    BY <1>1
  <2>2. b[w] = [ci \in OutComps |-> [i \in FunnyRange(ci) |->
           IF w = w /\ TRUE /\ i \in BottomRange(ci) THEN Usual(edge, w, ci)[rows_left(ci) - 1]
           ELSE Usual(edge, w, ci)[i]]]
    BY Zenon DEF Table
  <2>3. ASSUME NEW ci \in OutComps
        PROVE  Rep(ci) = [i \in FunnyRange(ci) |->
           IF w = w /\ TRUE /\ i \in BottomRange(ci) THEN Usual(edge, w, ci)[rows_left(ci) - 1]
           ELSE Usual(edge, w, ci)[i]]
    <3>1. t[w][ci] = [i \in FunnyRange(ci) |-> Usual(edge, w, ci)[i]]
      <4>1. t[w] = [cc \in OutComps |-> [i \in FunnyRange(cc) |->
               IF w = w /\ FALSE /\ i \in BottomRange(cc) THEN Usual(edge, w, cc)[rows_left(cc) - 1]
               ELSE Usual(edge, w, cc)[i]]]
        BY Zenon DEF Table
      <4>2. t[w][ci] = [i \in FunnyRange(ci) |->
               IF w = w /\ FALSE /\ i \in BottomRange(ci) THEN Usual(edge, w, ci)[rows_left(ci) - 1]
               ELSE Usual(edge, w, ci)[i]]
        BY <4>1, Zenon
      <4>3. QED
        BY <4>2
    <3>2. rows_left(ci) - 1 \in FunnyRange(ci)
      <4>1. rows_left(ci) \in 1 .. rgroup(ci) * M
        BY LastRows
      <4>2. /\ rgroup(ci) \in Int /\ rgroup(ci) > 0 /\ rgroup(ci) * M \in Int
            /\ FunnyRange(ci) = -rgroup(ci) .. (rgroup(ci) * M + 2 * rgroup(ci)) + rgroup(ci) - 1
        BY DisplayNumbers, Workspaces DEF Around
      <4> DEFINE gm == rgroup(ci) * M
                 k == rows_left(ci)
      <4> HIDE DEF gm, k
      <4>3. k \in 1 .. gm /\ gm \in Int /\ FunnyRange(ci) = -rgroup(ci) .. (gm + 2 * rgroup(ci)) + rgroup(ci) - 1
        BY <4>1, <4>2 DEF gm, k
      <4>4. k - 1 \in FunnyRange(ci)
        BY <4>2, <4>3
      <4>5. QED
        BY <4>4 DEF k
    <3> DEFINE u == Usual(edge, w, ci)
               R == FunnyRange(ci)
               S == BottomRange(ci)
               k == rows_left(ci) - 1
               a == t[w][ci]
    <3>3. Rep(ci) = [i \in R |-> IF i \in S THEN a[k] ELSE a[i]]
      BY DEF BottomRange
    <3>4. a = [i \in R |-> u[i]] /\ k \in R
      BY <3>1, <3>2
    <3> HIDE DEF u, R, S, k, a, Rep
    <3>5. [i \in R |-> IF i \in S THEN a[k] ELSE a[i]]
            = [i \in R |-> IF w = w /\ TRUE /\ i \in S THEN u[k] ELSE u[i]]
      BY <3>4
    <3>6. QED
      BY <3>3, <3>5 DEF R, S, u, k
  <2> HIDE DEF Rep
  <2>4. [ci \in OutComps |-> Rep(ci)] = [ci \in OutComps |-> [i \in FunnyRange(ci) |->
            IF w = w /\ TRUE /\ i \in BottomRange(ci) THEN Usual(edge, w, ci)[rows_left(ci) - 1]
            ELSE Usual(edge, w, ci)[i]]]
    BY <2>3, Zenon
  <2>5. QED
    BY <2>1, <2>2, <2>4, Zenon
<1>4. e = b
  <2>1. e = [l \in 0 .. 1 |-> A(l)]
    BY <1>1
  <2>2. b = [l \in 0 .. 1 |-> B(l)]
    BY DEF Table
  <2>3. \A l \in 0 .. 1 : A(l) = B(l)
    BY <1>2, <1>3
  <2> HIDE DEF A, B, e, b
  <2>4. [l \in 0 .. 1 |-> A(l)] = [l \in 0 .. 1 |-> B(l)]
    BY <2>3
  <2>5. QED
    BY <2>1, <2>2, <2>4, Zenon
<1>5. QED
  BY <1>4

(* The pointers after set_wraparound_pointers. *)
LEMMA WrapSet ==
  ASSUME NEW w, NEW v
  PROVE  LET t == Table(w, FALSE, FALSE)
         IN  [l \in 0 .. 1 |-> [ci \in OutComps |-> Wrapped(ci, t[l][ci])]] = Table(v, TRUE, FALSE)
<1> DEFINE t == Table(w, FALSE, FALSE)
<1>1. ASSUME NEW l \in 0 .. 1, NEW ci \in OutComps PROVE t[l][ci] = List(l, ci)
  <2>1. t[l] = [cc \in OutComps |-> [i \in FunnyRange(cc) |->
           IF l = w /\ FALSE /\ i \in BottomRange(cc) THEN Usual(FALSE, l, cc)[rows_left(cc) - 1]
           ELSE Usual(FALSE, l, cc)[i]]]
    BY Zenon DEF Table
  <2>2. t[l][ci] = [i \in FunnyRange(ci) |->
           IF l = w /\ FALSE /\ i \in BottomRange(ci) THEN Usual(FALSE, l, ci)[rows_left(ci) - 1]
           ELSE Usual(FALSE, l, ci)[i]]
    BY <2>1, Zenon
  <2>3. t[l][ci] = [i \in FunnyRange(ci) |-> Usual(FALSE, l, ci)[i]]
    BY <2>2
  <2>4. Usual(FALSE, l, ci) = List(l, ci)
    BY DEF Usual
  <2>5. List(l, ci) = [i \in FunnyRange(ci) |-> List(l, ci)[i]]
    <3>1. FirstList(ci) = [i \in FunnyRange(ci) |-> FirstList(ci)[i]]
      BY DEF FirstList
    <3>2. SecondList(ci) = [i \in FunnyRange(ci) |-> SecondList(ci)[i]]
      BY DEF SecondList
    <3>3. QED
      BY <3>1, <3>2 DEF List
  <2>6. QED
    BY <2>3, <2>4, <2>5, Zenon
<1> HIDE DEF t
<1>2. ASSUME NEW l \in 0 .. 1, NEW ci \in OutComps
      PROVE  Wrapped(ci, t[l][ci]) = [i \in FunnyRange(ci) |->
               IF l = v /\ FALSE /\ i \in BottomRange(ci) THEN Usual(TRUE, l, ci)[rows_left(ci) - 1]
               ELSE Usual(TRUE, l, ci)[i]]
  <2>1. Usual(TRUE, l, ci) = Wrapped(ci, List(l, ci))
    BY DEF Usual
  <2>2. Wrapped(ci, List(l, ci)) = [i \in FunnyRange(ci) |-> Wrapped(ci, List(l, ci))[i]]
    BY DEF Wrapped
  <2> DEFINE u == Wrapped(ci, List(l, ci))
  <2> HIDE DEF u
  <2>3. u = [i \in FunnyRange(ci) |-> IF l = v /\ FALSE /\ i \in BottomRange(ci) THEN u[rows_left(ci) - 1] ELSE u[i]]
    BY <2>2 DEF u
  <2>4. QED
    BY <1>1, <2>1, <2>3, Zenon DEF u
<1>3. QED
  BY <1>2, Zenon DEF Table, t

(* A row of iMCUs with context is begun: from the "prepare" state, or once *)
(* the postponed row group is done.                                        *)
Due(d) == d.buffer_full /\ (Prepare(d) \/ (Postponed(d) /\ d.rowgroup_ctr = M + 2))

(* When context is due to be prepared, the output stands between two row   *)
(* groups.                                                                 *)
LEMMA DueIsBetween ==
  ASSUME DisplayRight, need_context_rows, NEW row, NEW d, Placed(d, row), Due(d)
  PROVE  /\ ~Open(d) /\ Group(d) = 0 /\ d.iMCU_row_ctr \in 1 .. iMCURows
         /\ Edge(d) = (d.iMCU_row_ctr >= 2) /\ Bottom(d) = FALSE
         /\ row = NextGroup(d) * maxv + 0
<1>1. M \in Int /\ iMCURows \in Int
  BY DisplayNumbers, iMCUsBelow
<1>2. ~HasGroup(d)
  BY <1>1 DEF Due, HasGroup, Prepare, Postponed
<1>3. ~Open(d)
  BY <1>2 DEF Placed
<1>4. Group(d) = 0
  BY <1>1 DEF Due, Group, Prepare, Postponed
<1>5. d.iMCU_row_ctr \in 1 .. iMCURows
  BY <1>1 DEF Due, Prepare, Postponed, Placed, Main
<1>6. Edge(d) = (d.iMCU_row_ctr >= 2) /\ Bottom(d) = FALSE
  BY <1>1 DEF Due, Prepare, Postponed, Edge, Bottom
<1>7. row = NextGroup(d) * maxv + 0
  BY <1>3 DEF Placed, RowNo, Done
<1>8. QED
  BY <1>3, <1>4, <1>5, <1>6, <1>7

(* What the preparation of a row of iMCUs changes. *)
LEMMA FieldsOfPrepared ==
  ASSUME NEW d, Object(d)
  PROVE  LET e == Prepared(d)
         IN  /\ e.buffer = d.buffer /\ e.whichptr = d.whichptr /\ e.context_state = "process"
             /\ e.buffer_full = d.buffer_full /\ e.iMCU_row_ctr = d.iMCU_row_ctr
             /\ e.output_iMCU_row = d.output_iMCU_row /\ e.rowgroup_ctr = 0
             /\ SameDelivery(d, e)
             /\ e.next_row_out = d.next_row_out /\ e.spare_full = d.spare_full
             /\ d.iMCU_row_ctr # iMCURows => e.xbuffer = d.xbuffer /\ e.rowgroups_avail = M - 1
             /\ d.iMCU_row_ctr = iMCURows =>
                  /\ e.rowgroups_avail = LastGroups
                  /\ e.xbuffer = [d.xbuffer EXCEPT ![d.whichptr] =
                       [ci \in OutComps |-> [i \in FunnyRange(ci) |->
                           IF i \in rows_left(ci)..(rows_left(ci) + 2 * rgroup(ci) - 1) THEN @[ci][rows_left(ci) - 1]
                           ELSE @[ci][i]]]]
<1> DEFINE p == PrepareForIMCU(d)
           b == set_bottom_pointers(p)
<1>1. /\ Object(p) /\ p.buffer = d.buffer /\ p.whichptr = d.whichptr /\ p.context_state = "process"
      /\ p.buffer_full = d.buffer_full /\ p.iMCU_row_ctr = d.iMCU_row_ctr /\ p.xbuffer = d.xbuffer
      /\ p.output_iMCU_row = d.output_iMCU_row /\ p.rowgroup_ctr = 0 /\ p.rowgroups_avail = M - 1
      /\ p.lines = d.lines /\ p.scanned = d.scanned /\ p.whole_image = d.whole_image
      /\ p.next_row_out = d.next_row_out /\ p.spare_full = d.spare_full
  BY DEF PrepareForIMCU, Object, Counters
<1> HIDE DEF p
<1>2. /\ b.buffer = p.buffer /\ b.whichptr = p.whichptr /\ b.context_state = p.context_state
      /\ b.buffer_full = p.buffer_full /\ b.iMCU_row_ctr = p.iMCU_row_ctr
      /\ b.output_iMCU_row = p.output_iMCU_row /\ b.rowgroup_ctr = p.rowgroup_ctr
      /\ b.lines = p.lines /\ b.scanned = p.scanned /\ b.whole_image = p.whole_image
      /\ b.next_row_out = p.next_row_out /\ b.spare_full = p.spare_full
      /\ b.rowgroups_avail = LastGroups
      /\ b.xbuffer = [p.xbuffer EXCEPT ![p.whichptr] =
           [ci \in OutComps |-> [i \in FunnyRange(ci) |->
               IF i \in rows_left(ci)..(rows_left(ci) + 2 * rgroup(ci) - 1) THEN @[ci][rows_left(ci) - 1]
               ELSE @[ci][i]]]]
  BY <1>1 DEF set_bottom_pointers, Object, Counters, LastGroups
<1> HIDE DEF b
<1>3. CASE d.iMCU_row_ctr = iMCURows
  <2>1. Prepared(d) = b
    BY <1>3 DEF Prepared, b, p
  <2>2. QED
    BY <1>1, <1>2, <1>3, <2>1 DEF SameDelivery
<1>4. CASE d.iMCU_row_ctr # iMCURows
  <2>1. Prepared(d) = p
    BY <1>4 DEF Prepared, p
  <2>2. QED
    BY <1>1, <1>4, <2>1 DEF SameDelivery
<1>5. QED
  BY <1>3, <1>4

(* A change of the main controller alone between two row groups.           *)
LEMMA Between ==
  ASSUME NEW row, NEW d, NEW e, row = NextGroup(d) * maxv + 0, ~Open(d), NextGroup(e) = NextGroup(d), Main(e),
         e.next_row_out = d.next_row_out, e.spare_full = d.spare_full
  PROVE  Placed(e, row)
<1>1. ~Open(e)
  BY DEF Open
<1>2. RowNo(e) = row
  BY <1>1, Zenon DEF RowNo, Done
<1>3. QED
  BY <1>1, <1>2 DEF Placed, Kept

(* The workspace does not depend on anything else. *)
LEMMA CellsStay ==
  ASSUME NEW d, NEW e, e.buffer = d.buffer, e.whichptr = d.whichptr, e.buffer_full = d.buffer_full,
         Behind(e) = Behind(d)
  PROVE  /\ CellsRight(d) => CellsRight(e)
         /\ Workspaced(d) => Workspaced(e)
<1>1. \A ci, i : Cell(e, ci, i) = Cell(d, ci, i)
  BY DEF Cell
<1>2. CellsRight(d) => CellsRight(e)
  <2> SUFFICES ASSUME CellsRight(d), NEW ci \in OutComps
               PROVE  LET before == Behind(e) * (rgroup(ci) * M)
                      IN  /\ e.buffer_full => \A i \in 0 .. rgroup(ci) * M - 1 :
                               before + i < RowsInBlocks(ci) => Cell(e, ci, i) = before + i
                          /\ Behind(e) >= 1 => \A i \in rgroup(ci) * M .. Around(ci) - 1 :
                               Cell(e, ci, i) = before + i - Around(ci)
    BY DEF CellsRight
  <2>1. /\ d.buffer_full => \A i \in 0 .. rgroup(ci) * M - 1 :
             Behind(d) * (rgroup(ci) * M) + i < RowsInBlocks(ci) => Cell(d, ci, i) = Behind(d) * (rgroup(ci) * M) + i
        /\ Behind(d) >= 1 => \A i \in rgroup(ci) * M .. Around(ci) - 1 :
             Cell(d, ci, i) = Behind(d) * (rgroup(ci) * M) + i - Around(ci)
    BY Zenon DEF CellsRight
  <2>2. QED
    BY <1>1, <2>1, Zenon
<1>3. Workspaced(d) => Workspaced(e)
  BY DEF Workspaced
<1>4. QED
  BY <1>2, <1>3

(* After the preparation the first row group of the iMCUs is at hand. *)
LEMMA IMCUBegins ==
  ASSUME DisplayRight, need_context_rows, NEW row, NEW d, Object(d), Placed(d, row), Due(d)
  PROVE  LET e == Prepared(d) IN Placed(e, row) /\ Process(e) /\ HasGroup(e)
<1> DEFINE e == Prepared(d)
           n == d.iMCU_row_ctr
<1>1. /\ ~Open(d) /\ Group(d) = 0 /\ n \in 1 .. iMCURows
      /\ Edge(d) = (n >= 2) /\ Bottom(d) = FALSE
      /\ row = NextGroup(d) * maxv + 0
  BY DueIsBetween
<1>2. d.buffer_full /\ PointersRight(d) /\ CellsRight(d) /\ Workspaced(d) /\ d.output_iMCU_row = n
  BY DEF Due, Placed, Main
<1>3. LastGroups \in 1 .. M /\ M \in Int /\ M >= 2 /\ iMCURows \in Int
  <2>1. M >= 2 /\ M \in Int
    <3>1. 1 \in OutComps
      BY DEF DisplayRight, ComponentsOK
    <3>2. QED
      BY <3>1, Workspaces, DisplayNumbers
  <2>2. QED
    BY <2>1, GroupsLeft, iMCUsBelow
<1>4. /\ e.buffer = d.buffer /\ e.whichptr = d.whichptr /\ e.context_state = "process"
      /\ e.buffer_full = d.buffer_full /\ e.iMCU_row_ctr = n
      /\ e.output_iMCU_row = d.output_iMCU_row /\ e.rowgroup_ctr = 0
      /\ e.next_row_out = d.next_row_out /\ e.spare_full = d.spare_full
      /\ n # iMCURows => e.xbuffer = d.xbuffer /\ e.rowgroups_avail = M - 1
      /\ n = iMCURows =>
           /\ e.rowgroups_avail = LastGroups
           /\ e.xbuffer = [d.xbuffer EXCEPT ![d.whichptr] =
                       [ci \in OutComps |-> [i \in FunnyRange(ci) |->
                           IF i \in rows_left(ci)..(rows_left(ci) + 2 * rgroup(ci) - 1) THEN @[ci][rows_left(ci) - 1]
                           ELSE @[ci][i]]]]
  BY FieldsOfPrepared
<1> HIDE DEF e
<1>5. e.rowgroups_avail = (IF n < iMCURows THEN M - 1 ELSE LastGroups) /\ e.rowgroups_avail \in Int
      /\ e.rowgroups_avail > 0
  <2>1. CASE n = iMCURows
    <3>1. e.rowgroups_avail = LastGroups
      BY <1>4, <2>1, Zenon
    <3>2. QED
      BY <1>1, <1>3, <2>1, <3>1
  <2>2. CASE n # iMCURows
    <3>1. e.rowgroups_avail = M - 1
      BY <1>4, <2>2, Zenon
    <3>2. QED
      BY <1>1, <1>3, <2>2, <3>1
  <2>3. QED
    BY <2>1, <2>2
<1>6. Process(e) /\ HasGroup(e)
  BY <1>1, <1>2, <1>3, <1>4, <1>5 DEF Process, HasGroup
<1>7. PointersRight(e)
  <2>1. d.whichptr \in 0 .. 1 /\ (Edge(d) \/ d.whichptr = 0) /\ d.xbuffer = Table(d.whichptr, Edge(d), FALSE)
        /\ Edge(d) \in BOOLEAN
    BY <1>1, <1>2, Zenon DEF PointersRight, Edge
  <2>2. Edge(e) = Edge(d)
    BY <1>1, <1>4 DEF Edge
  <2>3. CASE n = iMCURows
    <3>1. Bottom(e) = TRUE
      BY <1>4, <2>3 DEF Bottom
    <3>2. e.xbuffer = Table(d.whichptr, Edge(d), TRUE)
      <4> DEFINE Bot(t) == [t EXCEPT ![d.whichptr] =
                       [ci \in OutComps |-> [i \in FunnyRange(ci) |->
                           IF i \in rows_left(ci)..(rows_left(ci) + 2 * rgroup(ci) - 1) THEN @[ci][rows_left(ci) - 1]
                           ELSE @[ci][i]]]]
      <4>1. Bot(Table(d.whichptr, Edge(d), FALSE)) = Table(d.whichptr, Edge(d), TRUE)
        BY <2>1, BottomSet
      <4>2. e.xbuffer = Bot(d.xbuffer)
        BY <1>4, <2>3, Zenon
      <4> HIDE DEF Bot
      <4>3. QED
        BY <2>1, <4>1, <4>2, Zenon
    <3>3. QED
      BY <1>4, <2>1, <2>2, <3>1, <3>2, Zenon DEF PointersRight
  <2>4. CASE n # iMCURows
    <3>1. Bottom(e) = FALSE
      BY <1>4, <2>4 DEF Bottom
    <3>2. QED
      BY <1>4, <2>1, <2>2, <2>4, <3>1, Zenon DEF PointersRight
  <2>5. QED
    BY <2>3, <2>4
<1>8. Behind(e) = Behind(d)
  BY <1>4 DEF Behind
<1>9. CellsRight(e) /\ Workspaced(e)
  BY <1>2, <1>4, <1>8, CellsStay
<1>10. Main(e)
  <2>1. e.iMCU_row_ctr \in 0 .. iMCURows /\ e.buffer_full \in BOOLEAN /\ e.output_iMCU_row = e.iMCU_row_ctr
    BY <1>2, <1>4 DEF Placed, Main
  <2>2. ContextMain(e)
    BY <1>6 DEF ContextMain
  <2>3. QED
    BY <1>7, <1>9, <2>1, <2>2 DEF Main
<1>11. NextGroup(e) = NextGroup(d)
  <2>1. Group(e) = 0
    BY <1>4 DEF Group
  <2>2. QED
    BY <1>1, <1>8, <2>1, Zenon DEF NextGroup
<1>12. Placed(e, row)
  BY <1>1, <1>4, <1>10, <1>11, Between
<1>13. QED
  BY <1>6, <1>12 DEF e

(* If the application has enough, the preparation is left to the next call. *)
LEMMA IMCUWaits ==
  ASSUME DisplayRight, need_context_rows, NEW row, NEW d, Object(d), Placed(d, row), Due(d)
  PROVE  LET e == [d EXCEPT !.context_state = "prepare"]
         IN  Placed(e, row) /\ Prepare(e) /\ SameDelivery(d, e)
<1> DEFINE e == [d EXCEPT !.context_state = "prepare"]
           n == d.iMCU_row_ctr
<1>1. /\ ~Open(d) /\ Group(d) = 0 /\ n \in 1 .. iMCURows
      /\ Edge(d) = (n >= 2) /\ Bottom(d) = FALSE
      /\ row = NextGroup(d) * maxv + 0
  BY DueIsBetween
<1>2. d.buffer_full /\ PointersRight(d) /\ CellsRight(d) /\ Workspaced(d) /\ d.output_iMCU_row = n
  BY DEF Due, Placed, Main
<1>3. iMCURows \in Int
  BY iMCUsBelow
<1>4. /\ e.buffer = d.buffer /\ e.whichptr = d.whichptr /\ e.context_state = "prepare"
      /\ e.buffer_full = d.buffer_full /\ e.iMCU_row_ctr = n /\ e.xbuffer = d.xbuffer
      /\ e.output_iMCU_row = d.output_iMCU_row /\ SameDelivery(d, e)
      /\ e.next_row_out = d.next_row_out /\ e.spare_full = d.spare_full
  BY DEF Object, Counters, SameDelivery
<1> HIDE DEF e
<1>5. Prepare(e)
  BY <1>1, <1>2, <1>3, <1>4 DEF Prepare
<1>6. PointersRight(e)
  <2>1. Edge(e) = Edge(d) /\ Bottom(e) = Bottom(d)
    BY <1>1, <1>4 DEF Edge, Bottom
  <2>2. QED
    BY <1>2, <1>4, <2>1, Zenon DEF PointersRight
<1>7. Behind(e) = Behind(d) /\ Group(e) = 0
  BY <1>4 DEF Behind, Group
<1>8. CellsRight(e) /\ Workspaced(e)
  BY <1>2, <1>4, <1>7, CellsStay
<1>9. Main(e)
  <2>1. e.iMCU_row_ctr \in 0 .. iMCURows /\ e.buffer_full \in BOOLEAN /\ e.output_iMCU_row = e.iMCU_row_ctr
    BY <1>2, <1>4 DEF Placed, Main
  <2>2. QED
    BY <1>5, <1>6, <1>8, <2>1 DEF Main, ContextMain
<1>10. NextGroup(e) = NextGroup(d)
  BY <1>1, <1>7, Zenon DEF NextGroup
<1>11. Placed(e, row)
  BY <1>1, <1>4, <1>9, <1>10, Between
<1>12. QED
  BY <1>4, <1>5, <1>11 DEF e

(* Without context rows the workspace is emptied and filled again.         *)
LEMMA WorkspaceEmptied ==
  ASSUME DisplayRight, ~need_context_rows, NEW row, NEW d, Object(d), Placed(d, row), d.buffer_full
  PROVE  LET e == Emptied(d)
         IN  Placed(e, row) /\ (e.buffer_full => HasGroup(e)) /\ SameDelivery(d, e)
<1> DEFINE e == Emptied(d)
           n == d.iMCU_row_ctr
<1>1. M \in Int /\ M > 0 /\ iMCURows \in Int
  BY DisplayNumbers, iMCUsBelow
<1>2. d.rowgroup_ctr \in 0 .. M /\ n >= 1 /\ PlainRight(d) /\ n \in 0 .. iMCURows /\ Workspaced(d) /\ d.output_iMCU_row = n
  BY DEF Placed, Main, SimpleMain
<1>3. CASE d.rowgroup_ctr < M
  <2>1. e = d
    BY <1>1, <1>2, <1>3 DEF Emptied
  <2>2. HasGroup(d)
    BY <1>3 DEF HasGroup
  <2>3. QED
    BY <2>1, <2>2 DEF SameDelivery
<1>4. CASE ~(d.rowgroup_ctr < M)
  <2>1. d.rowgroup_ctr = M
    BY <1>1, <1>2, <1>4
  <2>2. ~Open(d) /\ row = NextGroup(d) * maxv + 0
    <3>1. ~Open(d)
      BY <1>4 DEF Placed, HasGroup
    <3>2. QED
      BY <3>1 DEF Placed, RowNo, Done
  <2>3. e = [d EXCEPT !.buffer_full = FALSE, !.rowgroup_ctr = 0]
    BY <1>1, <2>1 DEF Emptied
  <2>4. /\ e.buffer_full = FALSE /\ e.rowgroup_ctr = 0 /\ e.iMCU_row_ctr = n /\ e.output_iMCU_row = n
        /\ e.xbuffer = d.xbuffer /\ e.whichptr = d.whichptr /\ e.buffer = d.buffer
        /\ e.next_row_out = d.next_row_out /\ e.spare_full = d.spare_full /\ SameDelivery(d, e)
    BY <1>2, <2>3 DEF Object, Counters, SameDelivery
  <2> HIDE DEF e
  <2>5. Main(e)
    <3>1. SimpleMain(e)
      BY <1>1, <2>4 DEF SimpleMain
    <3>2. PlainRight(e) /\ Workspaced(e)
      BY <1>2, <2>4 DEF PlainRight, Workspaced
    <3>3. QED
      BY <1>2, <2>4, <3>1, <3>2 DEF Main
  <2>6. NextGroup(e) = NextGroup(d)
    <3> DEFINE m == M
    <3>1. NextGroup(d) = (n - 1) * m + m
      BY <2>1 DEF NextGroup, Behind, Group
    <3>2. NextGroup(e) = n * m + 0
      BY <2>4 DEF NextGroup, Behind, Group
    <3>3. n \in Int /\ m \in Int
      BY <1>1, <1>2
    <3> HIDE DEF m
    <3>4. (n - 1) * m + m = n * m + 0
      BY <3>3
    <3>5. QED
      BY <3>1, <3>2, <3>4
  <2>7. Placed(e, row)
    BY <2>2, <2>4, <2>5, <2>6, Between
  <2>8. QED
    BY <2>4, <2>7 DEF e
<1>5. QED
  BY <1>3, <1>4

(* With context rows, when the row groups that can be done without the     *)
(* next row of iMCUs are done, the other list takes over: the end of this  *)
(* row of iMCUs is kept above what comes.                                  *)
LEMMA FieldsOfOtherList ==
  ASSUME NEW d, Object(d)
  PROVE  LET e == ToOtherList(IF d.iMCU_row_ctr = 1 THEN set_wraparound_pointers(d) ELSE d)
         IN  /\ e.buffer = d.buffer /\ e.whichptr = 1 - d.whichptr /\ e.context_state = "postponed"
             /\ e.buffer_full = FALSE /\ e.iMCU_row_ctr = d.iMCU_row_ctr
             /\ e.output_iMCU_row = d.output_iMCU_row /\ e.rowgroup_ctr = M + 1 /\ e.rowgroups_avail = M + 2
             /\ e.next_row_out = d.next_row_out /\ e.spare_full = d.spare_full /\ SameDelivery(d, e)
             /\ d.iMCU_row_ctr # 1 => e.xbuffer = d.xbuffer
             /\ d.iMCU_row_ctr = 1 =>
                  e.xbuffer = [l \in 0 .. 1 |-> [ci \in OutComps |-> Wrapped(ci, d.xbuffer[l][ci])]]
<1> DEFINE f == set_wraparound_pointers(d)
           X == [l \in 0 .. 1 |-> [ci \in OutComps |-> Wrapped(ci, d.xbuffer[l][ci])]]
<1>1. f = [d EXCEPT !.xbuffer = X]
  BY DEF set_wraparound_pointers
<1> HIDE DEF X
<1>2. /\ Object(f) /\ f.xbuffer = X /\ f.buffer = d.buffer /\ f.whichptr = d.whichptr
      /\ f.iMCU_row_ctr = d.iMCU_row_ctr /\ f.output_iMCU_row = d.output_iMCU_row
      /\ f.next_row_out = d.next_row_out /\ f.spare_full = d.spare_full /\ SameDelivery(d, f)
  BY <1>1 DEF Object, Counters, SameDelivery
<1> HIDE DEF f
<1>3. ASSUME NEW g, Object(g)
      PROVE  LET e == ToOtherList(g)
             IN  /\ e.buffer = g.buffer /\ e.whichptr = 1 - g.whichptr /\ e.context_state = "postponed"
                 /\ e.buffer_full = FALSE /\ e.iMCU_row_ctr = g.iMCU_row_ctr
                 /\ e.output_iMCU_row = g.output_iMCU_row /\ e.rowgroup_ctr = M + 1 /\ e.rowgroups_avail = M + 2
                 /\ e.next_row_out = g.next_row_out /\ e.spare_full = g.spare_full /\ SameDelivery(g, e)
                 /\ e.xbuffer = g.xbuffer
  BY <1>3 DEF ToOtherList, Object, Counters, SameDelivery
<1>4. CASE d.iMCU_row_ctr = 1
  <2> DEFINE e == ToOtherList(f)
  <2>1. /\ e.buffer = f.buffer /\ e.whichptr = 1 - f.whichptr /\ e.context_state = "postponed"
        /\ e.buffer_full = FALSE /\ e.iMCU_row_ctr = f.iMCU_row_ctr
        /\ e.output_iMCU_row = f.output_iMCU_row /\ e.rowgroup_ctr = M + 1 /\ e.rowgroups_avail = M + 2
        /\ e.next_row_out = f.next_row_out /\ e.spare_full = f.spare_full /\ SameDelivery(f, e)
        /\ e.xbuffer = f.xbuffer
    BY <1>2, <1>3
  <2>2. ToOtherList(IF d.iMCU_row_ctr = 1 THEN set_wraparound_pointers(d) ELSE d) = e
    BY <1>4 DEF f
  <2> HIDE DEF e
  <2>3. QED
    BY <1>2, <1>4, <2>1, <2>2 DEF X, SameDelivery
<1>5. CASE d.iMCU_row_ctr # 1
  <2> DEFINE e == ToOtherList(d)
  <2>1. ToOtherList(IF d.iMCU_row_ctr = 1 THEN set_wraparound_pointers(d) ELSE d) = e
    BY <1>5
  <2>2. /\ e.buffer = d.buffer /\ e.whichptr = 1 - d.whichptr /\ e.context_state = "postponed"
        /\ e.buffer_full = FALSE /\ e.iMCU_row_ctr = d.iMCU_row_ctr
        /\ e.output_iMCU_row = d.output_iMCU_row /\ e.rowgroup_ctr = M + 1 /\ e.rowgroups_avail = M + 2
        /\ e.next_row_out = d.next_row_out /\ e.spare_full = d.spare_full /\ SameDelivery(d, e)
        /\ e.xbuffer = d.xbuffer
    BY <1>3
  <2> HIDE DEF e
  <2>3. QED
    BY <1>5, <2>1, <2>2
<1>6. QED
  BY <1>4, <1>5

(* Away from the bottom no list is treated differently. *)
LEMMA NoBottom ==
  ASSUME NEW w, NEW v, NEW edge
  PROVE  Table(w, edge, FALSE) = Table(v, edge, FALSE)
BY Zenon DEF Table

(* When all row groups but the last of a row of iMCUs are done, the other  *)
(* list takes over, and the last one waits for the iMCUs below.            *)
LEMMA OtherListTakesOver ==
  ASSUME DisplayRight, need_context_rows, NEW row \in Nat, row < H, NEW d, Object(d), Placed(d, row), Process(d)
  PROVE  LET e == AfterIMCU(d)
         IN  Placed(e, row) /\ (e.buffer_full => HasGroup(e)) /\ SameDelivery(d, e)
<1> DEFINE e == AfterIMCU(d)
           n == d.iMCU_row_ctr
           w == d.whichptr
<1>1. M \in Int /\ M > 0 /\ iMCURows \in Int /\ LastGroups \in 1 .. M
  BY DisplayNumbers, iMCUsBelow, GroupsLeft
<1>2. /\ n >= 1 /\ n \in 0 .. iMCURows /\ d.output_iMCU_row = n /\ d.buffer_full /\ d.context_state = "process"
      /\ d.rowgroups_avail = IF n < iMCURows THEN M - 1 ELSE LastGroups
      /\ d.rowgroup_ctr \in 0 .. d.rowgroups_avail
      /\ PointersRight(d) /\ CellsRight(d) /\ Workspaced(d)
  BY DEF Placed, Main, Process
<1>3. CASE d.rowgroup_ctr < d.rowgroups_avail
  <2>1. e = d
    BY <1>3 DEF AfterIMCU
  <2>2. HasGroup(d)
    BY <1>2, <1>3 DEF HasGroup
  <2>3. QED
    BY <2>1, <2>2 DEF SameDelivery
<1>4. CASE ~(d.rowgroup_ctr < d.rowgroups_avail)
  <2>1. d.rowgroup_ctr = d.rowgroups_avail
    BY <1>1, <1>2, <1>4
  <2>2. ~Open(d) /\ row = NextGroup(d) * maxv + 0
    <3>1. ~Open(d)
      BY <1>4 DEF Placed, HasGroup
    <3>2. QED
      BY <3>1 DEF Placed, RowNo, Done
  <2>3. NextGroup(d) = (n - 1) * M + d.rowgroups_avail
    BY <1>2, <2>1 DEF NextGroup, Behind, Group
  <2>4. n < iMCURows
    <3>1. ASSUME ~(n < iMCURows) PROVE FALSE
      <4>1. n = iMCURows /\ d.rowgroups_avail = LastGroups
        BY <1>1, <1>2, <3>1
      <4>2. row = ((iMCURows - 1) * M + LastGroups) * maxv + 0
        BY <2>2, <2>3, <4>1, Zenon
      <4> DEFINE z == ((iMCURows - 1) * M + LastGroups) * maxv
      <4>3. ~(z < H)
        BY GroupsLeft
      <4>4. z \in Int
        <5> DEFINE p == (iMCURows - 1) * M
                   v == maxv
        <5>1. p \in Int /\ LastGroups \in Int /\ v \in Int
          BY <1>1, DisplayNumbers
        <5> HIDE DEF p, v
        <5>2. (p + LastGroups) * v \in Int
          BY <5>1
        <5>3. QED
          BY <5>2 DEF p, v
      <4>5. row = z + 0
        BY <4>2
      <4> HIDE DEF z
      <4>6. row = z
        BY <4>4, <4>5
      <4>7. QED
        BY <4>3, <4>6
    <3>2. QED
      BY <3>1
  <2>5. d.rowgroups_avail = M - 1
    BY <1>2, <2>4
  <2>6. e = ToOtherList(IF n = 1 THEN set_wraparound_pointers(d) ELSE d)
    BY <1>4 DEF AfterIMCU
  <2>7. /\ e.buffer = d.buffer /\ e.whichptr = 1 - w /\ e.context_state = "postponed"
        /\ e.buffer_full = FALSE /\ e.iMCU_row_ctr = n
        /\ e.output_iMCU_row = d.output_iMCU_row /\ e.rowgroup_ctr = M + 1 /\ e.rowgroups_avail = M + 2
        /\ e.next_row_out = d.next_row_out /\ e.spare_full = d.spare_full /\ SameDelivery(d, e)
        /\ n # 1 => e.xbuffer = d.xbuffer
        /\ n = 1 => e.xbuffer = [l \in 0 .. 1 |-> [ci \in OutComps |-> Wrapped(ci, d.xbuffer[l][ci])]]
    <3> DEFINE f == ToOtherList(IF n = 1 THEN set_wraparound_pointers(d) ELSE d)
    <3>1. /\ f.buffer = d.buffer /\ f.whichptr = 1 - w /\ f.context_state = "postponed"
          /\ f.buffer_full = FALSE /\ f.iMCU_row_ctr = n
          /\ f.output_iMCU_row = d.output_iMCU_row /\ f.rowgroup_ctr = M + 1 /\ f.rowgroups_avail = M + 2
          /\ f.next_row_out = d.next_row_out /\ f.spare_full = d.spare_full /\ SameDelivery(d, f)
          /\ n # 1 => f.xbuffer = d.xbuffer
          /\ n = 1 => f.xbuffer = [l \in 0 .. 1 |-> [ci \in OutComps |-> Wrapped(ci, d.xbuffer[l][ci])]]
      BY FieldsOfOtherList
    <3>2. e = f
      BY <2>6
    <3> HIDE DEF e, f
    <3>3. QED
      BY <3>1, <3>2
  <2> HIDE DEF e
  <2>8. Postponed(e) /\ Behind(e) = n
    BY <1>1, <1>2, <2>4, <2>7 DEF Postponed, Behind
  <2>9. w \in 0 .. 1 /\ 1 - w \in 0 .. 1 /\ d.xbuffer = Table(w, Edge(d), FALSE)
    <3>1. Bottom(d) = FALSE
      BY <1>1, <1>2, <2>4 DEF Bottom
    <3>2. w \in 0 .. 1 /\ d.xbuffer = Table(w, Edge(d), FALSE)
      BY <1>2, <3>1, Zenon DEF PointersRight
    <3>3. 1 - w \in 0 .. 1
      BY <3>2
    <3>4. QED
      BY <3>2, <3>3
  <2>10. PointersRight(e)
    <3>1. Edge(e) = TRUE /\ Bottom(e) = FALSE
      BY <2>7 DEF Edge, Bottom
    <3>2. e.xbuffer = Table(1 - w, TRUE, FALSE)
      <4>1. CASE n = 1
        <5>1. Edge(d) = FALSE
          BY <1>2, <4>1 DEF Edge
        <5> DEFINE Wrap(t) == [l \in 0 .. 1 |-> [ci \in OutComps |-> Wrapped(ci, t[l][ci])]]
        <5>2. Wrap(Table(w, FALSE, FALSE)) = Table(1 - w, TRUE, FALSE)
          BY WrapSet
        <5>3. e.xbuffer = Wrap(d.xbuffer) /\ d.xbuffer = Table(w, FALSE, FALSE)
          BY <2>7, <2>9, <4>1, <5>1, Zenon
        <5> HIDE DEF Wrap
        <5>4. QED
          BY <5>2, <5>3, Zenon
      <4>2. CASE n # 1
        <5>1. Edge(d) = TRUE
          BY <1>1, <1>2, <4>2 DEF Edge
        <5>2. QED
          BY <2>7, <2>9, <4>2, <5>1, NoBottom, Zenon
      <4>3. QED
        BY <4>1, <4>2
    <3>3. QED
      BY <2>7, <2>9, <3>1, <3>2 DEF PointersRight
  <2>11. CellsRight(e)
    <3> SUFFICES ASSUME NEW ci \in OutComps, NEW i \in rgroup(ci) * M .. Around(ci) - 1
                 PROVE  Cell(e, ci, i) = n * (rgroup(ci) * M) + i - Around(ci)
      BY <2>7, <2>8 DEF CellsRight
    <3> DEFINE g == rgroup(ci)
               gm == rgroup(ci) * M
               k == i - 2 * rgroup(ci)
               p == n * gm
               q == (n - 1) * gm
    <3>1. g \in Int /\ gm \in Int /\ Around(ci) = gm + 2 * g /\ gm >= g /\ g > 0
      BY DisplayNumbers DEF Around
    <3>2. k \in 0 .. gm - 1 /\ List(1 - w, ci)[i] = List(w, ci)[k]
      BY <2>9, ListsApart
    <3>3. n \in Int /\ Behind(d) = n - 1
      BY <1>1, <1>2 DEF Behind
    <3>4. p \in Int /\ p < RowsOf(ci) /\ RowsOf(ci) \in Int /\ RowsInBlocks(ci) \in Int /\ RowsOf(ci) <= RowsInBlocks(ci)
      BY <2>4, <3>3, FirstOfMCU, RowsPadded
    <3>5. q \in Int /\ p = q + gm
      <4> HIDE DEF gm
      <4>1. q \in Int /\ q + gm = n * gm
        BY <3>1, <3>3
      <4>2. QED
        BY <4>1
    <3>6. q + k < RowsInBlocks(ci) => Cell(d, ci, k) = q + k
      BY <1>2, <3>2, <3>3, Zenon DEF CellsRight
    <3>7. Cell(e, ci, i) = Cell(d, ci, k)
      BY <2>7, <3>2, Zenon DEF Cell
    <3>8. i \in Int /\ k = i - 2 * g
      OBVIOUS
    <3> HIDE DEF gm, g, p, q, k
    <3>9. q + k < RowsInBlocks(ci) /\ q + k = p + i - Around(ci)
      BY <3>1, <3>2, <3>4, <3>5, <3>8
    <3>10. Cell(e, ci, i) = p + i - Around(ci)
      BY <3>6, <3>7, <3>9
    <3>11. QED
      BY <3>10 DEF p, gm
  <2>12. Main(e)
    <3>1. Workspaced(e)
      BY <1>2, <2>7 DEF Workspaced
    <3>2. QED
      BY <1>2, <2>7, <2>8, <2>10, <2>11, <3>1 DEF Main, ContextMain
  <2>13. NextGroup(e) = NextGroup(d)
    <3> DEFINE m == M
               a == n * m
               b == (n - 1) * m
    <3>1. Group(e) = (m + 1) - (m + 2)
      <4>1. e.context_state = "postponed" /\ e.rowgroup_ctr = m + 1
        BY <2>7, Zenon
      <4>2. Group(e) = e.rowgroup_ctr - (M + 2)
        BY <4>1, Zenon DEF Group
      <4>3. QED
        BY <4>1, <4>2, Zenon
    <3>2. NextGroup(e) = a + ((m + 1) - (m + 2)) /\ NextGroup(d) = b + (m - 1)
      BY <2>3, <2>5, <2>8, <3>1, Zenon DEF NextGroup
    <3>3. n \in Int /\ m \in Int
      BY <1>1, <1>2
    <3> HIDE DEF m
    <3>4. a = b + m /\ a \in Int /\ b \in Int
      BY <3>3
    <3> HIDE DEF a, b
    <3>5. QED
      BY <3>2, <3>3, <3>4
  <2>14. Placed(e, row)
    BY <2>2, <2>7, <2>12, <2>13, Between
  <2>15. QED
    BY <2>7, <2>14 DEF e
<1>5. QED
  BY <1>3, <1>4

(* Rows that follow rows.                                                  *)
LEMMA RowsJoin ==
  ASSUME NEW a \in Int, NEW m \in Nat, NEW n \in Nat
  PROVE  /\ RowsFrom(a, m) \o RowsFrom(a + m, n) = RowsFrom(a, m + n)
         /\ Len(RowsFrom(a, n)) = n /\ DOMAIN RowsFrom(a, n) = 1 .. n
         /\ RowsFrom(a, 0) = <<>>
<1>1. ASSUME NEW b \in Int, NEW k \in Nat
      PROVE  /\ Len(RowsFrom(b, k)) = k /\ DOMAIN RowsFrom(b, k) = 1 .. k
             /\ \A i \in 1 .. k : RowsFrom(b, k)[i] = TrueRow(b + i - 1)
             /\ RowsFrom(b, k) \in Seq({TrueRow(b + i - 1) : i \in 1 .. k})
  <2> DEFINE R(i) == TrueRow(b + i - 1)
             S == {R(i) : i \in 1 .. k}
             f == [i \in 1 .. k |-> R(i)]
  <2>1. \A i \in 1 .. k : R(i) \in S
    OBVIOUS
  <2> HIDE DEF S, R
  <2>2. /\ f \in Seq(S) /\ Len(f) = k /\ DOMAIN f = 1 .. k /\ \A i \in 1 .. k : f[i] = R(i)
    BY <2>1
  <2>3. RowsFrom(b, k) = f
    BY DEF RowsFrom, R
  <2> HIDE DEF f
  <2>4. QED
    BY <2>2, <2>3 DEF S, R
<1> DEFINE s == RowsFrom(a, m)
           t == RowsFrom(a + m, n)
           S == {TrueRow(a + i - 1) : i \in 1 .. m} \cup {TrueRow(a + m + i - 1) : i \in 1 .. n}
<1>2. /\ Len(s) = m /\ DOMAIN s = 1 .. m /\ \A i \in 1 .. m : s[i] = TrueRow(a + i - 1)
      /\ s \in Seq({TrueRow(a + i - 1) : i \in 1 .. m})
  BY <1>1
<1>3. a + m \in Int /\ m + n \in Nat
  OBVIOUS
<1>4. /\ Len(t) = n /\ DOMAIN t = 1 .. n /\ \A i \in 1 .. n : t[i] = TrueRow(a + m + i - 1)
      /\ t \in Seq({TrueRow(a + m + i - 1) : i \in 1 .. n})
  BY <1>1, <1>3
<1>5. s \in Seq(S) /\ t \in Seq(S)
  <2> DEFINE A == {TrueRow(a + i - 1) : i \in 1 .. m}
             B == {TrueRow(a + m + i - 1) : i \in 1 .. n}
  <2>1. s \in Seq(A) /\ t \in Seq(B)
    BY <1>2, <1>4
  <2> HIDE DEF A, B, s, t
  <2>2. s \in Seq(A \cup B) /\ t \in Seq(A \cup B)
    BY <2>1
  <2>3. QED
    BY <2>2 DEF A, B
<1> HIDE DEF s, t, S
<1> DEFINE w == s \o t
<1>6. /\ w \in Seq(S) /\ DOMAIN w = 1 .. m + n
      /\ \A i \in 1 .. m + n : w[i] = IF i <= m THEN s[i] ELSE t[i - m]
  <2>1. w \in Seq(S) /\ Len(w) = Len(s) + Len(t)
    BY <1>5
  <2>2. Len(s) = m /\ Len(t) = n
    BY <1>2, <1>4
  <2>3. \A i \in 1 .. Len(s) + Len(t) : w[i] = IF i <= Len(s) THEN s[i] ELSE t[i - Len(s)]
    BY <1>5
  <2> HIDE DEF w
  <2>4. DOMAIN w = 1 .. Len(w)
    BY <2>1
  <2>5. Len(w) = m + n
    BY <2>1, <2>2
  <2>6. QED
    BY <2>1, <2>2, <2>3, <2>4, <2>5
<1> HIDE DEF w
<1>7. \A i \in 1 .. m + n : w[i] = TrueRow(a + i - 1)
  <2> TAKE i \in 1 .. m + n
  <2>1. CASE i <= m
    BY <1>2, <1>6, <2>1
  <2>2. CASE ~(i <= m)
    <3>1. i - m \in 1 .. n
      BY <2>2
    <3>2. t[i - m] = TrueRow(a + m + (i - m) - 1)
      BY <1>4, <3>1
    <3>3. a + m + (i - m) - 1 = a + i - 1
      OBVIOUS
    <3>4. QED
      BY <1>6, <2>2, <3>2, <3>3
  <2>3. QED
    BY <2>1, <2>2
<1>8. w = RowsFrom(a, m + n)
  <2> DEFINE R(i) == TrueRow(a + i - 1)
  <2>1. \A i \in 1 .. m + n : w[i] = R(i)
    BY <1>7
  <2>2. w = [i \in 1 .. m + n |-> w[i]]
    BY <1>6
  <2> HIDE DEF R
  <2>3. [i \in 1 .. m + n |-> w[i]] = [i \in 1 .. m + n |-> R(i)]
    BY <2>1
  <2>4. QED
    BY <2>2, <2>3 DEF RowsFrom, R
<1>9. Len(RowsFrom(a, n)) = n /\ DOMAIN RowsFrom(a, n) = 1 .. n
  BY <1>1
<1>10. RowsFrom(a, 0) = <<>>
  <2>1. RowsFrom(a, 0) \in Seq({TrueRow(a + i - 1) : i \in 1 .. 0}) /\ Len(RowsFrom(a, 0)) = 0
    BY <1>1
  <2> DEFINE r == RowsFrom(a, 0)
             X == {TrueRow(a + i - 1) : i \in 1 .. 0}
  <2> HIDE DEF r, X
  <2>2. r \in Seq(X) /\ Len(r) = 0
    BY <2>1 DEF r, X
  <2>3. QED
    BY <2>2 DEF r
<1>11. QED
  BY <1>8, <1>9, <1>10 DEF w, s, t

(* Their number. *)
LEMMA RowsAre ==
  ASSUME NEW a \in Nat, NEW n \in Nat
  PROVE  Len(RowsFrom(a, n)) = n /\ DOMAIN RowsFrom(a, n) = 1 .. n
<1>1. a \in Int /\ 0 \in Nat
  OBVIOUS
<1>2. QED
  BY <1>1, RowsJoin, Zenon

(* The array of the image has all its rows.                                *)
Stocked(d) == 0 .. H - 1 \subseteq DOMAIN d.whole_image
(* What a pass that makes its rows has done after y of them. *)
Flow(d, row) ==
  /\ Upsampler(d) /\ row \in Nat /\ row <= H /\ Stocked(d)
  /\ IF Merged1 THEN d.rows_to_go > 0 ELSE d.rows_to_go = H - row
  /\ d.post \in {"upsample", "1pass"} => d.lines = RowsFrom(0, row) /\ d.scanned = <<>>
  /\ d.post = "prepass" => /\ d.lines = <<>> /\ d.scanned = RowsFrom(0, row)
                           /\ \A r \in 0 .. row - 1 : d.whole_image[r] = TrueRow(r)
                           /\ d.starting_row + d.next_row = row

Carried(d, e) == SameCounters(d, e) /\ SameDelivery(d, e)

(* What has been delivered or stored depends on fields that the main       *)
(* controller leaves alone.                                                *)
LEMMA FlowKept ==
  ASSUME NEW d, NEW e, NEW row, Carried(d, e), Flow(d, row)
  PROVE  Flow(e, row)
BY Zenon DEF Carried, SameCounters, SameOutside, SameDelivery, Flow, Stocked

(* So the moves of the main controller keep it. *)
LEMMA MovesCarry ==
  ASSUME DisplayRight, NEW d, Upsampler(d)
  PROVE  /\ Carried(d, decompress_data(d)) /\ Carried(d, Prepared(d))
         /\ Carried(d, Emptied(d)) /\ (Workspaced(d) => Workspaced(Emptied(d)))
         /\ Carried(d, AfterIMCU(d)) /\ (Workspaced(d) => Workspaced(AfterIMCU(d)))
         /\ Carried(d, [d EXCEPT !.context_state = "prepare"])
<1>0. Object(d) /\ DisplayOK
  BY DEF Upsampler, DisplayRight
<1>1. /\ SameCounters(d, decompress_data(d)) /\ SameCounters(d, Emptied(d))
      /\ SameCounters(d, Prepared(d)) /\ SameCounters(d, AfterIMCU(d))
  BY <1>0, MainOnlyMoves
<1>2. SameDelivery(d, decompress_data(d))
  BY <1>0, FieldsOfArrival
<1>3. SameDelivery(d, Prepared(d))
  BY <1>0, FieldsOfPrepared
<1>4. SameDelivery(d, Emptied(d)) /\ Emptied(d).buffer = d.buffer
  BY <1>0 DEF Emptied, Object, Counters, SameDelivery
<1>5. SameDelivery(d, AfterIMCU(d)) /\ AfterIMCU(d).buffer = d.buffer
  <2>1. CASE d.rowgroup_ctr < d.rowgroups_avail
    BY <2>1 DEF AfterIMCU, SameDelivery
  <2>2. CASE ~(d.rowgroup_ctr < d.rowgroups_avail)
    <3> DEFINE f == ToOtherList(IF d.iMCU_row_ctr = 1 THEN set_wraparound_pointers(d) ELSE d)
    <3>1. f.buffer = d.buffer /\ SameDelivery(d, f)
      BY <1>0, FieldsOfOtherList
    <3>2. AfterIMCU(d) = f
      BY <2>2 DEF AfterIMCU
    <3> HIDE DEF f
    <3>3. QED
      BY <3>1, <3>2
  <2>3. QED
    BY <2>1, <2>2
<1>6. Carried(d, [d EXCEPT !.context_state = "prepare"])
  BY <1>0 DEF Upsampler, Object, Counters, Carried, SameCounters, SameOutside, SameDelivery
<1>7. QED
  BY <1>1, <1>2, <1>3, <1>4, <1>5, <1>6 DEF Carried, Workspaced

(* A call of the upsampler at row y.                                       *)
Made(d, u, row, n) ==
  /\ n > 0 /\ row + n <= H /\ u.made = RowsFrom(row, n) /\ SameDelivery(d, u) /\ SameOutside(d, u) /\ Upsampler(u)
  /\ Placed(u, row + n) /\ (u.buffer_full <=> d.buffer_full)
  /\ need_context_rows => (Process(d) => Process(u)) /\ (Postponed(d) => Postponed(u))
  /\ IF Merged1 THEN u.rows_to_go > 0 ELSE u.rows_to_go = H - (row + n)

(* A call of the upsampler makes the next rows of the image. *)
LEMMA RowsMade ==
  ASSUME DisplayRight, NEW row \in Nat, row < H, NEW d, Placed(d, row), HasGroup(d), Flow(d, row),
         NEW room \in Nat, room > 0
  PROVE  \E n \in Nat : Made(d, upsample(d, room), row, n) /\ n <= room
<1> DEFINE u == upsample(d, room)
<1>1. Upsampler(d) /\ d.rows_to_go \in Nat /\ H \in Int /\ DisplayOK /\ d.rowgroup_ctr \in Int
  BY DisplayNumbers DEF Flow, Upsampler, DisplayRight
<1>2. d.rows_to_go > 0
  BY <1>1 DEF Flow
<1>3. /\ SameOutside(d, u) /\ Upsampler(u) /\ Len(u.made) <= room
      /\ u.rows_to_go = IF Merged1 THEN d.rows_to_go ELSE d.rows_to_go - Len(u.made)
  BY <1>1, <1>2, UpsamplerAdvances
<1>4. Ready(d)
  BY <1>1, PlacedIsReady DEF Flow
<1>5. PICK n \in Nat : HandsOut(d, u, n)
  BY <1>4, UpsamplerRight
<1> HIDE DEF u
<1>6. RowNo(d) = row
  BY DEF Placed
<1>7. n > 0 /\ row + n <= H /\ u.made = RowsFrom(row, n) /\ SameDelivery(d, u)
  BY <1>5, <1>6 DEF HandsOut
<1>8. Len(u.made) = n
  BY <1>7, RowsAre, Zenon
<1>9. IF Merged1 THEN u.rows_to_go > 0 ELSE u.rows_to_go = H - (row + n)
  BY <1>1, <1>2, <1>3, <1>8 DEF Flow
<1>10. /\ Placed(u, row + n) /\ (u.buffer_full <=> d.buffer_full)
       /\ need_context_rows => (Process(d) => Process(u)) /\ (Postponed(d) => Postponed(u))
  BY <1>1, <1>5, PlacedAfter, Zenon
<1>11. Made(d, u, row, n) /\ n <= room
  BY <1>3, <1>7, <1>8, <1>9, <1>10 DEF Made
<1>12. QED
  BY <1>11 DEF u

(* post_process_data hands them on.                                        *)
Handed(d, e, row, n) ==
  /\ Flow(e, row + n) /\ Placed(e, row + n) /\ e.out_row_ctr = d.out_row_ctr + n /\ e.post = d.post
  /\ (e.buffer_full <=> d.buffer_full)
  /\ need_context_rows => (Process(d) => Process(e)) /\ (Postponed(d) => Postponed(e))

(* The state of the main controller depends on its fields. *)
LEMMA MainStateSame ==
  ASSUME NEW d, NEW e, SameMain(d, e), SameUpsampler(d, e)
  PROVE  (Process(d) => Process(e)) /\ (Postponed(d) => Postponed(e))
BY Zenon DEF SameMain, SameUpsampler, Process, Postponed

(* Straight or through the strip of one-pass quantization, the next rows   *)
(* are delivered (post_process_1pass).                                     *)
LEMMA LinesHanded ==
  ASSUME DisplayRight, NEW row \in Nat, row < H, NEW d, Placed(d, row), HasGroup(d), Flow(d, row),
         d.out_row_ctr \in Nat, NEW max \in Nat, max > d.out_row_ctr, d.post \in {"upsample", "1pass"}
  PROVE  \E n \in Nat : n > 0 /\ Handed(d, post_process_data(d, max), row, n)
<1> DEFINE room == IF d.post = "upsample" THEN max - d.out_row_ctr
                   ELSE Min({max - d.out_row_ctr, strip_height})
           u == upsample(d, room)
           e == Deliver(u)
<1>1. post_process_data(d, max) = e
  BY DEF post_process_data, post_process_1pass
<1>2. room \in Nat /\ room > 0
  <2>1. max - d.out_row_ctr \in Int /\ strip_height \in Int
        /\ max - d.out_row_ctr > 0 /\ strip_height > 0
    BY DisplayNumbers DEF strip_height
  <2>2. Min({max - d.out_row_ctr, strip_height}) \in {max - d.out_row_ctr, strip_height}
    BY <2>1, MinOfTwo, Zenon
  <2>3. QED
    BY <2>1, <2>2
<1> HIDE DEF room
<1>3. PICK n \in Nat : Made(d, u, row, n)
  BY <1>2, RowsMade
<1> HIDE DEF u
<1>4. /\ n > 0 /\ row + n <= H /\ u.made = RowsFrom(row, n) /\ SameDelivery(d, u) /\ SameOutside(d, u) /\ Upsampler(u)
      /\ Placed(u, row + n) /\ (u.buffer_full <=> d.buffer_full)
      /\ need_context_rows => (Process(d) => Process(u)) /\ (Postponed(d) => Postponed(u))
      /\ IF Merged1 THEN u.rows_to_go > 0 ELSE u.rows_to_go = H - (row + n)
  BY <1>3 DEF Made
<1>5. d.lines = RowsFrom(0, row) /\ d.scanned = <<>> /\ Stocked(d)
  BY DEF Flow
<1>6. u.lines \o u.made = RowsFrom(0, row + n) /\ Len(u.made) = n
  <2>1. u.lines = RowsFrom(0, row)
    BY <1>4, <1>5 DEF SameDelivery
  <2>2. RowsFrom(0, row) \o RowsFrom(0 + row, n) = RowsFrom(0, row + n)
    <3>1. 0 \in Int
      OBVIOUS
    <3>2. QED
      BY <3>1, RowsJoin, Zenon
  <2>3. 0 + row = row
    OBVIOUS
  <2>4. Len(RowsFrom(row, n)) = n
    BY RowsAre, Zenon
  <2>5. QED
    BY <1>4, <2>1, <2>2, <2>3, <2>4, Zenon
<1>7. /\ SameMain(u, e) /\ SameUpsampler(u, e) /\ Upsampler(e) /\ e.out_row_ctr = u.out_row_ctr + Len(u.made)
      /\ e.rows_to_go = u.rows_to_go /\ e.post = u.post /\ e.lines = u.lines \o u.made
      /\ e.scanned = u.scanned /\ e.whole_image = u.whole_image
  BY <1>4 DEF Deliver, Upsampler, Object, Counters, SameMain, SameUpsampler
<1> HIDE DEF e
<1>8. Placed(e, row + n)
  BY <1>4, <1>7, PlacedSame
<1>9. u.out_row_ctr = d.out_row_ctr /\ u.post = d.post
  BY <1>4 DEF SameOutside
<1>10. Flow(e, row + n)
  <2>1. Stocked(e) /\ e.scanned = <<>> /\ e.lines = RowsFrom(0, row + n) /\ e.post = d.post
    BY <1>4, <1>5, <1>6, <1>7, <1>9 DEF SameDelivery, Stocked
  <2>2. e.post # "prepass"
    BY <2>1
  <2>3. row + n \in Nat
    OBVIOUS
  <2>4. QED
    BY <1>4, <1>7, <2>1, <2>2, <2>3, Zenon DEF Flow
<1>11. (Process(u) => Process(e)) /\ (Postponed(u) => Postponed(e)) /\ (e.buffer_full <=> u.buffer_full)
  BY <1>7, MainStateSame DEF SameMain
<1>12. Handed(d, e, row, n)
  BY <1>4, <1>6, <1>7, <1>8, <1>9, <1>10, <1>11, Zenon DEF Handed
<1>13. QED
  BY <1>1, <1>4, <1>12

(* Rows that go into the strip lie in the array where they belong. *)
LEMMA ImageStored ==
  ASSUME DisplayRight, NEW row \in Nat, NEW n \in Nat, row + n <= H, NEW u, Object(u), Stocked(u),
         u.made = RowsFrom(row, n), u.starting_row \in Int, u.next_row \in Int, u.starting_row + u.next_row = row,
         \A r \in 0 .. row - 1 : u.whole_image[r] = TrueRow(r)
  PROVE  LET f == InStrip(u)
         IN  Stocked(f) /\ \A r \in 0 .. (row + n) - 1 : f.whole_image[r] = TrueRow(r)
<1> DEFINE f == InStrip(u)
           k(r) == r - u.starting_row - u.next_row + 1
           W == [r \in DOMAIN u.whole_image |-> IF k(r) \in DOMAIN u.made THEN u.made[k(r)] ELSE u.whole_image[r]]
<1>1. f.whole_image = W
  BY DEF InStrip, Object, Counters
<1>2. H \in Int
  BY DisplayNumbers
<1>3. DOMAIN u.made = 1 .. n
  <2>1. DOMAIN RowsFrom(row, n) = 1 .. n
    BY RowsAre, Zenon
  <2>2. u.made = RowsFrom(row, n)
    OBVIOUS
  <2>3. QED
    BY <2>1, <2>2, Zenon
<1>4. \A i \in 1 .. n : u.made[i] = TrueRow(row + i - 1)
  BY DEF RowsFrom
<1> HIDE DEF f
<1>5. Stocked(f)
  BY <1>1 DEF Stocked
<1>6. ASSUME NEW r \in 0 .. (row + n) - 1 PROVE f.whole_image[r] = TrueRow(r)
  <2>1. r \in DOMAIN u.whole_image
    BY <1>2 DEF Stocked
  <2>2. k(r) \in Int /\ k(r) = r - row + 1
    OBVIOUS
  <2>3. f.whole_image[r] = IF k(r) \in 1 .. n THEN u.made[k(r)] ELSE u.whole_image[r]
    BY <1>1, <1>3, <2>1
  <2> HIDE DEF k
  <2>4. CASE r < row
    <3>1. k(r) \notin 1 .. n /\ r \in 0 .. row - 1
      BY <2>2, <2>4
    <3>2. QED
      BY <2>3, <3>1
  <2>5. CASE ~(r < row)
    <3>1. k(r) \in 1 .. n /\ row + k(r) - 1 = r
      BY <2>2, <2>5
    <3>2. u.made[k(r)] = TrueRow(r)
      BY <1>4, <3>1, Zenon
    <3>3. QED
      BY <2>3, <3>1, <3>2
  <2>6. QED
    BY <2>4, <2>5
<1>7. QED
  BY <1>5, <1>6 DEF f

(* In a dummy pass the next rows are stored (post_process_prepass). *)
LEMMA StripHanded ==
  ASSUME DisplayRight, NEW row \in Nat, row < H, NEW d, Placed(d, row), HasGroup(d), Flow(d, row),
         NEW max, d.post = "prepass", Strip(d)
  PROVE  \E n \in Nat : n > 0 /\ Handed(d, post_process_data(d, max), row, n)
<1> DEFINE room == strip_height - d.next_row
           u == upsample(d, room)
           f == InStrip(u)
           e == NextStrip(f)
<1>1. post_process_data(d, max) = e
  BY DEF post_process_data, post_process_prepass
<1>2. room \in Nat /\ room > 0 /\ room = maxv - d.next_row /\ maxv \in Int /\ maxv > 0
      /\ d.next_row \in Int /\ d.starting_row \in Int /\ d.next_row >= 0
  BY DisplayNumbers DEF strip_height, Strip
<1> HIDE DEF room
<1>3. PICK n \in Nat : Made(d, u, row, n) /\ n <= room
  BY <1>2, RowsMade
<1> HIDE DEF u
<1>4. /\ n > 0 /\ row + n <= H /\ u.made = RowsFrom(row, n) /\ SameDelivery(d, u) /\ SameOutside(d, u) /\ Upsampler(u)
      /\ Placed(u, row + n) /\ (u.buffer_full <=> d.buffer_full)
      /\ need_context_rows => (Process(d) => Process(u)) /\ (Postponed(d) => Postponed(u))
      /\ IF Merged1 THEN u.rows_to_go > 0 ELSE u.rows_to_go = H - (row + n)
  BY <1>3 DEF Made
<1>5. /\ d.lines = <<>> /\ d.scanned = RowsFrom(0, row) /\ Stocked(d) /\ d.starting_row + d.next_row = row
      /\ \A r \in 0 .. row - 1 : d.whole_image[r] = TrueRow(r)
  BY DEF Flow
<1>6. /\ u.lines = <<>> /\ u.scanned = RowsFrom(0, row) /\ Stocked(u) /\ u.out_row_ctr = d.out_row_ctr
      /\ \A r \in 0 .. row - 1 : u.whole_image[r] = TrueRow(r)
      /\ u.starting_row = d.starting_row /\ u.next_row = d.next_row /\ u.post = "prepass" /\ Object(u)
  BY <1>4, <1>5 DEF SameDelivery, SameOutside, Stocked
<1>7. u.scanned \o u.made = RowsFrom(0, row + n) /\ Len(u.made) = n
  <2>1. RowsFrom(0, row) \o RowsFrom(0 + row, n) = RowsFrom(0, row + n)
    <3>1. 0 \in Int
      OBVIOUS
    <3>2. QED
      BY <3>1, RowsJoin, Zenon
  <2>2. 0 + row = row
    OBVIOUS
  <2>3. Len(RowsFrom(row, n)) = n
    BY RowsAre, Zenon
  <2>4. QED
    BY <1>4, <1>6, <2>1, <2>2, <2>3, Zenon
<1>8. Stocked(f) /\ \A r \in 0 .. (row + n) - 1 : f.whole_image[r] = TrueRow(r)
  <2>1. u.starting_row \in Int /\ u.next_row \in Int /\ u.starting_row + u.next_row = row
    BY <1>2, <1>5, <1>6
  <2>2. /\ row + n <= H /\ Object(u) /\ Stocked(u) /\ u.made = RowsFrom(row, n)
        /\ \A r \in 0 .. row - 1 : u.whole_image[r] = TrueRow(r)
    BY <1>4, <1>6, Zenon
  <2>3. QED
    BY <2>1, <2>2, ImageStored, Zenon
<1>9. /\ SameMain(u, f) /\ SameUpsampler(u, f) /\ Upsampler(f) /\ f.out_row_ctr = u.out_row_ctr + Len(u.made)
      /\ f.rows_to_go = u.rows_to_go /\ f.post = u.post /\ f.lines = u.lines /\ f.scanned = u.scanned \o u.made
      /\ f.starting_row = u.starting_row /\ f.next_row = u.next_row + Len(u.made)
  BY <1>4 DEF InStrip, Upsampler, Object, Counters, SameMain, SameUpsampler
<1> HIDE DEF f
<1>10. /\ SameMain(f, e) /\ SameUpsampler(f, e) /\ Upsampler(e) /\ e.out_row_ctr = f.out_row_ctr
       /\ e.rows_to_go = f.rows_to_go /\ e.post = f.post /\ SameDelivery(f, e)
       /\ f.next_row < maxv => e.starting_row = f.starting_row /\ e.next_row = f.next_row
       /\ ~(f.next_row < maxv) => e.starting_row = f.starting_row + maxv /\ e.next_row = 0
  <2>1. f.next_row \in Int
    BY <1>2, <1>6, <1>7, <1>9
  <2>2. CASE ~(f.next_row < maxv)
    <3>1. f.next_row >= strip_height
      BY <1>2, <2>1, <2>2 DEF strip_height
    <3>2. e = [f EXCEPT !.starting_row = @ + strip_height, !.next_row = 0]
      BY <3>1 DEF NextStrip
    <3>3. /\ SameMain(f, e) /\ SameUpsampler(f, e) /\ Upsampler(e) /\ e.out_row_ctr = f.out_row_ctr
          /\ e.rows_to_go = f.rows_to_go /\ e.post = f.post /\ SameDelivery(f, e)
          /\ e.starting_row = f.starting_row + strip_height /\ e.next_row = 0
      <4> DEFINE s == f.starting_row + strip_height
      <4>1. e = [f EXCEPT !.starting_row = s, !.next_row = 0]
        BY <3>2
      <4>2. Object(f)
        BY <1>9 DEF Upsampler
      <4> HIDE DEF e, s
      <4>3. /\ SameMain(f, e) /\ SameUpsampler(f, e) /\ Object(e) /\ e.out_row_ctr = f.out_row_ctr
            /\ e.rows_to_go = f.rows_to_go /\ e.post = f.post /\ SameDelivery(f, e)
            /\ e.starting_row = s /\ e.next_row = 0
        BY <4>1, <4>2 DEF Object, Counters, SameMain, SameUpsampler, SameDelivery
      <4>4. Upsampler(e)
        BY <1>9, <4>3, Zenon DEF Upsampler, SameMain, SameUpsampler
      <4>5. QED
        BY <4>3, <4>4 DEF s
    <3>4. QED
      BY <2>2, <3>3, Zenon DEF strip_height
  <2>3. CASE f.next_row < maxv
    <3>1. ~(f.next_row >= strip_height)
      BY <1>2, <2>1, <2>3 DEF strip_height
    <3>2. e = f
      BY <3>1 DEF NextStrip
    <3>3. QED
      BY <1>9, <2>3, <3>2, Zenon DEF SameMain, SameUpsampler, SameDelivery
  <2>4. QED
    BY <2>2, <2>3, Zenon
<1> HIDE DEF e
<1>11. e.starting_row + e.next_row = row + n
  <2>1. f.next_row = d.next_row + n /\ f.starting_row = d.starting_row /\ n <= maxv - d.next_row
    BY <1>2, <1>3, <1>6, <1>7, <1>9
  <2>2. CASE f.next_row < maxv
    <3>1. e.starting_row = f.starting_row /\ e.next_row = f.next_row
      BY <1>10, <2>2, Zenon
    <3>2. QED
      BY <1>2, <1>5, <2>1, <3>1
  <2>3. CASE ~(f.next_row < maxv)
    <3>1. e.starting_row = f.starting_row + maxv /\ e.next_row = 0
      BY <1>10, <2>3, Zenon
    <3>2. QED
      <4>1. d.starting_row + d.next_row = row
        BY <1>5
      <4>2. f.next_row = maxv
        BY <1>2, <2>1, <2>3
      <4>3. QED
        BY <1>2, <2>1, <3>1, <4>1, <4>2
  <2>4. QED
    BY <2>2, <2>3
<1>12. Placed(e, row + n)
  <2>1. Placed(f, row + n)
    BY <1>4, <1>9, PlacedSame
  <2>2. QED
    BY <1>10, <2>1, PlacedSame
<1>13. Flow(e, row + n)
  <2>1. /\ Stocked(e) /\ e.lines = <<>> /\ e.scanned = RowsFrom(0, row + n) /\ e.post = "prepass"
        /\ \A r \in 0 .. (row + n) - 1 : e.whole_image[r] = TrueRow(r)
    BY <1>6, <1>7, <1>8, <1>9, <1>10, Zenon DEF SameDelivery, Stocked
  <2>2. e.post \notin {"upsample", "1pass"}
    BY <2>1
  <2>3. row + n \in Nat
    OBVIOUS
  <2>4. IF Merged1 THEN e.rows_to_go > 0 ELSE e.rows_to_go = H - (row + n)
    <3>1. e.rows_to_go = u.rows_to_go
      BY <1>9, <1>10
    <3>2. QED
      BY <1>4, <3>1, Zenon
  <2>5. QED
    <3>1. Upsampler(e) /\ row + n <= H
      BY <1>4, <1>10
    <3>2. QED
      BY <1>11, <2>1, <2>2, <2>3, <2>4, <3>1, Zenon DEF Flow
<1>14. (Process(u) => Process(e)) /\ (Postponed(u) => Postponed(e)) /\ (e.buffer_full <=> u.buffer_full)
  <2>1. (Process(u) => Process(f)) /\ (Postponed(u) => Postponed(f)) /\ (f.buffer_full <=> u.buffer_full)
    BY <1>9, MainStateSame DEF SameMain
  <2>2. (Process(f) => Process(e)) /\ (Postponed(f) => Postponed(e)) /\ (e.buffer_full <=> f.buffer_full)
    BY <1>10, MainStateSame DEF SameMain
  <2>3. QED
    BY <2>1, <2>2
<1>15. e.out_row_ctr = d.out_row_ctr + n /\ e.post = d.post
  BY <1>6, <1>7, <1>9, <1>10
<1>16. Handed(d, e, row, n)
  BY <1>4, <1>12, <1>13, <1>14, <1>15, Zenon DEF Handed
<1>17. QED
  BY <1>1, <1>4, <1>16

(* A turn of the main controller: from rest to rest.                       *)
Rested(d, row) ==
  /\ Flow(d, row) /\ Workspaced(d)
  /\ row < H => /\ Placed(d, row)
                /\ d.buffer_full => HasGroup(d) \/ (need_context_rows /\ Prepare(d))
Turned(d, e, row) == \E n \in Nat : Rested(e, row + n) /\ e.out_row_ctr = d.out_row_ctr + n
Handing(d, max) ==
  /\ d.out_row_ctr \in Nat /\ max \in Nat
  /\ \/ d.post \in {"upsample", "1pass"} /\ max > d.out_row_ctr
     \/ d.post = "prepass" /\ Strip(d) /\ max = 0

(* In either case the rows handed on are the next ones. *)
LEMMA RowsHanded ==
  ASSUME DisplayRight, NEW row \in Nat, row < H, NEW d, Placed(d, row), HasGroup(d), Flow(d, row),
         NEW max, Handing(d, max)
  PROVE  \E n \in Nat : n > 0 /\ Handed(d, post_process_data(d, max), row, n)
<1>1. CASE d.post \in {"upsample", "1pass"} /\ max > d.out_row_ctr
  <2>1. max \in Nat /\ d.out_row_ctr \in Nat
    BY DEF Handing
  <2>2. QED
    BY <1>1, <2>1, LinesHanded, Zenon
<1>2. CASE d.post = "prepass" /\ Strip(d)
  BY <1>2, StripHanded, Zenon
<1>3. QED
  BY <1>1, <1>2, Zenon DEF Handing

(* A call with data, without context (process_data_simple_main). *)
LEMMA SimpleTurn ==
  ASSUME DisplayRight, ~need_context_rows, NEW row \in Nat, row < H, NEW d, Placed(d, row), HasGroup(d), Flow(d, row),
         NEW max, Handing(d, max)
  PROVE  Turned(d, WithData(d, max), row)
<1> DEFINE f == post_process_data(d, max)
           e == Emptied(f)
<1>1. WithData(d, max) = e
  BY DEF WithData, process_data_simple_main
<1>2. PICK n \in Nat : n > 0 /\ Handed(d, f, row, n)
  BY RowsHanded
<1> HIDE DEF f
<1>3. /\ Flow(f, row + n) /\ Placed(f, row + n) /\ f.out_row_ctr = d.out_row_ctr + n /\ f.buffer_full
      /\ Upsampler(f) /\ Object(f) /\ Workspaced(f)
  BY <1>2 DEF Handed, HasGroup, Flow, Upsampler, Placed, Main
<1>4. Carried(f, e) /\ Workspaced(e)
  BY <1>3, MovesCarry
<1>5. Flow(e, row + n)
  BY <1>3, <1>4, FlowKept
<1>6. Placed(e, row + n) /\ (e.buffer_full => HasGroup(e))
  BY <1>3, WorkspaceEmptied
<1>7. e.out_row_ctr = d.out_row_ctr + n
  BY <1>3, <1>4 DEF Carried, SameCounters, SameOutside
<1> HIDE DEF e
<1>8. Rested(e, row + n)
  BY <1>4, <1>5, <1>6 DEF Rested
<1>9. QED
  BY <1>1, <1>7, <1>8 DEF Turned

(* A call with data in the state CTX_PROCESS_IMCU. *)
LEMMA ProcessTurn ==
  ASSUME DisplayRight, need_context_rows, NEW row \in Nat, row < H, NEW d, Placed(d, row), HasGroup(d), Process(d),
         Flow(d, row), NEW max, Handing(d, max)
  PROVE  Turned(d, ProcessIMCU(d, max), row)
<1> DEFINE f == post_process_data(d, max)
           e == AfterIMCU(f)
<1>1. ProcessIMCU(d, max) = e
  BY DEF ProcessIMCU
<1>2. PICK n \in Nat : n > 0 /\ Handed(d, f, row, n)
  BY RowsHanded
<1> HIDE DEF f
<1>3. /\ Flow(f, row + n) /\ Placed(f, row + n) /\ f.out_row_ctr = d.out_row_ctr + n /\ Process(f)
      /\ Upsampler(f) /\ Object(f) /\ Workspaced(f)
  BY <1>2 DEF Handed, Flow, Upsampler, Placed, Main
<1>4. Carried(f, e) /\ Workspaced(e)
  BY <1>3, MovesCarry
<1>5. Flow(e, row + n)
  BY <1>3, <1>4, FlowKept
<1>6. ASSUME row + n < H PROVE Placed(e, row + n) /\ (e.buffer_full => HasGroup(e))
  <2>1. row + n \in Nat
    OBVIOUS
  <2>2. QED
    BY <1>3, <1>6, <2>1, OtherListTakesOver
<1>7. e.out_row_ctr = d.out_row_ctr + n
  BY <1>3, <1>4 DEF Carried, SameCounters, SameOutside
<1> HIDE DEF e
<1>8. Rested(e, row + n)
  BY <1>4, <1>5, <1>6 DEF Rested
<1>9. QED
  BY <1>1, <1>7, <1>8 DEF Turned

(* When iMCUs are due to be prepared, the image has rows left. *)
LEMMA DueIsAbove ==
  ASSUME DisplayRight, need_context_rows, NEW row, NEW d, Placed(d, row), Due(d)
  PROVE  row < H
<1> DEFINE n == d.iMCU_row_ctr
           z == (n - 1) * M
           v == maxv
<1>1. n \in 1 .. iMCURows /\ Group(d) = 0 /\ row = NextGroup(d) * v + 0 /\ iMCURows \in Int
  BY DueIsBetween, iMCUsBelow
<1>2. Behind(d) = n - 1
  BY DEF Behind, Due
<1>3. M \in Int /\ v \in Int
  BY DisplayNumbers
<1>4. z \in Int /\ n - 1 \in Int /\ n - 1 < iMCURows
  BY <1>1, <1>3
<1>5. z * v < H
  BY <1>4, iMCUsBelow
<1>6. row = (z + 0) * v + 0
  BY <1>1, <1>2, Zenon DEF NextGroup
<1> HIDE DEF z, v, n
<1>7. row = z * v
  BY <1>3, <1>4, <1>6
<1>8. QED
  BY <1>5, <1>7

(* A call that prepares a row of iMCUs and goes on with it. *)
LEMMA IMCUTurn ==
  ASSUME DisplayRight, need_context_rows, NEW row \in Nat, NEW d, Placed(d, row), Due(d), Flow(d, row),
         NEW max, Handing(d, max)
  PROVE  Turned(d, ProcessIMCU(Prepared(d), max), row)
<1> DEFINE g == Prepared(d)
<1>1. row < H /\ Upsampler(d) /\ Object(d)
  BY DueIsAbove DEF Flow, Upsampler
<1>2. Placed(g, row) /\ Process(g) /\ HasGroup(g)
  BY <1>1, IMCUBegins
<1>3. Carried(d, g)
  BY <1>1, MovesCarry
<1>4. Flow(g, row)
  BY <1>3, FlowKept
<1> HIDE DEF g
<1>5. g.out_row_ctr = d.out_row_ctr /\ g.post = d.post /\ g.next_row = d.next_row /\ g.starting_row = d.starting_row
  BY <1>3 DEF Carried, SameCounters, SameOutside
<1>6. Handing(g, max)
  BY <1>5 DEF Handing, Strip
<1>7. Turned(g, ProcessIMCU(g, max), row)
  BY <1>1, <1>2, <1>4, <1>6, ProcessTurn
<1>8. Turned(d, ProcessIMCU(g, max), row)
  BY <1>5, <1>7 DEF Turned
<1>9. QED
  BY <1>8 DEF g

(* Rows handed on in two steps are handed on in order. *)
LEMMA TurnsAddUp ==
  ASSUME NEW d, NEW f, NEW e, NEW row \in Nat, NEW n \in Nat, d.out_row_ctr \in Nat,
         f.out_row_ctr = d.out_row_ctr + n, Turned(f, e, row + n)
  PROVE  Turned(d, e, row)
<1>1. PICK m \in Nat : Rested(e, (row + n) + m) /\ e.out_row_ctr = f.out_row_ctr + m
  BY DEF Turned
<1>2. (row + n) + m = row + (n + m) /\ n + m \in Nat
  OBVIOUS
<1>3. e.out_row_ctr = d.out_row_ctr + (n + m)
  BY <1>1
<1>4. Rested(e, row + (n + m))
  BY <1>1, <1>2
<1>5. QED
  BY <1>2, <1>3, <1>4 DEF Turned

(* A call that finishes the postponed row group and goes on if there is    *)
(* room.                                                                   *)
LEMMA PostponedTurn ==
  ASSUME DisplayRight, need_context_rows, NEW row \in Nat, row < H, NEW d, Placed(d, row), HasGroup(d), Postponed(d),
         Flow(d, row), NEW max, Handing(d, max)
  PROVE  Turned(d, AfterPostponed(post_process_data(d, max), max), row)
<1> DEFINE f == post_process_data(d, max)
           e == AfterPostponed(f, max)
<1>1. PICK n \in Nat : n > 0 /\ Handed(d, f, row, n)
  BY RowsHanded
<1>2. d.out_row_ctr \in Nat /\ max \in Nat
  BY DEF Handing
<1>3. d.post = "prepass" => max = 0
  BY DEF Handing
<1> HIDE DEF f
<1>4. /\ Flow(f, row + n) /\ Placed(f, row + n) /\ f.out_row_ctr = d.out_row_ctr + n /\ Postponed(f) /\ f.buffer_full
      /\ Upsampler(f) /\ Object(f) /\ Workspaced(f) /\ f.post = d.post
  BY <1>1 DEF Handed, Flow, Upsampler, Placed, Main, HasGroup
<1>5. row + n \in Nat /\ f.out_row_ctr \in Nat
  BY <1>2, <1>4
<1>6. CASE f.rowgroup_ctr < f.rowgroups_avail
  <2>1. e = f
    BY <1>6 DEF AfterPostponed
  <2>2. HasGroup(f)
    BY <1>4, <1>6 DEF HasGroup, Postponed
  <2>3. Rested(e, row + n)
    BY <1>4, <2>1, <2>2 DEF Rested
  <2> HIDE DEF e
  <2>4. Turned(d, e, row)
    BY <1>4, <2>1, <2>3 DEF Turned
  <2>5. QED
    BY <2>4 DEF e, f
<1>7. CASE ~(f.rowgroup_ctr < f.rowgroups_avail)
  <2>1. Due(f)
    <3>1. M \in Int
      BY DisplayNumbers
    <3>2. QED
      BY <1>4, <1>7, <3>1 DEF Due, Postponed
  <2>2. CASE f.out_row_ctr >= max
    <3> DEFINE g == [f EXCEPT !.context_state = "prepare"]
    <3>1. e = g
      BY <1>7, <2>2 DEF AfterPostponed
    <3>2. Placed(g, row + n) /\ Prepare(g)
      BY <1>4, <2>1, IMCUWaits
    <3>3. Carried(f, g)
      BY <1>4, MovesCarry
    <3>4. Flow(g, row + n)
      BY <1>4, <3>3, FlowKept
    <3>5. g.out_row_ctr = d.out_row_ctr + n /\ Workspaced(g)
      BY <1>4, <3>2, <3>3 DEF Carried, SameCounters, SameOutside, Placed, Main
    <3> HIDE DEF g
    <3>6. Rested(g, row + n)
      BY <3>2, <3>4, <3>5 DEF Rested
    <3> HIDE DEF e
    <3>7. QED
      BY <3>1, <3>5, <3>6 DEF Turned, e, f
  <2>3. CASE ~(f.out_row_ctr >= max)
    <3>1. e = ProcessIMCU(Prepared(f), max)
      BY <1>7, <2>3 DEF AfterPostponed
    <3>2. max > f.out_row_ctr
      BY <1>2, <1>5, <2>3
    <3>3. f.post # "prepass"
      BY <1>3, <1>4, <1>5, <3>2
    <3>4. Handing(f, max)
      BY <1>2, <1>3, <1>4, <1>5, <3>2, <3>3 DEF Handing
    <3>5. Turned(f, e, row + n)
      BY <1>4, <1>5, <2>1, <3>1, <3>4, IMCUTurn
    <3> HIDE DEF e
    <3>6. QED
      BY <1>2, <1>4, <3>5, TurnsAddUp DEF e, f
  <2>4. QED
    BY <2>2, <2>3
<1>8. QED
  BY <1>6, <1>7 DEF f

(* Any call with data (process_data_context_main and the plain one). *)
LEMMA DataTurns ==
  ASSUME DisplayRight, NEW row \in Nat, row < H, NEW d, Placed(d, row), d.buffer_full, Flow(d, row),
         HasGroup(d) \/ (need_context_rows /\ Prepare(d)), NEW max, Handing(d, max)
  PROVE  Turned(d, WithData(d, max), row)
<1>1. CASE ~need_context_rows
  BY <1>1, SimpleTurn
<1>2. CASE need_context_rows
  <2>1. WithData(d, max) = process_data_context_main(d, max)
    BY <1>2 DEF WithData
  <2>2. CASE d.context_state = "postponed"
    <3>1. Postponed(d) /\ HasGroup(d)
      BY <1>2, <2>2 DEF Placed, Main, ContextMain, Process, Prepare
    <3>2. Turned(d, AfterPostponed(post_process_data(d, max), max), row)
      BY <1>2, <3>1, PostponedTurn
    <3>3. QED
      BY <2>1, <2>2, <3>2 DEF process_data_context_main
  <2>3. CASE d.context_state = "prepare"
    <3>1. Due(d)
      BY <1>2, <2>3 DEF Placed, Main, ContextMain, Process, Postponed, Due
    <3>2. Turned(d, ProcessIMCU(Prepared(d), max), row)
      BY <1>2, <3>1, IMCUTurn
    <3>3. QED
      BY <2>1, <2>3, <3>2 DEF process_data_context_main
  <2>4. CASE d.context_state = "process"
    <3>1. Process(d) /\ HasGroup(d)
      BY <1>2, <2>4 DEF Placed, Main, ContextMain, Postponed, Prepare
    <3>2. Turned(d, ProcessIMCU(d, max), row)
      BY <1>2, <3>1, ProcessTurn
    <3>3. QED
      BY <2>1, <2>4, <3>2 DEF process_data_context_main
  <2>5. QED
    BY <1>2, <2>2, <2>3, <2>4 DEF Placed, Main, ContextMain, Process, Postponed, Prepare
<1>3. QED
  BY <1>1, <1>2

(* Any call of process_data hands on the next rows of the image, if any. *)
LEMMA RowsTurn ==
  ASSUME DisplayRight, NEW row \in Nat, row < H, NEW d, Rested(d, row), NEW max, Handing(d, max), NEW ready \in BOOLEAN
  PROVE  Turned(d, process_data(d, max, ready), row)
<1>1. Flow(d, row) /\ Placed(d, row) /\ (d.buffer_full => HasGroup(d) \/ (need_context_rows /\ Prepare(d)))
  BY DEF Rested
<1>2. d.post # "2pass"
  BY DEF Handing
<1>3. CASE d.buffer_full
  <2>1. process_data(d, max, ready) = WithData(d, max)
    BY <1>2, <1>3 DEF process_data
  <2>2. QED
    BY <1>1, <1>3, <2>1, DataTurns
<1>4. CASE ~d.buffer_full /\ ready
  <2> DEFINE f == decompress_data(d)
  <2>1. process_data(d, max, ready) = WithData(f, max)
    BY <1>2, <1>4 DEF process_data
  <2>2. Upsampler(d) /\ Object(d)
    BY <1>1 DEF Flow, Upsampler
  <2>3. Placed(f, row) /\ f.buffer_full /\ (HasGroup(f) \/ (need_context_rows /\ Prepare(f)))
    BY <1>1, <1>4, <2>2, DataArrives
  <2>4. Carried(d, f)
    BY <2>2, MovesCarry
  <2>5. Flow(f, row)
    BY <1>1, <2>4, FlowKept
  <2> HIDE DEF f
  <2>6. f.out_row_ctr = d.out_row_ctr /\ f.post = d.post /\ f.next_row = d.next_row /\ f.starting_row = d.starting_row
    BY <2>4 DEF Carried, SameCounters, SameOutside
  <2>7. Handing(f, max)
    BY <2>6 DEF Handing, Strip
  <2>8. Turned(f, WithData(f, max), row)
    BY <2>3, <2>5, <2>7, DataTurns
  <2>9. QED
    BY <2>1, <2>6, <2>8 DEF Turned
<1>5. CASE ~d.buffer_full /\ ~ready
  <2>1. process_data(d, max, ready) = d
    BY <1>2, <1>5 DEF process_data
  <2>2. row + 0 = row /\ d.out_row_ctr = d.out_row_ctr + 0 /\ 0 \in Nat
    BY DEF Handing
  <2>3. QED
    BY <2>1, <2>2 DEF Turned
<1>6. QED
  BY <1>3, <1>4, <1>5

(* The second pass takes the rows from the array.                          *)
Past == strip_height > 2 /\ H % strip_height > 1
LinesRight(d, p) ==
  IF p <= H THEN d.lines = RowsFrom(0, p)
  ELSE Past /\ Len(d.lines) = p /\ DOMAIN d.lines = 1 .. p /\ \A k \in 1 .. H : d.lines[k] = TrueRow(k - 1)
ImageRight(d) == Stocked(d) /\ \A r \in 0 .. H - 1 : d.whole_image[r] = TrueRow(r)
(* The second pass between two calls, after p rows of the array. *)
Taken(d, p) ==
  /\ Object(d) /\ d.post = "2pass" /\ Strip(d) /\ d.starting_row + d.next_row = p
  /\ \E k \in Nat : d.starting_row = k * maxv
  /\ ImageRight(d) /\ d.scanned = RowsFrom(0, H) /\ LinesRight(d, p)

RowsThen(s, p, t, n) ==
  /\ Len(s) = p + n /\ DOMAIN s = 1 .. p + n
  /\ \A k \in 1 .. p + n : (k <= p => s[k] = TrueRow(k - 1)) /\ (~(k <= p) => s[k] = t[k - p])

(* What follows the rows from the top. *)
LEMMA RowsBefore ==
  ASSUME NEW p \in Nat, NEW n \in Nat, NEW S, NEW t \in Seq(S), Len(t) = n
  PROVE  RowsThen(RowsFrom(0, p) \o t, p, t, n)
<1> DEFINE R(i) == TrueRow(0 + i - 1)
           f == [i \in 1 .. p |-> R(i)]
           Q == {R(i) : i \in 1 .. p}
           s == f \o t
<1>1. \A i \in 1 .. p : R(i) \in Q /\ R(i) = TrueRow(i - 1)
  OBVIOUS
<1>2. RowsFrom(0, p) = f
  BY DEF RowsFrom
<1> HIDE DEF Q, R
<1>3. f \in Seq(Q) /\ Len(f) = p /\ \A i \in 1 .. p : f[i] = R(i)
  BY <1>1
<1> HIDE DEF f
<1>4. f \in Seq(Q \cup S) /\ t \in Seq(Q \cup S)
  BY <1>3
<1>5. s \in Seq(Q \cup S) /\ Len(s) = Len(f) + Len(t)
  BY <1>4
<1>6. \A k \in 1 .. Len(f) + Len(t) : s[k] = IF k <= Len(f) THEN f[k] ELSE t[k - Len(f)]
  BY <1>4
<1> HIDE DEF s
<1>7. DOMAIN s = 1 .. Len(s)
  BY <1>5
<1>8. \A k \in 1 .. p + n : (k <= p => s[k] = TrueRow(k - 1)) /\ (~(k <= p) => s[k] = t[k - p])
  BY <1>1, <1>3, <1>6
<1>9. Len(s) = p + n /\ DOMAIN s = 1 .. p + n
  BY <1>3, <1>5, <1>7
<1>10. RowsThen(s, p, t, n)
  BY <1>8, <1>9 DEF RowsThen
<1>11. QED
  BY <1>2, <1>10 DEF s

(* The rows of the last strip. *)
LEMMA LastStrip ==
  ASSUME DisplayRight, NEW k \in Nat, NEW r \in Nat, r < maxv, H = k * maxv + r
  PROVE  H % maxv = r
<1> DEFINE v == maxv
           h == H
<1>1. v \in Positive /\ v \in Int /\ v > 0 /\ h \in Int /\ h > 0
  BY DisplayNumbers
<1>2. (k * v + r) \div v = k + r \div v
  <2>1. k \in Int /\ r \in Int
    OBVIOUS
  <2>2. QED
    BY <1>1, <2>1, ShiftedQuotient, Zenon
<1>3. r \div v = 0
  <2>1. r < 1 * v /\ 0 <= r /\ r \in Int /\ 1 \in Nat
    BY <1>1
  <2>2. r \div v \in 0 .. 1 - 1
    BY <1>1, <2>1, QuotientBelow, Zenon
  <2>3. QED
    BY <2>2
<1>4. h = (h \div v) * v + (h % v) /\ h % v \in 0 .. v - 1
  <2>1. h < (k + 1) * v /\ k + 1 \in Nat /\ 0 <= h
    <3> HIDE DEF v
    <3>1. (k + 1) * v = k * v + v /\ k * v \in Int
      BY <1>1
    <3>2. h = k * v + r
      BY DEF v
    <3> HIDE DEF h
    <3> DEFINE z == k * v
    <3> HIDE DEF z
    <3>3. (k + 1) * v = z + v /\ h = z + r /\ z \in Int
      BY <3>1, <3>2 DEF z
    <3>4. r < v
      BY DEF v
    <3>5. QED
      BY <1>1, <3>3, <3>4
  <2>2. QED
    BY <1>1, <2>1, QuotientBelow, Zenon
<1>5. h \div v = k
  <2>1. h \div v = k + 0
    BY <1>2, <1>3
  <2>2. QED
    BY <2>1
<1>6. h = k * v + r
  OBVIOUS
<1> DEFINE z == k * v
           m == h % v
<1>7. h = z + m /\ m \in Int /\ z \in Int
  <2>1. m \in Int
    BY <1>1, <1>4
  <2>2. z \in Int
    <3> HIDE DEF v
    <3>1. QED
      BY <1>1
  <2>3. QED
    BY <1>4, <1>5, <2>1, <2>2, Zenon
<1>8. h = z + r
  BY <1>6
<1> HIDE DEF z, m, h
<1>9. m = r
  BY <1>7, <1>8
<1>10. QED
  BY <1>9 DEF m, h

(* post_process_2pass goes below the bottom only where strips have more    *)
(* than two rows and the image ends two rows or more into the last one.    *)
LEMMA Overshoot ==
  ASSUME DisplayRight, NEW s \in Nat, \E k \in Nat : s = k * maxv, NEW num \in Nat, NEW n \in Nat,
         s + num < H, num + n <= maxv, n <= H - s, s + num + n > H
  PROVE  Past
<1>1. PICK k \in Nat : s = k * maxv
  OBVIOUS
<1> DEFINE r == H - s
<1>2. H \in Int /\ maxv \in Int
  BY DisplayNumbers
<1>3. r \in Nat /\ r < maxv /\ r >= 2 /\ H = s + r
  BY <1>2
<1>4. H % maxv = r
  <2> HIDE DEF r
  <2>1. H = k * maxv + r
    BY <1>1, <1>3
  <2>2. QED
    BY <1>3, <2>1, LastStrip
<1>5. QED
  BY <1>2, <1>3, <1>4 DEF Past, strip_height

(* The second pass takes the next rows of the array. *)
LEMMA StoredTaken ==
  ASSUME DisplayRight, NEW p \in Nat, p < H, NEW d, Taken(d, p), d.out_row_ctr \in Nat,
         NEW max \in Nat, max > d.out_row_ctr
  PROVE  LET e == post_process_data(d, max)
         IN  \E n \in Nat : Taken(e, p + n) /\ e.out_row_ctr = d.out_row_ctr + n
<1> DEFINE n == Min({strip_height - d.next_row, max - d.out_row_ctr, H - d.starting_row})
           m == [k \in 1 .. n |-> d.whole_image[d.starting_row + d.next_row + k - 1]]
           f == Deliver(TakeStored(d, n))
           e == NextStrip(f)
<1>1. post_process_data(d, max) = e
  BY DEF post_process_data, post_process_2pass, Taken
<1>2. /\ d.next_row \in 0 .. maxv - 1 /\ d.starting_row \in Nat /\ d.starting_row + d.next_row = p
      /\ maxv \in Int /\ maxv > 0 /\ H \in Int /\ Object(d) /\ strip_height = maxv
  BY DisplayNumbers DEF Taken, Strip, strip_height
<1>3. n \in Nat /\ n > 0 /\ n <= maxv - d.next_row /\ n <= H - d.starting_row
  <2>1. /\ strip_height - d.next_row \in Int /\ strip_height - d.next_row > 0
        /\ max - d.out_row_ctr \in Int /\ max - d.out_row_ctr > 0
        /\ H - d.starting_row \in Int /\ H - d.starting_row > 0
    BY <1>2
  <2>2. /\ n \in {strip_height - d.next_row, max - d.out_row_ctr, H - d.starting_row}
        /\ n <= strip_height - d.next_row /\ n <= max - d.out_row_ctr /\ n <= H - d.starting_row
    BY <2>1, MinOfThree, Zenon
  <2>3. QED
    BY <1>2, <2>1, <2>2
<1> HIDE DEF n
<1>4. \A k \in 1 .. n : p + k - 1 < H => m[k] = TrueRow(p + k - 1)
  <2> SUFFICES ASSUME NEW k \in 1 .. n, p + k - 1 < H PROVE m[k] = TrueRow(p + k - 1)
    OBVIOUS
  <2>1. m[k] = d.whole_image[d.starting_row + d.next_row + k - 1]
    OBVIOUS
  <2>2. d.starting_row + d.next_row + k - 1 = p + k - 1 /\ p + k - 1 \in 0 .. H - 1
    BY <1>2, <1>3
  <2>3. d.whole_image[p + k - 1] = TrueRow(p + k - 1)
    BY <2>2, Zenon DEF Taken, ImageRight
  <2>4. QED
    BY <2>1, <2>2, <2>3
<1>5. m \in Seq({m[k] : k \in 1 .. n}) /\ Len(m) = n
  <2> DEFINE S == {m[k] : k \in 1 .. n}
             F(k) == d.whole_image[d.starting_row + d.next_row + k - 1]
  <2>1. \A k \in 1 .. n : F(k) \in S
    OBVIOUS
  <2> HIDE DEF S, F
  <2>2. [k \in 1 .. n |-> F(k)] \in Seq(S) /\ Len([k \in 1 .. n |-> F(k)]) = n
    BY <1>3, <2>1
  <2>3. QED
    BY <2>2 DEF S, F
<1> DEFINE g == TakeStored(d, n)
<1>6. g = [d EXCEPT !.made = m, !.next_row = @ + n]
  BY DEF TakeStored
<1> HIDE DEF m
<1>7. /\ Object(g) /\ g.made = m /\ g.next_row = d.next_row + n /\ g.starting_row = d.starting_row
      /\ g.lines = d.lines /\ g.out_row_ctr = d.out_row_ctr /\ g.post = d.post /\ g.scanned = d.scanned
      /\ g.whole_image = d.whole_image
  BY <1>2, <1>6 DEF Object, Counters
<1> HIDE DEF g
<1>8. /\ Object(f) /\ f.lines = d.lines \o m /\ f.out_row_ctr = d.out_row_ctr + n
      /\ f.next_row = d.next_row + n /\ f.starting_row = d.starting_row /\ f.post = d.post
      /\ f.scanned = d.scanned /\ f.whole_image = d.whole_image
  <2>1. f = [g EXCEPT !.lines = @ \o g.made, !.out_row_ctr = @ + Len(g.made), !.made = <<>>]
    BY DEF Deliver, g
  <2>2. /\ Object(f) /\ f.lines = g.lines \o g.made /\ f.out_row_ctr = g.out_row_ctr + Len(g.made)
        /\ f.next_row = g.next_row /\ f.starting_row = g.starting_row /\ f.post = g.post
        /\ f.scanned = g.scanned /\ f.whole_image = g.whole_image
    BY <1>7, <2>1 DEF Object, Counters
  <2> HIDE DEF f
  <2>3. QED
    BY <1>5, <1>7, <2>2
<1> HIDE DEF f
<1>9. /\ Object(e) /\ e.lines = f.lines /\ e.out_row_ctr = f.out_row_ctr /\ e.post = f.post
      /\ e.scanned = f.scanned /\ e.whole_image = f.whole_image
      /\ e.next_row \in 0 .. maxv - 1 /\ e.starting_row \in Nat /\ e.starting_row + e.next_row = p + n
      /\ e.starting_row = d.starting_row \/ e.starting_row = d.starting_row + maxv
  <2>1. CASE d.next_row + n = maxv
    <3>1. e = [f EXCEPT !.starting_row = @ + strip_height, !.next_row = 0]
      BY <1>2, <1>8, <2>1 DEF NextStrip
    <3>2. /\ Object(e) /\ e.lines = f.lines /\ e.out_row_ctr = f.out_row_ctr /\ e.post = f.post
          /\ e.scanned = f.scanned /\ e.whole_image = f.whole_image
          /\ e.next_row = 0 /\ e.starting_row = f.starting_row + strip_height
      BY <1>8, <3>1 DEF Object, Counters
    <3> HIDE DEF e
    <3>3. e.starting_row = d.starting_row + maxv
      BY <1>2, <1>8, <3>2
    <3>4. /\ e.next_row \in 0 .. maxv - 1 /\ e.starting_row \in Nat /\ e.starting_row + e.next_row = p + n
      BY <1>2, <1>3, <2>1, <3>2, <3>3
    <3>5. QED
      BY <3>2, <3>3, <3>4
  <2>2. CASE d.next_row + n # maxv
    <3>1. d.next_row + n \in 0 .. maxv - 1
      BY <1>2, <1>3, <2>2
    <3>2. ~(f.next_row >= strip_height)
      BY <1>2, <1>8, <3>1
    <3>3. e = f
      BY <3>2 DEF NextStrip
    <3>4. d.starting_row + (d.next_row + n) = p + n
      BY <1>2, <1>3
    <3> HIDE DEF e
    <3>5. QED
      BY <1>2, <1>8, <3>1, <3>3, <3>4
  <2>3. QED
    BY <2>1, <2>2
<1> HIDE DEF e
<1>10. \E k \in Nat : e.starting_row = k * maxv
  <2>1. PICK k \in Nat : d.starting_row = k * maxv
    BY DEF Taken
  <2> DEFINE v == maxv
  <2>2. v \in Int
    BY <1>2
  <2>3. e.starting_row = k * v \/ e.starting_row = k * v + v
    BY <1>9, <2>1
  <2> HIDE DEF v
  <2>4. k * v + v = (k + 1) * v /\ k + 1 \in Nat
    BY <2>2
  <2>5. e.starting_row = k * v \/ e.starting_row = (k + 1) * v
    BY <2>3, <2>4
  <2>6. \E j \in Nat : e.starting_row = j * v
    BY <2>4, <2>5
  <2>7. QED
    BY <2>6 DEF v
<1>11. d.lines = RowsFrom(0, p)
  <2>1. p <= H
    BY <1>2
  <2>2. QED
    BY <2>1 DEF Taken, LinesRight
<1>12. LinesRight(e, p + n)
  <2>0. e.lines = RowsFrom(0, p) \o m
    BY <1>8, <1>9, <1>11
  <2>1. CASE p + n <= H
    <3>1. m = RowsFrom(p, n)
      <4> DEFINE F(k) == TrueRow(p + k - 1)
                 G(k) == d.whole_image[d.starting_row + d.next_row + k - 1]
      <4>1. \A k \in 1 .. n : p + k - 1 < H
        BY <1>2, <1>3, <2>1
      <4>2. \A k \in 1 .. n : m[k] = F(k)
        BY <1>4, <4>1
      <4>3. m = [k \in 1 .. n |-> G(k)]
        BY DEF m
      <4> HIDE DEF F, G
      <4>4. m = [k \in 1 .. n |-> F(k)]
        BY <4>2, <4>3
      <4>5. QED
        BY <4>4 DEF RowsFrom, F
    <3>2. RowsFrom(0, p) \o RowsFrom(0 + p, n) = RowsFrom(0, p + n)
      <4>1. 0 \in Int
        OBVIOUS
      <4>2. QED
        BY <1>3, <4>1, RowsJoin, Zenon
    <3>3. 0 + p = p
      OBVIOUS
    <3>4. e.lines = RowsFrom(0, p + n)
      BY <2>0, <3>1, <3>2, <3>3, Zenon
    <3>5. QED
      BY <2>1, <3>4, Zenon DEF LinesRight
  <2>2. CASE ~(p + n <= H)
    <3>1. Past
      <4>1. /\ d.starting_row \in Nat /\ d.next_row \in Nat /\ n \in Nat /\ d.starting_row + d.next_row < H
            /\ d.next_row + n <= maxv /\ n <= H - d.starting_row /\ d.starting_row + d.next_row + n > H
        BY <1>2, <1>3, <2>2
      <4>2. \E k \in Nat : d.starting_row = k * maxv
        BY DEF Taken
      <4>3. QED
        BY <4>1, <4>2, Overshoot, Zenon
    <3>2. /\ Len(e.lines) = p + n /\ DOMAIN e.lines = 1 .. p + n
          /\ \A k \in 1 .. p + n : (k <= p => e.lines[k] = TrueRow(k - 1)) /\ (~(k <= p) => e.lines[k] = m[k - p])
      <4> DEFINE Q == {m[k] : k \in 1 .. n}
      <4>1. m \in Seq(Q) /\ Len(m) = n /\ n \in Nat
        BY <1>3, <1>5
      <4> HIDE DEF Q
      <4>2. RowsThen(RowsFrom(0, p) \o m, p, m, n)
        BY <4>1, RowsBefore, Zenon
      <4>3. RowsThen(e.lines, p, m, n)
        BY <2>0, <4>2, Zenon
      <4>4. QED
        BY <4>3 DEF RowsThen
    <3>3. ASSUME NEW k \in 1 .. H PROVE e.lines[k] = TrueRow(k - 1)
      <4>1. k \in 1 .. p + n
        BY <1>2, <1>3, <2>2
      <4>2. CASE k <= p
        BY <3>2, <4>1, <4>2
      <4>3. CASE ~(k <= p)
        <5>1. k - p \in 1 .. n /\ p + (k - p) - 1 = k - 1 /\ k - 1 < H
          BY <1>2, <1>3, <4>1, <4>3
        <5>2. m[k - p] = TrueRow(k - 1)
          BY <1>4, <5>1
        <5>3. QED
          BY <3>2, <4>1, <4>3, <5>2
      <4>4. QED
        BY <4>2, <4>3
    <3>4. QED
      BY <2>2, <3>1, <3>2, <3>3, Zenon DEF LinesRight
  <2>3. QED
    BY <2>1, <2>2
<1>13. Taken(e, p + n)
  <2>1. e.scanned = RowsFrom(0, H) /\ ImageRight(e) /\ e.post = "2pass"
    BY <1>8, <1>9 DEF Taken, ImageRight, Stocked
  <2>2. QED
    BY <1>9, <1>10, <1>12, <2>1 DEF Taken, Strip
<1>14. e.out_row_ctr = d.out_row_ctr + n
  BY <1>8, <1>9
<1>15. QED
  BY <1>1, <1>3, <1>13, <1>14

(* What the calls around the main controller leave alone.                  *)
SameAll(d, e) ==
  /\ SameMain(d, e) /\ SameUpsampler(d, e) /\ SameDelivery(d, e) /\ Object(e)
  /\ e.rows_to_go = d.rows_to_go /\ e.post = d.post
  /\ e.starting_row = d.starting_row /\ e.next_row = d.next_row

(* Neither depends on the counters of the application's side. *)
LEMMA RestedSame ==
  ASSUME NEW d, NEW e, SameAll(d, e), NEW row, Rested(d, row)
  PROVE  Rested(e, row)
<1>1. /\ SameMain(d, e) /\ SameUpsampler(d, e) /\ SameDelivery(d, e) /\ Object(e)
      /\ e.rows_to_go = d.rows_to_go /\ e.post = d.post
      /\ e.starting_row = d.starting_row /\ e.next_row = d.next_row
  BY DEF SameAll
<1>2. Upsampler(e)
  BY <1>1, Zenon DEF Rested, Flow, Upsampler, SameMain, SameUpsampler
<1>3. Flow(e, row)
  BY <1>1, <1>2, Zenon DEF Rested, Flow, Stocked, SameDelivery
<1>4. Workspaced(e)
  BY <1>1, MainSame DEF Rested
<1>5. ASSUME row < H PROVE Placed(e, row) /\ (e.buffer_full => HasGroup(e) \/ (need_context_rows /\ Prepare(e)))
  <2>1. Placed(d, row) /\ (d.buffer_full => HasGroup(d) \/ (need_context_rows /\ Prepare(d)))
    BY <1>5 DEF Rested
  <2>2. Placed(e, row) /\ (HasGroup(d) => HasGroup(e))
    BY <1>1, <2>1, PlacedSame
  <2>3. Prepare(d) => Prepare(e)
    BY <1>1, Zenon DEF Prepare, SameMain
  <2>4. e.buffer_full = d.buffer_full
    BY <1>1 DEF SameMain
  <2>5. QED
    BY <2>1, <2>2, <2>3, <2>4
<1>6. QED
  BY <1>3, <1>4, <1>5 DEF Rested

(* The same of the second pass. *)
LEMMA StoredSame ==
  ASSUME NEW d, NEW e, SameAll(d, e), NEW p, Taken(d, p)
  PROVE  Taken(e, p)
BY Zenon DEF SameAll, SameDelivery, Taken, Strip, ImageRight, Stocked, LinesRight

(* The lists as make_funny_pointers makes them.                            *)
LEMMA FreshTable ==
  ASSUME DisplayRight, need_context_rows
  PROVE  make_funny_pointers = Table(0, FALSE, FALSE)
<1> DEFINE A(l, ci) == IF l = 0 THEN FirstList(ci) ELSE SecondList(ci)
           B(l, ci) == [i \in FunnyRange(ci) |->
                          IF l = 0 /\ FALSE /\ i \in BottomRange(ci) THEN Usual(FALSE, l, ci)[rows_left(ci) - 1]
                          ELSE Usual(FALSE, l, ci)[i]]
<1>1. ASSUME NEW l \in 0 .. 1, NEW ci \in OutComps PROVE A(l, ci) = B(l, ci)
  <2>1. A(l, ci) = List(l, ci)
    BY DEF List
  <2>2. B(l, ci) = [i \in FunnyRange(ci) |-> List(l, ci)[i]]
    BY DEF Usual
  <2>3. DOMAIN List(l, ci) = FunnyRange(ci)
    BY Lists
  <2>4. List(l, ci) = [i \in DOMAIN List(l, ci) |-> List(l, ci)[i]]
    BY DEF List, FirstList, SecondList
  <2> HIDE DEF A, B
  <2>5. QED
    BY <2>1, <2>2, <2>3, <2>4, Zenon
<1> HIDE DEF A, B
<1>2. \A l \in 0 .. 1 : [ci \in OutComps |-> A(l, ci)] = [ci \in OutComps |-> B(l, ci)]
  BY <1>1
<1> DEFINE P(l) == [ci \in OutComps |-> A(l, ci)]
           Q(l) == [ci \in OutComps |-> B(l, ci)]
<1>3. \A l \in 0 .. 1 : P(l) = Q(l)
  BY <1>2
<1> HIDE DEF P, Q
<1>4. [l \in 0 .. 1 |-> P(l)] = [l \in 0 .. 1 |-> Q(l)]
  BY <1>3
<1>5. make_funny_pointers = [l \in 0 .. 1 |-> P(l)]
  BY Zenon DEF make_funny_pointers, P, A
<1>6. Table(0, FALSE, FALSE) = [l \in 0 .. 1 |-> Q(l)]
  BY Zenon DEF Table, Q, B
<1>7. QED
  BY <1>4, <1>5, <1>6

(* The beginning of a pass.                                                *)
LEMMA ModulesStart ==
  ASSUME DisplayRight, NEW d, Object(d), Stocked(d), Workspaced(d), d.scanned = <<>>, d.is_dummy_pass = FALSE
  PROVE  LET e == Opened(SetUp(d))
         IN  /\ Rested(e, 0) /\ e.output_scanline = 0 /\ Stocked(e) /\ Workspaced(e)
             /\ e.post \in {"upsample", "1pass", "prepass"}
<1> DEFINE X == IF need_context_rows THEN make_funny_pointers ELSE PlainPointers
           Begun(e) ==
             /\ Object(e) /\ e.lines = <<>> /\ e.output_scanline = 0 /\ e.post \in {"upsample", "1pass", "prepass"}
             /\ e.starting_row = 0 /\ e.next_row = 0
             /\ e.output_iMCU_row = 0 /\ e.rows_to_go = H /\ e.next_row_out = maxv /\ e.spare_full = FALSE
             /\ e.xbuffer = X /\ e.whichptr = 0 /\ e.context_state = "prepare" /\ e.iMCU_row_ctr = 0
             /\ e.buffer_full = FALSE /\ e.rowgroup_ctr = 0
             /\ e.buffer = d.buffer /\ e.whole_image = d.whole_image /\ e.scanned = <<>>
           g(method) == StartModules(d, method)
           f == SetUp(d)
           e == Opened(f)
<1> HIDE DEF X
<1>1. ASSUME NEW method \in {"upsample", "1pass", "prepass"}
      PROVE  Begun([g(method) EXCEPT !.output_scanline = 0, !.lines = <<>>])
  BY <1>1 DEF StartModules, X, Object, Counters
<1>2. ASSUME NEW s, Begun(s)
      PROVE  /\ Begun([s EXCEPT !.is_dummy_pass = TRUE])
             /\ \A st : Begun([s EXCEPT !.state = st])
  BY <1>2 DEF Object, Counters
<1>3. Begun(f)
  <2>1. \/ prepare_for_output_pass(d) = g("upsample")
        \/ prepare_for_output_pass(d) = g("1pass")
        \/ prepare_for_output_pass(d) = [g("prepass") EXCEPT !.is_dummy_pass = TRUE]
    BY DEF prepare_for_output_pass, DisplayRight, DisplayOK
  <2>2. f = [prepare_for_output_pass(d) EXCEPT !.output_scanline = 0, !.lines = <<>>]
    BY DEF SetUp
  <2> HIDE DEF f, g, Begun
  <2>3. CASE prepare_for_output_pass(d) = g("upsample")
    <3>1. Begun([g("upsample") EXCEPT !.output_scanline = 0, !.lines = <<>>])
      BY <1>1
    <3>2. QED
      BY <2>2, <2>3, <3>1
  <2>4. CASE prepare_for_output_pass(d) = g("1pass")
    <3>1. Begun([g("1pass") EXCEPT !.output_scanline = 0, !.lines = <<>>])
      BY <1>1
    <3>2. QED
      BY <2>2, <2>4, <3>1
  <2>5. CASE prepare_for_output_pass(d) = [g("prepass") EXCEPT !.is_dummy_pass = TRUE]
    <3> DEFINE h == g("prepass")
               k == [h EXCEPT !.output_scanline = 0, !.lines = <<>>]
    <3>1. Object(h)
      BY DEF g, StartModules, Object, Counters
    <3>2. Begun(k)
      BY <1>1
    <3> HIDE DEF h
    <3>3. f = [[h EXCEPT !.is_dummy_pass = TRUE] EXCEPT !.output_scanline = 0, !.lines = <<>>]
      BY <2>2, <2>5 DEF h
    <3>4. f = [k EXCEPT !.is_dummy_pass = TRUE]
      BY <3>1, <3>3 DEF Object, Counters
    <3> HIDE DEF k
    <3>5. QED
      BY <1>2, <3>2, <3>4
  <2>6. QED
    BY <2>1, <2>3, <2>4, <2>5
<1> HIDE DEF g, f
<1>4. Begun(e)
  <2>1. e = [f EXCEPT !.state = IF f.is_dummy_pass THEN "DSTATE_PRESCAN" ELSE "DSTATE_SCANNING"]
    BY DEF Opened
  <2> HIDE DEF e, Begun
  <2>2. QED
    BY <1>2, <1>3, <2>1
<1> HIDE DEF e
<1>5. H \in Int /\ H > 0 /\ M \in Int /\ M > 0 /\ maxv \in Int /\ maxv > 0 /\ iMCURows \in Int /\ iMCURows >= 1
  BY DisplayNumbers, iMCUsBelow
<1>6. Stocked(e) /\ Workspaced(e)
  BY <1>4 DEF Stocked, Workspaced
<1>7. Behind(e) = 0 /\ Group(e) = 0
  BY <1>4 DEF Behind, Group
<1>8. Main(e)
  <2>0. e.output_iMCU_row = e.iMCU_row_ctr /\ e.iMCU_row_ctr \in 0 .. iMCURows /\ e.buffer_full \in BOOLEAN
    <3>1. e.output_iMCU_row = 0 /\ e.iMCU_row_ctr = 0 /\ e.buffer_full = FALSE
      BY <1>4
    <3>2. 0 \in 0 .. iMCURows
      BY <1>5
    <3>3. QED
      BY <3>1, <3>2, Zenon
  <2>1. CASE need_context_rows
    <3>1. Prepare(e)
      BY <1>4 DEF Prepare
    <3>2. PointersRight(e)
      <4>1. e.xbuffer = Table(0, FALSE, FALSE)
        BY <1>4, <2>1, FreshTable DEF X
      <4>2. Edge(e) = FALSE /\ Bottom(e) = FALSE /\ e.whichptr = 0
        BY <1>4 DEF Edge, Bottom
      <4>3. 0 \in 0 .. 1
        OBVIOUS
      <4>4. QED
        BY <4>1, <4>2, <4>3, Zenon DEF PointersRight
    <3>3. CellsRight(e)
      BY <1>4, <1>7 DEF CellsRight
    <3>4. QED
      BY <1>6, <2>0, <2>1, <3>1, <3>2, <3>3, Zenon DEF Main, ContextMain
  <2>2. CASE ~need_context_rows
    <3>1. SimpleMain(e)
      BY <1>4, <1>5 DEF SimpleMain
    <3>2. PlainRight(e)
      BY <1>4, <2>2 DEF PlainRight, X
    <3>3. QED
      BY <1>6, <2>0, <2>2, <3>1, <3>2, Zenon DEF Main
  <2>3. QED
    BY <2>1, <2>2
<1>9. ~Open(e)
  BY <1>4, <1>5 DEF Open
<1>10. RowNo(e) = 0
  <2>1. RowNo(e) = (0 * M + 0) * maxv + 0
    BY <1>7, <1>9, Zenon DEF RowNo, NextGroup, Done
  <2> DEFINE v == maxv
             m == M
  <2>2. v \in Int /\ m \in Int
    BY <1>5
  <2> HIDE DEF v, m
  <2>3. (0 * m + 0) * v + 0 = 0
    BY <2>2
  <2>4. QED
    BY <2>1, <2>3 DEF v, m
<1>11. Placed(e, 0)
  BY <1>8, <1>9, <1>10 DEF Placed, Kept
<1>12. Flow(e, 0)
  <2>1. Upsampler(e)
    BY <1>4, <1>5 DEF Upsampler
  <2>2. RowsFrom(0, 0) = <<>>
    BY RowsJoin
  <2>3. \A r \in 0 .. 0 - 1 : e.whole_image[r] = TrueRow(r)
    OBVIOUS
  <2>4. /\ e.lines = <<>> /\ e.scanned = <<>> /\ e.starting_row + e.next_row = 0
        /\ IF Merged1 THEN e.rows_to_go > 0 ELSE e.rows_to_go = H - 0
    BY <1>4, <1>5
  <2>5. 0 \in Nat /\ 0 <= H
    BY <1>5
  <2>6. QED
    BY <1>6, <2>1, <2>2, <2>3, <2>4, <2>5, Zenon DEF Flow
<1>13. Rested(e, 0)
  BY <1>4, <1>6, <1>11, <1>12 DEF Rested
<1>14. QED
  BY <1>4, <1>6, <1>13 DEF e, f

PassRight(d) == IF d.post = "2pass" THEN Taken(d, d.output_scanline) ELSE Rested(d, d.output_scanline)
OutputRight(d) ==
  /\ \A row \in DOMAIN d.lines : row <= H => d.lines[row] = TrueRow(row - 1)
  /\ d.state = "DSTATE_SCANNING" => Len(d.lines) = d.output_scanline
  /\ Len(d.lines) > H => d.post = "2pass" /\ Past
  /\ \A row \in DOMAIN d.scanned : d.scanned[row] = TrueRow(row - 1)
  /\ d.post = "2pass" => Len(d.scanned) = H

(* The rows of the image from the top. *)
LEMMA RowsFromTop ==
  ASSUME NEW n \in Nat
  PROVE  LET s == RowsFrom(0, n)
         IN  DOMAIN s = 1 .. n /\ Len(s) = n /\ \A row \in 1 .. n : s[row] = TrueRow(row - 1)
<1> DEFINE s == RowsFrom(0, n)
<1>1. DOMAIN s = 1 .. n /\ Len(s) = n
  <2>1. 0 \in Nat
    OBVIOUS
  <2>2. QED
    BY <2>1, RowsAre, Zenon
<1>2. ASSUME NEW row \in 1 .. n PROVE s[row] = TrueRow(row - 1)
  <2>1. s[row] = TrueRow(0 + row - 1)
    BY DEF RowsFrom
  <2>2. 0 + row - 1 = row - 1
    OBVIOUS
  <2> HIDE DEF s
  <2>3. QED
    BY <2>1, <2>2, Zenon
<1>3. QED
  BY <1>1, <1>2

(* A pass that makes its rows is right wherever it rests. *)
LEMMA RestedIsRight ==
  ASSUME DisplayRight, NEW d, Rested(d, d.output_scanline),
         \/ d.post = "prepass" /\ d.state = "DSTATE_PRESCAN"
         \/ d.post \in {"upsample", "1pass"}
  PROVE  OutputRight(d)
<1> DEFINE n == d.output_scanline
<1>1. H \in Int /\ H > 0 /\ n \in Nat /\ n <= H
  BY DisplayNumbers DEF Rested, Flow
<1>2. Len(<<>>) = 0 /\ DOMAIN <<>> = {}
  OBVIOUS
<1>3. CASE d.post = "prepass" /\ d.state = "DSTATE_PRESCAN"
  <2>1. d.lines = <<>> /\ d.scanned = RowsFrom(0, n)
    BY <1>3 DEF Rested, Flow
  <2>2. \A row \in DOMAIN d.scanned : d.scanned[row] = TrueRow(row - 1)
    BY <1>1, <2>1, RowsFromTop, Zenon
  <2>3. ~(Len(d.lines) > H) /\ d.state # "DSTATE_SCANNING" /\ d.post # "2pass"
    BY <1>1, <1>2, <1>3, <2>1
  <2>4. QED
    BY <1>2, <2>1, <2>2, <2>3, Zenon DEF OutputRight
<1>4. CASE d.post \in {"upsample", "1pass"}
  <2>1. d.lines = RowsFrom(0, n) /\ d.scanned = <<>>
    BY <1>4 DEF Rested, Flow
  <2>2. Len(d.lines) = n /\ \A row \in DOMAIN d.lines : d.lines[row] = TrueRow(row - 1)
    BY <1>1, <2>1, RowsFromTop, Zenon
  <2>3. ~(Len(d.lines) > H) /\ d.post # "2pass"
    BY <1>1, <1>4, <2>2
  <2>4. QED
    BY <1>2, <2>1, <2>2, <2>3, Zenon DEF OutputRight
<1>5. QED
  BY <1>3, <1>4

(* So is one that takes them from the array. *)
LEMMA TakenIsRight ==
  ASSUME DisplayRight, NEW d, d.output_scanline \in Nat, Taken(d, d.output_scanline)
  PROVE  OutputRight(d)
<1> DEFINE n == d.output_scanline
<1>1. H \in Int /\ H > 0 /\ H \in Nat /\ n \in Nat
  BY DisplayNumbers
<1>2. /\ d.post = "2pass" /\ d.scanned = RowsFrom(0, H) /\ LinesRight(d, n)
  BY DEF Taken
<1>3. Len(d.scanned) = H /\ \A row \in DOMAIN d.scanned : d.scanned[row] = TrueRow(row - 1)
  BY <1>1, <1>2, RowsFromTop, Zenon
<1>4. CASE n <= H
  <2>1. d.lines = RowsFrom(0, n)
    BY <1>2, <1>4 DEF LinesRight
  <2>2. Len(d.lines) = n /\ \A row \in DOMAIN d.lines : d.lines[row] = TrueRow(row - 1)
    BY <1>1, <2>1, RowsFromTop, Zenon
  <2>3. ~(Len(d.lines) > H)
    BY <1>1, <1>4, <2>2
  <2>4. QED
    BY <1>2, <1>3, <2>2, <2>3, Zenon DEF OutputRight
<1>5. CASE ~(n <= H)
  <2>1. Past /\ Len(d.lines) = n /\ DOMAIN d.lines = 1 .. n /\ \A k \in 1 .. H : d.lines[k] = TrueRow(k - 1)
    BY <1>2, <1>5, Zenon DEF LinesRight
  <2>2. \A row \in 1 .. n : row <= H => row \in 1 .. H
    BY <1>1
  <2>3. \A row \in DOMAIN d.lines : row <= H => d.lines[row] = TrueRow(row - 1)
    BY <2>1, <2>2, Zenon
  <2>4. QED
    BY <1>2, <1>3, <2>1, <2>3, Zenon DEF OutputRight
<1>6. QED
  BY <1>4, <1>5

(* A pass that is under way has what the next one needs.                   *)
Good(d) ==
  /\ Stocked(d) /\ Workspaced(d) /\ OutputRight(d)
  /\ d.state \in {"DSTATE_PRESCAN", "DSTATE_SCANNING"} => PassRight(d)

(* So a pass under way has delivered what it should. *)
LEMMA PassIsGood ==
  ASSUME DisplayRight, NEW d, Underway(d), PassRight(d), Workspaced(d)
  PROVE  Good(d)
<1>1. d.output_scanline \in Nat
  BY DEF Underway
<1>2. CASE d.post = "2pass"
  <2>1. Taken(d, d.output_scanline)
    BY <1>2 DEF PassRight
  <2>2. OutputRight(d)
    BY <1>1, <2>1, TakenIsRight, Zenon
  <2>3. Stocked(d)
    BY <2>1 DEF Taken, ImageRight
  <2>4. QED
    BY <2>2, <2>3 DEF Good
<1>3. CASE d.post # "2pass"
  <2>1. Rested(d, d.output_scanline)
    BY <1>3 DEF PassRight
  <2>2. (d.post = "prepass" /\ d.state = "DSTATE_PRESCAN") \/ d.post \in {"upsample", "1pass"}
    BY <1>3 DEF Underway
  <2>3. OutputRight(d)
    BY <2>1, <2>2, RestedIsRight, Zenon
  <2>4. Stocked(d)
    BY <2>1 DEF Rested, Flow
  <2>5. QED
    BY <2>3, <2>4 DEF Good
<1>4. QED
  BY <1>2, <1>3

(* The second pass leaves the workspace alone. *)
LEMMA StoredLeavesWorkspace ==
  ASSUME NEW d, Object(d), d.post = "2pass", NEW max
  PROVE  LET e == post_process_data(d, max)
         IN  e.buffer = d.buffer /\ e.output_scanline = d.output_scanline /\ e.post = "2pass" /\ Object(e)
<1> DEFINE n == Min({strip_height - d.next_row, max - d.out_row_ctr, H - d.starting_row})
           g == TakeStored(d, n)
           f == Deliver(g)
           e == NextStrip(f)
<1>1. post_process_data(d, max) = e
  BY DEF post_process_data, post_process_2pass
<1> HIDE DEF n
<1>2. Object(g) /\ g.buffer = d.buffer /\ g.output_scanline = d.output_scanline /\ g.post = d.post
  BY DEF TakeStored, Object, Counters
<1> HIDE DEF g
<1>3. Object(f) /\ f.buffer = d.buffer /\ f.output_scanline = d.output_scanline /\ f.post = d.post
  BY <1>2 DEF Deliver, Object, Counters
<1> HIDE DEF f
<1>4. Object(e) /\ e.buffer = d.buffer /\ e.output_scanline = d.output_scanline /\ e.post = d.post
  BY <1>3 DEF NextStrip, Object, Counters
<1>5. QED
  BY <1>1, <1>4

(* The dummy pass ends with the array full, and its rows are taken next.   *)
LEMMA ImageIsTaken ==
  ASSUME DisplayRight, NEW d, Object(d), Flow(d, H), d.post = "prepass", d.is_dummy_pass = TRUE, Workspaced(d)
  PROVE  LET e == Opened(SetUp([d EXCEPT !.colormap = TRUE]))
         IN  Taken(e, 0) /\ e.output_scanline = 0 /\ Workspaced(e)
<1> DEFINE h == [d EXCEPT !.colormap = TRUE]
           s == SetUp(h)
           e == Opened(s)
<1>1. /\ Object(h) /\ h.is_dummy_pass = TRUE /\ h.scanned = d.scanned /\ h.whole_image = d.whole_image
      /\ h.buffer = d.buffer
  BY DEF Object, Counters
<1> HIDE DEF h
<1>2. s = [FinalPass(h) EXCEPT !.output_scanline = 0, !.lines = <<>>]
  BY <1>1 DEF SetUp, prepare_for_output_pass
<1>3. /\ Object(s) /\ s.scanned = d.scanned /\ s.whole_image = d.whole_image /\ s.buffer = d.buffer
      /\ s.post = "2pass" /\ s.starting_row = 0 /\ s.next_row = 0 /\ s.output_scanline = 0 /\ s.lines = <<>>
  BY <1>1, <1>2 DEF FinalPass, Object, Counters
<1> HIDE DEF s
<1>4. e = [s EXCEPT !.state = IF s.is_dummy_pass THEN "DSTATE_PRESCAN" ELSE "DSTATE_SCANNING"]
  BY DEF Opened
<1>5. /\ Object(e) /\ e.scanned = d.scanned /\ e.whole_image = d.whole_image /\ e.buffer = d.buffer
      /\ e.post = "2pass" /\ e.starting_row = 0 /\ e.next_row = 0 /\ e.output_scanline = 0 /\ e.lines = <<>>
  BY <1>3, <1>4 DEF Object, Counters
<1> HIDE DEF e
<1>6. H \in Int /\ H > 0 /\ maxv \in Int /\ maxv > 0
  BY DisplayNumbers
<1>7. d.scanned = RowsFrom(0, H) /\ Stocked(d) /\ \A r \in 0 .. H - 1 : d.whole_image[r] = TrueRow(r)
  BY DEF Flow
<1>8. Stocked(e) /\ Workspaced(e)
  BY <1>5, <1>7, Zenon DEF Stocked, Workspaced
<1>9. ImageRight(e)
  BY <1>5, <1>7, <1>8, Zenon DEF ImageRight
<1>10. Strip(e) /\ e.starting_row + e.next_row = 0
  BY <1>5, <1>6 DEF Strip
<1>11. \E k \in Nat : e.starting_row = k * maxv
  <2>1. 0 * maxv = 0 /\ 0 \in Nat
    BY <1>6
  <2>2. QED
    BY <1>5, <2>1, Zenon
<1>12. LinesRight(e, 0)
  <2>1. 0 <= H /\ RowsFrom(0, 0) = <<>>
    BY <1>6, RowsJoin
  <2>2. QED
    BY <1>5, <2>1, Zenon DEF LinesRight
<1>13. Taken(e, 0)
  BY <1>5, <1>7, <1>9, <1>10, <1>11, <1>12, Zenon DEF Taken
<1>14. QED
  BY <1>5, <1>8, <1>13 DEF e, s, h

(* A turn of the loop of output_pass_setup stores the next rows, and the   *)
(* final pass begins when all are there.                                   *)
LEMMA DummyPassRight ==
  ASSUME DisplayRight, NEW d, d.state = "DSTATE_PRESCAN", Underway(d), PassRight(d), NEW ready \in BOOLEAN
  PROVE  LET e == DummyDone(Cranked(d, ready), ready) IN PassRight(e) /\ Workspaced(e)
<1> DEFINE row == d.output_scanline
           b == [d EXCEPT !.out_row_ctr = d.output_scanline]
           f == process_data(b, 0, ready)
           g == [f EXCEPT !.output_scanline = f.out_row_ctr,
                          !.stalled = @ \/ (ready /\ f.out_row_ctr = f.output_scanline)]
<1>1. DummyDone(Cranked(d, ready), ready) = NextPass(g)
  BY DEF DummyDone, Cranked
<1>2. /\ d.post = "prepass" /\ d.is_dummy_pass = TRUE /\ Object(d) /\ Upsampler(d) /\ Strip(d)
      /\ row \in Nat /\ row < H
  BY DEF Underway, Upsampler
<1>3. Rested(d, row)
  BY <1>2 DEF PassRight
<1>4. /\ SameAll(d, b) /\ b.post = "prepass" /\ b.out_row_ctr = row /\ b.is_dummy_pass = TRUE
      /\ b.next_row = d.next_row /\ b.starting_row = d.starting_row /\ b.rows_to_go = d.rows_to_go
  BY <1>2 DEF SameAll, SameMain, SameUpsampler, SameDelivery, Object, Counters
<1> HIDE DEF b
<1>5. Rested(b, row)
  BY <1>3, <1>4, RestedSame
<1>6. Strip(b) /\ Handing(b, 0)
  BY <1>2, <1>4 DEF Strip, Handing
<1>7. Turned(b, f, row)
  BY <1>2, <1>5, <1>6, RowsTurn
<1>8. DisplayOK /\ Going(b) /\ b.rows_to_go > 0
  <2>1. Upsampler(b) /\ (IF Merged1 THEN b.rows_to_go > 0 ELSE b.rows_to_go = H - row)
    BY <1>5 DEF Rested, Flow
  <2>2. H \in Int /\ H - row > 0
    BY <1>2, DisplayNumbers
  <2>3. b.rows_to_go > 0
    BY <2>1, <2>2
  <2>4. QED
    BY <1>2, <1>4, <2>1, <2>3 DEF Going, DisplayRight
<1>9. Advanced(b, f)
  BY <1>4, <1>6, <1>8, RowsArrive
<1> HIDE DEF f
<1>10. f.post = "prepass" /\ f.is_dummy_pass = TRUE /\ Object(f)
  BY <1>4, <1>9 DEF Advanced, Going, Upsampler
<1>11. PICK n \in Nat : Rested(f, row + n) /\ f.out_row_ctr = row + n
  BY <1>4, <1>7 DEF Turned
<1>12. /\ SameAll(f, g) /\ g.output_scanline = row + n /\ g.post = "prepass" /\ g.is_dummy_pass = TRUE
       /\ Object(g)
  <2>1. g.output_scanline = f.out_row_ctr /\ g.post = f.post /\ g.is_dummy_pass = f.is_dummy_pass /\ SameAll(f, g)
    BY <1>10 DEF SameAll, SameMain, SameUpsampler, SameDelivery, Object, Counters
  <2> HIDE DEF g
  <2>2. QED
    BY <1>10, <1>11, <2>1 DEF SameAll
<1> HIDE DEF g
<1>13. Rested(g, row + n)
  BY <1>11, <1>12, RestedSame
<1>14. CASE g.output_scanline < H
  <2>1. NextPass(g) = g
    BY <1>14 DEF NextPass
  <2>2. g.post # "2pass"
    BY <1>12
  <2>3. PassRight(g) /\ Workspaced(g)
    BY <1>12, <1>13, <2>2 DEF PassRight, Rested
  <2>4. QED
    BY <1>1, <2>1, <2>3 DEF g, f, b
<1>15. CASE ~(g.output_scanline < H)
  <2> DEFINE e == Opened(SetUp([g EXCEPT !.colormap = TRUE]))
  <2>1. NextPass(g) = e
    BY <1>15 DEF NextPass
  <2>2. Flow(g, row + n) /\ Workspaced(g)
    BY <1>13 DEF Rested
  <2>3. row + n = H
    <3>1. row + n \in Nat /\ row + n <= H /\ H \in Int
      BY <2>2, DisplayNumbers DEF Flow
    <3>2. QED
      BY <1>12, <1>15, <3>1
  <2>4. Taken(e, 0) /\ e.output_scanline = 0 /\ Workspaced(e)
    BY <1>12, <2>2, <2>3, ImageIsTaken
  <2> HIDE DEF e
  <2>5. PassRight(e)
    BY <2>4 DEF PassRight, Taken
  <2>6. QED
    BY <1>1, <2>1, <2>4, <2>5 DEF g, f, b
<1>16. QED
  BY <1>14, <1>15

(* jpeg_read_scanlines delivers the next rows, whatever it is asked for. *)
LEMMA ReadingRight ==
  ASSUME DisplayRight, NEW d, d.state = "DSTATE_SCANNING", Underway(d), PassRight(d), Workspaced(d),
         d.output_scanline < H, NEW max \in Nat, max > 0, NEW ready \in BOOLEAN
  PROVE  LET e == ReadDone(process_data([d EXCEPT !.out_row_ctr = 0], max, ready), ready)
         IN  PassRight(e) /\ Workspaced(e)
<1> DEFINE row == d.output_scanline
           b == [d EXCEPT !.out_row_ctr = 0]
           f == process_data(b, max, ready)
           e == ReadDone(f, ready)
<1>1. /\ d.post \in {"upsample", "1pass", "2pass"} /\ Object(d) /\ Upsampler(d) /\ row \in Nat /\ row < H
  BY DEF Underway, Upsampler
<1>2. /\ SameAll(d, b) /\ b.post = d.post /\ b.out_row_ctr = 0 /\ b.output_scanline = row
      /\ b.rows_to_go = d.rows_to_go /\ b.buffer = d.buffer /\ Object(b)
  BY <1>1 DEF SameAll, SameMain, SameUpsampler, SameDelivery, Object, Counters
<1> HIDE DEF b
<1>3. ASSUME Object(f), f.output_scanline = row
      PROVE  SameAll(f, e) /\ e.output_scanline = row + f.out_row_ctr /\ e.post = f.post /\ e.buffer = f.buffer
  <2>1. e = [f EXCEPT !.output_scanline = @ + f.out_row_ctr, !.stalled = @ \/ (ready /\ f.out_row_ctr = 0)]
    BY DEF ReadDone
  <2> HIDE DEF f, e
  <2>2. QED
    BY <1>3, <2>1 DEF SameAll, SameMain, SameUpsampler, SameDelivery, Object, Counters
<1>4. CASE d.post = "2pass"
  <2>1. Taken(b, row)
    BY <1>2, <1>4, StoredSame DEF PassRight
  <2>2. f = post_process_data(b, max)
    BY <1>2, <1>4 DEF process_data
  <2> HIDE DEF f
  <2>3. PICK n \in Nat : Taken(f, row + n) /\ f.out_row_ctr = 0 + n
    <3>1. max > b.out_row_ctr /\ b.out_row_ctr \in Nat
      BY <1>2
    <3>2. \E n \in Nat : Taken(f, row + n) /\ f.out_row_ctr = b.out_row_ctr + n
      BY <1>1, <2>1, <2>2, <3>1, StoredTaken
    <3>3. QED
      BY <1>2, <3>2
  <2>4. f.buffer = d.buffer /\ f.output_scanline = row /\ f.post = "2pass" /\ Object(f)
    BY <1>2, <1>4, <2>2, StoredLeavesWorkspace
  <2>5. SameAll(f, e) /\ e.output_scanline = row + f.out_row_ctr /\ e.post = "2pass" /\ e.buffer = d.buffer
    BY <1>3, <2>4
  <2> HIDE DEF e
  <2>6. f.out_row_ctr = n
    BY <2>3
  <2>7. Taken(e, row + n) /\ e.output_scanline = row + n
    BY <2>3, <2>5, <2>6, StoredSame
  <2>8. Workspaced(e)
    BY <2>5 DEF Workspaced
  <2>9. QED
    BY <2>5, <2>7, <2>8 DEF PassRight, e, f, b
<1>5. CASE d.post # "2pass"
  <2>1. d.post \in {"upsample", "1pass"} /\ Rested(b, row)
    BY <1>1, <1>2, <1>5, RestedSame DEF PassRight
  <2>2. Handing(b, max)
    BY <1>2, <2>1 DEF Handing
  <2>3. Turned(b, f, row)
    BY <1>1, <2>1, <2>2, RowsTurn
  <2>4. DisplayOK /\ Going(b) /\ b.rows_to_go > 0
    <3>1. Upsampler(b) /\ (IF Merged1 THEN b.rows_to_go > 0 ELSE b.rows_to_go = H - row)
      BY <2>1 DEF Rested, Flow
    <3>2. H \in Int /\ H - row > 0
      BY <1>1, DisplayNumbers
    <3>3. b.rows_to_go > 0
      BY <3>1, <3>2
    <3>4. QED
      BY <1>2, <3>1, <3>3 DEF Going, DisplayRight
  <2>5. Advanced(b, f)
    <3>1. b.post \in {"upsample", "1pass"} /\ max > b.out_row_ctr
      BY <1>2, <2>1
    <3>2. QED
      BY <2>4, <3>1, RowsArrive
  <2> HIDE DEF f
  <2>6. f.post = d.post /\ f.output_scanline = row /\ Object(f)
    BY <1>2, <2>5 DEF Advanced, Going, Upsampler
  <2>7. PICK n \in Nat : Rested(f, row + n) /\ f.out_row_ctr = 0 + n
    BY <1>2, <2>3 DEF Turned
  <2>8. SameAll(f, e) /\ e.output_scanline = row + f.out_row_ctr /\ e.post = d.post
    BY <1>3, <2>6
  <2> HIDE DEF e
  <2>9. f.out_row_ctr = n
    BY <2>7
  <2>10. Rested(e, row + n) /\ e.output_scanline = row + n
    BY <2>7, <2>8, <2>9, RestedSame
  <2>11. PassRight(e) /\ Workspaced(e)
    BY <1>5, <2>8, <2>10 DEF PassRight, Rested
  <2>12. QED
    BY <2>11 DEF e, f, b
<1>6. QED
  BY <1>4, <1>5

(* No step changes the display, so what the operators say of it stays the  *)
(* same: shown operator by operator, each from those it is made of.        *)
LEMMA GoodStays ==
  ASSUME display' = display
  PROVE  \A d : Good(d)' = Good(d)
<1>1. H' = H /\ M' = M /\ maxv' = maxv /\ OutComps' = OutComps
  BY DEF H, M, maxv, OutComps
<1>2. \A ci : iMCUheight(ci)' = iMCUheight(ci)
  BY DEF iMCUheight
<1>3. \A ci : rgroup(ci)' = rgroup(ci)
  BY <1>1, <1>2 DEF rgroup
<1>4. \A ci : RowsOf(ci)' = RowsOf(ci)
  BY <1>1, <1>3 DEF RowsOf
<1>5. \A ci : Expand(ci)' = Expand(ci)
  BY <1>1, <1>3 DEF Expand
<1>6. \A ci : h2v2_fancy(ci)' = h2v2_fancy(ci)
  BY <1>1, <1>5 DEF h2v2_fancy
<1>7. \A ci, r : Clamp(ci, r)' = Clamp(ci, r)
  BY <1>1, <1>4 DEF Clamp
<1>8. \A row : TrueRow(row)' = TrueRow(row)
  BY <1>1, <1>5, <1>6, <1>7 DEF TrueRow
<1>9. /\ need_context_rows' = need_context_rows
      /\ iMCURows' = iMCURows
      /\ Merged1' = Merged1
  BY <1>1, <1>6 DEF need_context_rows, iMCURows, Merged1
<1>10. /\ \A ci : RowsInBlocks(ci)' = RowsInBlocks(ci)
       /\ \A ci : rows_left(ci)' = rows_left(ci)
  BY <1>4, <1>2 DEF RowsInBlocks, rows_left
<1>11. /\ \A ci : Workspace(ci)' = Workspace(ci)
       /\ \A ci : FunnyRange(ci)' = FunnyRange(ci)
       /\ \A ci : Around(ci)' = Around(ci)
  BY <1>1, <1>3, <1>9 DEF Workspace, FunnyRange, Around
<1>12. \A ci : FirstList(ci)' = FirstList(ci)
  BY <1>1, <1>3, <1>11 DEF FirstList
<1>13. \A ci : SecondList(ci)' = SecondList(ci)
  BY <1>1, <1>3, <1>11, <1>12 DEF SecondList
<1>14. \A l, ci : List(l, ci)' = List(l, ci)
  BY <1>12, <1>13 DEF List
<1>15. \A ci, list : Wrapped(ci, list)' = Wrapped(ci, list)
  BY <1>1, <1>3, <1>11 DEF Wrapped
<1>16. \A edge, l, ci : Usual(edge, l, ci)' = Usual(edge, l, ci)
  BY <1>14, <1>15 DEF Usual
<1>17. /\ \A ci : BottomRange(ci)' = BottomRange(ci)
       /\ LastGroups' = LastGroups
  BY <1>3, <1>10 DEF BottomRange, LastGroups
<1>18. \A w, edge, bottom : Table(w, edge, bottom)' = Table(w, edge, bottom)
  BY <1>1, <1>11, <1>16, <1>17, <1>10 DEF Table
<1>19. PlainPointers' = PlainPointers
  BY <1>1, <1>3 DEF PlainPointers
<1>20. \A d, ci, i : Cell(d, ci, i)' = Cell(d, ci, i)
  BY <1>14 DEF Cell
<1>21. /\ \A d : NextGroup(d)' = NextGroup(d)
       /\ \A d : HasGroup(d)' = HasGroup(d)
  BY <1>1, <1>9 DEF NextGroup, Group, Behind, HasGroup
<1>22. /\ \A d : SimpleMain(d)' = SimpleMain(d)
       /\ \A d : ContextMain(d)' = ContextMain(d)
       /\ \A d : Bottom(d)' = Bottom(d)
       /\ \A d : Prepare(d)' = Prepare(d)
  BY <1>1, <1>9, <1>17 DEF SimpleMain, ContextMain, Process, Postponed, Prepare, Bottom
<1>23. /\ \A d : PointersRight(d)' = PointersRight(d)
       /\ \A d : PlainRight(d)' = PlainRight(d)
  BY <1>1, <1>3, <1>10, <1>18, <1>19, <1>22 DEF PointersRight, PlainRight, Edge, Behind
<1>24. /\ \A d : CellsRight(d)' = CellsRight(d)
       /\ \A d : Workspaced(d)' = Workspaced(d)
  BY <1>1, <1>3, <1>10, <1>11, <1>20 DEF CellsRight, Workspaced, Behind
<1>25. \A d : Main(d)' = Main(d)
  BY <1>9, <1>22, <1>23, <1>24 DEF Main
<1>26. /\ \A d : Open(d)' = Open(d)
       /\ \A d : RowNo(d)' = RowNo(d)
  BY <1>1, <1>21 DEF Open, Done, RowNo
<1>27. \A d : Kept(d)' = Kept(d)
  BY <1>1, <1>3, <1>5, <1>21, <1>26, <1>8 DEF Kept, KeptOf
<1>28. \A d, row : Placed(d, row)' = Placed(d, row)
  BY <1>25, <1>27, <1>26, <1>21 DEF Placed
<1>29. \A row, n : RowsFrom(row, n)' = RowsFrom(row, n)
  BY <1>8 DEF RowsFrom
<1>30. /\ \A d, row : Flow(d, row)' = Flow(d, row)
       /\ \A d : Stocked(d)' = Stocked(d)
  BY <1>1, <1>9, <1>29, <1>8 DEF Flow, Stocked, Upsampler, Object
<1>31. \A d, row : Rested(d, row)' = Rested(d, row)
  BY <1>1, <1>9, <1>30, <1>24, <1>28, <1>21, <1>22 DEF Rested
<1>32. /\ \A d, p : Taken(d, p)' = Taken(d, p)
       /\ Past' = Past
  BY <1>1, <1>30, <1>29, <1>8 DEF Taken, Strip, ImageRight, LinesRight, Past, strip_height, Object
<1>33. \A d : OutputRight(d)' = OutputRight(d)
  BY <1>1, <1>32, <1>8 DEF OutputRight
<1>34. \A d : PassRight(d)' = PassRight(d)
  BY <1>31, <1>32 DEF PassRight
<1>35. QED
  BY <1>30, <1>24, <1>33, <1>34 DEF Good

(* Between two calls. *)
RowsInv == StallInv /\ Good(dinfo)

(* A new object has delivered nothing. *)
LEMMA ObjectIsGood ==
  ASSUME DisplayRight
  PROVE  Good(NewObject)
<1> DEFINE d == NewObject
<1>1. /\ d.state = "DSTATE_READY" /\ d.lines = <<>> /\ d.scanned = <<>> /\ d.post = "upsample"
      /\ d.whole_image = [r \in 0 .. jround_up(H, strip_height) - 1 |-> <<>>]
      /\ d.buffer = [ci \in OutComps |-> [p \in 0 .. Workspace(ci) - 1 |-> None]]
  BY DEF NewObject
<1> HIDE DEF d
<1>2. H \in Int /\ H > 0 /\ maxv \in Positive
  BY DisplayNumbers
<1>3. Stocked(d)
  <2> DEFINE q == jdiv_round_up(H, maxv)
             n == jround_up(H, strip_height)
  <2>1. q \in Int
    BY <1>2, BelowQuotient
  <2>2. q < q <=> q * maxv < H
    BY <1>2, <2>1, BelowQuotient, Zenon
  <2>3. n = q * maxv
    BY DEF jround_up, strip_height
  <2>4. q * maxv \in Int
    <3>1. maxv \in Int
      BY <1>2 DEF Positive
    <3>2. QED
      BY <2>1, <3>1
  <2> HIDE DEF q, n
  <2>5. n \in Int /\ H <= n
    BY <1>2, <2>1, <2>2, <2>3, <2>4
  <2>6. DOMAIN d.whole_image = 0 .. n - 1
    BY <1>1 DEF n
  <2>7. QED
    BY <1>2, <2>5, <2>6 DEF Stocked
<1>4. Workspaced(d)
  BY <1>1 DEF Workspaced
<1>5. OutputRight(d)
  <2>1. Len(<<>>) = 0 /\ DOMAIN <<>> = {}
    OBVIOUS
  <2>2. ~(Len(d.lines) > H)
    BY <1>1, <1>2, <2>1
  <2>3. d.state # "DSTATE_SCANNING" /\ d.post # "2pass"
    BY <1>1
  <2>4. QED
    BY <1>1, <2>1, <2>2, <2>3, Zenon DEF OutputRight
<1>6. QED
  BY <1>1, <1>3, <1>4, <1>5 DEF Good, d

(* The next state is good if the object is. *)
LEMMA GoodNext ==
  ASSUME display' = display, NEW e, dinfo' = e, Good(e)
  PROVE  Good(dinfo)'
<1>1. Good(e)'
  BY GoodStays
<1>2. QED
  BY <1>1

(* Every step keeps the invariant of the theorem below. *)
LEMMA RowsKept == RowsInv /\ [NextOutput]_dvars => RowsInv'
<1> SUFFICES ASSUME RowsInv, [NextOutput]_dvars PROVE RowsInv'
  OBVIOUS
<1>0. StallInv /\ StallInv' /\ Good(dinfo) /\ display' = display /\ DisplayRight
  <2>1. StallInv /\ Good(dinfo) /\ display \in Displays
    BY DEF RowsInv, StallInv
  <2>2. display' = display
    BY DEF NextOutput, StartOutput, DummyPass, jpeg_read_scanlines, jpeg_finish_output, dvars
  <2>3. QED
    BY <2>1, <2>2, StallKept, TheDisplay, TheComponents DEF DisplayRight
<1> HIDE DEF RowsInv
<1>7. ASSUME NEW e, dinfo' = e, Good(e) PROVE RowsInv'
  <2>1. Good(dinfo)'
    BY <1>0, <1>7, GoodNext
  <2>2. QED
    BY <1>0, <2>1 DEF RowsInv
<1>8. /\ Object(dinfo) /\ dinfo.colormap \in BOOLEAN /\ dinfo.stalled = FALSE
      /\ (dinfo.state \in {"DSTATE_READY", "DSTATE_BUFIMAGE"} /\ dinfo.is_dummy_pass = FALSE) \/ Underway(dinfo)
      /\ Stocked(dinfo) /\ Workspaced(dinfo) /\ OutputRight(dinfo) /\ DisplayOK
      /\ dinfo.state \in {"DSTATE_PRESCAN", "DSTATE_SCANNING"} => PassRight(dinfo)
  BY <1>0 DEF StallInv, Good, DisplayRight
<1>1. CASE StartOutput
  <2> DEFINE d == [dinfo EXCEPT !.pass = @ + 1, !.scanned = <<>>]
             e == Opened(SetUp(d))
  <2>1. dinfo' = e /\ dinfo.is_dummy_pass = FALSE
    BY <1>1, <1>8 DEF StartOutput, Underway
  <2>2. /\ Object(d) /\ d.colormap \in BOOLEAN /\ d.is_dummy_pass = FALSE /\ d.scanned = <<>>
        /\ d.buffer = dinfo.buffer /\ d.whole_image = dinfo.whole_image
    BY <1>8, <2>1 DEF Object, Counters
  <2> HIDE DEF d
  <2>3. Stocked(d) /\ Workspaced(d)
    BY <1>8, <2>2 DEF Stocked, Workspaced
  <2>4. Underway(e)
    BY <1>8, <2>2, PassBegins
  <2>5. Rested(e, 0) /\ e.output_scanline = 0 /\ Workspaced(e) /\ e.post \in {"upsample", "1pass", "prepass"}
    BY <1>0, <2>2, <2>3, ModulesStart
  <2> HIDE DEF e
  <2>6. PassRight(e)
    BY <2>5 DEF PassRight
  <2>7. Good(e)
    BY <1>0, <2>4, <2>5, <2>6, PassIsGood
  <2>8. QED
    BY <1>7, <2>1, <2>7
<1>2. CASE DummyPass
  <2>1. PICK ready \in BOOLEAN : dinfo' = DummyDone(Cranked(dinfo, ready), ready)
    BY <1>2 DEF DummyPass
  <2> DEFINE e == DummyDone(Cranked(dinfo, ready), ready)
  <2>2. dinfo.state = "DSTATE_PRESCAN" /\ Underway(dinfo) /\ PassRight(dinfo)
    BY <1>2, <1>8 DEF DummyPass
  <2>3. Underway(e)
    BY <1>8, <2>2, DummyPassGoesOn
  <2>4. PassRight(e) /\ Workspaced(e)
    BY <1>0, <2>2, DummyPassRight
  <2> HIDE DEF e
  <2>5. Good(e)
    BY <1>0, <2>3, <2>4, PassIsGood
  <2>6. QED
    BY <1>7, <2>1, <2>5 DEF e
<1>3. CASE jpeg_read_scanlines
  <2>1. PICK max \in 1 .. MaxLines, ready \in BOOLEAN :
          dinfo' = ReadDone(process_data([dinfo EXCEPT !.out_row_ctr = 0], max, ready), ready)
    BY <1>3 DEF jpeg_read_scanlines
  <2> DEFINE e == ReadDone(process_data([dinfo EXCEPT !.out_row_ctr = 0], max, ready), ready)
  <2>2. /\ dinfo.state = "DSTATE_SCANNING" /\ Underway(dinfo) /\ PassRight(dinfo) /\ dinfo.output_scanline < H
        /\ max \in Nat /\ max > 0
    BY <1>3, <1>8 DEF jpeg_read_scanlines
  <2>3. Underway(e)
    BY <1>8, <2>2, ReadingGoesOn
  <2>4. PassRight(e) /\ Workspaced(e)
    BY <1>0, <1>8, <2>2, ReadingRight
  <2> HIDE DEF e
  <2>5. Good(e)
    BY <1>0, <2>3, <2>4, PassIsGood
  <2>6. QED
    BY <1>7, <2>1, <2>5 DEF e
<1>4. CASE jpeg_finish_output
  <2> DEFINE e == [dinfo EXCEPT !.state = "DSTATE_BUFIMAGE"]
  <2>1. dinfo' = e
    BY <1>4 DEF jpeg_finish_output
  <2>2. /\ e.state = "DSTATE_BUFIMAGE" /\ e.lines = dinfo.lines /\ e.scanned = dinfo.scanned
        /\ e.post = dinfo.post /\ e.buffer = dinfo.buffer /\ e.whole_image = dinfo.whole_image
    BY <1>8 DEF Object, Counters
  <2> HIDE DEF e
  <2>3. Stocked(e) /\ Workspaced(e)
    BY <1>8, <2>2 DEF Stocked, Workspaced
  <2>4. e.state # "DSTATE_SCANNING" /\ e.state \notin {"DSTATE_PRESCAN", "DSTATE_SCANNING"}
    BY <2>2
  <2>5. OutputRight(e)
    BY <1>8, <2>2, <2>4, Zenon DEF OutputRight
  <2>6. Good(e)
    BY <2>3, <2>4, <2>5 DEF Good
  <2>7. QED
    BY <1>7, <2>1, <2>6
<1>5. CASE UNCHANGED dvars
  <2>1. dinfo' = dinfo
    BY <1>5 DEF dvars
  <2>2. QED
    BY <1>0, <1>7, <2>1
<1>6. QED
  BY <1>1, <1>2, <1>3, <1>4, <1>5 DEF NextOutput

(* For every image, sampling, upsampler and quantizer, any number of rows  *)
(* asked for at once and any suspension of the source: each output pass    *)
(* delivers the rows of the image in order and once, each made from its    *)
(* own sample rows and, for fancy upsampling, its true neighbours or       *)
(* itself at the top and bottom; the prepass of a two-pass quantizer sees  *)
(* the same rows. Only post_process_2pass goes below the bottom, where     *)
(* strips have more than two rows and the image ends two rows or more      *)
(* into the last one (jdmainct.c, jdsample.c, jdmerge.c, jdpostct.c).      *)
THEOREM RowsInOrder == InitOutput /\ [][NextOutput]_dvars => []OutputRowsRight
<1>1. InitOutput => RowsInv
  <2> SUFFICES ASSUME InitOutput PROVE RowsInv
    OBVIOUS
  <2>1. StallInv
    BY DEF InitOutput, OutputStart, NewObject, StallInv, Object, Counters
  <2>2. DisplayRight
    BY <2>1, TheDisplay, TheComponents DEF DisplayRight, StallInv
  <2>3. Good(dinfo)
    BY <2>2, ObjectIsGood DEF InitOutput, OutputStart
  <2>4. QED
    BY <2>1, <2>3 DEF RowsInv
<1>2. RowsInv /\ [NextOutput]_dvars => RowsInv'
  BY RowsKept
<1>3. RowsInv => OutputRowsRight
  BY DEF RowsInv, Good, OutputRight, OutputRowsRight, BelowBottom, Past
<1>4. QED
  BY <1>1, <1>2, <1>3, PTL
=============================================================================
