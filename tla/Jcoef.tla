------------------------------- MODULE Jcoef -------------------------------
(***************************************************************************)
(* JCOEF is a 16-bit two's complement integer, and the ciphers treat its   *)
(* bits as a uint16_t.  Both are integers here; the bits are arithmetic.   *)
(* A block is a function on its positions, and so is a keystream.          *)
(***************************************************************************)
EXTENDS FiniteSetsExt, Sequences

Width == 16

(* The conversions between the signed and the unsigned type. *)
Uint16(v) == v % 2^Width
Int16(u) == ((u + 2^(Width - 1)) % 2^Width) - 2^(Width - 1)

Bit(v, t) == (v \div 2^t) % 2

(* Exclusive or, four bits at a time: TLC evaluates the table once. *)
XorBit(a, b, t) == (Bit(a, t) + Bit(b, t)) % 2

XorDigit == [a \in 0 .. 15 |-> [b \in 0 .. 15 |->
  XorBit(a, b, 0) + 2 * XorBit(a, b, 1) + 4 * XorBit(a, b, 2) + 8 * XorBit(a, b, 3)]]

Digit(v, d) == (v \div 16^d) % 16

Xor(a, b) ==
  LET x(d) == XorDigit[Digit(a, d)][Digit(b, d)]
  IN  x(0) + 16 * x(1) + 256 * x(2) + 4096 * x(3)

(* Division as in C: it truncates towards zero. *)
Quotient(a, b) == IF a >= 0 THEN a \div b ELSE -((-a) \div b)

(* The sum of the coefficients of a block. *)
Sums(a) == LET s[k \in 0 .. Len(a)] == IF k = 0 THEN 0 ELSE s[k - 1] + a[k] IN s
Total(a) == Sums(a)[Len(a)]

Elements(a) == {a[k] : k \in DOMAIN a}
Within(a, lo, hi) == \A v \in Elements(a) : lo <= v /\ v <= hi

-----------------------------------------------------------------------------
(***************************************************************************)
(* minmax.c: the range functions.  Each looks at a block, truncates what   *)
(* does not fit the largest range it may return, and returns the range,    *)
(* on which the ciphers rely.  A range function is an operator from a      *)
(* block to a record [array, min, max].                                    *)
(***************************************************************************)
Ranged(a, lo, hi) == [array |-> a, min |-> lo, max |-> hi]

(* Both tests of the truncating loops, in their order. *)
Truncated(a, lo, hi) ==
  [k \in DOMAIN a |->
     LET v == IF a[k] > hi THEN hi ELSE a[k] IN IF v < lo THEN lo ELSE v]

TruncatedRange(a, lo, hi) == Ranged(Truncated(a, lo, hi), lo, hi)

ObservedMin(a) == Min(Elements(a))
ObservedMax(a) == Max(Elements(a))

minmax_raw(a) == Ranged(a, ObservedMin(a), ObservedMax(a))

(* minmax_signed_integer *)
SignedMin(b) == IF b = 0 THEN 0 ELSE -(2^(b - 1))
SignedMax(b) == IF b = 0 THEN 0 ELSE 2^(b - 1) - 1

(* The fewest bits that hold the block, or all that are allowed. *)
minmax_poweroftwo(a, min_power, max_power) ==
  LET fits == {b \in min_power .. max_power : Within(a, SignedMin(b), SignedMax(b))}
      b    == IF fits = {} THEN max_power ELSE Min(fits)
  IN  TruncatedRange(a, SignedMin(b), SignedMax(b))

(* The bits above the highest one in which the least and the greatest      *)
(* coefficient differ stay, the others vary.                               *)
minmax_bitmask(a, min_bits, max_bits) ==
  LET lo   == ObservedMin(a)
      hi   == ObservedMax(a)
      diff == {t \in min_bits .. max_bits : Bit(lo, t) # Bit(hi, t)}
      mask == 2^(IF diff = {} THEN min_bits ELSE Max(diff) + 1)
      low  == (lo \div mask) * mask
      top  == low + mask - 1
  IN  IF lo < 0 /\ hi >= 0
      THEN minmax_poweroftwo(a, 0, max_bits + 1)
      ELSE TruncatedRange(a, IF low < -(2^10) THEN -(2^10) ELSE low,
                             IF top > 2^10 THEN 2^10 ELSE top)

(* tpe_process_block passes 0 and 10 as the bounds of the power. *)
MinPower == 0
MaxPower == 10
=============================================================================
