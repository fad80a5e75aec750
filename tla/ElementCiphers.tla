--------------------------- MODULE ElementCiphers ---------------------------
(***************************************************************************)
(* The ciphers that work on every coefficient of a block by itself:        *)
(* drpe.c, fpe.c, and mosaic.c, which uses fpe.c.                          *)
(***************************************************************************)
EXTENDS Jcoef

(***************************************************************************)
(* drpe.c: exclusive or of the keystream with the low bits that vary in a  *)
(* block, and repair of the sign.  Encrypting and decrypting are the same  *)
(* function.                                                               *)
(***************************************************************************)
SameSign(lo, hi) == (lo >= 0 /\ hi >= 0) \/ (lo < 0 /\ hi < 0)

(* How many bits a signed integer that holds v has besides the sign.       *)
MagnitudeBits(v) == Min({b \in 0 .. Width - 1 : -(2^b) <= v /\ v < 2^b})

(* The first result of drpe_calc_numbits: how many bits vary. *)
NumBits(lo, hi) ==
  LET diff == {t \in 0 .. Width - 1 : Bit(lo, t) # Bit(hi, t)}
  IN  CASE lo = hi -> 0
        [] lo # hi /\ SameSign(lo, hi) -> Max(diff) + 1
        [] OTHER -> Min({b \in 1 .. Width : -(2^(b - 1)) <= lo /\ hi < 2^(b - 1)})

(* A mutant: the sign bit one position too low. *)
SignBitPositionOneLow(lo, hi) ==
  IF lo = hi THEN 0
  ELSE IF SameSign(lo, hi)
       THEN Max({MagnitudeBits(lo), MagnitudeBits(hi)}) - 1
       ELSE NumBits(lo, hi) - 1

(* The last result of drpe_calc_numbits: the lowest bit equal to the sign. *)
SignBitPosition(lo, hi) ==
  CASE lo = hi -> 0
    [] lo # hi /\ SameSign(lo, hi) ->
         Max({MagnitudeBits(lo), MagnitudeBits(hi)})
    [] OTHER -> NumBits(lo, hi) - 1

(* Every bit above pos becomes a copy of bit pos. *)
drpe_fixup_sign_bit(u, pos) == (u % 2^pos) - Bit(u, pos) * 2^pos

drpe_all(data, keystream, lo, hi) ==
  LET bits == NumBits(lo, hi)
      pos  == SignBitPosition(lo, hi)
  IN  [k \in DOMAIN data |->
         IF bits = 0 THEN data[k]
         ELSE drpe_fixup_sign_bit(Xor(Uint16(data[k]), keystream[k] % 2^bits), pos)]

(* A coefficient that is zero, or would become zero, stays as it is. *)
drpe_nonzero(data, keystream, lo, hi) ==
  LET all == drpe_all(data, keystream, lo, hi)
  IN  [k \in DOMAIN data |-> IF data[k] # 0 /\ all[k] # 0 THEN all[k] ELSE data[k]]

-----------------------------------------------------------------------------
(***************************************************************************)
(* fpe.c: addition of the keystream modulo the size of the range.          *)
(***************************************************************************)
(* range == maxvalue - minvalue + 1; the functions exit when it is empty.  *)
RangeSize(lo, hi) == hi - lo + 1
FpeAccepts(lo, hi) == RangeSize(lo, hi) > 0

(* One coefficient v, shifted by delta around the end of the range. *)
Shifted(v, delta, lo, hi) ==
  Int16(((Uint16(v - lo) + Uint16(delta)) % RangeSize(lo, hi)) + lo)

fpe_encrypt_all(data, keystream, lo, hi) ==
  [k \in DOMAIN data |-> Shifted(data[k], keystream[k] % RangeSize(lo, hi), lo, hi)]

(* A coefficient that is zero, or would become zero, stays as it is. *)
fpe_encrypt_nonzero(data, keystream, lo, hi) ==
  LET all == fpe_encrypt_all(data, keystream, lo, hi)
  IN  [k \in DOMAIN data |-> IF data[k] # 0 /\ all[k] # 0 THEN all[k] ELSE data[k]]

(* Mutants, here and below: plausible slips in the code that follows. *)
fpe_decrypt_all_not_inverse(data, keystream, lo, hi) ==
  [k \in DOMAIN data |-> Shifted(data[k], keystream[k] % RangeSize(lo, hi), lo, hi)]

fpe_decrypt_all(data, keystream, lo, hi) ==
  LET range == RangeSize(lo, hi)
  IN  [k \in DOMAIN data |->
         IF range = 1 THEN lo
         ELSE Shifted(data[k], range - (keystream[k] % range), lo, hi)]

(* When the range has one value, zeros are overwritten too. *)
fpe_decrypt_nonzero(data, keystream, lo, hi) ==
  LET all == fpe_decrypt_all(data, keystream, lo, hi)
  IN  [k \in DOMAIN data |->
         IF data[k] = 0 /\ RangeSize(lo, hi) > 1 THEN 0 ELSE all[k]]
-----------------------------------------------------------------------------
(***************************************************************************)
(* mosaic.c: the method that cannot be undone, where every coefficient     *)
(* becomes the average of the block, moved by at most the radius that      *)
(* num_bits allows; mosaic_zero_block clears the block.                    *)
(***************************************************************************)

(* (JCOEF)(sum * 1.0 / blocklen + 0.5): the cast truncates towards zero.   *)
RoundedAverage(data) ==
  LET n == Len(data) IN Int16(Quotient(2 * Total(data) + n, 2 * n))

mosaic_flatten_block(data) == [k \in DOMAIN data |-> RoundedAverage(data)]

(* 1 << (num_bits-1) as a JCOEF; the shift takes its count modulo 32. *)
Radius(num_bits) ==
  LET count == (num_bits - 1) % 32 IN IF count < Width THEN Int16(2^count) ELSE 0

mosaic_fuzzy_block_unclamped(data, keystream, num_bits) ==
  LET avg == RoundedAverage(data)
      radius == IF num_bits < 1 THEN 0 ELSE Radius(num_bits)
  IN  fpe_encrypt_all(mosaic_flatten_block(data), keystream, avg - radius, avg + radius)

(* The bounds are compared as integers and then assigned to a JCOEF. *)
mosaic_fuzzy_block(data, keystream, num_bits) ==
  LET flat    == mosaic_flatten_block(data)
      low     == RoundedAverage(data) - Radius(num_bits)
      high    == RoundedAverage(data) + Radius(num_bits)
      tmp_min == Int16(IF low < -1024 THEN -1024 ELSE low)
      tmp_max == Int16(IF high > 1023 THEN 1023 ELSE high)
  IN  IF num_bits < 1 THEN flat
      ELSE fpe_encrypt_all(flat, keystream, tmp_min, tmp_max)

mosaic_zero_block(data) == [k \in DOMAIN data |-> 0]
=============================================================================
