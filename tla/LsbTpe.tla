------------------------------- MODULE LsbTpe -------------------------------
(***************************************************************************)
(* lsb.c and drpe_lsb.c: the thumbnail is kept by writing it back into the *)
(* ciphertext.  Encryption reverses the bits of every coefficient and adds *)
(* the keystream, then flips the highest bits of the ciphertext, one at a  *)
(* time in a keyed order, until its sum is close to that of the plaintext. *)
(* A flipped bit is one of the least significant bits of the plaintext,    *)
(* which is what decryption gets wrong.                                    *)
(*                                                                         *)
(* The two files differ in how a coefficient becomes an unsigned number,   *)
(* in the first bit that may be flipped, and in what ends the flipping.    *)
(* lsb_encrypt_ac passes the argument 0, as when the option is missing.    *)
(* One behaviour is the encryption of a block by one run of figleaf and    *)
(* its decryption by another, each with the range of the block it has.     *)
(***************************************************************************)
EXTENDS ElementCiphers

CONSTANTS
  N,         \* datalen
  Samples,   \* the coefficients of an image
  KeyWords,  \* the words crypto_stream can produce
  Ciphers,   \* those of "lsb" and "drpe_lsb" to consider
  UserArgs,  \* the values given to the option -a
  Orders     \* the orders into which pixel_list can be shuffled

NotGiven == 99   \* no option -a: main() leaves the 0 of calloc in the context
LSB_TPE_DEFAULT_NUM_BITS == 2

ASSUME LsbTpeAssumption ==
  /\ N \in Nat \ {0}
  /\ Samples \subseteq -1024 .. 1023
  /\ KeyWords \subseteq 0 .. 2^Width - 1
  /\ Ciphers \subseteq {"lsb", "drpe_lsb"}
  /\ UserArgs \subseteq Int \ {NotGiven}

Positions == 1 .. N

ASSUME OrdersAssumption ==
  \A p \in Orders : /\ p \in [Positions -> Positions]
                    /\ \A k, m \in Positions : p[k] = p[m] => k = m

VARIABLES
  pc,         \* "plain", "encrypt", "fixup", "sent", "decrypt", "done"
  cipher,     \* which of the two files
  option,     \* the argument of -a, or NotGiven
  keystream,  \* of the block's nonce, the same in both runs
  data,       \* the block
  range,      \* what the range function returned to the current run
  num_bits,   \* how many bits vary: num_drpe_encrypt_bits in drpe_lsb.c
  sign_bit_position,
  num_lsb_bits,  \* how many bits of an element may be flipped
  order,      \* pixel_list: the keyed order in which elements are visited
  delta,      \* plaintext sum minus ciphertext sum
  bit, i,     \* loop indices
  plain,      \* history: the block as the encrypting run's range function left it
  plain_bits  \* history: num_bits of the encrypting run

settings == <<cipher, option, keystream>>
local == <<range, num_bits, sign_bit_position, num_lsb_bits>>
vars == <<pc, settings, data, local, order, delta, bit, i, plain, plain_bits>>

fcn_user_arg == IF option = NotGiven THEN 0 ELSE option

RangeOf(b) == IF cipher = "lsb" THEN minmax_poweroftwo(b, MinPower, MaxPower)
                                ELSE minmax_raw(b)

Bits(lo, hi) == IF cipher = "lsb" THEN CHOOSE b \in 0 .. Width : 2^b = hi - lo + 1
                                  ELSE NumBits(lo, hi)

NothingToDo(lo, hi) == IF cipher = "lsb" THEN lo = hi ELSE lo = 0 /\ hi = 0

(* A coefficient as the number whose bits are worked on, and back. *)
Unsigned(v) == IF cipher = "lsb" THEN v - range.min ELSE Uint16(v)
Signed(u) == IF cipher = "lsb" THEN u + range.min
                               ELSE drpe_fixup_sign_bit(u, sign_bit_position)

(* Mutants, here and below: plausible slips in the code that follows. *)
lsb_reverse_uint16_not(val, n) == val

lsb_reverse_uint16(val, n) ==
  LET low[t \in 0 .. n] == IF t = 0 THEN 0 ELSE 2 * low[t - 1] + Bit(val, t - 1)
  IN  (val \div 2^n) * 2^n + low[n]

Scrambled(v, ks) ==
  Signed(Xor(lsb_reverse_uint16(Unsigned(v), num_bits), ks % 2^num_bits))

Unscrambled(v, ks) ==
  Signed(lsb_reverse_uint16(Xor(Unsigned(v), ks % 2^num_bits), num_bits))

LsbBitsAllCount(bits, pos) ==
  LET asked == IF fcn_user_arg < 0 THEN LSB_TPE_DEFAULT_NUM_BITS ELSE fcn_user_arg
  IN  Min({asked, pos + 1})

(* The argument within reasonable bounds.  In drpe_lsb.c the bits that     *)
(* drpe leaves alone count.                                                *)
LsbBits(bits, pos) ==
  LET asked == IF fcn_user_arg < 0 THEN LSB_TPE_DEFAULT_NUM_BITS ELSE fcn_user_arg
  IN  IF cipher = "lsb" THEN Min({asked, bits})
      ELSE Max({0, Min({asked, pos + 1}) - (pos + 1 - bits)})

MaskPosAtSign(b) == num_bits - 1 - b

(* The bit that is flipped in pass b: drpe_lsb.c avoids the sign bit. *)
MaskPos(b) == num_bits - b - IF cipher = "lsb" THEN 1 ELSE 2

Abs(d) == IF d < 0 THEN -d ELSE d

Init ==
  /\ pc = "plain"
  /\ cipher \in Ciphers
  /\ option \in UserArgs \cup {NotGiven}
  /\ keystream \in [Positions -> KeyWords]
  /\ data \in [Positions -> Samples]
  /\ range = [min |-> 0, max |-> 0]
  /\ num_bits = 0 /\ sign_bit_position = 0 /\ num_lsb_bits = 0
  /\ order = [k \in Positions |-> k]
  /\ delta = 0 /\ bit = 0 /\ i = 1
  /\ plain = data /\ plain_bits = 0

(* The range function, and the beginning of either function. *)
Start ==
  /\ pc \in {"plain", "sent"}
  /\ \E rg \in {RangeOf(data)} :
       /\ data' = rg.array
       /\ range' = [min |-> rg.min, max |-> rg.max]
       /\ num_bits' = Bits(rg.min, rg.max)
       /\ sign_bit_position' = SignBitPosition(rg.min, rg.max)
       /\ IF pc = "plain"
          THEN /\ plain' = rg.array /\ plain_bits' = num_bits'
               /\ num_lsb_bits' = LsbBits(num_bits', sign_bit_position')
               /\ pc' = IF NothingToDo(rg.min, rg.max) THEN "sent" ELSE "encrypt"
          ELSE /\ UNCHANGED <<plain, plain_bits, num_lsb_bits>>
               /\ pc' = IF NothingToDo(rg.min, rg.max) THEN "done" ELSE "decrypt"
  /\ UNCHANGED <<settings, order, delta, bit, i>>

(* Up to the shuffling of pixel_list. *)
Encrypt ==
  /\ pc = "encrypt"
  /\ data' = [k \in Positions |-> Scrambled(data[k], keystream[k])]
  /\ delta' = Total(data) - Total(data')
  /\ order' \in Orders
  /\ pc' = "fixup"
  /\ UNCHANGED <<settings, local, bit, i, plain, plain_bits>>

NoUseWholeMask(b) == IF MaskPos(b) < 0 THEN TRUE ELSE Abs(delta) < 2^MaskPos(b)

(* Flipping this bit cannot bring the sum any closer, or the bit is beyond *)
(* the last one.                                                           *)
NoUse(b) == IF MaskPos(b) < 0 THEN TRUE ELSE Abs(delta) < 2^MaskPos(b) \div 2

(* The element visited now, its bit, and whether flipping it helps. *)
Here == order[i]
Mask == 2^MaskPos(bit)
IsSet == Bit(Unsigned(data[Here]), MaskPos(bit)) = 1
InLoops == pc = "fixup" /\ bit < num_lsb_bits
CanFlip == InLoops /\ ~NoUse(bit)

Advance == IF i < N THEN i' = i + 1 /\ bit' = bit ELSE i' = 1 /\ bit' = bit + 1

(* One iteration of the inner loop, on the element pixel_list[i]. *)
Flip ==
  /\ CanFlip
  /\ LET u == Unsigned(data[Here])
         Put(w, d) == /\ data' = [data EXCEPT ![Here] = Signed(w)]
                      /\ delta' = d
     IN  \/ delta > 0 /\ ~IsSet /\ Put(u + Mask, delta - Mask)
         \/ delta < 0 /\ IsSet  /\ Put(u - Mask, delta + Mask)
         \/ ~(delta > 0 /\ ~IsSet) /\ ~(delta < 0 /\ IsSet) /\ Put(u, delta)
  /\ Advance
  /\ UNCHANGED <<pc, settings, local, order, plain, plain_bits>>

(* lsb.c breaks the inner loop: smaller bits may still help. *)
NextBit ==
  /\ cipher = "lsb" /\ InLoops /\ NoUse(bit)
  /\ bit' = bit + 1 /\ i' = 1
  /\ UNCHANGED <<pc, settings, data, local, order, delta, plain, plain_bits>>

(* Both loops end, or drpe_lsb.c goes to fixup_done. *)
FixupDone ==
  /\ pc = "fixup"
  /\ \/ bit = num_lsb_bits
     \/ cipher = "drpe_lsb" /\ InLoops /\ NoUse(bit)
  /\ pc' = "sent"
  /\ UNCHANGED <<settings, data, local, order, delta, bit, i, plain, plain_bits>>

Decrypt ==
  /\ pc = "decrypt"
  /\ data' = [k \in Positions |-> Unscrambled(data[k], keystream[k])]
  /\ pc' = "done"
  /\ UNCHANGED <<settings, local, order, delta, bit, i, plain, plain_bits>>

Next == Start \/ Encrypt \/ Flip \/ NextBit \/ FixupDone \/ Decrypt

(* One thread, and nothing in it waits. *)
Spec == Init /\ [][Next]_vars /\ WF_vars(Next)
-----------------------------------------------------------------------------
(* The assertions of the two files: the number of bits to flip is not      *)
(* negative (drpe_lsb.c:138) and not above that of the bits that vary      *)
(* (drpe_lsb.c:156), and every value of lsb.c is within its range, before  *)
(* and after each change (lsb.c:85, 115, 166, 182, 257, 275).              *)
AssertsHold ==
  /\ pc = "fixup" => num_lsb_bits \in 0 .. num_bits
  /\ cipher = "lsb" /\ pc # "plain" => Within(data, range.min, range.max)

(* delta is computed once and then only adjusted, flip by flip; it remains *)
(* what the sum of the ciphertext lacks to that of the plaintext.          *)
DeltaIsExact ==
  pc = "fixup" => delta = Total(plain) - Total(data)

(* The flipping ends only when half of the last bit tried is more than     *)
(* what is missing, or when all elements have that bit as it is needed.    *)
AsCloseAsTheBitsAllow ==
  LET last == IF bit = num_lsb_bits \/ MaskPos(bit) < 0 THEN bit - 1 ELSE bit
      bits == {Bit(Unsigned(data[k]), MaskPos(last)) : k \in Positions}
  IN  pc = "sent" /\ last >= 0 =>
        \/ 2 * Abs(delta) <= 2^MaskPos(last)
        \/ delta > 0 /\ bits = {1}
        \/ delta < 0 /\ bits = {0}

(* If the decrypting run finds as many varying bits as the encrypting run, *)
(* it recovers all of them but those that the flipped bits were before     *)
(* they were reversed: the lowest ones, or in drpe_lsb.c the next to them. *)
Damaged == IF cipher = "lsb" THEN 0 .. num_lsb_bits - 1 ELSE 1 .. num_lsb_bits

OnlyLowBitsDamaged ==
  pc = "done" /\ num_bits = plain_bits /\ num_bits > 0 =>
    \A k \in Positions, t \in (0 .. num_bits - 1) \ Damaged :
      Bit(Unsigned(data[k]), t) = Bit(Unsigned(plain[k]), t)
=============================================================================
