------------------------------ MODULE TpeBlock ------------------------------
(***************************************************************************)
(* One block at one frequency in tpe_process_block, twice: encrypted by    *)
(* one run of figleaf and decrypted by another, with the same method, key, *)
(* block size and argument.  Each run asks the method's range function     *)
(* about the block it has, so the decrypting run sees the range of the     *)
(* ciphertext, which nothing forces to be that of the plaintext.           *)
(*                                                                         *)
(* The ciphers that work on every coefficient by itself are here: drpe.c,  *)
(* fpe.c, mosaic.c and noop.c.  Gibbs and LsbTpe open the ciphers of gibbs *)
(* and lsb; of those only the promise that a block stays in its range is   *)
(* used, for what the range functions make of it.                          *)
(***************************************************************************)
EXTENDS Methods, ElementCiphers

CONSTANTS
  Tested,     \* the methods to consider
  MaxLen,     \* bound: the longest block
  DCs, ACs,   \* coefficients that an image may hold at frequency 0 and above
  KeyWords,   \* the words crypto_stream can produce
  UserArgs    \* the values of ctx->fcn_user_arg, figleaf's option -a

Elementwise == {"noop", "drpe_all", "drpe_nonzero", "fpe_nonzero", "mosaic_fuzzy",
                "mosaic_zero"}
InRangeOnly == {"gibbs", "lsb_dc", "lsb_ac"}

ASSUME TpeBlockAssumption ==
  /\ Tested \subseteq MethodNames
  /\ MaxLen \in Nat \ {0}
  /\ DCs \subseteq -1024 .. 1023 /\ ACs \subseteq -1023 .. 1023
  /\ KeyWords \subseteq 0 .. 2^Width - 1
  /\ UserArgs \subseteq Int

VARIABLES
  phase,       \* "plain", "cipher", "recovered": what block holds
  method, kind, blocksize, fcn_user_arg,
  keystream,   \* of the block's nonce, the same in both runs
  block,       \* the coefficients of the block
  enc, dec,    \* history: what the range function gave to each run
  sent         \* history: the ciphertext

settings == <<method, kind, blocksize, fcn_user_arg, keystream>>
vars == <<phase, settings, block, enc, dec, sent>>

Crypto == Context(method, blocksize).crypto[kind]
Minmax == Context(method, blocksize).minmax[kind]

(* vmin and vmax are 0 when the method has no range function. *)
RangeOf(b) ==
  CASE Minmax = "raw"        -> minmax_raw(b)
    [] Minmax = "poweroftwo" -> minmax_poweroftwo(b, MinPower, MaxPower)
    [] Minmax = "bitmask"    -> minmax_bitmask(b, MinPower, MaxPower)
    [] Minmax = "NULL"       -> Ranged(b, 0, 0)

Encrypted(r) ==
  CASE Crypto = "noop"         -> r.array
    [] Crypto = "drpe_all"     -> drpe_all(r.array, keystream, r.min, r.max)
    [] Crypto = "drpe_nonzero" -> drpe_nonzero(r.array, keystream, r.min, r.max)
    [] Crypto = "fpe_nonzero"  -> fpe_encrypt_nonzero(r.array, keystream, r.min, r.max)
    [] Crypto = "mosaic_fuzzy" -> mosaic_fuzzy_block(r.array, keystream, fcn_user_arg)
    [] Crypto = "mosaic_zero"  -> mosaic_zero_block(r.array)

Decrypted(r) ==
  CASE Crypto = "noop"         -> r.array
    [] Crypto = "drpe_all"     -> drpe_all(r.array, keystream, r.min, r.max)
    [] Crypto = "drpe_nonzero" -> drpe_nonzero(r.array, keystream, r.min, r.max)
    [] Crypto = "fpe_nonzero"  -> fpe_decrypt_nonzero(r.array, keystream, r.min, r.max)

(* Any ciphertext in the range; what decryption makes of it is not modelled. *)
Ciphertexts(r) ==
  IF Crypto \in InRangeOnly
  THEN {b \in [DOMAIN r.array -> DCs \cup ACs] : Within(b, r.min, r.max)} ELSE {Encrypted(r)}
Plaintext(r) == IF Crypto \in InRangeOnly THEN r.array ELSE Decrypted(r)

(* A block of 8 pixels is one DCT block; a larger one may be cut down to   *)
(* one at the border of the image.                                         *)
Init ==
  /\ phase = "plain"
  /\ method \in Tested
  /\ kind \in Kinds
  /\ blocksize \in {8, 16} /\ BlocksizeOK(blocksize)
  /\ Crypto \in Elementwise \cup InRangeOnly
  /\ fcn_user_arg \in IF method = "mosaic" THEN UserArgs ELSE {0}
  /\ \E len \in 1 .. IF blocksize = 8 THEN 1 ELSE MaxLen :
       /\ block \in [1 .. len -> IF kind = "DC" THEN DCs ELSE ACs]
       /\ keystream \in [1 .. len -> IF Crypto \in InRangeOnly THEN {0} ELSE KeyWords]
  /\ enc = Ranged(block, 0, 0) /\ dec = enc
  /\ sent = block

Encrypt ==
  /\ phase = "plain"
  /\ enc' = RangeOf(block)
  /\ block' \in Ciphertexts(enc')
  /\ sent' = block'
  /\ phase' = "cipher"
  /\ UNCHANGED <<settings, dec>>

Decrypt ==
  /\ phase = "cipher" /\ ~Refused("decrypt", method)
  /\ dec' = RangeOf(block)
  /\ block' = Plaintext(dec')
  /\ phase' = "recovered"
  /\ UNCHANGED <<settings, enc, sent>>

Next == Encrypt \/ Decrypt

Spec == Init /\ [][Next]_vars
-----------------------------------------------------------------------------
Positions == DOMAIN block

(* Encryption is only ever undone under the parameters it was done with:   *)
(* for drpe these are the number of varying bits, for fpe the range.       *)
SameParameters ==
  IF Minmax = "raw" THEN NumBits(dec.min, dec.max) = NumBits(enc.min, enc.max)
                    ELSE dec.min = enc.min /\ dec.max = enc.max

(* fpe left the coefficient as it was because it would have become zero.   *)
LeftAlone(k) ==
  Crypto = "fpe_nonzero" /\ enc.array[k] # 0
    /\ fpe_encrypt_all(enc.array, keystream, enc.min, enc.max)[k] = 0

(* If the decrypting run finds the parameters of the encrypting run again, *)
(* it recovers every coefficient as the range function of the encrypting   *)
(* run left it, except those that encryption had to leave alone: fpe       *)
(* (fpe.c:141) cannot tell these from the others.                          *)
RecoversUnderSameParameters ==
  phase = "recovered" /\ Crypto \in Elementwise /\ SameParameters =>
    \A k \in Positions : block[k] = enc.array[k] \/ LeftAlone(k)

(* Truncation leaves a block within the range it is given, and so does the *)
(* cipher: the range that the decrypting run finds holds the ciphertext    *)
(* and lies within the range of the plaintext (minmax.c:34), or has no     *)
(* more varying bits, so decryption never changes bits or values that      *)
(* encryption could not have touched.                                      *)
RangesNest ==
  /\ phase # "plain" /\ Minmax # "NULL" => Within(enc.array, enc.min, enc.max)
  /\ phase = "recovered" /\ Minmax # "NULL" =>
       /\ Within(dec.array, dec.min, dec.max)
       /\ Minmax # "raw" => dec.array = sent /\ enc.min <= dec.min /\ dec.max <= enc.max
       /\ Minmax = "raw" => NumBits(dec.min, dec.max) <= NumBits(enc.min, enc.max)

(* What the Huffman encoder of libjpeg accepts (jchuff.c:420).  Two DC     *)
(* coefficients of an 8-bit image differ by at most 11 bits' worth.        *)
Encodable(b) ==
  Within(b, IF kind = "DC" THEN -1024 ELSE -1023, 1023)

(* With 16 bits the radius of mosaic (mosaic.c:47) is the sign bit, and    *)
(* both bounds wrap around to the average and half the range of a JCOEF.   *)
RadiusWraps == fcn_user_arg >= 1 /\ Radius(fcn_user_arg) < 0

(* No ciphertext makes tpe_process_block complain (tpe.c:98) or the output *)
(* fail, apart from the AC coefficients of the drpe methods and, when its  *)
(* radius wraps around, mosaic.                                            *)
StaysEncodable ==
  (kind = "DC" \/ Minmax # "raw") /\ ~(Crypto = "mosaic_fuzzy" /\ RadiusWraps)
    => Encodable(block)

(* drpe.h:7: the functions of drpe.c encrypt, and decrypt to recover the   *)
(* original values.                                                        *)
DrpeRecovers ==
  phase = "recovered" /\ Crypto = "drpe_all" => block = enc.array
=============================================================================
