--------------------------- MODULE TpeBlockProofs ---------------------------
(***************************************************************************)
(* Proofs about a block that one run of figleaf encrypts and another       *)
(* decrypts, for blocks of any length, any coefficients an image may hold, *)
(* any keystream and any value of the option -a: the range that decryption *)
(* finds lies within that of encryption, what is written can be encoded,   *)
(* and under the same parameters decryption recovers the block.            *)
(*                                                                         *)
(* The variables hold the past, so the invariant can tell the whole story: *)
(* which plaintext there was, and that all else was computed from it.      *)
(***************************************************************************)
EXTENDS TpeBlock, CoefTheorems

(* What main() can have installed: which cipher goes with which range.     *)
Settings(n) ==
  /\ method \in MethodNames /\ kind \in Kinds /\ blocksize \in {8, 16}
  /\ Crypto \in Elementwise \cup InRangeOnly
  /\ fcn_user_arg \in Int
  /\ keystream \in [1 .. n -> Int]

Nulls == {"noop", "mosaic_fuzzy", "mosaic_zero", "fpe_nonzero"}

Pairing ==
  /\ \/ Minmax = "NULL" /\ Crypto \in Nulls
     \/ Minmax = "raw" /\ Crypto \in {"drpe_all", "drpe_nonzero"}
     \/ Minmax = "poweroftwo" /\ Crypto \in {"fpe_nonzero", "lsb_dc", "lsb_ac"}
     \/ Minmax = "bitmask" /\ Crypto = "gibbs" /\ kind = "DC"
  /\ Crypto \in {"mosaic_fuzzy", "mosaic_zero"} => method = "mosaic"
  /\ Crypto = "mosaic_fuzzy" => kind = "DC"

LEMMA Pairings ==
  ASSUME NEW n, Settings(n)
  PROVE  Pairing
<1> DEFINE t == Table(method)
           c == Context(method, blocksize)
<1>1. \/ blocksize = 16 /\ c = t
      \/ blocksize = 8 /\ c = [t EXCEPT !.crypto.DC = "noop", !.minmax.DC = "NULL"]
  BY DEF Settings, Context
<1>2. Crypto = c.crypto[kind] /\ Minmax = c.minmax[kind] /\ (kind = "DC" \/ kind = "AC")
  BY DEF Settings, Crypto, Minmax, Kinds
<1>3. /\ t.crypto = [DC |-> t.crypto.DC, AC |-> t.crypto.AC]
      /\ t.minmax = [DC |-> t.minmax.DC, AC |-> t.minmax.AC]
      /\ t = [crypto |-> t.crypto, minmax |-> t.minmax]
  <2>1. \E x, y, z, w : t = Uses(x, y, z, w)
    BY DEF Settings, MethodNames, Table
  <2>2. QED
    BY <2>1 DEF Uses
<1>4. \/ Crypto = "noop" /\ Minmax = "NULL"
      \/ Crypto = t.crypto[kind] /\ Minmax = t.minmax[kind]
  <2> DEFINE u == t.crypto
             v == t.minmax
  <2>1. CASE blocksize = 16
    BY <1>1, <1>2, <2>1
  <2>2. CASE blocksize = 8
    <3> HIDE DEF t, c
    <3>1. c = [t EXCEPT !.crypto.DC = "noop", !.minmax.DC = "NULL"]
      BY <1>1, <2>2
    <3>2. c.crypto = [u EXCEPT !.DC = "noop"] /\ c.minmax = [v EXCEPT !.DC = "NULL"]
      BY <1>3, <3>1
    <3> HIDE DEF u, v
    <3>3. u = [DC |-> u.DC, AC |-> u.AC] /\ v = [DC |-> v.DC, AC |-> v.AC]
      BY <1>3 DEF u, v
    <3>4. CASE kind = "DC"
      BY <1>2, <3>2, <3>3, <3>4
    <3>5. CASE kind = "AC"
      BY <1>2, <3>2, <3>3, <3>5 DEF u, v
    <3>6. QED
      BY <1>2, <3>4, <3>5
  <2>3. QED
    BY <1>1, <2>1, <2>2
<1> HIDE DEF c
<1>5. CASE Crypto = "noop" /\ Minmax = "NULL"
  BY <1>5 DEF Pairing, Nulls
<1>6. CASE Crypto = t.crypto[kind] /\ Minmax = t.minmax[kind]
  <2> DEFINE P(dc, ac, dc_range, ac_range) ==
               \/ kind = "DC" /\ Crypto = dc /\ Minmax = dc_range
               \/ kind = "AC" /\ Crypto = ac /\ Minmax = ac_range
  <2>1. ASSUME NEW x, NEW y, NEW z, NEW w, t = Uses(x, y, z, w)
        PROVE  P(x, y, z, w)
    BY <1>2, <1>6, <2>1 DEF Uses
  <2> HIDE DEF t
  <2>2. CASE method = "lsb"
    <3>1. t = Uses("lsb_dc", "lsb_ac", "poweroftwo", "poweroftwo")
      BY <2>2, Zenon DEF t, Table
    <3>2. P("lsb_dc", "lsb_ac", "poweroftwo", "poweroftwo")
      BY <2>1, <3>1, Zenon
    <3>3. QED
      BY <2>2, <3>2 DEF Settings, Pairing, Nulls, Elementwise, InRangeOnly
  <2>3. CASE method = "noop"
    <3>1. t = Uses("noop", "noop", "NULL", "NULL")
      BY <2>3, Zenon DEF t, Table
    <3>2. P("noop", "noop", "NULL", "NULL")
      BY <2>1, <3>1, Zenon
    <3>3. QED
      BY <2>3, <3>2 DEF Settings, Pairing, Nulls, Elementwise, InRangeOnly
  <2>4. CASE method = "drpe"
    <3>1. t = Uses("drpe_all", "drpe_all", "raw", "raw")
      BY <2>4, Zenon DEF t, Table
    <3>2. P("drpe_all", "drpe_all", "raw", "raw")
      BY <2>1, <3>1, Zenon
    <3>3. QED
      BY <2>4, <3>2 DEF Settings, Pairing, Nulls, Elementwise, InRangeOnly
  <2>5. CASE method = "drpe-nz"
    <3>1. t = Uses("drpe_all", "drpe_nonzero", "raw", "raw")
      BY <2>5, Zenon DEF t, Table
    <3>2. P("drpe_all", "drpe_nonzero", "raw", "raw")
      BY <2>1, <3>1, Zenon
    <3>3. QED
      BY <2>5, <3>2 DEF Settings, Pairing, Nulls, Elementwise, InRangeOnly
  <2>6. CASE method = "drpe-lsb"
    <3>1. t = Uses("drpe_lsb_all", "drpe_all", "raw", "raw")
      BY <2>6, Zenon DEF t, Table
    <3>2. P("drpe_lsb_all", "drpe_all", "raw", "raw")
      BY <2>1, <3>1, Zenon
    <3>3. QED
      BY <2>6, <3>2 DEF Settings, Pairing, Nulls, Elementwise, InRangeOnly
  <2>7. CASE method = "drpe-lsb-nz"
    <3>1. t = Uses("drpe_lsb_all", "drpe_nonzero", "raw", "raw")
      BY <2>7, Zenon DEF t, Table
    <3>2. P("drpe_lsb_all", "drpe_nonzero", "raw", "raw")
      BY <2>1, <3>1, Zenon
    <3>3. QED
      BY <2>7, <3>2 DEF Settings, Pairing, Nulls, Elementwise, InRangeOnly
  <2>8. CASE method = "mosaic"
    <3>1. t = Uses("mosaic_fuzzy", "mosaic_zero", "NULL", "NULL")
      BY <2>8, Zenon DEF t, Table
    <3>2. P("mosaic_fuzzy", "mosaic_zero", "NULL", "NULL")
      BY <2>1, <3>1, Zenon
    <3>3. QED
      BY <2>8, <3>2 DEF Settings, Pairing, Nulls, Elementwise, InRangeOnly
  <2>9. CASE method = "shuffle"
    <3>1. t = Uses("shuffle", "fpe_nonzero", "NULL", "NULL")
      BY <2>9, Zenon DEF t, Table
    <3>2. P("shuffle", "fpe_nonzero", "NULL", "NULL")
      BY <2>1, <3>1, Zenon
    <3>3. QED
      BY <2>9, <3>2 DEF Settings, Pairing, Nulls, Elementwise, InRangeOnly
  <2>10. CASE method = "gibbs"
    <3>1. t = Uses("gibbs", "fpe_nonzero", "bitmask", "poweroftwo")
      BY <2>10, Zenon DEF t, Table
    <3>2. P("gibbs", "fpe_nonzero", "bitmask", "poweroftwo")
      BY <2>1, <3>1, Zenon
    <3>3. QED
      BY <2>10, <3>2 DEF Settings, Pairing, Nulls, Elementwise, InRangeOnly
  <2>11. QED
    BY <2>2, <2>3, <2>4, <2>5, <2>6, <2>7, <2>8, <2>9, <2>10 DEF Settings, MethodNames
<1>7. QED
  BY <1>4, <1>5, <1>6

(* The range r that is found for a block a.                                *)
RangeFacts(r, a, n) ==
  /\ r.array \in [1 .. n -> Coefs] /\ Bounds(r.min, r.max)
  /\ Minmax # "NULL" => Within(r.array, r.min, r.max)
  /\ Minmax = "NULL" => r.array = a /\ r.min = 0 /\ r.max = 0
  /\ Minmax = "raw" => r.array = a /\ r.min = ObservedMin(a) /\ r.max = ObservedMax(a)
  /\ Minmax = "poweroftwo" => -1023 <= r.min

LEMMA RangeFits ==
  ASSUME NEW n \in Nat \ {0}, Settings(n), NEW a \in [1 .. n -> Coefs]
  PROVE  RangeFacts(RangeOf(a), a, n)
<1> DEFINE r == RangeOf(a)
<1>1. Pairing
  BY Pairings
<1>2. MinPower = 0 /\ MaxPower = 10
  BY DEF MinPower, MaxPower
<1>3. CASE Minmax = "NULL"
  <2>1. r = [array |-> a, min |-> 0, max |-> 0]
    BY <1>3 DEF RangeOf, Ranged
  <2>2. Bounds(0, 0)
    BY CoefRange DEF Bounds
  <2> HIDE DEF r
  <2>3. QED
    BY <1>3, <2>1, <2>2 DEF r, RangeFacts
<1>4. CASE Minmax = "raw"
  <2>1. r = minmax_raw(a)
    BY <1>4 DEF RangeOf
  <2>2. RangeFor(minmax_raw(a), n) /\ minmax_raw(a).array = a
    BY RawFits, Zenon
  <2>3. minmax_raw(a).min = ObservedMin(a) /\ minmax_raw(a).max = ObservedMax(a)
    BY DEF minmax_raw, Ranged
  <2> HIDE DEF r
  <2>4. QED
    BY <1>4, <2>1, <2>2, <2>3 DEF r, RangeFor, RangeFacts
<1>5. CASE Minmax = "poweroftwo"
  <2>1. r = minmax_poweroftwo(a, 0, 10) /\ 10 \in 0 .. 11
    BY <1>2, <1>5 DEF RangeOf
  <2>2. /\ RangeFor(minmax_poweroftwo(a, 0, 10), n)
        /\ \E b \in 0 .. 10 : /\ minmax_poweroftwo(a, 0, 10).min = SignedMin(b)
                              /\ minmax_poweroftwo(a, 0, 10).max = SignedMax(b)
    BY <2>1, PowerFits, Zenon
  <2> HIDE DEF r
  <2>3. RangeFor(r, n) /\ \E b \in 0 .. 10 : r.min = SignedMin(b)
    BY <2>1, <2>2, Zenon
  <2>4. SignedMin(10) = -512
    BY Powers DEF SignedMin, Two
  <2>5. -1023 <= r.min
    <3>1. PICK b \in 0 .. 10 : r.min = SignedMin(b)
      BY <2>3
    <3>2. Bounds(SignedMin(b), SignedMax(b)) /\ SignedMin(10) <= SignedMin(b)
      BY <2>1, SignedBounds
    <3>3. SignedMin(b) \in Int
      BY <3>2, BoundsAre
    <3>4. QED
      BY <2>4, <3>1, <3>2, <3>3
  <2>6. QED
    BY <1>5, <2>3, <2>5 DEF r, RangeFor, RangeFacts
<1>6. CASE Minmax = "bitmask"
  <2>1. r = minmax_bitmask(a, 0, 10)
    BY <1>2, <1>6 DEF RangeOf
  <2>2. RangeFor(minmax_bitmask(a, 0, 10), n)
    BY BitmaskFits, Zenon
  <2> HIDE DEF r
  <2>3. QED
    BY <1>6, <2>1, <2>2 DEF r, RangeFor, RangeFacts
<1>7. QED
  BY <1>1, <1>3, <1>4, <1>5, <1>6 DEF Pairing

(* And that of a block within it.                                          *)
LEMMA RangeNests ==
  ASSUME NEW n \in Nat \ {0}, Settings(n), NEW a \in [1 .. n -> Coefs],
         NEW s \in [1 .. n -> Coefs], Minmax \in {"poweroftwo", "bitmask"},
         Within(s, RangeOf(a).min, RangeOf(a).max)
  PROVE  Nested(RangeOf(s), RangeOf(a), s)
<1>1. MinPower = 0 /\ MaxPower = 10
  BY DEF MinPower, MaxPower
<1>2. CASE Minmax = "poweroftwo"
  <2> DEFINE r == minmax_poweroftwo(a, 0, 10)
             q == minmax_poweroftwo(s, 0, 10)
  <2>1. RangeOf(a) = r /\ RangeOf(s) = q /\ 10 \in 0 .. 11
    BY <1>1, <1>2 DEF RangeOf
  <2>2. PICK c \in 0 .. 10 : r.min = SignedMin(c) /\ r.max = SignedMax(c)
    BY <2>1, PowerFits, Zenon
  <2>3. Within(s, SignedMin(c), SignedMax(c))
    <3> HIDE DEF r
    <3>1. QED
      BY <2>1, <2>2
  <2>4. q.array = s /\ SignedMin(c) <= q.min /\ q.max <= SignedMax(c)
    BY <2>1, <2>3, PowerNests, Zenon
  <2> HIDE DEF q, r
  <2>5. QED
    BY <2>1, <2>2, <2>4 DEF Nested
<1>3. CASE Minmax = "bitmask"
  <2>1. RangeOf(a) = minmax_bitmask(a, 0, 10) /\ RangeOf(s) = minmax_bitmask(s, 0, 10)
    BY <1>1, <1>3 DEF RangeOf
  <2>2. Within(s, minmax_bitmask(a, 0, 10).min, minmax_bitmask(a, 0, 10).max)
    BY <2>1, Zenon
  <2>3. Nested(minmax_bitmask(s, 0, 10), minmax_bitmask(a, 0, 10), s)
    BY <2>2, BitmaskNests, Zenon
  <2>4. QED
    BY <2>1, <2>3, Zenon
<1>4. QED
  BY <1>2, <1>3

-----------------------------------------------------------------------------
(* What a run can make of the block whose range is r.                      *)
Made(s, r, n) ==
  \/ Crypto = "noop" /\ s = r.array
  \/ Crypto = "drpe_all" /\ s = drpe_all(r.array, keystream, r.min, r.max)
  \/ Crypto = "drpe_nonzero" /\ s = drpe_nonzero(r.array, keystream, r.min, r.max)
  \/ Crypto = "fpe_nonzero" /\ \/ s = fpe_encrypt_nonzero(r.array, keystream, r.min, r.max)
                               \/ s = fpe_decrypt_nonzero(r.array, keystream, r.min, r.max)
  \/ Crypto = "mosaic_fuzzy" /\ s = mosaic_fuzzy_block(r.array, keystream, fcn_user_arg)
  \/ Crypto = "mosaic_zero" /\ s = mosaic_zero_block(r.array)
  \/ Crypto \in InRangeOnly /\ s \in [1 .. n -> Coefs] /\ Within(s, r.min, r.max)

LEMMA CoefSets == DCs \subseteq Coefs /\ ACs \subseteq Coefs /\ \A v \in ACs : -1023 <= v
<1>1. ASSUME NEW v \in DCs \cup ACs PROVE v \in Int /\ -1024 <= v /\ v <= 1023 /\ v \in Coefs
  <2>1. v \in Int /\ -1024 <= v /\ v <= 1023
    BY TpeBlockAssumption
  <2>2. QED
    BY <2>1, CoefRange DEF Coefs
<1>2. \A v \in ACs : -1023 <= v
  BY TpeBlockAssumption
<1>3. QED
  BY <1>1, <1>2

LEMMA CiphertextsAreMade ==
  ASSUME NEW n \in Nat \ {0}, Settings(n), NEW r, r.array \in [1 .. n -> Coefs],
         NEW s \in Ciphertexts(r)
  PROVE  Made(s, r, n)
<1>1. CASE Crypto \in InRangeOnly
  <2>1. s \in [1 .. n -> DCs \cup ACs] /\ Within(s, r.min, r.max)
    BY <1>1 DEF Ciphertexts
  <2>2. s \in [1 .. n -> Coefs]
    BY <2>1, CoefSets
  <2>3. QED
    BY <1>1, <2>1, <2>2 DEF Made
<1>2. CASE Crypto \notin InRangeOnly
  <2>1. s = Encrypted(r) /\ Crypto \in Elementwise
    BY <1>2 DEF Ciphertexts, Settings
  <2>2. QED
    BY <2>1, Zenon DEF Made, Encrypted, Elementwise
<1>3. QED
  BY <1>1, <1>2

LEMMA PlaintextIsMade ==
  ASSUME NEW n \in Nat \ {0}, Settings(n), NEW r, r.array \in [1 .. n -> Coefs],
         Minmax # "NULL" => Within(r.array, r.min, r.max), method # "mosaic"
  PROVE  Made(Plaintext(r), r, n)
<1>1. Pairing
  BY Pairings
<1>2. CASE Crypto \in InRangeOnly
  <2>1. Plaintext(r) = r.array /\ Minmax # "NULL"
    BY <1>1, <1>2 DEF Plaintext, Pairing, Nulls, InRangeOnly
  <2>2. QED
    BY <1>2, <2>1 DEF Made
<1>3. CASE Crypto \notin InRangeOnly
  <2>1. Plaintext(r) = Decrypted(r)
    BY <1>3 DEF Plaintext
  <2>2. Crypto \in {"noop", "drpe_all", "drpe_nonzero", "fpe_nonzero"}
    BY <1>1, <1>3 DEF Settings, Pairing, Elementwise
  <2>3. QED
    BY <2>1, <2>2, Zenon DEF Made, Decrypted
<1>4. QED
  BY <1>2, <1>3

LEMMA EncodableIs ==
  ASSUME NEW n, NEW b \in [1 .. n -> Coefs]
  PROVE  Encodable(b) <=> (kind = "DC" \/ \A k \in 1 .. n : -1023 <= b[k])
<1>1. DOMAIN b = 1 .. n /\ \A k \in 1 .. n : b[k] \in Int /\ -1024 <= b[k] /\ b[k] <= 1023
  BY CoefsAre
<1>2. CASE kind = "DC"
  <2>1. Within(b, -1024, 1023)
    <3>1. \A k \in 1 .. n : -1024 <= b[k] /\ b[k] <= 1023
      BY <1>1
    <3>2. QED
      BY <1>1, <3>1 DEF Within, Elements
  <2>2. QED
    BY <1>2, <2>1 DEF Encodable
<1>3. CASE kind # "DC"
  <2>1. Within(b, -1023, 1023) <=> \A k \in 1 .. n : -1023 <= b[k]
    BY <1>1 DEF Within, Elements
  <2>2. QED
    BY <1>3, <2>1 DEF Encodable
<1>4. QED
  BY <1>2, <1>3

(* Each run makes coefficients, within the range it was given unless the   *)
(* method has none, and of what the encoder accepts again what it accepts. *)
Exempt == Crypto = "mosaic_fuzzy" /\ RadiusWraps

LEMMA MadeFits ==
  ASSUME NEW n \in Nat \ {0}, Settings(n), NEW a \in [1 .. n -> Coefs], ~Exempt,
         NEW s, Made(s, RangeOf(a), n)
  PROVE  /\ s \in [1 .. n -> Coefs]
         /\ Minmax \in {"poweroftwo", "bitmask"} => Within(s, RangeOf(a).min, RangeOf(a).max)
         /\ (kind = "DC" \/ Minmax # "raw") /\ Encodable(a) => Encodable(s)
<1> DEFINE r == RangeOf(a)
           b == r.array
           lo == r.min
           hi == r.max
<1>1. Pairing /\ keystream \in [1 .. n -> Int] /\ fcn_user_arg \in Int
  BY Pairings DEF Settings
<1>2. /\ b \in [1 .. n -> Coefs] /\ Bounds(lo, hi)
      /\ Minmax # "NULL" => Within(b, lo, hi)
      /\ Minmax = "NULL" => b = a /\ lo = 0 /\ hi = 0
      /\ Minmax = "raw" => b = a /\ lo = ObservedMin(a) /\ hi = ObservedMax(a)
      /\ Minmax = "poweroftwo" => -1023 <= lo
  <2>1. RangeFacts(r, a, n)
    BY RangeFits, Zenon
  <2>2. QED
    BY <2>1, Zenon DEF RangeFacts
<1>3. Made(s, r, n)
  OBVIOUS
<1> HIDE DEF b, lo, hi
<1>7. b \in [1 .. n -> Coefs] /\ keystream \in [1 .. n -> Int] /\ Bounds(lo, hi)
  BY <1>1, <1>2
<1>4. /\ s \in [1 .. n -> Coefs]
      /\ Minmax \in {"poweroftwo", "bitmask"} => Within(s, lo, hi)
      /\ Minmax = "NULL" /\ kind # "DC" => \A k \in 1 .. n : s[k] = a[k] \/ s[k] = 0
  <2>1. CASE Crypto = "noop"
    <3>1. s = b /\ Minmax = "NULL"
      BY <1>1, <1>3, <2>1 DEF Made, Pairing, b, InRangeOnly
    <3>2. QED
      BY <1>2, <3>1
  <2>2. CASE Crypto \in {"drpe_all", "drpe_nonzero"}
    <3>1. Minmax = "raw"
      BY <1>1, <2>2 DEF Pairing, Nulls
    <3>2. s = drpe_all(b, keystream, lo, hi) \/ s = drpe_nonzero(b, keystream, lo, hi)
      BY <1>3, <2>2 DEF Made, InRangeOnly, b, lo, hi
    <3>3. \A k \in 1 .. n : b[k] \in lo .. hi
      <4>1. \A k \in 1 .. n : a[k] \in ObservedMin(a) .. ObservedMax(a)
        BY Observed, Zenon
      <4>2. QED
        BY <1>2, <3>1, <4>1
    <3>4. /\ drpe_all(b, keystream, lo, hi) \in [1 .. n -> Int]
          /\ DrpeMakes(drpe_all(b, keystream, lo, hi), b, keystream, n, lo, hi)
          /\ drpe_nonzero(b, keystream, lo, hi) \in [1 .. n -> Int]
          /\ DrpeMakes(drpe_nonzero(b, keystream, lo, hi), b, keystream, n, lo, hi)
      BY <1>7, <3>3, DrpeFunctions, Zenon
    <3>5. s \in [1 .. n -> Int] /\ DrpeMakes(s, b, keystream, n, lo, hi)
      BY <3>2, <3>4
    <3>6. s \in [1 .. n -> Coefs]
      BY <1>7, <3>3, <3>5, DrpeSpreads, Zenon
    <3>7. QED
      BY <3>1, <3>6
  <2>3. CASE Crypto = "fpe_nonzero"
    <3> DEFINE x == fpe_encrypt_nonzero(b, keystream, lo, hi)
               y == fpe_decrypt_nonzero(b, keystream, lo, hi)
    <3>1. s = x \/ s = y
      BY <1>3, <2>3 DEF Made, InRangeOnly, b, lo, hi
    <3>2. /\ DOMAIN x = 1 .. n /\ \A k \in 1 .. n : x[k] = b[k] \/ x[k] \in lo .. hi
          /\ DOMAIN y = 1 .. n /\ \A k \in 1 .. n : y[k] = b[k] \/ y[k] \in lo .. hi
      BY <1>7, FpeElements, Zenon
    <3>3. x = [k \in DOMAIN x |-> x[k]] /\ y = [k \in DOMAIN y |-> y[k]]
      BY DEF fpe_encrypt_nonzero, fpe_decrypt_nonzero
    <3> HIDE DEF x, y
    <3>4. /\ DOMAIN s = 1 .. n /\ s = [k \in DOMAIN s |-> s[k]]
          /\ \A k \in 1 .. n : s[k] = b[k] \/ s[k] \in lo .. hi
      BY <3>1, <3>2, <3>3, Zenon
    <3>5. s \in [1 .. n -> Coefs] /\ (Within(b, lo, hi) => Within(s, lo, hi))
      BY <1>2, <3>4, FpeIsCoef
    <3>6. Minmax = "NULL" => \A k \in 1 .. n : s[k] = a[k] \/ s[k] = 0
      BY <1>2, <3>4
    <3>7. QED
      BY <1>2, <3>5, <3>6
  <2>4. CASE Crypto = "mosaic_fuzzy"
    <3>1. Minmax = "NULL" /\ kind = "DC"
      BY <1>1, <2>4 DEF Pairing
    <3>2. s = mosaic_fuzzy_block(b, keystream, fcn_user_arg) /\ Len(b) = n
      BY <1>2, <1>3, <2>4 DEF Made, InRangeOnly, b
    <3>3. fcn_user_arg < 1 \/ Radius(fcn_user_arg) >= 0
      <4>1. ~(fcn_user_arg >= 1 /\ Radius(fcn_user_arg) < 0)
        BY <2>4 DEF Exempt, RadiusWraps
      <4>2. Radius(fcn_user_arg) \in Int
        BY <1>1, RadiusType
      <4>3. QED
        BY <1>1, <4>1, <4>2
    <3>4. mosaic_fuzzy_block(b, keystream, fcn_user_arg) \in [1 .. n -> Coefs]
      BY <1>1, <1>7, <3>2, <3>3, FuzzyIsCoef, Zenon
    <3>5. QED
      BY <3>1, <3>2, <3>4
  <2>5. CASE Crypto = "mosaic_zero"
    <3>1. Minmax = "NULL"
      BY <1>1, <2>5 DEF Pairing
    <3>2. s = [k \in 1 .. n |-> 0]
      BY <1>2, <1>3, <2>5 DEF Made, InRangeOnly, mosaic_zero_block, b
    <3>3. 0 \in Coefs
      BY CoefRange DEF Coefs
    <3>4. QED
      BY <3>1, <3>2, <3>3
  <2>6. CASE Crypto \in InRangeOnly
    <3>1. Minmax # "NULL"
      BY <1>1, <2>6 DEF Pairing, Nulls, InRangeOnly
    <3>2. s \in [1 .. n -> Coefs] /\ Within(s, lo, hi)
      BY <1>3, <2>6 DEF Made, InRangeOnly, lo, hi
    <3>3. QED
      BY <3>1, <3>2
  <2>7. QED
    BY <2>1, <2>2, <2>3, <2>4, <2>5, <2>6 DEF Settings, Elementwise
<1>5. ASSUME kind # "DC", Minmax # "raw", Encodable(a) PROVE \A k \in 1 .. n : -1023 <= s[k]
  <2>1. \A k \in 1 .. n : -1023 <= a[k]
    BY <1>5, EncodableIs
  <2>2. CASE Minmax = "NULL"
    BY <1>4, <1>5, <2>1, <2>2
  <2>3. CASE Minmax = "poweroftwo"
    <3>1. lo \in Int /\ -1023 <= lo
      BY <1>2, <2>3, BoundsAre
    <3>2. \A k \in 1 .. n : lo <= s[k] /\ s[k] \in Int
      <4>1. DOMAIN s = 1 .. n /\ Within(s, lo, hi)
        BY <1>4, <2>3
      <4>2. \A k \in 1 .. n : lo <= s[k]
        BY <4>1, WithinIs
      <4>3. QED
        BY <1>4, <4>2, CoefsAre
    <3>3. QED
      BY <3>1, <3>2
  <2>4. QED
    BY <1>1, <1>5, <2>2, <2>3 DEF Pairing
<1>6. (kind = "DC" \/ Minmax # "raw") /\ Encodable(a) => Encodable(s)
  BY <1>4, <1>5, EncodableIs
<1>8. QED
  BY <1>4, <1>6 DEF lo, hi

-----------------------------------------------------------------------------
(* The invariant tells the whole story of the block: there is a plaintext  *)
(* p of n coefficients that an image may hold, and what the variables are  *)
(* is what the two runs make of it.  The properties follow from the story, *)
(* without another step being taken.                                       *)
Story(n, p) ==
  /\ Settings(n)
  /\ p \in [1 .. n -> IF kind = "DC" THEN DCs ELSE ACs]
  /\ phase \in {"plain", "cipher", "recovered"}
  /\ phase = "plain" => block = p
  /\ phase # "plain" => enc = RangeOf(p) /\ sent \in Ciphertexts(enc)
  /\ phase = "cipher" => block = sent
  /\ phase = "recovered" => method # "mosaic" /\ dec = RangeOf(sent) /\ block = Plaintext(dec)

IInv == \E n \in Nat \ {0} : \E p : Story(n, p)

LEMMA InitIInv == Init => IInv
<1> SUFFICES ASSUME Init PROVE IInv
  OBVIOUS
<1> DEFINE m == IF blocksize = 8 THEN 1 ELSE MaxLen
<1>1. PICK n \in 1 .. m :
        /\ block \in [1 .. n -> IF kind = "DC" THEN DCs ELSE ACs]
        /\ keystream \in [1 .. n -> IF Crypto \in InRangeOnly THEN {0} ELSE KeyWords]
  BY Zenon DEF Init
<1>2. /\ phase = "plain" /\ method \in MethodNames /\ kind \in Kinds /\ blocksize \in {8, 16}
      /\ Crypto \in Elementwise \cup InRangeOnly
  BY TpeBlockAssumption DEF Init
<1>3. m \in Nat \ {0}
  BY TpeBlockAssumption
<1> HIDE DEF m
<1>4. n \in Nat \ {0}
  BY <1>3
<1>5. keystream \in [1 .. n -> Int]
  <2> DEFINE top == 2^Width - 1
  <2>1. KeyWords \subseteq 0 .. top
    BY TpeBlockAssumption
  <2> HIDE DEF top
  <2>2. KeyWords \subseteq Int
    BY <2>1
  <2>3. CASE Crypto \in InRangeOnly
    BY <1>1, <2>3
  <2>4. CASE Crypto \notin InRangeOnly
    BY <1>1, <2>2, <2>4
  <2>5. QED
    BY <2>3, <2>4
<1>6. fcn_user_arg \in Int
  BY TpeBlockAssumption DEF Init
<1>7. Story(n, block)
  BY <1>1, <1>2, <1>5, <1>6 DEF Story, Settings
<1>8. QED
  BY <1>4, <1>7 DEF IInv

(* A step leaves the installed functions alone, and what they do.          *)
LEMMA SameFunctions ==
  ASSUME NEW n, Settings(n), UNCHANGED settings
  PROVE  /\ Settings(n)' /\ kind' = kind /\ method' = method
         /\ Crypto' = Crypto /\ keystream' = keystream /\ fcn_user_arg' = fcn_user_arg
         /\ \A b : RangeOf(b)' = RangeOf(b)
<1>1. /\ method' = method /\ kind' = kind /\ blocksize' = blocksize
      /\ fcn_user_arg' = fcn_user_arg /\ keystream' = keystream
  BY DEF settings
<1>2. Crypto' = Crypto /\ Minmax' = Minmax
  BY <1>1, Zenon DEF Crypto, Minmax
<1>3. Settings(n)'
  BY <1>1, <1>2, Zenon DEF Settings
<1>4. \A b : RangeOf(b)' = RangeOf(b)
  BY <1>2, Zenon DEF RangeOf
<1>5. QED
  BY <1>1, <1>2, <1>3, <1>4

LEMMA NextIInv == IInv /\ [Next]_vars => IInv'
<1> SUFFICES ASSUME IInv, [Next]_vars PROVE IInv'
  OBVIOUS
<1>0. PICK n \in Nat \ {0} : \E p : Story(n, p)
  BY DEF IInv
<1>1. PICK p : Story(n, p)
  BY <1>0
<1>2. UNCHANGED settings
  BY DEF Next, Encrypt, Decrypt, vars
<1>3. /\ Settings(n)' /\ kind' = kind /\ method' = method
      /\ Crypto' = Crypto /\ keystream' = keystream /\ fcn_user_arg' = fcn_user_arg
      /\ \A b : RangeOf(b)' = RangeOf(b)
  BY <1>1, <1>2, SameFunctions, Zenon DEF Story
<1>4. p \in [1 .. n -> IF kind' = "DC" THEN DCs ELSE ACs]
  BY <1>1, <1>3 DEF Story
<1>5. CASE Encrypt
  <2>1. /\ phase = "plain" /\ phase' = "cipher" /\ sent' = block' /\ block = p
        /\ enc' = RangeOf(p) /\ block' \in Ciphertexts(enc')
    BY <1>1, <1>5 DEF Encrypt, Story
  <2>2. enc' = RangeOf(p)'
    BY <1>3, <2>1
  <2>3. (sent \in Ciphertexts(enc))'
    BY <1>3, <2>1, Zenon DEF Ciphertexts, Encrypted
  <2>4. Story(n, p)'
    BY <1>3, <1>4, <2>1, <2>2, <2>3 DEF Story
  <2>5. QED
    BY <2>4 DEF IInv
<1>6. CASE Decrypt
  <2>1. /\ phase = "cipher" /\ phase' = "recovered" /\ enc' = enc /\ sent' = sent
        /\ dec' = RangeOf(sent) /\ block' = Plaintext(dec')
        /\ enc = RangeOf(p) /\ sent \in Ciphertexts(enc) /\ method # "mosaic"
    BY <1>1, <1>6 DEF Decrypt, Story, Refused
  <2>2. enc' = RangeOf(p)' /\ (sent \in Ciphertexts(enc))'
    BY <1>3, <2>1, Zenon DEF Ciphertexts, Encrypted
  <2>3. (dec = RangeOf(sent))'
    BY <1>3, <2>1, Zenon DEF RangeOf
  <2>4. (block = Plaintext(dec))'
    <3>1. CASE Crypto \in InRangeOnly
      BY <1>3, <2>1, <3>1, Zenon DEF Plaintext
    <3>2. CASE Crypto \notin InRangeOnly
      <4>1. block' = Decrypted(dec')
        BY <2>1, <3>2, Zenon DEF Plaintext
      <4>2. (block = Decrypted(dec))'
        BY <1>3, <4>1, Zenon DEF Decrypted
      <4>3. QED
        BY <1>3, <3>2, <4>2, Zenon DEF Plaintext
    <3>3. QED
      BY <3>1, <3>2
  <2>5. Story(n, p)'
    BY <1>3, <1>4, <2>1, <2>2, <2>3, <2>4 DEF Story
  <2>6. QED
    BY <2>5 DEF IInv
<1>7. CASE UNCHANGED vars
  <2>1. /\ phase' = phase /\ block' = block /\ enc' = enc /\ dec' = dec /\ sent' = sent
        /\ UNCHANGED settings
    BY <1>7 DEF vars
  <2>2. Story(n, p)'
    BY <1>1, <1>2, <2>1, Zenon DEF Story, Settings, settings, RangeOf, Ciphertexts, Encrypted,
       Plaintext, Decrypted, Crypto, Minmax
  <2>3. QED
    BY <2>2 DEF IInv
<1>8. QED
  BY <1>5, <1>6, <1>7 DEF Next

THEOREM StoryIsInvariant == Spec => []IInv
BY InitIInv, NextIInv, PTL DEF Spec

-----------------------------------------------------------------------------
(* What the story says of the ciphertext and of the recovered block.       *)
LEMMA StoryFacts ==
  ASSUME NEW n \in Nat \ {0}, NEW p, Story(n, p)
  PROVE  /\ Settings(n) /\ Pairing
         /\ p \in [1 .. n -> Coefs] /\ Encodable(p)
         /\ phase # "plain" => Made(sent, RangeOf(p), n)
         /\ phase = "recovered" /\ sent \in [1 .. n -> Coefs]
              => ~Exempt /\ Made(block, RangeOf(sent), n)
<1>1. Settings(n) /\ Pairing
  BY Pairings DEF Story
<1>2. p \in [1 .. n -> Coefs] /\ Encodable(p)
  <2>1. CASE kind = "DC"
    <3>1. p \in [1 .. n -> Coefs]
      BY <2>1, CoefSets DEF Story
    <3>2. QED
      BY <2>1, <3>1, EncodableIs
  <2>2. CASE kind # "DC"
    <3>1. p \in [1 .. n -> ACs]
      BY <2>2 DEF Story
    <3>2. p \in [1 .. n -> Coefs] /\ \A k \in 1 .. n : -1023 <= p[k]
      BY <3>1, CoefSets
    <3>3. QED
      BY <3>2, EncodableIs
  <2>3. QED
    BY <2>1, <2>2
<1>3. ASSUME phase # "plain" PROVE Made(sent, RangeOf(p), n)
  <2>1. RangeOf(p).array \in [1 .. n -> Coefs]
    <3>1. RangeFacts(RangeOf(p), p, n)
      BY <1>1, <1>2, RangeFits, Zenon
    <3>2. QED
      BY <3>1, Zenon DEF RangeFacts
  <2>2. sent \in Ciphertexts(RangeOf(p))
    BY <1>3 DEF Story
  <2>3. QED
    BY <1>1, <2>1, <2>2, CiphertextsAreMade, Zenon
<1>4. ASSUME phase = "recovered", sent \in [1 .. n -> Coefs]
      PROVE  ~Exempt /\ Made(block, RangeOf(sent), n)
  <2>1. /\ RangeOf(sent).array \in [1 .. n -> Coefs]
        /\ Minmax # "NULL" => Within(RangeOf(sent).array, RangeOf(sent).min, RangeOf(sent).max)
    <3>1. RangeFacts(RangeOf(sent), sent, n)
      BY <1>1, <1>4, RangeFits, Zenon
    <3>2. QED
      BY <3>1, ZenonT(60) DEF RangeFacts
  <2>2. method # "mosaic" /\ block = Plaintext(RangeOf(sent))
    BY <1>4 DEF Story
  <2>3. Made(block, RangeOf(sent), n)
    BY <1>1, <2>1, <2>2, PlaintextIsMade, Zenon
  <2>4. ~Exempt
    BY <1>1, <2>2 DEF Exempt, Pairing
  <2>5. QED
    BY <2>3, <2>4
<1>5. QED
  BY <1>1, <1>2, <1>3, <1>4

(* Nothing that the encoder would refuse is written, but for the methods   *)
(* the property excepts.                                                   *)
THEOREM EncodableAlways == Spec => []StaysEncodable
<1>1. IInv => StaysEncodable
  <2> SUFFICES ASSUME IInv, kind = "DC" \/ Minmax # "raw", ~Exempt PROVE Encodable(block)
    BY DEF StaysEncodable, Exempt
  <2>0. PICK n \in Nat \ {0} : \E p : Story(n, p)
    BY DEF IInv
  <2>1. PICK p : Story(n, p)
    BY <2>0
  <2>2. /\ Settings(n) /\ p \in [1 .. n -> Coefs] /\ Encodable(p)
        /\ phase # "plain" => Made(sent, RangeOf(p), n)
    BY <2>1, StoryFacts, Zenon
  <2>3. CASE phase = "plain"
    BY <2>1, <2>2, <2>3 DEF Story
  <2>4. CASE phase # "plain"
    <3>1. sent \in [1 .. n -> Coefs] /\ Encodable(sent)
      BY <2>2, <2>4, MadeFits, Zenon
    <3>2. CASE phase = "cipher"
      BY <2>1, <3>1, <3>2 DEF Story
    <3>3. CASE phase = "recovered"
      <4>1. Made(block, RangeOf(sent), n)
        BY <2>1, <3>1, <3>3, StoryFacts, Zenon
      <4>2. QED
        BY <2>2, <3>1, <4>1, MadeFits, Zenon
    <3>4. QED
      BY <2>1, <2>4, <3>2, <3>3 DEF Story
  <2>5. QED
    BY <2>3, <2>4
<1>2. QED
  BY <1>1, StoryIsInvariant, PTL

(* With drpe no more bits vary in the ciphertext than in the plaintext.    *)
LEMMA RawNests ==
  ASSUME NEW n \in Nat \ {0}, Settings(n), Minmax = "raw", NEW a \in [1 .. n -> Coefs],
         NEW s, Made(s, RangeOf(a), n)
  PROVE  NumBits(ObservedMin(s), ObservedMax(s)) <= NumBits(ObservedMin(a), ObservedMax(a))
<1> DEFINE lo == ObservedMin(a)
           hi == ObservedMax(a)
<1>1. Bounds(lo, hi) /\ \A k \in 1 .. n : a[k] \in lo .. hi
  BY Observed, Zenon
<1>2. keystream \in [1 .. n -> Int] /\ Pairing
  BY Pairings DEF Settings
<1>3. RangeOf(a).array = a /\ RangeOf(a).min = lo /\ RangeOf(a).max = hi
  <2>1. RangeFacts(RangeOf(a), a, n)
    BY RangeFits, Zenon
  <2>2. QED
    BY <2>1, Zenon DEF RangeFacts
<1> HIDE DEF lo, hi
<1>4. s = drpe_all(a, keystream, lo, hi) \/ s = drpe_nonzero(a, keystream, lo, hi)
  <2>1. Crypto \in {"drpe_all", "drpe_nonzero"}
    BY <1>2 DEF Pairing
  <2>2. QED
    BY <1>3, <2>1 DEF Made, InRangeOnly
<1>5. /\ drpe_all(a, keystream, lo, hi) \in [1 .. n -> Int]
      /\ DrpeMakes(drpe_all(a, keystream, lo, hi), a, keystream, n, lo, hi)
      /\ drpe_nonzero(a, keystream, lo, hi) \in [1 .. n -> Int]
      /\ DrpeMakes(drpe_nonzero(a, keystream, lo, hi), a, keystream, n, lo, hi)
  BY <1>1, <1>2, DrpeFunctions, Zenon
<1>6. s \in [1 .. n -> Int] /\ DrpeMakes(s, a, keystream, n, lo, hi)
  BY <1>4, <1>5
<1>7. s \in [1 .. n -> Coefs] /\ \A k \in 1 .. n : Spread(lo, hi, s[k])
  BY <1>1, <1>2, <1>6, DrpeSpreads
<1>8. NumBits(ObservedMin(s), ObservedMax(s)) <= NumBits(lo, hi)
  BY <1>1, <1>7, DrpeNests
<1>9. QED
  BY <1>8 DEF lo, hi

(* Decryption never has more to vary than encryption had.                  *)
THEOREM RangesAlwaysNest == Spec => []RangesNest
<1>1. IInv => RangesNest
  <2> SUFFICES ASSUME IInv PROVE RangesNest
    OBVIOUS
  <2>0. PICK n \in Nat \ {0} : \E p : Story(n, p)
    BY DEF IInv
  <2>1. PICK p : Story(n, p)
    BY <2>0
  <2>2. /\ Settings(n) /\ Pairing /\ p \in [1 .. n -> Coefs]
        /\ phase # "plain" => Made(sent, RangeOf(p), n)
    BY <2>1, StoryFacts, Zenon
  <2>3. CASE phase = "plain"
    BY <2>3 DEF RangesNest
  <2>4. CASE phase # "plain"
    <3> DEFINE r == RangeOf(p)
    <3>1. enc = r /\ (Minmax # "NULL" => Within(enc.array, enc.min, enc.max))
      <4>1. Minmax # "NULL" => Within(r.array, r.min, r.max)
        <5>1. RangeFacts(r, p, n)
          BY <2>2, RangeFits, Zenon
        <5>2. QED
          BY <5>1, Zenon DEF RangeFacts
      <4>2. enc = r
        BY <2>1, <2>4 DEF Story
      <4>3. QED
        BY <4>1, <4>2, Zenon
    <3>2. ASSUME phase = "recovered", Minmax # "NULL"
          PROVE  /\ Within(dec.array, dec.min, dec.max)
                 /\ Minmax # "raw" => dec.array = sent /\ enc.min <= dec.min /\ dec.max <= enc.max
                 /\ Minmax = "raw" => NumBits(dec.min, dec.max) <= NumBits(enc.min, enc.max)
      <4> DEFINE q == RangeOf(sent)
      <4>1. dec = q /\ enc = r /\ method # "mosaic"
        BY <2>1, <2>4, <3>2 DEF Story
      <4>2. ~Exempt
        BY <2>2, <4>1 DEF Exempt, Pairing
      <4>3. /\ sent \in [1 .. n -> Coefs]
            /\ Minmax \in {"poweroftwo", "bitmask"} => Within(sent, r.min, r.max)
        BY <2>2, <2>4, <4>2, MadeFits, Zenon
      <4>4. Within(q.array, q.min, q.max)
        <5>1. RangeFacts(q, sent, n)
          BY <2>2, <4>3, RangeFits, Zenon
        <5>2. QED
          BY <3>2, <5>1, Zenon DEF RangeFacts
      <4>5. CASE Minmax \in {"poweroftwo", "bitmask"}
        <5>1. Nested(q, r, sent)
          BY <2>2, <4>3, <4>5, RangeNests, Zenon
        <5> HIDE DEF q, r
        <5>2. QED
          BY <4>1, <4>4, <4>5, <5>1 DEF Nested
      <4>6. CASE Minmax = "raw"
        <5>1. /\ r.min = ObservedMin(p) /\ r.max = ObservedMax(p)
              /\ q.min = ObservedMin(sent) /\ q.max = ObservedMax(sent)
          <6>1. RangeFacts(r, p, n) /\ RangeFacts(q, sent, n)
            BY <2>2, <4>3, RangeFits, Zenon
          <6> HIDE DEF q, r
          <6>2. QED
            BY <4>6, <6>1 DEF RangeFacts
        <5>2. NumBits(ObservedMin(sent), ObservedMax(sent))
                <= NumBits(ObservedMin(p), ObservedMax(p))
          BY <2>2, <2>4, <4>6, RawNests, Zenon
        <5> HIDE DEF q, r
        <5>3. NumBits(dec.min, dec.max) <= NumBits(enc.min, enc.max)
          BY <4>1, <5>1, <5>2, Zenon
        <5>4. QED
          BY <4>1, <4>4, <4>6, <5>3
      <4>7. QED
        BY <2>2, <3>2, <4>5, <4>6 DEF Pairing
    <3>3. QED
      BY <3>1, <3>2, Zenon DEF RangesNest
  <2>5. QED
    BY <2>3, <2>4
<1>2. QED
  BY <1>1, StoryIsInvariant, PTL

(* Under the same parameters decryption recovers the block.                *)
THEOREM RecoveredUnderSameParameters == Spec => []RecoversUnderSameParameters
<1>1. IInv => RecoversUnderSameParameters
  <2> SUFFICES ASSUME IInv, phase = "recovered", Crypto \in Elementwise, SameParameters
               PROVE  \A k \in Positions : block[k] = enc.array[k] \/ LeftAlone(k)
    BY DEF RecoversUnderSameParameters
  <2>0. PICK n \in Nat \ {0} : \E p : Story(n, p)
    BY DEF IInv
  <2>1. PICK p : Story(n, p)
    BY <2>0
  <2> DEFINE r == RangeOf(p)
             q == RangeOf(sent)
  <2>2. /\ Settings(n) /\ Pairing /\ p \in [1 .. n -> Coefs]
        /\ Made(sent, r, n)
    BY <2>1, StoryFacts, Zenon
  <2>3. /\ enc = r /\ dec = q /\ method # "mosaic"
        /\ sent \in Ciphertexts(r) /\ block = Plaintext(q)
    BY <2>1 DEF Story
  <2>4. ~Exempt
    BY <2>2, <2>3 DEF Exempt, Pairing
  <2>5. /\ sent \in [1 .. n -> Coefs]
        /\ Minmax \in {"poweroftwo", "bitmask"} => Within(sent, r.min, r.max)
    BY <2>2, <2>4, MadeFits, Zenon
  <2>6. keystream \in [1 .. n -> Int]
    BY <2>2 DEF Settings
  <2>7. sent = Encrypted(r) /\ block = Decrypted(q)
    <3>1. Crypto \notin InRangeOnly
      BY DEF Elementwise, InRangeOnly
    <3>2. QED
      BY <2>3, <3>1 DEF Ciphertexts, Plaintext
  <2>8. /\ r.array \in [1 .. n -> Coefs] /\ Bounds(r.min, r.max)
        /\ Minmax # "NULL" => Within(r.array, r.min, r.max)
        /\ Minmax = "NULL" => r.array = p /\ r.min = 0 /\ r.max = 0
        /\ Minmax = "raw" => r.array = p /\ r.min = ObservedMin(p) /\ r.max = ObservedMax(p)
    <3>1. RangeFacts(r, p, n)
      BY <2>2, RangeFits, Zenon
    <3> HIDE DEF r
    <3>2. QED
      BY <3>1 DEF RangeFacts
  <2>9. /\ Minmax = "NULL" => q.array = sent /\ q.min = 0 /\ q.max = 0
        /\ Minmax = "raw" => q.array = sent /\ q.min = ObservedMin(sent) /\ q.max = ObservedMax(sent)
    <3>1. RangeFacts(q, sent, n)
      BY <2>2, <2>5, RangeFits, Zenon
    <3> HIDE DEF q
    <3>2. QED
      BY <3>1 DEF RangeFacts
  <2>10. Minmax \in {"poweroftwo", "bitmask"} => q.array = sent
    BY <2>2, <2>5, RangeNests, Zenon DEF Nested
  <2>11. IF Minmax = "raw" THEN NumBits(q.min, q.max) = NumBits(r.min, r.max)
                           ELSE q.min = r.min /\ q.max = r.max
    BY <2>3, Zenon DEF SameParameters
  <2> HIDE DEF r, q
  <2>12. CASE Crypto = "noop"
    <3>1. block = q.array /\ sent = r.array /\ Minmax = "NULL"
      BY <2>2, <2>7, <2>12 DEF Encrypted, Decrypted, Pairing
    <3>2. QED
      BY <2>3, <2>9, <3>1
  <2>13. CASE Crypto \in {"drpe_all", "drpe_nonzero"}
    <3>1. Minmax = "raw"
      BY <2>2, <2>13 DEF Pairing, Nulls
    <3> DEFINE lo == ObservedMin(p)
               hi == ObservedMax(p)
    <3>2. Bounds(lo, hi) /\ \A k \in 1 .. n : p[k] \in lo .. hi
      BY <2>2, Observed, Zenon
    <3>3. NumBits(ObservedMin(sent), ObservedMax(sent)) = NumBits(lo, hi)
      BY <2>8, <2>9, <2>11, <3>1
    <3>4. \/ sent = drpe_all(p, keystream, lo, hi) /\ Crypto = "drpe_all"
          \/ sent = drpe_nonzero(p, keystream, lo, hi) /\ Crypto = "drpe_nonzero"
      BY <2>7, <2>8, <2>13, <3>1, Zenon DEF Encrypted
    <3> HIDE DEF lo, hi
    <3>5. /\ drpe_all(p, keystream, lo, hi) \in [1 .. n -> Int]
          /\ DrpeMakes(drpe_all(p, keystream, lo, hi), p, keystream, n, lo, hi)
          /\ drpe_nonzero(p, keystream, lo, hi) \in [1 .. n -> Int]
          /\ DrpeMakes(drpe_nonzero(p, keystream, lo, hi), p, keystream, n, lo, hi)
      BY <2>2, <2>6, <3>2, DrpeFunctions, Zenon
    <3>6. sent \in [1 .. n -> Int] /\ DrpeMakes(sent, p, keystream, n, lo, hi)
      BY <3>4, <3>5, Zenon
    <3>7. /\ sent = drpe_all(p, keystream, lo, hi)
               => drpe_all(sent, keystream, ObservedMin(sent), ObservedMax(sent)) = p
          /\ sent = drpe_nonzero(p, keystream, lo, hi)
               => drpe_nonzero(sent, keystream, ObservedMin(sent), ObservedMax(sent)) = p
      <4>1. DrpeUndone(sent, p, keystream, lo, hi)
        BY <2>2, <2>6, <3>2, <3>3, <3>6, DrpeBack, Zenon
      <4>2. QED
        BY <4>1, Zenon DEF DrpeUndone
    <3>8. \/ block = drpe_all(sent, keystream, ObservedMin(sent), ObservedMax(sent))
               /\ Crypto = "drpe_all"
          \/ block = drpe_nonzero(sent, keystream, ObservedMin(sent), ObservedMax(sent))
               /\ Crypto = "drpe_nonzero"
      BY <2>7, <2>9, <2>13, <3>1, Zenon DEF Decrypted
    <3>9. block = p
      BY <3>4, <3>7, <3>8
    <3>10. QED
      BY <2>3, <2>8, <3>1, <3>9
  <2>14. CASE Crypto = "fpe_nonzero"
    <3> DEFINE b == r.array
               lo == r.min
               hi == r.max
    <3>1. Minmax = "NULL" \/ Minmax = "poweroftwo"
      BY <2>2, <2>14 DEF Pairing
    <3>2. q.array = sent /\ q.min = lo /\ q.max = hi
      BY <2>9, <2>10, <2>11, <3>1
    <3>3. sent = fpe_encrypt_nonzero(b, keystream, lo, hi)
      BY <2>7, <2>14, Zenon DEF Encrypted
    <3>4. block = fpe_decrypt_nonzero(sent, keystream, lo, hi)
      BY <2>7, <2>14, <3>2, Zenon DEF Decrypted
    <3>5. /\ b \in [1 .. n -> Coefs] /\ Bounds(lo, hi)
          /\ Within(b, lo, hi) \/ (lo = 0 /\ hi = 0)
      BY <2>8, <3>1
    <3>6. enc.array = b /\ enc.min = lo /\ enc.max = hi
      BY <2>3
    <3>7. DOMAIN block = 1 .. n
      BY <2>5, <3>4 DEF fpe_decrypt_nonzero
    <3> HIDE DEF b, lo, hi
    <3>8. ASSUME NEW k \in 1 .. n PROVE block[k] = enc.array[k] \/ LeftAlone(k)
      <4>1. \/ fpe_decrypt_nonzero(fpe_encrypt_nonzero(b, keystream, lo, hi), keystream, lo, hi)[k]
                 = b[k]
            \/ b[k] # 0 /\ fpe_encrypt_all(b, keystream, lo, hi)[k] = 0
        <5>1. FpeUndone(b, keystream, lo, hi, k)
          BY <2>6, <3>5, FpeBack, Zenon
        <5>2. QED
          BY <5>1, Zenon DEF FpeUndone
      <4>2. block[k] = b[k] \/ (b[k] # 0 /\ fpe_encrypt_all(b, keystream, lo, hi)[k] = 0)
        BY <3>3, <3>4, <4>1
      <4>3. QED
        BY <2>14, <3>6, <4>2 DEF LeftAlone
    <3>9. QED
      BY <3>7, <3>8 DEF Positions
  <2>15. QED
    BY <2>2, <2>3, <2>12, <2>13, <2>14 DEF Elementwise, Pairing
<1>2. QED
  BY <1>1, StoryIsInvariant, PTL
=============================================================================
