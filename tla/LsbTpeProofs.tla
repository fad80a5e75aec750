---------------------------- MODULE LsbTpeProofs ----------------------------
(***************************************************************************)
(* Proofs about lsb.c and drpe_lsb.c, for blocks of any length, any        *)
(* coefficients an image may hold, any keystream, any keyed order and any  *)
(* value of the option -a: the assertions of the code hold, the distance   *)
(* of the sums is kept exactly while bits are flipped, the flipping ends   *)
(* only when no flip of the last bit tried helps any more, and decryption  *)
(* recovers every bit that no flip can have touched.                       *)
(*                                                                         *)
(* Both functions rest on the same fact: flipping a bit of the number that *)
(* a coefficient is taken for, below its sign, changes the coefficient by  *)
(* that power of two and no other of its bits, and what is written back    *)
(* can be read again (FlipCoefficient). The invariant then says of the     *)
(* pass that is under way either that the sum is already within half a     *)
(* flip, or that all elements visited so far have the bit as it is needed; *)
(* a flip that overshoots leaves at most half a flip (PassGoesOn). And it  *)
(* says what the past has to do with the block: its bits, but for those    *)
(* that were flipped, are those of the plaintext in reverse order with the *)
(* keystream added.                                                        *)
(***************************************************************************)
EXTENDS LsbTpe, CoefTheorems, FiniteSetTheorems

(* The number w is v with bit t flipped.                                   *)
BitFlipped(v, w, t) ==
  /\ Bit(w, t) # Bit(v, t) /\ w \div Two(t + 1) = v \div Two(t + 1)
  /\ \A j \in 0 .. 15 : j # t => Bit(w, j) = Bit(v, j)

(* Numbers that agree below bit t and above it agree in every other bit.   *)
LEMMA SameButOne ==
  ASSUME NEW v \in Int, NEW w \in Int, NEW t \in 0 .. 15,
         w % Two(t) = v % Two(t), w \div Two(t + 1) = v \div Two(t + 1)
  PROVE  \A j \in 0 .. 15 : j # t => Bit(w, j) = Bit(v, j)
<1> SUFFICES ASSUME NEW j \in 0 .. 15, j # t PROVE Bit(w, j) = Bit(v, j)
  OBVIOUS
<1>1. CASE j < t
  <2>1. t \in 0 .. 16 /\ j \in 0 .. t - 1
    BY <1>1
  <2>2. QED
    BY <2>1, SameBelow
<1>2. CASE j > t
  <2>1. t + 1 \in 0 .. 16 /\ j \in t + 1 .. 15
    BY <1>2
  <2>2. QED
    BY <2>1, SameAbove
<1>3. QED
  BY <1>1, <1>2

(* A bit that is clear can be set by addition, and nothing else changes.   *)
LEMMA AddBit ==
  ASSUME NEW v \in Int, NEW t \in 0 .. 15, Bit(v, t) = 0
  PROVE  Bit(v + Two(t), t) = 1 /\ BitFlipped(v, v + Two(t), t)
<1> DEFINE m == Two(t)
           w == v + m
<1>1. m \in Nat \ {0} /\ Two(t + 1) = 2 * m
  BY Doubling
<1>2. /\ v \div m \in Int /\ v % m \in 0 .. m - 1 /\ v = m * (v \div m) + (v % m)
  BY <1>1, Division
<1>3. w \in Int
  BY <1>1
<1>4. w \div m = (v \div m) + 1 /\ w % m = v % m
  <2> DEFINE q == v \div m
             r == v % m
  <2>0. q \in Int /\ r \in 0 .. m - 1 /\ v = m * q + r
    BY <1>2
  <2> HIDE DEF m, q, r
  <2> DEFINE p == q + 1
  <2>1. w = m * p + r /\ p \in Int /\ m \in Nat \ {0}
    BY <1>1, <2>0
  <2> HIDE DEF w, p
  <2>2. w \div m = p /\ w % m = r
    BY <1>3, <2>0, <2>1, DivisionUnique
  <2>3. QED
    BY <2>2 DEF p, q, r
<1>5. /\ v \div m = 2 * (v \div Two(t + 1)) /\ v \div Two(t + 1) \in Int
      /\ w \div m = 2 * (w \div Two(t + 1)) + Bit(w, t) /\ w \div Two(t + 1) \in Int
      /\ Bit(w, t) \in {0, 1}
  <2>1. /\ v \div m \in Int /\ v \div Two(t + 1) \in Int
        /\ v \div m = 2 * (v \div Two(t + 1)) + Bit(v, t)
    BY HalfStep
  <2>2. /\ Bit(w, t) \in {0, 1} /\ w \div m \in Int /\ w \div Two(t + 1) \in Int
        /\ w \div m = 2 * (w \div Two(t + 1)) + Bit(w, t)
    <3> HIDE DEF w
    <3>1. QED
      BY <1>3, HalfStep
  <2>3. QED
    BY <2>1, <2>2
<1> HIDE DEF m, w
<1>6. w \div Two(t + 1) = v \div Two(t + 1) /\ Bit(w, t) = 1
  BY <1>4, <1>5
<1>7. \A j \in 0 .. 15 : j # t => Bit(w, j) = Bit(v, j)
  BY <1>3, <1>4, <1>6, SameButOne DEF m
<1>8. Bit(w, t) = 1 /\ BitFlipped(v, w, t)
  BY <1>6, <1>7 DEF BitFlipped
<1>9. QED
  BY <1>8 DEF w, m

(* And a bit that is set can be cleared by subtraction.                    *)
LEMMA SubtractBit ==
  ASSUME NEW v \in Int, NEW t \in 0 .. 15, Bit(v, t) = 1
  PROVE  Bit(v - Two(t), t) = 0 /\ BitFlipped(v, v - Two(t), t)
<1> DEFINE m == Two(t)
           w == v - m
<1>1. m \in Nat \ {0} /\ Two(t + 1) = 2 * m
  BY Doubling
<1>2. /\ v \div m \in Int /\ v % m \in 0 .. m - 1 /\ v = m * (v \div m) + (v % m)
  BY <1>1, Division
<1>3. w \in Int
  BY <1>1
<1>4. w \div m = (v \div m) - 1 /\ w % m = v % m
  <2> DEFINE q == v \div m
             r == v % m
  <2>0. q \in Int /\ r \in 0 .. m - 1 /\ v = m * q + r
    BY <1>2
  <2> HIDE DEF m, q, r
  <2> DEFINE p == q - 1
  <2>1. w = m * p + r /\ p \in Int /\ m \in Nat \ {0}
    BY <1>1, <2>0
  <2> HIDE DEF w, p
  <2>2. w \div m = p /\ w % m = r
    BY <1>3, <2>0, <2>1, DivisionUnique
  <2>3. QED
    BY <2>2 DEF p, q, r
<1>5. /\ v \div m = 2 * (v \div Two(t + 1)) + 1 /\ v \div Two(t + 1) \in Int
      /\ w \div m = 2 * (w \div Two(t + 1)) + Bit(w, t) /\ w \div Two(t + 1) \in Int
      /\ Bit(w, t) \in {0, 1}
  <2>1. /\ v \div m \in Int /\ v \div Two(t + 1) \in Int
        /\ v \div m = 2 * (v \div Two(t + 1)) + Bit(v, t)
    BY HalfStep
  <2>2. /\ Bit(w, t) \in {0, 1} /\ w \div m \in Int /\ w \div Two(t + 1) \in Int
        /\ w \div m = 2 * (w \div Two(t + 1)) + Bit(w, t)
    <3> HIDE DEF w
    <3>1. QED
      BY <1>3, HalfStep
  <2>3. QED
    BY <2>1, <2>2
<1> HIDE DEF m, w
<1>6. w \div Two(t + 1) = v \div Two(t + 1) /\ Bit(w, t) = 0
  BY <1>4, <1>5
<1>7. \A j \in 0 .. 15 : j # t => Bit(w, j) = Bit(v, j)
  BY <1>3, <1>4, <1>6, SameButOne DEF m
<1>8. Bit(w, t) = 0 /\ BitFlipped(v, w, t)
  BY <1>6, <1>7 DEF BitFlipped
<1>9. QED
  BY <1>8 DEF w, m

(* Shifting a number to the left and filling in a bit.                     *)
LEMMA DoubleBits ==
  ASSUME NEW x \in Int, NEW b \in {0, 1}
  PROVE  Bit(2 * x + b, 0) = b /\ \A j \in 0 .. 14 : Bit(2 * x + b, j + 1) = Bit(x, j)
<1> DEFINE w == 2 * x + b
<1>1. w \in Int /\ 2 \in Nat \ {0} /\ b \in 0 .. 2 - 1
  OBVIOUS
<1>2. w \div 2 = x /\ w % 2 = b
  BY <1>1
<1> HIDE DEF w
<1>3. Bit(w, 0) = b
  <2>1. w \div 1 = w
    BY <1>1
  <2>2. Bit(w, 0) = (w \div Two(0)) % 2 /\ Two(0) = 1
    BY Named, Powers
  <2>3. QED
    BY <1>2, <2>1, <2>2
<1>4. ASSUME NEW j \in 0 .. 14 PROVE Bit(w, j + 1) = Bit(x, j)
  <2>1. Two(j) \in Nat \ {0} /\ Two(j + 1) = 2 * Two(j)
    BY Doubling
  <2> DEFINE a == Two(j)
  <2>2. (w \div 2) \div a = w \div (2 * a)
    <3> HIDE DEF a
    <3>1. a \in Nat \ {0}
      BY <2>1 DEF a
    <3>2. QED
      BY <1>1, <3>1, DivideTwice
  <2>3. Bit(w, j + 1) = (w \div Two(j + 1)) % 2 /\ Bit(x, j) = (x \div Two(j)) % 2
    BY Named
  <2>4. w \div Two(j + 1) = x \div Two(j)
    BY <1>2, <2>1, <2>2, Zenon
  <2>5. QED
    BY <2>3, <2>4, Zenon
<1>5. QED
  BY <1>3, <1>4 DEF w

(* Reversed(val, n, r): the n low bits of r are those of val, reversed.    *)
Reversed(val, n, r) ==
  r \in Int /\ r \div Two(n) = val \div Two(n)
  /\ \A j \in 0 .. n - 1 : Bit(r, j) = Bit(val, n - 1 - j)

(* The loop of lsb_reverse_uint16, as the function it computes.            *)
LEMMA ReverseLow ==
  ASSUME NEW val \in Int, NEW n \in 0 .. 16, NEW f,
         f[0] = 0, \A t \in 1 .. n : f[t] = 2 * f[t - 1] + Bit(val, t - 1)
  PROVE  /\ f[n] \in Int /\ 0 <= f[n] /\ f[n] < Two(n)
         /\ \A j \in 0 .. n - 1 : Bit(f[n], j) = Bit(val, n - 1 - j)
<1> DEFINE P(m) == /\ f[m] \in Int /\ 0 <= f[m] /\ f[m] < Two(m)
                   /\ \A j \in 0 .. m - 1 : Bit(f[m], j) = Bit(val, m - 1 - j)
           G == {m \in Nat : m <= n => P(m)}
<1>1. 0 \in G
  BY Powers
<1>2. ASSUME NEW m \in Nat, m \in G PROVE m + 1 \in G
  <2> SUFFICES ASSUME m + 1 <= n PROVE P(m + 1)
    OBVIOUS
  <2>1. P(m)
    BY <1>2
  <2> DEFINE x == f[m]
             b == Bit(val, m)
             w == f[m + 1]
  <2>2. m \in 0 .. 15 /\ m + 1 \in 1 .. n /\ m + 1 - 1 = m
    BY <2>1
  <2>3. b \in {0, 1}
    BY <2>2, HalfStep
  <2>4. w = 2 * x + b
    BY <2>2
  <2>5. Two(m) \in Nat \ {0} /\ Two(m + 1) = 2 * Two(m)
    BY <2>2, Doubling
  <2>6. w \in Int /\ 0 <= w /\ w < Two(m + 1)
    BY <2>1, <2>3, <2>4, <2>5
  <2>7. Bit(w, 0) = b /\ \A j \in 0 .. 14 : Bit(w, j + 1) = Bit(x, j)
    <3>1. x \in Int
      BY <2>1
    <3> HIDE DEF x, b, w
    <3>2. QED
      BY <3>1, <2>3, <2>4, DoubleBits
  <2>8. ASSUME NEW j \in 0 .. m PROVE Bit(w, j) = Bit(val, m - j)
    <3>1. CASE j = 0
      BY <2>7, <3>1
    <3>2. CASE j # 0
      <4> DEFINE k == j - 1
      <4>1. k \in 0 .. m - 1 /\ k \in 0 .. 14 /\ k + 1 = j /\ m - 1 - k = m - j
        BY <2>2, <3>2
      <4>2. Bit(w, k + 1) = Bit(x, k)
        BY <4>1, <2>7
      <4>3. Bit(x, k) = Bit(val, m - 1 - k)
        BY <4>1, <2>1
      <4>4. QED
        BY <4>1, <4>2, <4>3
    <3>3. QED
      BY <3>1, <3>2
  <2>9. (m + 1) - 1 = m /\ \A j \in 0 .. (m + 1) - 1 : Bit(w, j) = Bit(val, m + 1 - 1 - j)
    BY <2>2, <2>8
  <2>10. QED
    BY <2>6, <2>9
<1>3. Nat \subseteq G
  <2> HIDE DEF G
  <2>1. QED
    BY <1>1, <1>2, Induction
<1>4. P(n)
  BY <1>3
<1>5. QED
  BY <1>4

(* lsb_reverse_uint16 reverses the n low bits and leaves those above.      *)
LEMMA ReverseBits ==
  ASSUME NEW val \in Int, NEW n \in 0 .. 16
  PROVE  Reversed(val, n, lsb_reverse_uint16(val, n))
<1> DEFINE low[t \in 0 .. n] == IF t = 0 THEN 0 ELSE 2 * low[t - 1] + Bit(val, t - 1)
           r == lsb_reverse_uint16(val, n)
           h == [k \in 1 .. n |-> [v \in Int |-> 2 * v + Bit(val, k - 1)]]
<1>1. \A k \in 1 .. n : Bit(val, k - 1) \in Int
  <2> SUFFICES ASSUME NEW k \in 1 .. n PROVE Bit(val, k - 1) \in Int
    OBVIOUS
  <2>1. k - 1 \in 0 .. 15
    OBVIOUS
  <2>2. Bit(val, k - 1) \in {0, 1}
    BY <2>1, HalfStep
  <2>3. QED
    BY <2>2
<1>2. h \in [1 .. n -> [Int -> Int]] /\ \A k \in 1 .. n, v \in Int : h[k][v] = 2 * v + Bit(val, k - 1)
  BY <1>1
<1> DEFINE Z == Int
<1>3. 0 \in Z /\ h \in Rules(Z, n) /\ n \in Nat
  BY <1>2 DEF Rules
<1> HIDE DEF Z, h
<1>4. PICK f : f \in [0 .. n -> Z] /\ Follows(f, n, 0, h)
  BY <1>3, Recursion
<1>5. /\ f[0] = 0 /\ \A t \in 1 .. n : f[t] = 2 * f[t - 1] + Bit(val, t - 1)
      /\ f = [t \in 0 .. n |-> f[t]]
  <2>1. \A k \in 1 .. n : f[k - 1] \in Int
    BY <1>4 DEF Z
  <2>2. \A k \in 1 .. n : f[k] = 2 * f[k - 1] + Bit(val, k - 1)
    BY <1>2, <1>4, <2>1 DEF Follows
  <2>3. f = [k \in 0 .. n |-> f[k]] /\ f[0] = 0
    BY <1>4 DEF Follows
  <2>4. QED
    BY <2>2, <2>3
<1>6. f = [t \in 0 .. n |-> IF t = 0 THEN 0 ELSE 2 * f[t - 1] + Bit(val, t - 1)]
  <2>1. f[0] = 0 /\ \A t \in 1 .. n : f[t] = 2 * f[t - 1] + Bit(val, t - 1)
    BY <1>5
  <2>2. \A k \in 0 .. n : f[k] = IF k = 0 THEN 0 ELSE 2 * f[k - 1] + Bit(val, k - 1)
    <3> SUFFICES ASSUME NEW k \in 0 .. n
                 PROVE  f[k] = IF k = 0 THEN 0 ELSE 2 * f[k - 1] + Bit(val, k - 1)
      OBVIOUS
    <3>1. CASE k = 0
      BY <2>1, <3>1
    <3>2. CASE k # 0
      BY <2>1, <3>2
    <3>3. QED
      BY <3>1, <3>2
  <2>3. QED
    BY <1>5, <2>2, Zenon
<1>7. low = [t \in 0 .. n |-> IF t = 0 THEN 0 ELSE 2 * low[t - 1] + Bit(val, t - 1)]
  BY <1>6
<1>8. r = (val \div Two(n)) * Two(n) + low[n]
  BY DEF lsb_reverse_uint16, Two
<1> HIDE DEF low, r
<1>9. low[0] = 0 /\ \A t \in 1 .. n : low[t] = 2 * low[t - 1] + Bit(val, t - 1)
  <2> DEFINE g == low
  <2>1. g = [t \in 0 .. n |-> IF t = 0 THEN 0 ELSE 2 * g[t - 1] + Bit(val, t - 1)]
    BY <1>7
  <2> HIDE DEF g
  <2>2. g[0] = 0 /\ \A t \in 1 .. n : g[t] = 2 * g[t - 1] + Bit(val, t - 1)
    BY <2>1
  <2>3. QED
    BY <2>2 DEF g
<1>10. /\ low[n] \in Int /\ 0 <= low[n] /\ low[n] < Two(n)
       /\ \A j \in 0 .. n - 1 : Bit(low[n], j) = Bit(val, n - 1 - j)
  BY <1>9, ReverseLow
<1> DEFINE m == Two(n)
           q == val \div m
           l == low[n]
<1>11. m \in Nat \ {0} /\ q \in Int
  <2>1. n \in 0 .. 16 /\ 0 \in 0 .. n
    OBVIOUS
  <2>2. m \in Nat \ {0}
    BY <2>1, PowersGrow
  <2>3. QED
    BY <2>2, Division
<1>12. l \in 0 .. m - 1 /\ r = m * q + l /\ r \in Int
  <2>1. l \in Int /\ 0 <= l /\ l < m
    BY <1>10
  <2>2. r = q * m + l
    BY <1>8
  <2> HIDE DEF m, q, l
  <2>3. QED
    BY <1>11, <2>1, <2>2
<1>13. r \div m = q /\ r % m = l
  <2> HIDE DEF m, q, l
  <2>1. QED
    BY <1>11, <1>12, DivisionUnique
<1>14. l % m = l
  <2> HIDE DEF m, q, l
  <2>1. QED
    BY <1>11, <1>12
<1>15. \A j \in 0 .. n - 1 : Bit(r, j) = Bit(l, j)
  <2>1. r % Two(n) = l % Two(n) /\ r \in Int /\ l \in Int
    BY <1>10, <1>12, <1>13, <1>14
  <2> HIDE DEF l
  <2>2. QED
    BY <2>1, SameBelow
<1>16. Reversed(val, n, r)
  BY <1>10, <1>12, <1>13, <1>15 DEF Reversed
<1>17. QED
  BY <1>16 DEF r

(* The conversion to uint16_t keeps the bits.                              *)
LEMMA Uint16Bits ==
  ASSUME NEW v \in Int
  PROVE  Uint16(v) \in Int /\ \A t \in 0 .. 15 : Bit(Uint16(v), t) = Bit(v, t)
<1> DEFINE n == 16
<1>1. Uint16(v) = v % Two(n) /\ n \in 0 .. 16
  BY DEF Uint16, Width, Two
<1>2. v % Two(n) \in 0 .. Two(n) - 1 /\ \A t \in 0 .. n - 1 : Bit(v % Two(n), t) = Bit(v, t)
  <2> HIDE DEF n
  <2>1. QED
    BY <1>1, LowPart
<1>3. Two(n) \in Nat
  BY Powers
<1>4. v % Two(n) \in Int
  BY <1>2, <1>3
<1>5. QED
  BY <1>1, <1>2, <1>4

(* The sign repaired, a number with the bits of x is x.                    *)
LEMMA FixedUp ==
  ASSUME NEW u \in Int, NEW x \in Int, NEW p \in 0 .. 15, Fits(x, p),
         \A j \in 0 .. 15 : Bit(u, j) = Bit(x, j)
  PROVE  drpe_fixup_sign_bit(u, p) = x
<1> DEFINE w == drpe_fixup_sign_bit(u, p)
<1>1. w \in Int /\ Fits(w, p) /\ \A t \in 0 .. p : Bit(w, t) = Bit(u, t)
  BY SignFixed
<1> HIDE DEF w
<1>2. \A t \in 0 .. p : Bit(w, t) = Bit(x, t)
  BY <1>1
<1>3. w = x
  BY <1>1, <1>2, Determined
<1>4. QED
  BY <1>3 DEF w

(* A number with the high bits of one that fits below a sign at p fits     *)
(* too.                                                                    *)
LEMMA FitsAbove ==
  ASSUME NEW v \in Int, NEW x \in Int, NEW p \in 0 .. 15, NEW t \in 0 .. p - 1,
         Fits(v, p), x \div Two(t + 1) = v \div Two(t + 1)
  PROVE  Fits(x, p)
<1>1. t + 1 \in 0 .. 16 /\ p \in t + 1 .. 16 /\ p \in t + 1 .. 15
  OBVIOUS
<1>2. x \div Two(p) = v \div Two(p)
  BY <1>1, SameAbove
<1>3. v \div Two(p) \in {0, -1}
  <2>1. v < 0 \/ v >= 0
    OBVIOUS
  <2>2. QED
    BY <2>1, SignBit
<1>4. Two(p) \in Nat \ {0}
  BY Doubling
<1>5. x \div Two(p) \in Int /\ x % Two(p) \in 0 .. Two(p) - 1 /\ x = Two(p) * (x \div Two(p)) + (x % Two(p))
  BY <1>4, Division
<1> DEFINE m == Two(p)
           q == x \div m
           r == x % m
<1>6. q \in {0, -1} /\ r \in 0 .. m - 1 /\ x = m * q + r /\ m \in Nat \ {0}
  BY <1>2, <1>3, <1>4, <1>5
<1>7. -m <= x /\ x < m
  <2> HIDE DEF m, q, r
  <2>1. QED
    BY <1>6
<1>8. QED
  BY <1>7 DEF Fits

(* drpe_lsb.c: a flip of a bit below the sign, made on the unsigned        *)
(* number, is one of the coefficient when the sign has been repaired.      *)
LEMMA DrpeFlip ==
  ASSUME NEW v \in Int, NEW p \in 0 .. 15, Fits(v, p), NEW t \in 0 .. p - 1
  PROVE  /\ drpe_fixup_sign_bit(Uint16(v), p) = v
         /\ Bit(v, t) = 0 => /\ drpe_fixup_sign_bit(Uint16(v) + Two(t), p) = v + Two(t)
                             /\ Fits(v + Two(t), p)
         /\ Bit(v, t) = 1 => /\ drpe_fixup_sign_bit(Uint16(v) - Two(t), p) = v - Two(t)
                             /\ Fits(v - Two(t), p)
<1> DEFINE u == Uint16(v)
           m == Two(t)
<1>1. u \in Int /\ \A j \in 0 .. 15 : Bit(u, j) = Bit(v, j)
  BY Uint16Bits
<1>2. t \in 0 .. 15 /\ m \in Nat \ {0}
  BY Doubling
<1> HIDE DEF u
<1>3. drpe_fixup_sign_bit(u, p) = v
  BY <1>1, FixedUp
<1>4. ASSUME Bit(v, t) = 0
      PROVE  drpe_fixup_sign_bit(u + m, p) = v + m /\ Fits(v + m, p)
  <2>1. Bit(u, t) = 0
    BY <1>1, <1>2, <1>4
  <2>2. Bit(v + m, t) = 1 /\ BitFlipped(v, v + m, t)
    BY <1>2, <1>4, AddBit
  <2>3. Bit(u + m, t) = 1 /\ BitFlipped(u, u + m, t)
    BY <1>1, <1>2, <2>1, AddBit
  <2>4. u + m \in Int /\ v + m \in Int
    BY <1>1, <1>2
  <2> HIDE DEF m
  <2>5. \A j \in 0 .. 15 : Bit(u + m, j) = Bit(v + m, j)
    BY <1>1, <2>2, <2>3 DEF BitFlipped
  <2>6. Fits(v + m, p)
    BY <2>2, <2>4, FitsAbove DEF BitFlipped
  <2>7. QED
    BY <2>4, <2>5, <2>6, FixedUp
<1>5. ASSUME Bit(v, t) = 1
      PROVE  drpe_fixup_sign_bit(u - m, p) = v - m /\ Fits(v - m, p)
  <2>1. Bit(u, t) = 1
    BY <1>1, <1>2, <1>5
  <2>2. Bit(v - m, t) = 0 /\ BitFlipped(v, v - m, t)
    BY <1>2, <1>5, SubtractBit
  <2>3. Bit(u - m, t) = 0 /\ BitFlipped(u, u - m, t)
    BY <1>1, <1>2, <2>1, SubtractBit
  <2>4. u - m \in Int /\ v - m \in Int
    BY <1>1, <1>2
  <2> HIDE DEF m
  <2>5. \A j \in 0 .. 15 : Bit(u - m, j) = Bit(v - m, j)
    BY <1>1, <2>2, <2>3 DEF BitFlipped
  <2>6. Fits(v - m, p)
    BY <2>2, <2>4, FitsAbove DEF BitFlipped
  <2>7. QED
    BY <2>4, <2>5, <2>6, FixedUp
<1>6. QED
  BY <1>3, <1>4, <1>5 DEF u

(* Numbers of n bits: flipping one of the bits leaves n bits.              *)
LEMMA Below ==
  ASSUME NEW u \in Int, NEW n \in 0 .. 16
  PROVE  u \div Two(n) = 0 <=> 0 <= u /\ u < Two(n)
<1>1. n \in 0 .. 16 /\ 0 \in 0 .. n
  OBVIOUS
<1>2. Two(n) \in Nat \ {0}
  BY <1>1, PowersGrow
<1> DEFINE m == Two(n)
<1>3. u \div m \in Int /\ u % m \in 0 .. m - 1 /\ u = m * (u \div m) + (u % m)
  BY <1>2, Division
<1> HIDE DEF m
<1>4. m \in Nat \ {0}
  BY <1>2 DEF m
<1>5. ASSUME u \div m = 0 PROVE 0 <= u /\ u < m
  <2> DEFINE r == u % m
  <2>1. r \in 0 .. m - 1 /\ u = m * 0 + r
    BY <1>3, <1>5
  <2> HIDE DEF r
  <2>2. QED
    BY <1>4, <2>1
<1>6. ASSUME 0 <= u, u < m PROVE u \div m = 0
  <2>1. u = m * 0 + u /\ u \in 0 .. m - 1 /\ 0 \in Int
    BY <1>4, <1>6
  <2>2. QED
    BY <1>4, <2>1, DivisionUnique
<1>7. QED
  BY <1>5, <1>6 DEF m

(* A number with the high bits of one of n bits is of n bits.              *)
LEMMA StaysBelow ==
  ASSUME NEW u \in Int, NEW x \in Int, NEW n \in 0 .. 16, NEW t \in 0 .. n - 1,
         0 <= u, u < Two(n), x \div Two(t + 1) = u \div Two(t + 1)
  PROVE  0 <= x /\ x < Two(n)
<1>1. t + 1 \in 0 .. 16 /\ n \in t + 1 .. 16
  OBVIOUS
<1>2. x \div Two(n) = u \div Two(n)
  BY <1>1, SameAbove
<1>3. u \div Two(n) = 0
  BY Below
<1>4. QED
  BY <1>2, <1>3, Below

(* The powers of two up to the width are different.                        *)
LEMMA PowersDiffer ==
  ASSUME NEW m \in 0 .. 16, NEW n \in 0 .. 16, Two(m) = Two(n)
  PROVE  m = n
<1>1. ASSUME NEW i1 \in 0 .. 16, NEW j1 \in 0 .. 16, i1 < j1
      PROVE  Two(i1) # Two(j1)
  <2>1. i1 \in 0 .. 15 /\ i1 + 1 \in 0 .. j1
    BY <1>1
  <2>2. Two(i1) \in Nat \ {0} /\ Two(i1 + 1) = 2 * Two(i1)
    BY <2>1, Doubling
  <2>3. Two(i1 + 1) <= Two(j1) /\ Two(j1) \in Nat
    BY <2>1, PowersGrow
  <2>4. QED
    BY <2>2, <2>3
<1>2. m < n \/ n < m \/ m = n
  OBVIOUS
<1>3. QED
  BY <1>1, <1>2

(* minmax_signed_integer: a range of b bits has 2^b values.                *)
LEMMA SignedSize ==
  ASSUME NEW b \in 0 .. 11
  PROVE  SignedMax(b) - SignedMin(b) + 1 = Two(b)
<1>1. CASE b = 0
  BY <1>1, Powers DEF SignedMin, SignedMax
<1>2. CASE b # 0
  <2> DEFINE m == b - 1
  <2>1. m \in 0 .. 15 /\ m + 1 = b
    BY <1>2
  <2>2. Two(m) \in Nat \ {0} /\ Two(m + 1) = 2 * Two(m)
    BY <2>1, Doubling
  <2>3. SignedMin(b) = -Two(m) /\ SignedMax(b) = Two(m) - 1
    BY <1>2 DEF SignedMin, SignedMax, Two
  <2> HIDE DEF m
  <2>4. QED
    BY <2>1, <2>2, <2>3
<1>3. QED
  BY <1>1, <1>2

(* What the two functions make of a range: n bits vary, the sign is at p.  *)
Settled(c, lo, hi, n, p) ==
  /\ Bounds(lo, hi) /\ n \in 0 .. 11 /\ p \in 0 .. 10
  /\ c = "lsb" => /\ n <= 10 /\ lo = SignedMin(n) /\ hi = SignedMax(n)
                  /\ hi - lo + 1 = Two(n)
  /\ c = "drpe_lsb" => n <= p + 1 /\ (n = 0 <=> lo = hi)

(* What Start finds in a block: rg is the range. *)
RangeFound(rg, a, n, p) ==
  /\ RangeFor(rg, N) /\ Settled(cipher, rg.min, rg.max, n, p)
  /\ cipher = "lsb" => \A c \in 0 .. 10 : Within(a, SignedMin(c), SignedMax(c)) => rg.array = a
  /\ cipher = "drpe_lsb" => /\ rg.array = a
                            /\ n # 0 => \A k \in Positions : Fits(a[k], p)

(* The range function of either file finds a range for any block of an     *)
(* image, and the parameters that are computed from it fit it.             *)
LEMMA BlockRange ==
  ASSUME NEW a \in [Positions -> Coefs], cipher \in {"lsb", "drpe_lsb"}, N \in Nat \ {0}
  PROVE  LET rg == RangeOf(a)
         IN  RangeFound(rg, a, Bits(rg.min, rg.max), SignBitPosition(rg.min, rg.max))
<1> DEFINE rg == RangeOf(a)
           lo == rg.min
           hi == rg.max
           n == Bits(lo, hi)
           p == SignBitPosition(lo, hi)
<1>0. a \in [1 .. N -> Coefs]
  BY DEF Positions
<1>1. CASE cipher = "lsb"
  <2>1. rg = minmax_poweroftwo(a, 0, 10) /\ 10 \in 0 .. 11
    BY <1>1 DEF RangeOf, MinPower, MaxPower
  <2>2. RangeFor(rg, N) /\ \E b \in 0 .. 10 : lo = SignedMin(b) /\ hi = SignedMax(b)
    <3> DEFINE m == 10
    <3>1. rg = minmax_poweroftwo(a, 0, m) /\ m \in 0 .. 11
      BY <2>1
    <3> HIDE DEF m
    <3>2. /\ RangeFor(minmax_poweroftwo(a, 0, m), N)
          /\ \E b \in 0 .. m : /\ minmax_poweroftwo(a, 0, m).min = SignedMin(b)
                               /\ minmax_poweroftwo(a, 0, m).max = SignedMax(b)
      BY <1>0, <3>1, PowerFits
    <3>3. QED
      BY <3>1, <3>2 DEF m
  <2>3. PICK b \in 0 .. 10 : lo = SignedMin(b) /\ hi = SignedMax(b)
    BY <2>2
  <2>4. \A c \in 0 .. 10 : Within(a, SignedMin(c), SignedMax(c)) => rg.array = a
    <3> DEFINE m == 10
    <3>1. rg = minmax_poweroftwo(a, 0, m) /\ m \in 0 .. 11
      BY <2>1
    <3> HIDE DEF m
    <3>2. ASSUME NEW c \in 0 .. m, Within(a, SignedMin(c), SignedMax(c))
          PROVE  minmax_poweroftwo(a, 0, m).array = a
      BY <1>0, <3>1, <3>2, PowerNests
    <3>3. QED
      BY <3>1, <3>2 DEF m
  <2> HIDE DEF rg
  <2>5. b \in 0 .. 11 /\ b \in 0 .. 16
    BY <2>3
  <2>6. hi - lo + 1 = Two(b)
    BY <2>3, <2>5, SignedSize
  <2>7. n = b
    <3>1. n = CHOOSE d \in 0 .. Width : 2^d = hi - lo + 1
      BY <1>1 DEF Bits
    <3>2. Width = 16
      BY DEF Width
    <3>3. b \in 0 .. Width /\ 2^b = hi - lo + 1
      BY <2>5, <2>6, <3>2 DEF Two
    <3>4. n \in 0 .. Width /\ 2^n = hi - lo + 1
      BY <3>1, <3>3, Zenon
    <3>5. Two(n) = Two(b) /\ n \in 0 .. 16
      BY <2>6, <3>2, <3>4 DEF Two
    <3> HIDE DEF n
    <3>6. QED
      BY <2>5, <3>5, PowersDiffer
  <2>8. Bounds(lo, hi)
    BY <2>2 DEF RangeFor
  <2>9. p \in 0 .. 10
    <3> HIDE DEF lo, hi
    <3>1. QED
      BY <2>8, DrpeParameters
  <2>10. Settled(cipher, lo, hi, n, p)
    <3> HIDE DEF n, p, lo, hi
    <3>1. QED
      BY <1>1, <2>3, <2>6, <2>7, <2>8, <2>9 DEF Settled
  <2>11. QED
    BY <1>1, <2>2, <2>4, <2>10 DEF RangeFound, rg
<1>2. CASE cipher = "drpe_lsb"
  <2>1. rg = minmax_raw(a)
    BY <1>2 DEF RangeOf
  <2>2. RangeFor(rg, N) /\ rg.array = a
    BY <1>0, <2>1, RawFits
  <2>3. lo = ObservedMin(a) /\ hi = ObservedMax(a)
    BY <2>1 DEF minmax_raw, Ranged
  <2>4. \A k \in 1 .. N : a[k] \in lo .. hi
    BY <1>0, <2>3, Observed
  <2> HIDE DEF rg
  <2>5. Bounds(lo, hi)
    BY <2>2 DEF RangeFor
  <2>6. n = NumBits(lo, hi)
    BY <1>2 DEF Bits
  <2>7. /\ n = 0 <=> lo = hi
        /\ n \in 0 .. 11 /\ p \in 0 .. 10 /\ n <= p + 1
    <3> HIDE DEF lo, hi
    <3>1. /\ NumBits(lo, hi) = 0 <=> lo = hi
          /\ NumBits(lo, hi) \in 0 .. 11 /\ p \in 0 .. 10
          /\ lo # hi /\ SameSign(lo, hi) => NumBits(lo, hi) <= p
          /\ lo # hi /\ ~SameSign(lo, hi) => NumBits(lo, hi) = p + 1
      BY <2>5, DrpeParameters
    <3> HIDE DEF n, p
    <3>2. QED
      BY <2>6, <3>1
  <2>8. Settled(cipher, lo, hi, n, p)
    <3> HIDE DEF n, p, lo, hi
    <3>1. QED
      BY <1>2, <2>5, <2>7 DEF Settled
  <2>9. ASSUME n # 0, NEW k \in Positions PROVE Fits(a[k], p)
    <3>1. lo # hi /\ k \in 1 .. N
      BY <2>7, <2>9 DEF Positions
    <3>2. a[k] \in lo .. hi
      BY <2>4, <3>1
    <3> HIDE DEF lo, hi
    <3>3. QED
      BY <2>5, <3>1, <3>2, SpreadOfItself
  <2>10. QED
    BY <1>2, <2>2, <2>8, <2>9 DEF RangeFound, rg
<1>3. QED
  BY <1>1, <1>2

(* The argument of -a is brought within the bits that vary, in both files. *)
LEMMA FlippableBits ==
  ASSUME NEW n \in Nat, NEW p \in Nat, fcn_user_arg \in Int
  PROVE  LsbBits(n, p) \in 0 .. n
<1> DEFINE asked == IF fcn_user_arg < 0 THEN LSB_TPE_DEFAULT_NUM_BITS ELSE fcn_user_arg
<1>1. asked \in Nat
  BY DEF LSB_TPE_DEFAULT_NUM_BITS
<1> HIDE DEF asked
<1>2. ASSUME NEW a \in Nat, NEW b \in Nat
      PROVE  Min({a, b}) \in Nat /\ Min({a, b}) <= a /\ Min({a, b}) <= b
  <2> DEFINE S == {a, b}
  <2>1. S # {} /\ 0 \in Int /\ \A x \in S : x \in Int /\ 0 <= x
    OBVIOUS
  <2> HIDE DEF S
  <2>2. Min(S) \in S /\ \A x \in S : Min(S) <= x
    BY <2>1, LeastOf
  <2>3. QED
    BY <2>2 DEF S
<1>3. CASE cipher = "lsb"
  <2>1. LsbBits(n, p) = Min({asked, n})
    BY <1>3 DEF LsbBits, asked
  <2>2. QED
    BY <1>1, <1>2, <2>1
<1>4. CASE cipher # "lsb"
  <2> DEFINE w == Min({asked, p + 1})
             x == w - (p + 1 - n)
             S == {0, x}
  <2>1. LsbBits(n, p) = Max(S)
    BY <1>4 DEF LsbBits, asked
  <2>2. w \in Nat /\ w <= p + 1
    BY <1>1, <1>2
  <2>3. x \in Int /\ x <= n
    BY <2>2
  <2> HIDE DEF x
  <2>4. S # {} /\ n \in Int /\ \A y \in S : y \in Int /\ y <= n
    BY <2>3
  <2>5. 0 \in S
    OBVIOUS
  <2> HIDE DEF S
  <2>6. Max(S) \in S /\ \A y \in S : y <= Max(S)
    BY <2>4, GreatestOf
  <2>7. Max(S) \in Int /\ Max(S) <= n /\ 0 <= Max(S)
    BY <2>4, <2>5, <2>6
  <2>8. QED
    BY <2>1, <2>7
<1>5. QED
  BY <1>3, <1>4

(* Unsigned and Signed for given parameters, and the coefficients that a   *)
(* run can hold.                                                           *)
Number(c, lo, v) == IF c = "lsb" THEN v - lo ELSE Uint16(v)
Coefficient(c, lo, p, u) == IF c = "lsb" THEN u + lo ELSE drpe_fixup_sign_bit(u, p)
Valid(c, lo, hi, p, v) == v \in Coefs /\ IF c = "lsb" THEN lo <= v /\ v <= hi ELSE Fits(v, p)

SameNumberBut(c, lo, v, x, t) ==
  \A j \in 0 .. 15 : j # t => Bit(Number(c, lo, x), j) = Bit(Number(c, lo, v), j)

CanBeFlipped(c, lo, hi, p, v, t) ==
  LET u == Number(c, lo, v)
      m == Two(t)
  IN  /\ Coefficient(c, lo, p, u) = v
      /\ Bit(u, t) \in {0, 1}
      /\ Bit(u, t) = 0 => /\ Coefficient(c, lo, p, u + m) = v + m /\ Valid(c, lo, hi, p, v + m)
                          /\ Bit(Number(c, lo, v + m), t) = 1 /\ SameNumberBut(c, lo, v, v + m, t)
      /\ Bit(u, t) = 1 => /\ Coefficient(c, lo, p, u - m) = v - m /\ Valid(c, lo, hi, p, v - m)
                          /\ Bit(Number(c, lo, v - m), t) = 0 /\ SameNumberBut(c, lo, v, v - m, t)

(* What is within the range, or has its sign at p, is a coefficient.       *)
LEMMA SettledCoef ==
  ASSUME NEW c \in {"lsb", "drpe_lsb"}, NEW lo, NEW hi, NEW n, NEW p, Settled(c, lo, hi, n, p),
         NEW x \in Int, IF c = "lsb" THEN lo <= x /\ x <= hi ELSE Fits(x, p)
  PROVE  Valid(c, lo, hi, p, x)
<1>1. Bounds(lo, hi) /\ p \in 0 .. 10
  BY DEF Settled
<1>2. IsCoef(x)
  <2>1. CASE c = "lsb"
    BY <1>1, <2>1, CoefBetween DEF Bounds
  <2>2. CASE c # "lsb"
    <3> DEFINE m == 10
    <3>1. m \in 0 .. 15 /\ p \in 0 .. m /\ Fits(x, p)
      BY <1>1, <2>2
    <3> HIDE DEF m
    <3>2. Fits(x, m)
      BY <3>1, FitsMore
    <3>3. QED
      BY <3>2 DEF IsCoef, m
  <2>3. QED
    BY <2>1, <2>2
<1>3. QED
  BY <1>2 DEF Valid, Coefs

(* A bit below the sign can be flipped in either file: setting it adds the *)
(* power of two and clearing it subtracts it, the result is valid, and no  *)
(* other bit changes.                                                      *)
LEMMA FlipCoefficient ==
  ASSUME NEW c \in {"lsb", "drpe_lsb"}, NEW lo, NEW hi, NEW n, NEW p, Settled(c, lo, hi, n, p),
         NEW v, Valid(c, lo, hi, p, v), NEW t \in 0 .. 15,
         IF c = "lsb" THEN t < n ELSE t < n - 1
  PROVE  CanBeFlipped(c, lo, hi, p, v, t)
<1> DEFINE u == Number(c, lo, v)
           m == Two(t)
<1>1. v \in Int /\ m \in Nat \ {0} /\ n \in 0 .. 11 /\ p \in 0 .. 10 /\ lo \in Int /\ hi \in Int
  BY Doubling, BoundsAre DEF Valid, Coefs, Settled
<1>2. CASE c = "lsb"
  <2>1. u = v - lo /\ u \in Int /\ 0 <= u /\ u < Two(n)
    BY <1>1, <1>2 DEF Number, Valid, Settled
  <2>2. hi - lo + 1 = Two(n) /\ n \in 0 .. 16 /\ t \in 0 .. n - 1
    BY <1>1, <1>2 DEF Settled
  <2>3. \A x \in Int : Number(c, lo, x) = x - lo /\ Coefficient(c, lo, p, x) = x + lo
    BY <1>2 DEF Number, Coefficient
  <2>4. ASSUME Bit(u, t) = 0
        PROVE  /\ Coefficient(c, lo, p, u + m) = v + m /\ Valid(c, lo, hi, p, v + m)
               /\ Bit(Number(c, lo, v + m), t) = 1 /\ SameNumberBut(c, lo, v, v + m, t)
    <3> HIDE DEF u
    <3> DEFINE x == v + m
               y == u + m
    <3>1. Bit(y, t) = 1 /\ BitFlipped(u, y, t)
      BY <2>1, <2>4, AddBit
    <3>2. y \in Int /\ x \in Int /\ x - lo = y /\ y + lo = x
      BY <1>1, <2>1
    <3> HIDE DEF m, x, y
    <3>3. 0 <= y /\ y < Two(n)
      BY <2>1, <2>2, <3>1, <3>2, StaysBelow DEF BitFlipped
    <3>4. Number(c, lo, x) = y /\ Coefficient(c, lo, p, y) = x
      BY <2>3, <3>2
    <3>5. lo <= x /\ x <= hi
      <4>1. Two(n) \in Int
        BY <1>1, <2>2
      <4>2. QED
        BY <1>1, <2>2, <3>2, <3>3, <4>1
    <3>6. Valid(c, lo, hi, p, x)
      BY <1>2, <3>2, <3>5, SettledCoef
    <3>7. SameNumberBut(c, lo, v, x, t)
      BY <3>1, <3>4 DEF SameNumberBut, BitFlipped, u
    <3>8. QED
      BY <3>1, <3>4, <3>6, <3>7 DEF x, y, m
  <2>5. ASSUME Bit(u, t) = 1
        PROVE  /\ Coefficient(c, lo, p, u - m) = v - m /\ Valid(c, lo, hi, p, v - m)
               /\ Bit(Number(c, lo, v - m), t) = 0 /\ SameNumberBut(c, lo, v, v - m, t)
    <3> HIDE DEF u
    <3>1. Bit(u - m, t) = 0 /\ BitFlipped(u, u - m, t)
      BY <2>1, <2>5, SubtractBit
    <3>2. u - m \in Int /\ v - m \in Int /\ v - m - lo = u - m /\ u - m + lo = v - m
      BY <1>1, <2>1
    <3> HIDE DEF m
    <3>3. 0 <= u - m /\ u - m < Two(n)
      BY <2>1, <2>2, <3>1, <3>2, StaysBelow DEF BitFlipped
    <3>4. Number(c, lo, v - m) = u - m /\ Coefficient(c, lo, p, u - m) = v - m
      BY <2>3, <3>2
    <3>5. lo <= v - m /\ v - m <= hi
      <4>1. Two(n) \in Int
        BY <1>1, <2>2
      <4> DEFINE x == v - m
      <4>2. x - lo = u - m /\ x \in Int /\ u - m \in Int
        BY <3>2
      <4> DEFINE y == u - m
      <4> HIDE DEF x, y
      <4>3. lo <= x /\ x <= hi
        BY <1>1, <2>2, <3>3, <4>1, <4>2 DEF y
      <4>4. QED
        BY <4>3 DEF x
    <3>6. Valid(c, lo, hi, p, v - m)
      BY <1>2, <3>2, <3>5, SettledCoef
    <3>7. SameNumberBut(c, lo, v, v - m, t)
      BY <3>1, <3>4 DEF SameNumberBut, BitFlipped, u
    <3>8. QED
      BY <3>1, <3>4, <3>6, <3>7
  <2>6. Coefficient(c, lo, p, u) = v
    BY <1>1, <2>1, <2>3
  <2>7. Bit(u, t) \in {0, 1}
    <3> HIDE DEF u
    <3>1. QED
      BY <2>1, HalfStep
  <2>8. QED
    BY <2>4, <2>5, <2>6, <2>7 DEF CanBeFlipped
<1>3. CASE c = "drpe_lsb"
  <2>1. u = Uint16(v) /\ u \in Int /\ Bit(u, t) = Bit(v, t) /\ Fits(v, p)
    BY <1>1, <1>3, Uint16Bits DEF Number, Valid
  <2>2. p \in 0 .. 15 /\ t \in 0 .. p - 1
    BY <1>1, <1>3 DEF Settled
  <2>3. \A x \in Int : Number(c, lo, x) = Uint16(x) /\ \A j \in 0 .. 15 : Bit(Number(c, lo, x), j) = Bit(x, j)
    BY <1>3, Uint16Bits DEF Number
  <2>4. \A x \in Int : Coefficient(c, lo, p, x) = drpe_fixup_sign_bit(x, p)
    BY <1>3 DEF Coefficient
  <2>5. /\ drpe_fixup_sign_bit(Uint16(v), p) = v
        /\ Bit(v, t) = 0 => /\ drpe_fixup_sign_bit(Uint16(v) + Two(t), p) = v + Two(t)
                            /\ Fits(v + Two(t), p)
        /\ Bit(v, t) = 1 => /\ drpe_fixup_sign_bit(Uint16(v) - Two(t), p) = v - Two(t)
                            /\ Fits(v - Two(t), p)
    BY <1>1, <2>1, <2>2, DrpeFlip
  <2> HIDE DEF u
  <2>6. u + m \in Int /\ u - m \in Int /\ v + m \in Int /\ v - m \in Int
    BY <1>1, <2>1
  <2>7. ASSUME Bit(u, t) = 0
        PROVE  /\ Coefficient(c, lo, p, u + m) = v + m /\ Valid(c, lo, hi, p, v + m)
               /\ Bit(Number(c, lo, v + m), t) = 1 /\ SameNumberBut(c, lo, v, v + m, t)
    <3>1. Bit(v, t) = 0
      BY <2>1, <2>7
    <3>2. Bit(v + m, t) = 1 /\ BitFlipped(v, v + m, t)
      BY <1>1, <3>1, AddBit
    <3>3. Coefficient(c, lo, p, u + m) = v + m /\ Fits(v + m, p)
      BY <2>1, <2>4, <2>5, <2>6, <3>1
    <3> HIDE DEF m
    <3>4. Valid(c, lo, hi, p, v + m)
      BY <1>3, <2>6, <3>3, SettledCoef
    <3>5. Bit(Number(c, lo, v + m), t) = 1 /\ SameNumberBut(c, lo, v, v + m, t)
      BY <1>1, <2>3, <2>6, <3>2 DEF SameNumberBut, BitFlipped
    <3>6. QED
      BY <3>3, <3>4, <3>5
  <2>8. ASSUME Bit(u, t) = 1
        PROVE  /\ Coefficient(c, lo, p, u - m) = v - m /\ Valid(c, lo, hi, p, v - m)
               /\ Bit(Number(c, lo, v - m), t) = 0 /\ SameNumberBut(c, lo, v, v - m, t)
    <3>1. Bit(v, t) = 1
      BY <2>1, <2>8
    <3>2. Bit(v - m, t) = 0 /\ BitFlipped(v, v - m, t)
      BY <1>1, <3>1, SubtractBit
    <3>3. Coefficient(c, lo, p, u - m) = v - m /\ Fits(v - m, p)
      BY <2>1, <2>4, <2>5, <2>6, <3>1
    <3> HIDE DEF m
    <3>4. Valid(c, lo, hi, p, v - m)
      BY <1>3, <2>6, <3>3, SettledCoef
    <3>5. Bit(Number(c, lo, v - m), t) = 0 /\ SameNumberBut(c, lo, v, v - m, t)
      BY <1>1, <2>3, <2>6, <3>2 DEF SameNumberBut, BitFlipped
    <3>6. QED
      BY <3>3, <3>4, <3>5
  <2>9. Bit(u, t) \in {0, 1}
    BY <2>1, HalfStep
  <2>10. Coefficient(c, lo, p, u) = v
    BY <2>1, <2>4, <2>5
  <2>11. QED
    BY <2>7, <2>8, <2>9, <2>10 DEF CanBeFlipped, u
<1>4. QED
  BY <1>2, <1>3

(* A number becomes a valid coefficient with the same n low bits.          *)
LEMMA FromNumber ==
  ASSUME NEW c \in {"lsb", "drpe_lsb"}, NEW lo, NEW hi, NEW n, NEW p, Settled(c, lo, hi, n, p),
         NEW x \in Int, c = "lsb" => 0 <= x /\ x < Two(n)
  PROVE  LET w == Coefficient(c, lo, p, x)
         IN  Valid(c, lo, hi, p, w) /\ \A t \in 0 .. n - 1 : Bit(Number(c, lo, w), t) = Bit(x, t)
<1> DEFINE w == Coefficient(c, lo, p, x)
<1>1. n \in 0 .. 11 /\ p \in 0 .. 10 /\ lo \in Int /\ hi \in Int
  BY BoundsAre DEF Settled
<1>2. CASE c = "lsb"
  <2>1. w = x + lo /\ w \in Int /\ hi - lo + 1 = Two(n)
    BY <1>1, <1>2 DEF Coefficient, Settled
  <2>2. lo <= w /\ w <= hi
    BY <1>1, <1>2, <2>1
  <2> HIDE DEF w
  <2>3. Valid(c, lo, hi, p, w)
    BY <1>2, <2>1, <2>2, SettledCoef
  <2>4. Number(c, lo, w) = x
    BY <1>1, <1>2, <2>1 DEF Number
  <2>5. QED
    BY <2>3, <2>4 DEF w
<1>3. CASE c = "drpe_lsb"
  <2>1. p \in 0 .. 15 /\ n - 1 <= p
    BY <1>1, <1>3 DEF Settled
  <2>2. w = drpe_fixup_sign_bit(x, p)
    BY <1>3 DEF Coefficient
  <2>3. w \in Int /\ Fits(w, p) /\ \A t \in 0 .. p : Bit(w, t) = Bit(x, t)
    BY <2>1, <2>2, SignFixed
  <2> HIDE DEF w
  <2>4. Valid(c, lo, hi, p, w)
    BY <1>3, <2>3, SettledCoef
  <2>5. \A t \in 0 .. 15 : Bit(Number(c, lo, w), t) = Bit(w, t)
    BY <1>3, <2>3, Uint16Bits DEF Number
  <2>6. \A t \in 0 .. n - 1 : t \in 0 .. p /\ t \in 0 .. 15
    BY <1>1, <2>1
  <2>7. QED
    BY <2>3, <2>4, <2>5, <2>6 DEF w
<1>4. QED
  BY <1>2, <1>3

(* The n low bits of the keystream, and a number with them added.          *)
LEMMA MaskWord ==
  ASSUME NEW k \in Int, NEW n \in 0 .. 16
  PROVE  /\ k % 2^n \in Int
         /\ \A t \in 0 .. n - 1 : Bit(k % 2^n, t) = Bit(k, t)
         /\ \A t \in n .. 15 : Bit(k % 2^n, t) = 0
<1> DEFINE m == Two(n)
           w == k % m
<1>1. /\ w \in 0 .. m - 1
      /\ \A t \in 0 .. n - 1 : Bit(w, t) = Bit(k, t)
      /\ \A t \in n .. 15 : Bit(w, t) = 0
  BY LowPart
<1>2. m \in Nat
  <2>1. n \in 0 .. 16 /\ 0 \in 0 .. n
    OBVIOUS
  <2>2. QED
    BY <2>1, PowersGrow
<1>3. w = k % 2^n
  BY Zenon DEF Two
<1> HIDE DEF w, m
<1>4. w \in Int
  BY <1>1, <1>2
<1>5. QED
  BY <1>1, <1>3, <1>4, Zenon

(* No bit of 0 is set.                                                     *)
LEMMA ZeroBits ==
  ASSUME NEW n \in 0 .. 16
  PROVE  0 \div Two(n) = 0 /\ \A t \in 0 .. 15 : Bit(0, t) = 0
<1>1. Two(n) \in Nat \ {0} /\ \A t \in 0 .. 15 : Two(t) \in Nat \ {0}
  <2>1. n \in 0 .. 16 /\ 0 \in 0 .. n
    OBVIOUS
  <2>2. QED
    BY <2>1, PowersGrow, Doubling
<1>2. ASSUME NEW d \in Nat \ {0} PROVE 0 \div d = 0
  <2>1. 0 \in Int /\ 0 = d * 0 + 0 /\ 0 \in 0 .. d - 1
    OBVIOUS
  <2>2. QED
    BY <2>1, DivisionUnique
<1>3. ASSUME NEW t \in 0 .. 15 PROVE Bit(0, t) = 0
  <2>1. Bit(0, t) = (0 \div Two(t)) % 2
    BY Named
  <2>2. 0 \div Two(t) = 0
    BY <1>1, <1>2
  <2>3. QED
    BY <2>1, <2>2
<1>4. QED
  BY <1>1, <1>2, <1>3

(* A number of h bits has no bits from h on, and is of n bits if it has    *)
(* none from n on.                                                         *)
LEMMA SmallBits ==
  ASSUME NEW v \in Int, NEW h \in 0 .. 16, NEW n \in 0 .. h, 0 <= v, v < Two(h)
  PROVE  /\ (\A t \in n .. h - 1 : Bit(v, t) = 0) => 0 <= v /\ v < Two(n)
         /\ \A t \in h .. 15 : Bit(v, t) = 0
<1> DEFINE z == 0
<1>1. /\ z \in Int /\ z \div Two(h) = 0 /\ z \div Two(n) = 0
      /\ \A t \in 0 .. 15 : Bit(z, t) = 0
  BY ZeroBits
<1>2. v \div Two(h) = 0
  BY Below
<1> HIDE DEF z
<1>3. v \div Two(h) = z \div Two(h)
  BY <1>1, <1>2
<1>4. ASSUME \A t \in n .. h - 1 : Bit(v, t) = 0 PROVE 0 <= v /\ v < Two(n)
  <2>1. \A t \in n .. h - 1 : Bit(v, t) = Bit(z, t)
    BY <1>1, <1>4
  <2>2. v \div Two(n) = z \div Two(n)
    BY <1>1, <1>3, <2>1, SameDownTo
  <2>3. QED
    BY <1>1, <2>2, Below
<1>5. \A t \in h .. 15 : Bit(v, t) = 0
  <2>1. \A t \in h .. 15 : Bit(v, t) = Bit(z, t)
    BY <1>1, <1>3, SameAbove
  <2>2. QED
    BY <1>1, <2>1
<1>6. QED
  BY <1>4, <1>5

(* Exclusive or with the n low bits of the keystream adds them bit by bit, *)
(* and leaves a number of n bits one of n bits.                            *)
LEMMA XorAdds ==
  ASSUME NEW x \in Int, NEW k \in Int, NEW n \in 0 .. 16
  PROVE  LET y == Xor(x, k % 2^n)
         IN  /\ y \in Int
             /\ \A t \in 0 .. n - 1 : Bit(y, t) = (Bit(x, t) + Bit(k, t)) % 2
             /\ 0 <= x /\ x < Two(n) => 0 <= y /\ y < Two(n)
<1> DEFINE w == k % 2^n
           y == Xor(x, w)
<1>1. /\ w \in Int /\ \A t \in 0 .. n - 1 : Bit(w, t) = Bit(k, t)
      /\ \A t \in n .. 15 : Bit(w, t) = 0
  BY MaskWord
<1> HIDE DEF w
<1>2. y \in Nat /\ y < 65536 /\ \A t \in 0 .. 15 : Bit(y, t) = (Bit(x, t) + Bit(w, t)) % 2
  BY <1>1, XorBits DEF XorBit
<1> HIDE DEF y
<1>3. ASSUME NEW t \in 0 .. n - 1 PROVE Bit(y, t) = (Bit(x, t) + Bit(k, t)) % 2
  <2>1. t \in 0 .. 15
    OBVIOUS
  <2>2. QED
    BY <1>1, <1>2, <2>1
<1>4. ASSUME 0 <= x, x < Two(n) PROVE 0 <= y /\ y < Two(n)
  <2> DEFINE h == 16
  <2>1. h \in 0 .. 16 /\ n \in 0 .. h /\ y \in Int /\ 0 <= y /\ y < Two(h)
    BY <1>2, Powers
  <2>2. \A t \in n .. 15 : Bit(x, t) = 0
    BY <1>4, SmallBits
  <2>3. \A t \in n .. h - 1 : Bit(y, t) = 0
    <3> SUFFICES ASSUME NEW t \in n .. h - 1 PROVE Bit(y, t) = 0
      OBVIOUS
    <3>1. t \in 0 .. 15 /\ t \in n .. 15
      OBVIOUS
    <3>2. Bit(y, t) = (0 + 0) % 2
      BY <1>1, <1>2, <2>2, <3>1
    <3>3. QED
      BY <3>2
  <2> HIDE DEF h
  <2>4. QED
    BY <2>1, <2>3, SmallBits
<1>5. QED
  BY <1>2, <1>3, <1>4 DEF y, w

(* Scrambled and Unscrambled for given parameters.                         *)
ScrambledAs(c, lo, p, n, v, ks) ==
  Coefficient(c, lo, p, Xor(lsb_reverse_uint16(Number(c, lo, v), n), ks % 2^n))

UnscrambledAs(c, lo, p, n, v, ks) ==
  Coefficient(c, lo, p, lsb_reverse_uint16(Xor(Number(c, lo, v), ks % 2^n), n))

(* A coefficient as a number: in lsb.c it has n bits.                      *)
LEMMA NumberOf ==
  ASSUME NEW c \in {"lsb", "drpe_lsb"}, NEW lo, NEW hi, NEW n, NEW p, Settled(c, lo, hi, n, p),
         NEW v \in Coefs, c = "lsb" => lo <= v /\ v <= hi
  PROVE  /\ Number(c, lo, v) \in Int
         /\ c = "lsb" => 0 <= Number(c, lo, v) /\ Number(c, lo, v) < Two(n)
<1>1. lo \in Int /\ hi \in Int /\ v \in Int
  BY BoundsAre DEF Settled, Coefs
<1>2. CASE c = "lsb"
  <2>1. Number(c, lo, v) = v - lo /\ hi - lo + 1 = Two(n) /\ lo <= v /\ v <= hi
    BY <1>2 DEF Number, Settled
  <2>2. QED
    BY <1>1, <2>1
<1>3. CASE c # "lsb"
  BY <1>1, <1>3, Uint16Bits DEF Number
<1>4. QED
  BY <1>2, <1>3

(* Encryption makes a valid coefficient whose bits are those of the        *)
(* plaintext in reverse order with the keystream added.                    *)
LEMMA ScrambleBits ==
  ASSUME NEW c \in {"lsb", "drpe_lsb"}, NEW lo, NEW hi, NEW n, NEW p, Settled(c, lo, hi, n, p),
         NEW v \in Coefs, c = "lsb" => lo <= v /\ v <= hi, NEW ks \in Int
  PROVE  LET w == ScrambledAs(c, lo, p, n, v, ks)
         IN  /\ Valid(c, lo, hi, p, w)
             /\ \A t \in 0 .. n - 1 :
                  Bit(Number(c, lo, w), t) = (Bit(Number(c, lo, v), n - 1 - t) + Bit(ks, t)) % 2
<1> DEFINE u == Number(c, lo, v)
           r == lsb_reverse_uint16(u, n)
           x == Xor(r, ks % 2^n)
           w == Coefficient(c, lo, p, x)
<1>1. u \in Int /\ (c = "lsb" => 0 <= u /\ u < Two(n))
  BY NumberOf
<1>2. n \in 0 .. 16
  BY DEF Settled
<1> HIDE DEF u
<1>3. /\ r \in Int /\ r \div Two(n) = u \div Two(n)
      /\ \A j \in 0 .. n - 1 : Bit(r, j) = Bit(u, n - 1 - j)
  BY <1>1, <1>2, ReverseBits DEF Reversed
<1> HIDE DEF r
<1>4. c = "lsb" => 0 <= r /\ r < Two(n)
  BY <1>1, <1>2, <1>3, Below
<1>5. /\ x \in Int /\ (0 <= r /\ r < Two(n) => 0 <= x /\ x < Two(n))
      /\ \A t \in 0 .. n - 1 : Bit(x, t) = (Bit(r, t) + Bit(ks, t)) % 2
  BY <1>2, <1>3, XorAdds
<1> HIDE DEF x
<1>6. Valid(c, lo, hi, p, w) /\ \A t \in 0 .. n - 1 : Bit(Number(c, lo, w), t) = Bit(x, t)
  BY <1>4, <1>5, FromNumber
<1>7. w = ScrambledAs(c, lo, p, n, v, ks)
  BY DEF ScrambledAs, x, r, u
<1> HIDE DEF w
<1>8. \A t \in 0 .. n - 1 : Bit(Number(c, lo, w), t) = (Bit(u, n - 1 - t) + Bit(ks, t)) % 2
  BY <1>3, <1>5, <1>6
<1>9. QED
  BY <1>6, <1>7, <1>8 DEF u

(* Decryption adds the keystream first and then reverses.                  *)
LEMMA UnscrambleBits ==
  ASSUME NEW c \in {"lsb", "drpe_lsb"}, NEW lo, NEW hi, NEW n, NEW p, Settled(c, lo, hi, n, p),
         NEW v \in Coefs, c = "lsb" => lo <= v /\ v <= hi, NEW ks \in Int
  PROVE  LET w == UnscrambledAs(c, lo, p, n, v, ks)
         IN  /\ Valid(c, lo, hi, p, w)
             /\ \A t \in 0 .. n - 1 :
                  Bit(Number(c, lo, w), t)
                    = (Bit(Number(c, lo, v), n - 1 - t) + Bit(ks, n - 1 - t)) % 2
<1> DEFINE u == Number(c, lo, v)
           x == Xor(u, ks % 2^n)
           r == lsb_reverse_uint16(x, n)
           w == Coefficient(c, lo, p, r)
<1>1. u \in Int /\ (c = "lsb" => 0 <= u /\ u < Two(n))
  BY NumberOf
<1>2. n \in 0 .. 16
  BY DEF Settled
<1> HIDE DEF u
<1>3. /\ x \in Int /\ (0 <= u /\ u < Two(n) => 0 <= x /\ x < Two(n))
      /\ \A t \in 0 .. n - 1 : Bit(x, t) = (Bit(u, t) + Bit(ks, t)) % 2
  BY <1>1, <1>2, XorAdds
<1> HIDE DEF x
<1>4. /\ r \in Int /\ r \div Two(n) = x \div Two(n)
      /\ \A j \in 0 .. n - 1 : Bit(r, j) = Bit(x, n - 1 - j)
  BY <1>2, <1>3, ReverseBits DEF Reversed
<1> HIDE DEF r
<1>5. c = "lsb" => 0 <= r /\ r < Two(n)
  BY <1>1, <1>2, <1>3, <1>4, Below
<1>6. Valid(c, lo, hi, p, w) /\ \A t \in 0 .. n - 1 : Bit(Number(c, lo, w), t) = Bit(r, t)
  BY <1>4, <1>5, FromNumber
<1>7. w = UnscrambledAs(c, lo, p, n, v, ks)
  BY DEF UnscrambledAs, x, r, u
<1> HIDE DEF w
<1>8. \A t \in 0 .. n - 1 :
        Bit(Number(c, lo, w), t) = (Bit(u, n - 1 - t) + Bit(ks, n - 1 - t)) % 2
  <2> SUFFICES ASSUME NEW t \in 0 .. n - 1
               PROVE  Bit(Number(c, lo, w), t) = (Bit(u, n - 1 - t) + Bit(ks, n - 1 - t)) % 2
    OBVIOUS
  <2> DEFINE j == n - 1 - t
  <2>1. j \in 0 .. n - 1
    BY <1>2
  <2>2. Bit(Number(c, lo, w), t) = Bit(x, j)
    BY <1>4, <1>6
  <2> HIDE DEF j
  <2>3. Bit(Number(c, lo, w), t) = (Bit(u, j) + Bit(ks, j)) % 2
    BY <1>3, <2>1, <2>2
  <2>4. QED
    BY <2>3 DEF j
<1>9. QED
  BY <1>6, <1>7, <1>8 DEF u

-----------------------------------------------------------------------------
(* A block has its length.                                                 *)
LEMMA BlockLength ==
  ASSUME NEW S, NEW n \in Nat, NEW a \in [1 .. n -> S]
  PROVE  Len(a) = n
OBVIOUS

(* The sums of a block of integers are integers.                           *)
LEMMA SumsAreInt ==
  ASSUME NEW n \in Nat, NEW a \in [1 .. n -> Int]
  PROVE  /\ Len(a) = n /\ Sums(a)[0] = 0 /\ \A k \in 0 .. n : Sums(a)[k] \in Int
         /\ \A k \in 1 .. n : Sums(a)[k] = Sums(a)[k - 1] + a[k]
<1> DEFINE s == Sums(a)
           Z == Int
<1>1. Len(a) = n
  BY BlockLength
<1>2. s[0] = 0 /\ \A k \in 1 .. n : s[k] = s[k - 1] + a[k]
  BY <1>1, SumsDef
<1> HIDE DEF s
<1>3. s[0] \in Z /\ \A k \in 1 .. n : s[k - 1] \in Z => s[k] \in Z
  BY <1>2
<1> HIDE DEF Z
<1>4. \A k \in 0 .. n : s[k] \in Z
  BY <1>3, Ascent
<1>5. QED
  BY <1>1, <1>2, <1>4 DEF s, Z

(* One new coefficient changes the sum by its change.                      *)
LEMMA TotalUpdate ==
  ASSUME NEW n \in Nat, NEW a \in [1 .. n -> Int], NEW k \in 1 .. n, NEW x \in Int
  PROVE  Total(a) \in Int /\ Total([a EXCEPT ![k] = x]) = Total(a) - a[k] + x
<1> DEFINE b == [a EXCEPT ![k] = x]
           s == Sums(a)
           t == Sums(b)
           Same == {j \in 0 .. n : t[j] = s[j] + IF j >= k THEN x - a[k] ELSE 0}
<1>1. b \in [1 .. n -> Int] /\ b[k] = x /\ a[k] \in Int /\ \A j \in 1 .. n : j # k => b[j] = a[j]
  OBVIOUS
<1> HIDE DEF b
<1>2. /\ Len(a) = n /\ s[0] = 0 /\ \A j \in 0 .. n : s[j] \in Int
      /\ \A j \in 1 .. n : s[j] = s[j - 1] + a[j]
  BY SumsAreInt
<1>3. /\ Len(b) = n /\ t[0] = 0 /\ \A j \in 0 .. n : t[j] \in Int
      /\ \A j \in 1 .. n : t[j] = t[j - 1] + b[j]
  BY <1>1, SumsAreInt
<1>4. Total(a) = s[n] /\ Total(b) = t[n]
  BY <1>2, <1>3 DEF Total
<1> HIDE DEF s, t
<1> DEFINE f == [j \in 0 .. n |-> j]
<1>5. f[0] \in Same
  BY <1>2, <1>3
<1>6. ASSUME NEW j \in 1 .. n, f[j - 1] \in Same PROVE f[j] \in Same
  <2>1. t[j - 1] = s[j - 1] + IF j - 1 >= k THEN x - a[k] ELSE 0
    BY <1>6
  <2>2. s[j - 1] \in Int /\ a[j] \in Int
    BY <1>2
  <2>3. t[j] = t[j - 1] + b[j] /\ s[j] = s[j - 1] + a[j]
    BY <1>2, <1>3
  <2>4. b[j] = IF j = k THEN x ELSE a[j]
    BY <1>1
  <2>5. t[j] = s[j] + IF j >= k THEN x - a[k] ELSE 0
    BY <1>1, <2>1, <2>2, <2>3, <2>4
  <2>6. QED
    BY <2>5
<1>7. \A j \in 0 .. n : f[j] \in Same
  <2> HIDE DEF Same, f
  <2>1. QED
    BY <1>5, <1>6, Ascent
<1>8. t[n] = s[n] + (x - a[k]) /\ s[n] \in Int
  BY <1>2, <1>7
<1>9. QED
  BY <1>1, <1>4, <1>8 DEF b

(* An order visits every element.                                          *)
LEMMA OrderIsOnto ==
  ASSUME NEW n \in Nat, NEW f \in [1 .. n -> 1 .. n], NEW x \in 1 .. n,
         \A j, k \in 1 .. n : f[j] = f[k] => j = k
  PROVE  \E j \in 1 .. n : f[j] = x
<1> SUFFICES ASSUME \A j \in 1 .. n : f[j] # x PROVE FALSE
  OBVIOUS
<1> DEFINE S == 1 .. n
           T == S \ {x}
<1>1. 1 \in Int /\ n \in Int
  OBVIOUS
<1>2. IsFiniteSet(S) /\ Cardinality(S) = n
  <2>1. IsFiniteSet(1 .. n) /\ Cardinality(1 .. n) = IF 1 > n THEN 0 ELSE n - 1 + 1
    BY <1>1, FS_Interval
  <2>2. QED
    BY <2>1
<1>3. IsFiniteSet(T) /\ Cardinality(T) = Cardinality(S) - 1
  <2>1. x \in S
    OBVIOUS
  <2> HIDE DEF S
  <2>2. QED
    BY <1>2, <2>1, FS_RemoveElement
<1>4. Cardinality(T) < Cardinality(S)
  BY <1>2, <1>3
<1>5. f \in [S -> T] /\ \A j, k \in S : f[j] = f[k] => j = k
  OBVIOUS
<1> HIDE DEF S, T
<1>6. \E j, k \in S : j # k /\ f[j] = f[k]
  <2>1. IsFiniteSet(S) /\ IsFiniteSet(T) /\ Cardinality(T) < Cardinality(S) /\ f \in [S -> T]
    BY <1>2, <1>3, <1>4, <1>5, Zenon
  <2>2. QED
    BY <2>1, FS_PigeonHole, Zenon
<1>7. QED
  BY <1>5, <1>6

(* What a pass does to the distance d of the sums, with m the value of the *)
(* bit and h half of it, which is 0 for the lowest bit.                    *)
LEMMA Halves ==
  ASSUME NEW t \in 0 .. 15
  PROVE  LET m == Two(t)
             h == Two(t) \div 2
         IN  m \in Nat \ {0} /\ h \in Nat /\ (m = 2 * h \/ (m = 1 /\ h = 0))
<1>1. CASE t = 0
  BY <1>1, Powers
<1>2. CASE t # 0
  <2> DEFINE j == t - 1
             q == Two(j)
  <2>1. j \in 0 .. 15 /\ j + 1 = t
    BY <1>2
  <2>2. q \in Nat \ {0} /\ Two(t) = 2 * q
    BY <2>1, Doubling
  <2> HIDE DEF q
  <2>3. (2 * q) \div 2 = q
    BY <2>2
  <2>4. QED
    BY <2>2, <2>3
<1>3. QED
  BY <1>1, <1>2

(* A pass over the bit t has come to the m-th element: either the distance *)
(* d of the sums is small already, or the bit is as needed in all of them. *)
PassDone(c, lo, a, ord, d, t, m) ==
  \/ 2 * Abs(d) <= Two(t)
  \/ d > 0 /\ \A j \in 1 .. m : Bit(Number(c, lo, a[ord[j]]), t) = 1
  \/ d < 0 /\ \A j \in 1 .. m : Bit(Number(c, lo, a[ord[j]]), t) = 0

(* One iteration of the inner loop, on the element k of the block a.       *)
Flipped(c, lo, p, t, k, a, d, a1, d1) ==
  LET u == Number(c, lo, a[k])
      Put(w) == a1 = [a EXCEPT ![k] = Coefficient(c, lo, p, w)]
      set == Bit(u, t) = 1
  IN  \/ d > 0 /\ ~set /\ Put(u + Two(t)) /\ d1 = d - Two(t)
      \/ d < 0 /\ set /\ Put(u - Two(t)) /\ d1 = d + Two(t)
      \/ ~(d > 0 /\ ~set) /\ ~(d < 0 /\ set) /\ Put(u) /\ d1 = d

(* In it one coefficient changes, if at all, by what the distance changes, *)
(* and no other bit of it does.                                            *)
ChangedBy(c, lo, t, v, d, x, d1) ==
  /\ d1 = d - (x - v)
  /\ \/ d > 0 /\ Bit(Number(c, lo, v), t) = 0 /\ x = v + Two(t) /\ Bit(Number(c, lo, x), t) = 1
     \/ d < 0 /\ Bit(Number(c, lo, v), t) = 1 /\ x = v - Two(t) /\ Bit(Number(c, lo, x), t) = 0
     \/ /\ x = v
        /\ d > 0 => Bit(Number(c, lo, v), t) = 1
        /\ d < 0 => Bit(Number(c, lo, v), t) = 0

(* One iteration of the inner loop changes one coefficient in this way and *)
(* keeps it valid.                                                         *)
LEMMA OneFlip ==
  ASSUME NEW c \in {"lsb", "drpe_lsb"}, NEW lo, NEW hi, NEW n, NEW p, Settled(c, lo, hi, n, p),
         NEW t \in 0 .. 15, IF c = "lsb" THEN t < n ELSE t < n - 1,
         NEW len \in Nat, NEW a \in [1 .. len -> Coefs], NEW k \in 1 .. len,
         Valid(c, lo, hi, p, a[k]), NEW d \in Int, NEW a1, NEW d1,
         Flipped(c, lo, p, t, k, a, d, a1, d1)
  PROVE  \E x \in Coefs : /\ a1 = [a EXCEPT ![k] = x] /\ Valid(c, lo, hi, p, x)
                          /\ ChangedBy(c, lo, t, a[k], d, x, d1)
                          /\ SameNumberBut(c, lo, a[k], x, t)
<1> DEFINE v == a[k]
           u == Number(c, lo, v)
           m == Two(t)
<1>1. /\ Coefficient(c, lo, p, u) = v
      /\ Bit(u, t) \in {0, 1}
      /\ Bit(u, t) = 0 => /\ Coefficient(c, lo, p, u + m) = v + m /\ Valid(c, lo, hi, p, v + m)
                          /\ Bit(Number(c, lo, v + m), t) = 1 /\ SameNumberBut(c, lo, v, v + m, t)
      /\ Bit(u, t) = 1 => /\ Coefficient(c, lo, p, u - m) = v - m /\ Valid(c, lo, hi, p, v - m)
                          /\ Bit(Number(c, lo, v - m), t) = 0 /\ SameNumberBut(c, lo, v, v - m, t)
  BY FlipCoefficient DEF CanBeFlipped
<1>2. v \in Int /\ m \in Int
  <2>1. v \in Coefs
    OBVIOUS
  <2>2. m \in Nat \ {0}
    BY Doubling
  <2> HIDE DEF v, m
  <2>3. v \in Int
    BY <2>1, CoefsAre
  <2>4. QED
    BY <2>2, <2>3
<1>3. \/ /\ d > 0 /\ Bit(u, t) # 1 /\ a1 = [a EXCEPT ![k] = Coefficient(c, lo, p, u + m)] /\ d1 = d - m
      \/ /\ d < 0 /\ Bit(u, t) = 1 /\ a1 = [a EXCEPT ![k] = Coefficient(c, lo, p, u - m)] /\ d1 = d + m
      \/ /\ ~(d > 0 /\ Bit(u, t) # 1) /\ ~(d < 0 /\ Bit(u, t) = 1)
         /\ a1 = [a EXCEPT ![k] = Coefficient(c, lo, p, u)] /\ d1 = d
  BY DEF Flipped
<1> HIDE DEF m
<1>4. CASE /\ d > 0 /\ Bit(u, t) # 1
           /\ a1 = [a EXCEPT ![k] = Coefficient(c, lo, p, u + m)] /\ d1 = d - m
  <2> DEFINE x == v + m
  <2>1. Bit(u, t) = 0
    BY <1>1, <1>4
  <2>2. x \in Coefs /\ Valid(c, lo, hi, p, x) /\ SameNumberBut(c, lo, v, x, t)
    BY <1>1, <2>1 DEF Valid
  <2>3. a1 = [a EXCEPT ![k] = x]
    BY <1>1, <1>4, <2>1, Zenon
  <2>4. ChangedBy(c, lo, t, v, d, x, d1)
    <3>1. Bit(Number(c, lo, x), t) = 1 /\ x = v + Two(t)
      BY <1>1, <2>1, Zenon DEF m
    <3>2. d1 = d - (x - v)
      BY <1>2, <1>4
    <3>3. d > 0 /\ Bit(Number(c, lo, v), t) = 0
      BY <1>4, <2>1
    <3> HIDE DEF x, v
    <3>4. QED
      BY <3>1, <3>2, <3>3, Zenon DEF ChangedBy
  <2>5. QED
    BY <2>2, <2>3, <2>4
<1>5. CASE /\ d < 0 /\ Bit(u, t) = 1
           /\ a1 = [a EXCEPT ![k] = Coefficient(c, lo, p, u - m)] /\ d1 = d + m
  <2> DEFINE x == v - m
  <2>2. x \in Coefs /\ Valid(c, lo, hi, p, x) /\ SameNumberBut(c, lo, v, x, t)
    BY <1>1, <1>5 DEF Valid
  <2>3. a1 = [a EXCEPT ![k] = x]
    BY <1>1, <1>5, Zenon
  <2>4. ChangedBy(c, lo, t, v, d, x, d1)
    <3>1. Bit(Number(c, lo, x), t) = 0 /\ x = v - Two(t)
      BY <1>1, <1>5, Zenon DEF m
    <3>2. d1 = d - (x - v)
      BY <1>2, <1>5
    <3>3. d < 0 /\ Bit(Number(c, lo, v), t) = 1
      BY <1>5
    <3> HIDE DEF x, v
    <3>4. QED
      BY <3>1, <3>2, <3>3, Zenon DEF ChangedBy
  <2>5. QED
    BY <2>2, <2>3, <2>4
<1>6. CASE /\ ~(d > 0 /\ Bit(u, t) # 1) /\ ~(d < 0 /\ Bit(u, t) = 1)
           /\ a1 = [a EXCEPT ![k] = Coefficient(c, lo, p, u)] /\ d1 = d
  <2>1. v \in Coefs /\ Valid(c, lo, hi, p, v) /\ SameNumberBut(c, lo, v, v, t)
    BY DEF SameNumberBut
  <2>2. a1 = [a EXCEPT ![k] = v]
    BY <1>1, <1>6
  <2>3. d1 = d - (v - v)
    BY <1>2, <1>6
  <2>4. (d > 0 => Bit(u, t) = 1) /\ (d < 0 => Bit(u, t) = 0)
    BY <1>1, <1>6
  <2>5. ChangedBy(c, lo, t, v, d, v, d1)
    BY <2>3, <2>4 DEF ChangedBy
  <2>6. QED
    BY <2>1, <2>2, <2>5
<1>7. QED
  BY <1>3, <1>4, <1>5, <1>6

(* So the pass goes on to the next element.                                *)
LEMMA PassGoesOn ==
  ASSUME NEW c, NEW lo, NEW t \in 0 .. 15, NEW len \in Nat, NEW a \in [1 .. len -> Coefs],
         NEW ord \in [1 .. len -> 1 .. len], NEW e \in 1 .. len, NEW d \in Int, NEW x \in Coefs,
         NEW d1, ChangedBy(c, lo, t, a[ord[e]], d, x, d1),
         Abs(d) >= Two(t) \div 2, PassDone(c, lo, a, ord, d, t, e - 1)
  PROVE  PassDone(c, lo, [a EXCEPT ![ord[e]] = x], ord, d1, t, e) /\ d1 \in Int
<1> DEFINE k == ord[e]
           v == a[k]
           m == Two(t)
           h == m \div 2
           a1 == [a EXCEPT ![k] = x]
           B(b, j) == Bit(Number(c, lo, b[ord[j]]), t)
<1>1. m \in Nat \ {0} /\ h \in Nat /\ (m = 2 * h \/ (m = 1 /\ h = 0))
  BY Halves
<1>2. k \in 1 .. len /\ v \in Int /\ x \in Int
  BY CoefsAre
<1>3. d1 \in Int
  BY <1>2 DEF ChangedBy
<1>4. ASSUME NEW b \in {0, 1}, Bit(Number(c, lo, x), t) = b, \A j \in 1 .. e - 1 : B(a, j) = b
      PROVE  \A j \in 1 .. e : B(a1, j) = b
  <2> SUFFICES ASSUME NEW j \in 1 .. e PROVE B(a1, j) = b
    OBVIOUS
  <2>0. j \in 1 .. len
    OBVIOUS
  <2>1. ord[j] \in 1 .. len
    BY <2>0
  <2>2. CASE ord[j] = k
    <3>1. a1[ord[j]] = x
      BY <1>2, <2>2
    <3>2. QED
      BY <1>4, <3>1
  <2>3. CASE ord[j] # k
    <3>1. a1[ord[j]] = a[ord[j]] /\ j \in 1 .. e - 1
      BY <2>1, <2>3
    <3>2. B(a, j) = b
      BY <1>4, <3>1
    <3> HIDE DEF a1
    <3>3. QED
      BY <3>1, <3>2
  <2>4. QED
    BY <2>2, <2>3
<1> DEFINE Clear(b, q) == \A j \in 1 .. q : B(b, j) = 0
           Set(b, q) == \A j \in 1 .. q : B(b, j) = 1
<1>13. /\ Bit(Number(c, lo, x), t) = 0 /\ Clear(a, e - 1) => Clear(a1, e)
       /\ Bit(Number(c, lo, x), t) = 1 /\ Set(a, e - 1) => Set(a1, e)
  BY <1>4
<1> SUFFICES PassDone(c, lo, a1, ord, d1, t, e)
  BY <1>3
<1>5. PassDone(c, lo, a1, ord, d1, t, e)
      <=> \/ 2 * Abs(d1) <= m
          \/ d1 > 0 /\ Set(a1, e)
          \/ d1 < 0 /\ Clear(a1, e)
  BY DEF PassDone
<1>6. \/ 2 * Abs(d) <= m
      \/ d > 0 /\ Set(a, e - 1)
      \/ d < 0 /\ Clear(a, e - 1)
  BY DEF PassDone
<1>7. /\ d1 = d - (x - v)
      /\ \/ d > 0 /\ x = v + m /\ Bit(Number(c, lo, x), t) = 1
         \/ d < 0 /\ x = v - m /\ Bit(Number(c, lo, x), t) = 0
         \/ /\ x = v
            /\ d > 0 => Bit(Number(c, lo, v), t) = 1
            /\ d < 0 => Bit(Number(c, lo, v), t) = 0
  BY DEF ChangedBy
<1>8. Abs(d) = (IF d < 0 THEN -d ELSE d) /\ Abs(d1) = (IF d1 < 0 THEN -d1 ELSE d1) /\ Abs(d) >= h
  BY DEF Abs
<1> HIDE DEF k, v, m, h, a1, B, Set, Clear
<1>9. CASE d > 0 /\ x = v + m /\ Bit(Number(c, lo, x), t) = 1
  <2>1. d1 = d - m
    BY <1>1, <1>2, <1>7, <1>9
  <2>2. CASE 2 * d <= m
    BY <1>1, <1>5, <1>8, <1>9, <2>1, <2>2
  <2>3. CASE 2 * d > m
    <3>1. Set(a1, e)
      BY <1>1, <1>13, <1>6, <1>8, <1>9, <2>3
    <3>2. d1 > 0 \/ 2 * Abs(d1) <= m
      BY <1>1, <1>3, <1>8, <2>1, <2>3
    <3>3. QED
      BY <1>5, <3>1, <3>2
  <2>4. QED
    BY <1>1, <2>2, <2>3
<1>10. CASE d < 0 /\ x = v - m /\ Bit(Number(c, lo, x), t) = 0
  <2>1. d1 = d + m
    BY <1>1, <1>2, <1>7, <1>10
  <2>2. CASE 2 * (-d) <= m
    BY <1>1, <1>5, <1>8, <1>10, <2>1, <2>2
  <2>3. CASE 2 * (-d) > m
    <3>1. Clear(a1, e)
      BY <1>1, <1>13, <1>6, <1>8, <1>10, <2>3
    <3>2. d1 < 0 \/ 2 * Abs(d1) <= m
      BY <1>1, <1>3, <1>8, <2>1, <2>3
    <3>3. QED
      BY <1>5, <3>1, <3>2
  <2>4. QED
    BY <1>1, <2>2, <2>3
<1>11. CASE /\ x = v
            /\ d > 0 => Bit(Number(c, lo, v), t) = 1
            /\ d < 0 => Bit(Number(c, lo, v), t) = 0
  <2>1. d1 = d
    BY <1>2, <1>7, <1>11
  <2>2. CASE 2 * Abs(d) <= m
    BY <1>5, <2>1, <2>2
  <2>3. CASE d > 0 /\ Set(a, e - 1)
    <3>1. Set(a1, e)
      BY <1>13, <1>7, <1>11, <2>3
    <3>2. QED
      BY <1>5, <2>1, <2>3, <3>1
  <2>4. CASE d < 0 /\ Clear(a, e - 1)
    <3>1. Clear(a1, e)
      BY <1>13, <1>7, <1>11, <2>4
    <3>2. QED
      BY <1>5, <2>1, <2>4, <3>1
  <2>5. QED
    BY <1>6, <2>2, <2>3, <2>4
<1>12. QED
  BY <1>7, <1>9, <1>10, <1>11
-----------------------------------------------------------------------------
(* What every reachable state is like.  All values are of their types.     *)
TypeOK ==
  /\ pc \in {"plain", "encrypt", "fixup", "sent", "decrypt", "done"}
  /\ cipher \in {"lsb", "drpe_lsb"} /\ fcn_user_arg \in Int
  /\ keystream \in [Positions -> Int]
  /\ data \in [Positions -> Coefs] /\ plain \in [Positions -> Coefs]
  /\ num_bits \in Nat /\ plain_bits \in Nat /\ num_lsb_bits \in Nat
  /\ delta \in Int /\ bit \in Nat /\ i \in Positions
  /\ order \in [Positions -> Positions]
  /\ \A j, k \in Positions : order[j] = order[k] => j = k

(* Once there is a range, the parameters are those of that range, and the  *)
(* coefficients of lsb.c are in it.                                        *)
Ready ==
  pc # "plain" =>
    /\ Settled(cipher, range.min, range.max, num_bits, sign_bit_position)
    /\ cipher = "lsb" => \A k \in Positions : range.min <= data[k] /\ data[k] <= range.max

(* Until the block is sent, the parameters are the encrypting run's.       *)
Encrypting ==
  /\ pc \in {"plain", "encrypt"} => bit = 0 /\ i = 1
  /\ pc = "encrypt" => plain = data
  /\ pc \in {"encrypt", "fixup", "sent"} =>
       num_bits = plain_bits /\ num_lsb_bits \in 0 .. num_bits

(* Pass b has come to the m-th element in order.                           *)
Visited(b, m) == PassDone(cipher, range.min, data, order, delta, MaskPos(b), m)

Flipping ==
  pc = "fixup" =>
    /\ \A k \in Positions : Valid(cipher, range.min, range.max, sign_bit_position, data[k])
    /\ bit \in 0 .. num_lsb_bits
    /\ i > 1 => bit < num_lsb_bits /\ MaskPos(bit) >= 0 /\ Visited(bit, i - 1)
    /\ i = 1 /\ bit > 0 => MaskPos(bit - 1) >= 0 /\ Visited(bit - 1, N)

(* All bits of the ciphertext but the flipped ones are those of the        *)
(* plaintext in reverse order with the keystream's bits added.             *)
UnsignedThen(v) == Number(cipher, SignedMin(plain_bits), v)

Kept ==
  pc \in {"fixup", "sent", "decrypt"} =>
    \A k \in Positions, t \in 0 .. plain_bits - 1 :
      plain_bits - 1 - t \notin Damaged =>
        Bit(UnsignedThen(data[k]), t)
          = (Bit(UnsignedThen(plain[k]), plain_bits - 1 - t) + Bit(keystream[k], t)) % 2

LsbTpeInv ==
  /\ TypeOK /\ Ready /\ Encrypting /\ Flipping /\ Kept
  /\ DeltaIsExact /\ AsCloseAsTheBitsAllow /\ OnlyLowBitsDamaged

-----------------------------------------------------------------------------
(* What the assumptions say of the constants.                              *)
LEMMA Constants ==
  /\ N \in Nat \ {0} /\ Positions = 1 .. N /\ 1 \in Positions
  /\ \A v \in Samples : v \in Coefs
  /\ \A w \in KeyWords : w \in Int
  /\ \A c \in Ciphers : c \in {"lsb", "drpe_lsb"}
  /\ \A o \in UserArgs \cup {NotGiven} : o \in Int
<1>1. N \in Nat \ {0} /\ Positions = 1 .. N /\ 1 \in Positions
  BY LsbTpeAssumption DEF Positions
<1>2. ASSUME NEW v \in Samples PROVE v \in Coefs
  <2>1. v \in Int /\ -1024 <= v /\ v <= 1023
    BY LsbTpeAssumption
  <2>2. QED
    BY <2>1, CoefRange DEF Coefs
<1>3. ASSUME NEW w \in KeyWords PROVE w \in Int
  <2> DEFINE top == 2^Width - 1
  <2>1. w \in 0 .. top
    BY LsbTpeAssumption
  <2> HIDE DEF top
  <2>2. QED
    BY <2>1
<1>4. \A c \in Ciphers : c \in {"lsb", "drpe_lsb"}
  BY LsbTpeAssumption
<1>5. \A o \in UserArgs \cup {NotGiven} : o \in Int
  BY LsbTpeAssumption DEF NotGiven
<1>6. QED
  BY <1>1, <1>2, <1>3, <1>4, <1>5

(* The invariant holds before anything is done.                            *)
LEMMA InitInv == Init => LsbTpeInv
<1> SUFFICES ASSUME Init PROVE LsbTpeInv
  OBVIOUS
<1>1. TypeOK
  <2>1. pc = "plain" /\ cipher \in {"lsb", "drpe_lsb"} /\ option \in Int
    BY Constants DEF Init
  <2>2. fcn_user_arg \in Int
    BY <2>1 DEF fcn_user_arg
  <2>3. keystream \in [Positions -> Int]
    BY Constants DEF Init
  <2>4. data \in [Positions -> Coefs] /\ plain \in [Positions -> Coefs]
    BY Constants DEF Init
  <2>5. /\ order \in [Positions -> Positions]
        /\ \A j, k \in Positions : order[j] = order[k] => j = k
    BY DEF Init
  <2>6. /\ num_bits \in Nat /\ plain_bits \in Nat /\ num_lsb_bits \in Nat
        /\ delta \in Int /\ bit \in Nat /\ i \in Positions
    BY Constants DEF Init
  <2>7. QED
    BY <2>1, <2>2, <2>3, <2>4, <2>5, <2>6 DEF TypeOK
<1>2. pc = "plain" /\ bit = 0 /\ i = 1
  BY DEF Init
<1>3. QED
  BY <1>1, <1>2 DEF LsbTpeInv, Ready, Encrypting, Flipping, Kept, DeltaIsExact,
                    AsCloseAsTheBitsAllow, OnlyLowBitsDamaged

(* The lowest coefficient of the encrypting run's range, for lsb.c.        *)
LEMMA NumberThen ==
  ASSUME NEW c \in {"lsb", "drpe_lsb"}, NEW lo, NEW hi, NEW n, NEW p, Settled(c, lo, hi, n, p),
         NEW v
  PROVE  Number(c, SignedMin(n), v) = Number(c, lo, v)
BY DEF Number, Settled

(* Nothing varies in a range of one value.                                 *)
LEMMA NoBits ==
  ASSUME NEW c \in {"lsb", "drpe_lsb"}, NEW lo, NEW hi, NEW n, NEW p, Settled(c, lo, hi, n, p),
         lo = hi
  PROVE  n = 0
<1>1. CASE c = "lsb"
  <2>1. hi - lo + 1 = Two(n) /\ lo \in Int /\ n \in 0 .. 16
    BY <1>1, BoundsAre DEF Settled
  <2>2. Two(n) = Two(0) /\ 0 \in 0 .. 16
    BY <2>1, Powers
  <2> DEFINE z == 0
  <2>3. Two(n) = Two(z) /\ z \in 0 .. 16
    BY <2>2
  <2> HIDE DEF z
  <2>4. n = z
    BY <2>1, <2>3, PowersDiffer
  <2>5. QED
    BY <2>4 DEF z
<1>2. CASE c = "drpe_lsb"
  BY <1>2 DEF Settled
<1>3. QED
  BY <1>1, <1>2

(* The range function finds the parameters; the encrypting run begins with *)
(* them, and the decrypting run finds what it was sent unchanged.          *)
LEMMA StartStep == LsbTpeInv /\ Start => LsbTpeInv'
<1> SUFFICES ASSUME LsbTpeInv, Start PROVE LsbTpeInv'
  OBVIOUS
<1> DEFINE rg == RangeOf(data)
<1>1. TypeOK /\ Ready /\ Encrypting /\ Kept
  BY DEF LsbTpeInv
<1>2. /\ data' = rg.array /\ range' = [min |-> rg.min, max |-> rg.max]
      /\ num_bits' = Bits(rg.min, rg.max) /\ sign_bit_position' = SignBitPosition(rg.min, rg.max)
      /\ \/ /\ pc = "plain" /\ plain' = rg.array /\ plain_bits' = num_bits'
            /\ num_lsb_bits' = LsbBits(num_bits', sign_bit_position')
            /\ pc' = IF NothingToDo(rg.min, rg.max) THEN "sent" ELSE "encrypt"
         \/ /\ pc = "sent" /\ UNCHANGED <<plain, plain_bits, num_lsb_bits>>
            /\ pc' = IF NothingToDo(rg.min, rg.max) THEN "done" ELSE "decrypt"
      /\ UNCHANGED <<cipher, option, keystream, order, delta, bit, i>>
  BY DEF Start, settings
<1>3. RangeFound(rg, data, num_bits', sign_bit_position')
  <2>1. RangeFound(rg, data, Bits(rg.min, rg.max), SignBitPosition(rg.min, rg.max))
    BY <1>1, Constants, BlockRange DEF TypeOK
  <2>2. QED
    BY <1>2, <2>1
<1> HIDE DEF rg
<1>4. range'.min = rg.min /\ range'.max = rg.max
  BY <1>2
<1>5. /\ rg.array \in [Positions -> Coefs] /\ Within(rg.array, rg.min, rg.max)
      /\ Settled(cipher, rg.min, rg.max, num_bits', sign_bit_position')
      /\ cipher = "lsb" => \A b \in 0 .. 10 :
           Within(data, SignedMin(b), SignedMax(b)) => rg.array = data
      /\ cipher = "drpe_lsb" => rg.array = data
  BY <1>3 DEF RangeFound, RangeFor, Positions
<1>6. num_bits' \in 0 .. 11 /\ sign_bit_position' \in 0 .. 10
  BY <1>5 DEF Settled
<1>7. pc = "plain" => num_lsb_bits' \in 0 .. num_bits'
  <2> SUFFICES ASSUME pc = "plain" PROVE num_lsb_bits' \in 0 .. num_bits'
    OBVIOUS
  <2>1. num_lsb_bits' = LsbBits(num_bits', sign_bit_position')
    BY <1>2
  <2>2. num_bits' \in Nat /\ sign_bit_position' \in Nat /\ fcn_user_arg \in Int
    BY <1>1, <1>6 DEF TypeOK
  <2>3. QED
    BY <2>1, <2>2, FlippableBits
<1>8. NothingToDo(rg.min, rg.max) => num_bits' = 0
  <2> SUFFICES ASSUME NothingToDo(rg.min, rg.max) PROVE num_bits' = 0
    OBVIOUS
  <2>1. rg.min = rg.max
    BY DEF NothingToDo
  <2>2. QED
    BY <1>1, <1>5, <2>1, NoBits DEF TypeOK
<1>9. TypeOK'
  <2>1. pc' \in {"plain", "encrypt", "fixup", "sent", "decrypt", "done"}
    BY <1>2
  <2>2. cipher' \in {"lsb", "drpe_lsb"} /\ fcn_user_arg' \in Int
    BY <1>1, <1>2 DEF TypeOK, fcn_user_arg
  <2>3. data' \in [Positions -> Coefs] /\ plain' \in [Positions -> Coefs]
    BY <1>1, <1>2, <1>5 DEF TypeOK
  <2>4. num_bits' \in Nat /\ plain_bits' \in Nat /\ num_lsb_bits' \in Nat
    BY <1>1, <1>2, <1>6, <1>7 DEF TypeOK
  <2>5. /\ keystream' \in [Positions -> Int] /\ delta' \in Int /\ bit' \in Nat /\ i' \in Positions
        /\ order' \in [Positions -> Positions]
        /\ \A j, k \in Positions : order'[j] = order'[k] => j = k
    BY <1>1, <1>2 DEF TypeOK
  <2>6. QED
    BY <2>1, <2>2, <2>3, <2>4, <2>5 DEF TypeOK
<1>10. Ready'
  <2>1. Settled(cipher', range'.min, range'.max, num_bits', sign_bit_position')
    BY <1>2, <1>4, <1>5
  <2>2. \A k \in Positions : rg.min <= rg.array[k] /\ rg.array[k] <= rg.max
    BY <1>5 DEF Within, Elements
  <2>3. \A k \in Positions : range'.min <= data'[k] /\ data'[k] <= range'.max
    BY <1>2, <1>4, <2>2
  <2>4. QED
    BY <2>1, <2>3 DEF Ready
<1>11. Encrypting'
  BY <1>1, <1>2, <1>7 DEF Encrypting
<1>12. Flipping' /\ DeltaIsExact'
  BY <1>2 DEF Flipping, DeltaIsExact
<1>13. Kept'
  <2>1. CASE pc = "plain"
    <3>1. pc' \in {"fixup", "sent", "decrypt"} => plain_bits' = 0
      BY <1>2, <1>8, <2>1
    <3>2. QED
      BY <3>1 DEF Kept
  <2>2. CASE pc = "sent"
    <3>1. data' = data
      <4>1. CASE cipher = "lsb"
        <5>1. /\ num_bits \in 0 .. 10 /\ range.min = SignedMin(num_bits)
              /\ range.max = SignedMax(num_bits)
          BY <1>1, <2>2, <4>1 DEF Ready, Settled
        <5>2. \A k \in Positions : range.min <= data[k] /\ data[k] <= range.max
          BY <1>1, <2>2, <4>1 DEF Ready
        <5>3. data \in [Positions -> Coefs]
          BY <1>1 DEF TypeOK
        <5>4. Within(data, SignedMin(num_bits), SignedMax(num_bits))
          BY <5>1, <5>2, <5>3 DEF Within, Elements
        <5>5. QED
          BY <1>2, <1>5, <4>1, <5>1, <5>4
      <4>2. CASE cipher = "drpe_lsb"
        BY <1>2, <1>5, <4>2
      <4>3. QED
        BY <1>1, <4>1, <4>2 DEF TypeOK
    <3>2. UNCHANGED <<plain, plain_bits, num_lsb_bits, cipher, keystream>>
      BY <1>2, <2>2
    <3>3. QED
      BY <1>1, <2>2, <3>1, <3>2 DEF Kept, UnsignedThen, Damaged
  <2>3. QED
    BY <1>2, <2>1, <2>2
<1>14. AsCloseAsTheBitsAllow'
  <2>1. CASE pc' = "sent"
    <3>1. pc = "plain" /\ num_bits' = 0
      BY <1>2, <1>8, <2>1
    <3>2. bit' = 0 /\ num_lsb_bits' = 0
      BY <1>1, <1>2, <1>7, <3>1 DEF Encrypting
    <3>3. QED
      BY <3>2 DEF AsCloseAsTheBitsAllow
  <2>2. CASE pc' # "sent"
    BY <2>2 DEF AsCloseAsTheBitsAllow
  <2>3. QED
    BY <2>1, <2>2
<1>15. OnlyLowBitsDamaged'
  <2>1. pc' = "done" => num_bits' = 0
    BY <1>2, <1>8
  <2>2. QED
    BY <2>1 DEF OnlyLowBitsDamaged
<1>16. QED
  BY <1>9, <1>10, <1>11, <1>12, <1>13, <1>14, <1>15 DEF LsbTpeInv

(* Every coefficient is scrambled, and the keyed order is drawn.           *)
LEMMA EncryptStep == LsbTpeInv /\ Encrypt => LsbTpeInv'
<1> SUFFICES ASSUME LsbTpeInv, Encrypt PROVE LsbTpeInv'
  OBVIOUS
<1>1. TypeOK /\ Ready /\ Encrypting
  BY DEF LsbTpeInv
<1>2. /\ pc = "encrypt" /\ pc' = "fixup"
      /\ data' = [k \in Positions |-> Scrambled(data[k], keystream[k])]
      /\ delta' = Total(data) - Total(data') /\ order' \in Orders
      /\ UNCHANGED <<cipher, option, keystream, range, num_bits, sign_bit_position, num_lsb_bits,
                     bit, i, plain, plain_bits>>
  BY DEF Encrypt, settings, local
<1> DEFINE c == cipher
           lo == range.min
           hi == range.max
           n == num_bits
           p == sign_bit_position
           w(k) == ScrambledAs(c, lo, p, n, data[k], keystream[k])
<1>3. /\ c \in {"lsb", "drpe_lsb"} /\ Settled(c, lo, hi, n, p)
      /\ c = "lsb" => \A k \in Positions : lo <= data[k] /\ data[k] <= hi
      /\ plain = data /\ n = plain_bits /\ num_lsb_bits \in 0 .. n /\ bit = 0 /\ i = 1
  BY <1>1, <1>2 DEF TypeOK, Ready, Encrypting
<1>4. data' = [k \in Positions |-> w(k)]
  <2>1. \A v, ks : Scrambled(v, ks) = ScrambledAs(c, lo, p, n, v, ks)
    BY DEF Scrambled, ScrambledAs, Signed, Unsigned, Number, Coefficient
  <2>2. QED
    BY <1>2, <2>1, Zenon
<1>5. ASSUME NEW k \in Positions
      PROVE  /\ Valid(c, lo, hi, p, w(k))
             /\ \A t \in 0 .. n - 1 :
                  Bit(Number(c, lo, w(k)), t)
                    = (Bit(Number(c, lo, data[k]), n - 1 - t) + Bit(keystream[k], t)) % 2
  <2> DEFINE v == data[k]
             ks == keystream[k]
  <2>1. v \in Coefs /\ ks \in Int /\ (c = "lsb" => lo <= v /\ v <= hi)
    BY <1>1, <1>3 DEF TypeOK
  <2> HIDE DEF v, ks, lo, hi, c, p, n
  <2>2. /\ Valid(c, lo, hi, p, ScrambledAs(c, lo, p, n, v, ks))
        /\ \A t \in 0 .. n - 1 :
             Bit(Number(c, lo, ScrambledAs(c, lo, p, n, v, ks)), t)
               = (Bit(Number(c, lo, v), n - 1 - t) + Bit(ks, t)) % 2
    BY <1>3, <2>1, ScrambleBits
  <2>3. QED
    BY <2>2, Zenon DEF v, ks
<1>6. \A k \in Positions : data'[k] = w(k)
  BY <1>4
<1> HIDE DEF w
<1>7. \A k \in Positions : data'[k] \in Coefs /\ Valid(c, lo, hi, p, data'[k])
  BY <1>5, <1>6 DEF Valid
<1>8. data' \in [Positions -> Coefs]
  BY <1>4, <1>6, <1>7
<1>9. TypeOK'
  <2>1. delta' \in Int
    <3>1. data \in [1 .. N -> Int] /\ data' \in [1 .. N -> Int]
      <4>1. data \in [1 .. N -> Coefs] /\ data' \in [1 .. N -> Coefs]
        BY <1>1, <1>8 DEF TypeOK, Positions
      <4>2. \A v \in Coefs : v \in Int
        BY CoefsAre
      <4>3. QED
        BY <4>1, <4>2
    <3>2. ASSUME NEW a \in [1 .. N -> Int] PROVE Total(a) \in Int
      <4>1. Len(a) = N /\ Sums(a)[N] \in Int
        BY Constants, SumsAreInt
      <4>2. QED
        BY <4>1 DEF Total
    <3>3. Total(data) \in Int /\ Total(data') \in Int
      BY <3>1, <3>2
    <3>4. QED
      BY <1>2, <3>3
  <2>2. /\ order' \in [Positions -> Positions]
        /\ \A j, k \in Positions : order'[j] = order'[k] => j = k
    BY <1>2, OrdersAssumption
  <2>3. cipher' \in {"lsb", "drpe_lsb"} /\ fcn_user_arg' \in Int
    BY <1>1, <1>2 DEF TypeOK, fcn_user_arg
  <2>4. /\ keystream' \in [Positions -> Int] /\ plain' \in [Positions -> Coefs]
        /\ num_bits' \in Nat /\ plain_bits' \in Nat /\ num_lsb_bits' \in Nat
        /\ bit' \in Nat /\ i' \in Positions
    BY <1>1, <1>2 DEF TypeOK
  <2>5. QED
    BY <1>2, <1>8, <2>1, <2>2, <2>3, <2>4 DEF TypeOK
<1>10. Ready'
  <2>1. Settled(cipher', range'.min, range'.max, num_bits', sign_bit_position')
    BY <1>2, <1>3
  <2>2. cipher' = "lsb" => \A k \in Positions : range'.min <= data'[k] /\ data'[k] <= range'.max
    BY <1>2, <1>7 DEF Valid
  <2>3. QED
    BY <2>1, <2>2 DEF Ready
<1>11. Encrypting'
  BY <1>2, <1>3 DEF Encrypting
<1>12. Flipping'
  <2>1. bit' = 0 /\ i' = 1 /\ num_lsb_bits' \in Nat
    BY <1>1, <1>2, <1>3 DEF TypeOK
  <2>2. \A k \in Positions : Valid(cipher', range'.min, range'.max, sign_bit_position', data'[k])
    BY <1>2, <1>7
  <2>3. bit' \in 0 .. num_lsb_bits' /\ ~(i' > 1) /\ ~(bit' > 0)
    BY <2>1
  <2>4. QED
    BY <2>2, <2>3 DEF Flipping
<1>13. Kept'
  <2> SUFFICES ASSUME NEW k \in Positions, NEW t \in 0 .. plain_bits' - 1
               PROVE  Bit(UnsignedThen(data[k])', t)
                        = (Bit(UnsignedThen(plain[k])', plain_bits' - 1 - t) + Bit(keystream'[k], t)) % 2
    BY DEF Kept
  <2>1. plain_bits' = n /\ plain' = data /\ keystream' = keystream /\ cipher' = c
    BY <1>2, <1>3
  <2>2. /\ UnsignedThen(data[k])' = Number(c, SignedMin(n), data'[k])
        /\ UnsignedThen(plain[k])' = Number(c, SignedMin(n), data[k])
    BY <2>1 DEF UnsignedThen
  <2>3. \A v : Number(c, SignedMin(n), v) = Number(c, lo, v)
    BY <1>3, NumberThen
  <2>4. t \in 0 .. n - 1
    BY <2>1
  <2>5. Bit(Number(c, lo, data'[k]), t)
          = (Bit(Number(c, lo, data[k]), n - 1 - t) + Bit(keystream[k], t)) % 2
    BY <1>5, <1>6, <2>4
  <2> HIDE DEF n, c, lo
  <2>6. QED
    BY <2>1, <2>2, <2>3, <2>5, Zenon
<1>14. DeltaIsExact'
  BY <1>2, <1>3 DEF DeltaIsExact
<1>15. AsCloseAsTheBitsAllow' /\ OnlyLowBitsDamaged'
  BY <1>2 DEF AsCloseAsTheBitsAllow, OnlyLowBitsDamaged
<1>16. QED
  BY <1>9, <1>10, <1>11, <1>12, <1>13, <1>14, <1>15 DEF LsbTpeInv

(* The bit flipped in pass b, and whether flipping it may help.            *)
LEMMA MaskIs ==
  ASSUME NEW b \in Nat, num_bits \in 0 .. 11, cipher \in {"lsb", "drpe_lsb"}
  PROVE  /\ MaskPos(b) \in Int /\ MaskPos(b) <= 10
         /\ cipher = "lsb" => MaskPos(b) = num_bits - 1 - b
         /\ cipher = "drpe_lsb" => MaskPos(b) = num_bits - 2 - b
         /\ MaskPos(b) >= 0 => /\ MaskPos(b) \in 0 .. 15
                               /\ NoUse(b) <=> Abs(delta) < Two(MaskPos(b)) \div 2
         /\ MaskPos(b) < 0 => NoUse(b)
<1>1. /\ MaskPos(b) \in Int /\ MaskPos(b) <= 10
      /\ cipher = "lsb" => MaskPos(b) = num_bits - 1 - b
      /\ cipher = "drpe_lsb" => MaskPos(b) = num_bits - 2 - b
  BY DEF MaskPos
<1> HIDE DEF MaskPos
<1>2. MaskPos(b) >= 0 => NoUse(b) <=> Abs(delta) < Two(MaskPos(b)) \div 2
  BY <1>1 DEF NoUse, Two
<1>3. MaskPos(b) < 0 => NoUse(b)
  BY DEF NoUse
<1>4. QED
  BY <1>1, <1>2, <1>3

(* One iteration of the inner loop keeps the invariant: what is needed of  *)
(* the elements visited so far holds of this one too, the distance stays   *)
(* exact, and the bit that changes is one that decryption may get wrong.   *)
LEMMA FlipStep == LsbTpeInv /\ Flip => LsbTpeInv'
<1> SUFFICES ASSUME LsbTpeInv, Flip PROVE LsbTpeInv'
  OBVIOUS
<1> DEFINE c == cipher
           lo == range.min
           hi == range.max
           n == num_bits
           p == sign_bit_position
           t == MaskPos(bit)
           e == order[i]
           v == data[e]
<1>1. /\ TypeOK /\ Ready /\ Encrypting /\ Flipping /\ Kept /\ DeltaIsExact
  BY DEF LsbTpeInv
<1>2. /\ pc = "fixup" /\ bit < num_lsb_bits /\ ~NoUse(bit)
      /\ Flipped(c, lo, p, t, e, data, delta, data', delta')
      /\ IF i < N THEN i' = i + 1 /\ bit' = bit ELSE i' = 1 /\ bit' = bit + 1
      /\ UNCHANGED <<pc, cipher, option, keystream, range, num_bits, sign_bit_position,
                     num_lsb_bits, order, plain, plain_bits>>
  <2>1. \A x : Unsigned(x) = Number(c, lo, x) /\ Signed(x) = Coefficient(c, lo, p, x)
    BY DEF Unsigned, Signed, Number, Coefficient
  <2>2. Mask = Two(t) /\ (IsSet <=> Bit(Number(c, lo, v), t) = 1)
    BY <2>1, Zenon DEF Mask, IsSet, Here, Two
  <2>3. \/ delta > 0 /\ ~IsSet /\ data' = [data EXCEPT ![e] = Signed(Unsigned(v) + Mask)]
           /\ delta' = delta - Mask
        \/ delta < 0 /\ IsSet /\ data' = [data EXCEPT ![e] = Signed(Unsigned(v) - Mask)]
           /\ delta' = delta + Mask
        \/ ~(delta > 0 /\ ~IsSet) /\ ~(delta < 0 /\ IsSet)
           /\ data' = [data EXCEPT ![e] = Signed(Unsigned(v))] /\ delta' = delta
    BY DEF Flip, Here
  <2>4. Flipped(c, lo, p, t, e, data, delta, data', delta')
    BY <2>1, <2>2, <2>3, Zenon DEF Flipped
  <2>5. QED
    BY <2>4 DEF Flip, CanFlip, InLoops, Advance, settings, local
<1>3. /\ c \in {"lsb", "drpe_lsb"} /\ Settled(c, lo, hi, n, p) /\ delta \in Int
      /\ data \in [1 .. N -> Coefs] /\ order \in [1 .. N -> 1 .. N] /\ i \in 1 .. N
      /\ e \in 1 .. N /\ bit \in 0 .. num_lsb_bits /\ num_lsb_bits \in 0 .. n /\ n = plain_bits
      /\ \A k \in 1 .. N : Valid(c, lo, hi, p, data[k])
      /\ N \in Nat
  <2>1. Positions = 1 .. N /\ N \in Nat
    BY Constants
  <2>2. QED
    BY <1>1, <1>2, <2>1 DEF TypeOK, Ready, Encrypting, Flipping
<1>4. n \in 0 .. 11 /\ bit \in Nat
  BY <1>3 DEF Settled
<1>21. bit' \in 0 .. num_lsb_bits /\ i' \in 1 .. N
  <2>1. num_lsb_bits \in Nat /\ bit < num_lsb_bits /\ bit \in Nat /\ i \in 1 .. N /\ N \in Nat
    BY <1>2, <1>3, <1>4
  <2>2. CASE i < N
    BY <1>2, <2>1, <2>2
  <2>3. CASE i = N
    BY <1>2, <2>1, <2>3
  <2>4. QED
    BY <2>1, <2>2, <2>3
<1>5. /\ t \in 0 .. 15 /\ ~(Abs(delta) < Two(t) \div 2)
      /\ c = "lsb" => t = n - 1 - bit
      /\ c = "drpe_lsb" => t = n - 2 - bit
  <2>1. t \in Int /\ t >= 0
    BY <1>2, <1>3, <1>4, MaskIs
  <2>2. QED
    BY <1>2, <1>3, <1>4, <2>1, MaskIs
<1>13. Two(t) \in Nat /\ Two(t) \div 2 \in Nat
  <2>1. t \in 0 .. 15
    BY <1>5
  <2> HIDE DEF t
  <2>2. QED
    BY <2>1, Halves
<1>6. PassDone(c, lo, data, order, delta, t, i - 1)
  <2>1. CASE i > 1
    BY <1>1, <1>2, <2>1 DEF Flipping, Visited
  <2>2. CASE i = 1
    <3>1. i - 1 = 0 /\ delta \in Int /\ Two(t) \in Nat
      BY <1>3, <1>13, <2>2
    <3> HIDE DEF t
    <3>2. delta > 0 \/ delta < 0 \/ 2 * Abs(delta) <= Two(t)
      BY <3>1 DEF Abs
    <3>3. \A j \in 1 .. 0 : FALSE
      OBVIOUS
    <3>4. QED
      BY <3>1, <3>2, <3>3 DEF PassDone
  <2>3. QED
    BY <1>3, <2>1, <2>2
<1> HIDE DEF c, lo, hi, n, p, t, e
<1>7. PICK x \in Coefs : /\ data' = [data EXCEPT ![e] = x] /\ Valid(c, lo, hi, p, x)
                         /\ ChangedBy(c, lo, t, v, delta, x, delta')
                         /\ SameNumberBut(c, lo, v, x, t)
  <2>1. IF c = "lsb" THEN t < n ELSE t < n - 1
    BY <1>3, <1>4, <1>5
  <2>2. Valid(c, lo, hi, p, data[e])
    BY <1>3
  <2>3. /\ c \in {"lsb", "drpe_lsb"} /\ Settled(c, lo, hi, n, p)
        /\ t \in 0 .. 15 /\ (IF c = "lsb" THEN t < n ELSE t < n - 1)
        /\ N \in Nat /\ data \in [1 .. N -> Coefs] /\ e \in 1 .. N
        /\ Valid(c, lo, hi, p, data[e]) /\ delta \in Int
        /\ Flipped(c, lo, p, t, e, data, delta, data', delta')
    BY <1>2, <1>3, <1>5, <2>1, <2>2
  <2>4. QED
    BY <2>3, OneFlip, ZenonT(30)
<1>8. PassDone(c, lo, data', order, delta', t, i) /\ delta' \in Int
  <2>1. Abs(delta) >= Two(t) \div 2
    <3>1. Two(t) \div 2 \in Int /\ Abs(delta) \in Int
      BY <1>3, <1>13 DEF Abs
    <3>2. QED
      BY <1>5, <3>1
  <2>2. QED
    BY <1>3, <1>5, <1>6, <1>7, <2>1, PassGoesOn DEF e
<1>9. data' \in [1 .. N -> Coefs] /\ data'[e] = x /\ \A k \in 1 .. N : k # e => data'[k] = data[k]
  BY <1>3, <1>7
<1>10. \A k \in 1 .. N : Valid(c, lo, hi, p, data'[k])
  BY <1>3, <1>7, <1>9
<1>11. c' = c /\ lo' = lo /\ hi' = hi /\ n' = n /\ p' = p
  BY <1>2 DEF c, lo, hi, n, p
<1>12. TypeOK'
  <2>1. data' \in [Positions -> Coefs] /\ delta' \in Int
    BY <1>8, <1>9 DEF Positions
  <2>2. bit' \in Nat /\ i' \in Positions
    BY <1>3, <1>21 DEF Positions
  <2>3. fcn_user_arg' \in Int
    BY <1>1, <1>2 DEF TypeOK, fcn_user_arg
  <2>4. QED
    BY <1>1, <1>2, <2>1, <2>2, <2>3 DEF TypeOK
<1>14. Ready'
  <2>1. Settled(cipher', range'.min, range'.max, num_bits', sign_bit_position')
    BY <1>3, <1>11 DEF c, lo, hi, n, p
  <2>2. cipher' = "lsb" => \A k \in Positions : range'.min <= data'[k] /\ data'[k] <= range'.max
    <3>1. \A k \in 1 .. N : c = "lsb" => lo <= data'[k] /\ data'[k] <= hi
      BY <1>10 DEF Valid
    <3>2. QED
      BY <1>2, <3>1, Constants DEF c, lo, hi
  <2>3. QED
    BY <2>1, <2>2 DEF Ready
<1>15. Encrypting'
  BY <1>1, <1>2 DEF Encrypting
<1>16. Flipping'
  <2>1. \A k \in Positions : Valid(cipher', range'.min, range'.max, sign_bit_position', data'[k])
    BY <1>2, <1>10, Constants DEF c, lo, hi, p
  <2>2. bit' \in 0 .. num_lsb_bits'
    BY <1>2, <1>21
  <2>3. \A b, k : Visited(b, k)' <=> PassDone(c, lo, data', order, delta', MaskPos(b), k)
    BY <1>2 DEF Visited, MaskPos, c, lo
  <2>4. PassDone(c, lo, data', order, delta', MaskPos(bit), i) /\ MaskPos(bit) >= 0
    BY <1>5, <1>8 DEF t
  <2>5. MaskPos(bit)' = MaskPos(bit') /\ \A b : MaskPos(b)' = MaskPos(b)
    BY <1>2 DEF MaskPos
  <2>6. CASE i < N
    <3>1. i' = i + 1 /\ bit' = bit /\ i' - 1 = i /\ i' # 1
      BY <1>2, <1>3, <2>6
    <3>2. bit' < num_lsb_bits' /\ MaskPos(bit)' >= 0
      BY <1>2, <2>4, <2>5, <3>1
    <3>3. PassDone(c, lo, data', order, delta', MaskPos(bit'), i' - 1)
      BY <2>4, <3>1
    <3>4. Visited(bit, i - 1)'
      BY <1>2, <3>3 DEF Visited, MaskPos, c, lo
    <3>5. QED
      BY <2>1, <2>2, <3>1, <3>2, <3>4 DEF Flipping
  <2>7. CASE i = N
    <3>1. i' = 1 /\ bit' = bit + 1 /\ bit' - 1 = bit
      BY <1>2, <1>3, <1>4, <2>7
    <3>2. MaskPos(bit - 1)' >= 0
      BY <2>4, <2>5, <3>1 DEF MaskPos
    <3>3. PassDone(c, lo, data', order, delta', MaskPos(bit' - 1), N)
      BY <2>4, <2>7, <3>1
    <3>4. Visited(bit - 1, N)'
      BY <1>2, <3>3 DEF Visited, MaskPos, c, lo
    <3>5. QED
      BY <2>1, <2>2, <3>1, <3>2, <3>4 DEF Flipping
  <2>8. QED
    BY <1>3, <2>6, <2>7
<1>17. Kept'
  <2> SUFFICES ASSUME NEW k \in Positions, NEW j \in 0 .. plain_bits' - 1,
                      plain_bits' - 1 - j \notin Damaged'
               PROVE  Bit(UnsignedThen(data[k])', j)
                        = (Bit(UnsignedThen(plain[k])', plain_bits' - 1 - j) + Bit(keystream'[k], j)) % 2
    BY DEF Kept
  <2>1. plain_bits' = n /\ plain_bits = n /\ keystream' = keystream /\ Damaged' = Damaged
    BY <1>2, <1>3 DEF Damaged
  <2>2. /\ UnsignedThen(data[k])' = Number(c, SignedMin(n), data'[k])
        /\ UnsignedThen(plain[k])' = Number(c, SignedMin(n), plain[k])
        /\ UnsignedThen(data[k]) = Number(c, SignedMin(n), data[k])
        /\ UnsignedThen(plain[k]) = Number(c, SignedMin(n), plain[k])
    BY <1>2, <2>1 DEF UnsignedThen, c
  <2>3. j \in 0 .. n - 1 /\ n - 1 - j \notin Damaged /\ k \in 1 .. N
    BY <2>1 DEF Positions
  <2>4. Bit(Number(c, SignedMin(n), data[k]), j)
          = (Bit(Number(c, SignedMin(n), plain[k]), n - 1 - j) + Bit(keystream[k], j)) % 2
    BY <1>1, <1>2, <2>1, <2>2, <2>3 DEF Kept
  <2>5. Bit(Number(c, SignedMin(n), data'[k]), j) = Bit(Number(c, SignedMin(n), data[k]), j)
    <3>1. \A w : Number(c, SignedMin(n), w) = Number(c, lo, w)
      BY <1>3, NumberThen
    <3>2. CASE k = e
      <4>1. j # t
        <5>1. bit \in Nat /\ bit < num_lsb_bits /\ num_lsb_bits \in Nat
          BY <1>2, <1>3, <1>4
        <5>2. c = "lsb" => n - 1 - t = bit /\ Damaged = 0 .. num_lsb_bits - 1
          BY <1>4, <1>5, <5>1 DEF Damaged, c
        <5>3. c = "drpe_lsb" => n - 1 - t = bit + 1 /\ Damaged = 1 .. num_lsb_bits
          BY <1>4, <1>5, <5>1 DEF Damaged, c
        <5>4. n - 1 - t \in Damaged
          BY <1>3, <5>1, <5>2, <5>3
        <5>5. QED
          BY <2>3, <5>4
      <4>2. j \in 0 .. 15
        BY <1>4, <2>3
      <4>3. Bit(Number(c, lo, x), j) = Bit(Number(c, lo, data[e]), j)
        BY <1>7, <4>1, <4>2 DEF SameNumberBut
      <4>4. QED
        BY <1>9, <3>1, <3>2, <4>3
    <3>3. CASE k # e
      BY <1>9, <2>3, <3>3
    <3>4. QED
      BY <3>2, <3>3
  <2>6. QED
    BY <2>1, <2>2, <2>4, <2>5, Zenon
<1>18. DeltaIsExact'
  <2>1. data \in [1 .. N -> Int]
    <3>1. \A w \in Coefs : w \in Int
      BY CoefsAre
    <3>2. QED
      BY <1>3, <3>1
  <2>2. x \in Int /\ data[e] \in Int
    BY <1>3, <2>1, CoefsAre
  <2>3. Total(data) \in Int /\ Total(data') = Total(data) - data[e] + x
    BY <1>3, <1>7, <2>1, <2>2, TotalUpdate
  <2>4. delta = Total(plain) - Total(data) /\ delta' = delta - (x - data[e])
    BY <1>1, <1>2, <1>7 DEF DeltaIsExact, ChangedBy
  <2>5. Total(plain) \in Int
    <3>1. plain \in [1 .. N -> Coefs]
      BY <1>1 DEF TypeOK, Positions
    <3>2. plain \in [1 .. N -> Int]
      <4>1. \A w \in Coefs : w \in Int
        BY CoefsAre
      <4>2. QED
        BY <3>1, <4>1
    <3>3. Len(plain) = N /\ Sums(plain)[N] \in Int
      BY <3>2, Constants, SumsAreInt
    <3>4. QED
      BY <3>3 DEF Total
  <2>6. delta' = Total(plain) - Total(data')
    BY <2>2, <2>3, <2>4, <2>5
  <2>7. QED
    BY <1>2, <2>6 DEF DeltaIsExact
<1>19. AsCloseAsTheBitsAllow' /\ OnlyLowBitsDamaged'
  BY <1>2 DEF AsCloseAsTheBitsAllow, OnlyLowBitsDamaged
<1>20. QED
  BY <1>12, <1>14, <1>15, <1>16, <1>17, <1>18, <1>19 DEF LsbTpeInv

(* lsb.c goes on to the next bit when this one is of no use any more.      *)
LEMMA NextBitStep == LsbTpeInv /\ NextBit => LsbTpeInv'
<1> SUFFICES ASSUME LsbTpeInv, NextBit PROVE LsbTpeInv'
  OBVIOUS
<1>1. /\ TypeOK /\ Ready /\ Encrypting /\ Flipping /\ Kept /\ DeltaIsExact
  BY DEF LsbTpeInv
<1>2. /\ pc = "fixup" /\ bit < num_lsb_bits /\ cipher = "lsb" /\ NoUse(bit)
      /\ bit' = bit + 1 /\ i' = 1
      /\ UNCHANGED <<pc, cipher, option, keystream, data, range, num_bits, sign_bit_position,
                     num_lsb_bits, order, delta, plain, plain_bits>>
  BY DEF NextBit, InLoops, settings, local
<1>3. /\ Settled(cipher, range.min, range.max, num_bits, sign_bit_position)
      /\ bit \in 0 .. num_lsb_bits /\ num_lsb_bits \in 0 .. num_bits /\ delta \in Int
  BY <1>1, <1>2 DEF TypeOK, Ready, Encrypting, Flipping
<1>4. num_bits \in 0 .. 11 /\ bit \in Nat
  BY <1>3 DEF Settled
<1> DEFINE t == MaskPos(bit)
<1>5. t \in 0 .. 15 /\ Abs(delta) < Two(t) \div 2
  <2>1. t = num_bits - 1 - bit
    BY <1>2, <1>4, MaskIs
  <2>2. t >= 0
    BY <1>2, <1>3, <1>4, <2>1
  <2>3. QED
    BY <1>2, <1>4, <2>2, MaskIs
<1>6. PassDone(cipher, range.min, data, order, delta, t, N)
  <2> HIDE DEF t
  <2>1. /\ Two(t) \in Nat \ {0} /\ Two(t) \div 2 \in Nat
        /\ (Two(t) = 2 * (Two(t) \div 2) \/ (Two(t) = 1 /\ Two(t) \div 2 = 0))
    BY <1>5, Halves
  <2>2. Abs(delta) \in Nat
    BY <1>3 DEF Abs
  <2>3. 2 * Abs(delta) <= Two(t)
    BY <1>5, <2>1, <2>2
  <2>4. QED
    BY <2>3 DEF PassDone
<1>7. TypeOK'
  <2>1. bit' \in Nat /\ i' \in Positions
    BY <1>2, <1>4, Constants
  <2>2. fcn_user_arg' \in Int
    BY <1>1, <1>2 DEF TypeOK, fcn_user_arg
  <2>3. QED
    BY <1>1, <1>2, <2>1, <2>2 DEF TypeOK
<1>8. Ready' /\ Encrypting'
  BY <1>1, <1>2 DEF Ready, Encrypting
<1>9. Flipping'
  <2>1. bit' \in 0 .. num_lsb_bits' /\ i' = 1 /\ bit' - 1 = bit
    BY <1>2, <1>3
  <2>2. MaskPos(bit - 1)' >= 0 /\ Visited(bit - 1, N)'
    BY <1>2, <1>5, <1>6, <2>1 DEF MaskPos, Visited
  <2>3. \A k \in Positions : Valid(cipher', range'.min, range'.max, sign_bit_position', data'[k])
    BY <1>1, <1>2 DEF Flipping
  <2>4. QED
    BY <2>1, <2>2, <2>3 DEF Flipping
<1>10. Kept'
  BY <1>1, <1>2 DEF Kept, UnsignedThen, Damaged
<1>11. DeltaIsExact'
  BY <1>1, <1>2 DEF DeltaIsExact
<1>12. AsCloseAsTheBitsAllow' /\ OnlyLowBitsDamaged'
  BY <1>2 DEF AsCloseAsTheBitsAllow, OnlyLowBitsDamaged
<1>13. QED
  BY <1>7, <1>8, <1>9, <1>10, <1>11, <1>12 DEF LsbTpeInv

(* The flipping ends: the order has come to every element.                 *)
LEMMA FixupDoneStep == LsbTpeInv /\ FixupDone => LsbTpeInv'
<1> SUFFICES ASSUME LsbTpeInv, FixupDone PROVE LsbTpeInv'
  OBVIOUS
<1>1. /\ TypeOK /\ Ready /\ Encrypting /\ Flipping /\ Kept
  BY DEF LsbTpeInv
<1>2. /\ pc = "fixup" /\ pc' = "sent"
      /\ bit = num_lsb_bits \/ (cipher = "drpe_lsb" /\ NoUse(bit))
      /\ UNCHANGED <<cipher, option, keystream, data, range, num_bits, sign_bit_position,
                     num_lsb_bits, order, delta, bit, i, plain, plain_bits>>
  BY DEF FixupDone, settings, local
<1>3. /\ Settled(cipher, range.min, range.max, num_bits, sign_bit_position)
      /\ bit \in 0 .. num_lsb_bits /\ num_lsb_bits \in 0 .. num_bits /\ delta \in Int
      /\ cipher \in {"lsb", "drpe_lsb"} /\ i \in 1 .. N
  BY <1>1, <1>2 DEF TypeOK, Ready, Encrypting, Flipping, Positions
<1>4. num_bits \in 0 .. 11 /\ bit \in Nat /\ num_lsb_bits \in Nat
  BY <1>3 DEF Settled
<1>5. TypeOK'
  <2>1. fcn_user_arg' \in Int
    BY <1>1, <1>2 DEF TypeOK, fcn_user_arg
  <2>2. QED
    BY <1>1, <1>2, <2>1 DEF TypeOK
<1>6. Ready' /\ Encrypting' /\ Kept'
  BY <1>1, <1>2 DEF Ready, Encrypting, Kept, UnsignedThen, Damaged
<1>7. Flipping' /\ DeltaIsExact' /\ OnlyLowBitsDamaged'
  BY <1>2 DEF Flipping, DeltaIsExact, OnlyLowBitsDamaged
<1> DEFINE last == IF bit = num_lsb_bits \/ MaskPos(bit) < 0 THEN bit - 1 ELSE bit
           bits == {Bit(Unsigned(data[k]), MaskPos(last)) : k \in Positions}
<1>8. last >= 0 => \/ 2 * Abs(delta) <= Two(MaskPos(last))
                   \/ delta > 0 /\ bits = {1}
                   \/ delta < 0 /\ bits = {0}
  <2> SUFFICES ASSUME last >= 0
               PROVE  \/ 2 * Abs(delta) <= Two(MaskPos(last))
                      \/ delta > 0 /\ bits = {1}
                      \/ delta < 0 /\ bits = {0}
    OBVIOUS
  <2>1. MaskPos(last) >= 0 /\ Visited(last, N) /\ last \in Nat
    <3>1. CASE bit = num_lsb_bits \/ MaskPos(bit) < 0
      <4>1. last = bit - 1 /\ bit > 0
        BY <1>4, <3>1
      <4>2. ~(i > 1)
        BY <1>1, <1>2, <1>4, <3>1, MaskIs DEF Flipping
      <4>3. i = 1
        BY <1>3, <4>2
      <4>4. QED
        BY <1>1, <1>2, <1>4, <4>1, <4>3 DEF Flipping
    <3>2. CASE ~(bit = num_lsb_bits \/ MaskPos(bit) < 0)
      <4>1. last = bit /\ cipher = "drpe_lsb" /\ NoUse(bit) /\ MaskPos(bit) \in Int
        BY <1>2, <1>3, <1>4, <3>2, MaskIs
      <4> DEFINE t == MaskPos(bit)
      <4>2. t \in 0 .. 15 /\ Abs(delta) < Two(t) \div 2 /\ t >= 0
        BY <1>3, <1>4, <3>2, <4>1, MaskIs
      <4> HIDE DEF t
      <4>3. 2 * Abs(delta) <= Two(t)
        <5>1. /\ Two(t) \in Nat \ {0} /\ Two(t) \div 2 \in Nat
              /\ (Two(t) = 2 * (Two(t) \div 2) \/ (Two(t) = 1 /\ Two(t) \div 2 = 0))
          BY <4>2, Halves
        <5>2. Abs(delta) \in Nat
          BY <1>3 DEF Abs
        <5>3. QED
          BY <4>2, <5>1, <5>2
      <4>4. PassDone(cipher, range.min, data, order, delta, t, N)
        BY <4>3 DEF PassDone
      <4>5. QED
        BY <1>4, <4>1, <4>2, <4>4 DEF Visited, t
    <3>3. QED
      BY <3>1, <3>2
  <2> DEFINE t == MaskPos(last)
  <2> HIDE DEF last
  <2>2. \/ 2 * Abs(delta) <= Two(t)
        \/ delta > 0 /\ \A j \in 1 .. N : Bit(Unsigned(data[order[j]]), t) = 1
        \/ delta < 0 /\ \A j \in 1 .. N : Bit(Unsigned(data[order[j]]), t) = 0
    BY <2>1 DEF Visited, PassDone, Unsigned, Number
  <2>3. ASSUME NEW b \in {0, 1}, \A j \in 1 .. N : Bit(Unsigned(data[order[j]]), t) = b
        PROVE  bits = {b}
    <3>1. ASSUME NEW k \in Positions PROVE Bit(Unsigned(data[k]), t) = b
      <4>1. /\ order \in [1 .. N -> 1 .. N] /\ N \in Nat /\ k \in 1 .. N
            /\ \A j, l \in 1 .. N : order[j] = order[l] => j = l
        BY <1>1, Constants DEF TypeOK
      <4>2. PICK j \in 1 .. N : order[j] = k
        BY <4>1, OrderIsOnto
      <4>3. QED
        BY <2>3, <4>2
    <3>2. 1 \in Positions
      BY Constants
    <3> HIDE DEF t
    <3>3. bits = {Bit(Unsigned(data[k]), t) : k \in Positions}
      BY DEF t
    <3>4. QED
      BY <3>1, <3>2, <3>3
  <2>4. QED
    BY <2>2, <2>3
<1>9. AsCloseAsTheBitsAllow'
  <2>1. last' = last /\ bits' = bits /\ MaskPos(last)' = MaskPos(last) /\ delta' = delta
    BY <1>2 DEF MaskPos, Unsigned
  <2> HIDE DEF last, bits
  <2>2. last' >= 0 => \/ 2 * Abs(delta') <= Two(MaskPos(last)')
                      \/ delta' > 0 /\ bits' = {1}
                      \/ delta' < 0 /\ bits' = {0}
    BY <1>8, <2>1
  <2>3. QED
    BY <2>2 DEF AsCloseAsTheBitsAllow, Two, last, bits
<1>10. QED
  BY <1>5, <1>6, <1>7, <1>9 DEF LsbTpeInv

(* What is deciphered is the plaintext, as far as it was kept.             *)
LEMMA DecryptStep == LsbTpeInv /\ Decrypt => LsbTpeInv'
<1> SUFFICES ASSUME LsbTpeInv, Decrypt PROVE LsbTpeInv'
  OBVIOUS
<1>1. TypeOK /\ Ready /\ Encrypting /\ Kept
  BY DEF LsbTpeInv
<1>2. /\ pc = "decrypt" /\ pc' = "done"
      /\ data' = [k \in Positions |-> Unscrambled(data[k], keystream[k])]
      /\ UNCHANGED <<cipher, option, keystream, range, num_bits, sign_bit_position, num_lsb_bits,
                     order, delta, bit, i, plain, plain_bits>>
  BY DEF Decrypt, settings, local
<1> DEFINE c == cipher
           lo == range.min
           hi == range.max
           n == num_bits
           p == sign_bit_position
           w(k) == UnscrambledAs(c, lo, p, n, data[k], keystream[k])
<1>3. /\ c \in {"lsb", "drpe_lsb"} /\ Settled(c, lo, hi, n, p)
      /\ c = "lsb" => \A k \in Positions : lo <= data[k] /\ data[k] <= hi
  BY <1>1, <1>2 DEF TypeOK, Ready
<1>4. data' = [k \in Positions |-> w(k)]
  <2>1. \A v, ks : Unscrambled(v, ks) = UnscrambledAs(c, lo, p, n, v, ks)
    BY DEF Unscrambled, UnscrambledAs, Signed, Unsigned, Number, Coefficient
  <2>2. QED
    BY <1>2, <2>1, Zenon
<1>5. ASSUME NEW k \in Positions
      PROVE  /\ Valid(c, lo, hi, p, w(k))
             /\ \A t \in 0 .. n - 1 :
                  Bit(Number(c, lo, w(k)), t)
                    = (Bit(Number(c, lo, data[k]), n - 1 - t) + Bit(keystream[k], n - 1 - t)) % 2
  <2> DEFINE v == data[k]
             ks == keystream[k]
  <2>1. v \in Coefs /\ ks \in Int /\ (c = "lsb" => lo <= v /\ v <= hi)
    BY <1>1, <1>3 DEF TypeOK
  <2> HIDE DEF v, ks, lo, hi, c, p, n
  <2>2. /\ Valid(c, lo, hi, p, UnscrambledAs(c, lo, p, n, v, ks))
        /\ \A t \in 0 .. n - 1 :
             Bit(Number(c, lo, UnscrambledAs(c, lo, p, n, v, ks)), t)
               = (Bit(Number(c, lo, v), n - 1 - t) + Bit(ks, n - 1 - t)) % 2
    BY <1>3, <2>1, UnscrambleBits
  <2>3. QED
    BY <2>2, Zenon DEF v, ks
<1>6. \A k \in Positions : data'[k] = w(k)
  BY <1>4
<1> HIDE DEF w
<1>7. \A k \in Positions : data'[k] \in Coefs /\ Valid(c, lo, hi, p, data'[k])
  BY <1>5, <1>6 DEF Valid
<1>8. data' \in [Positions -> Coefs]
  BY <1>4, <1>6, <1>7
<1>9. TypeOK'
  <2>1. fcn_user_arg' \in Int
    BY <1>1, <1>2 DEF TypeOK, fcn_user_arg
  <2>2. QED
    BY <1>1, <1>2, <1>8, <2>1 DEF TypeOK
<1>10. Ready'
  <2>1. Settled(cipher', range'.min, range'.max, num_bits', sign_bit_position')
    BY <1>2, <1>3
  <2>2. cipher' = "lsb" => \A k \in Positions : range'.min <= data'[k] /\ data'[k] <= range'.max
    BY <1>2, <1>7 DEF Valid
  <2>3. QED
    BY <2>1, <2>2 DEF Ready
<1>11. /\ Encrypting' /\ Flipping' /\ Kept' /\ DeltaIsExact' /\ AsCloseAsTheBitsAllow'
  BY <1>2 DEF Encrypting, Flipping, Kept, DeltaIsExact, AsCloseAsTheBitsAllow
<1>12. OnlyLowBitsDamaged'
  <2> SUFFICES ASSUME num_bits' = plain_bits', NEW k \in Positions,
                      NEW t \in (0 .. num_bits' - 1) \ Damaged'
               PROVE  Bit(Unsigned(data[k])', t) = Bit(Unsigned(plain[k])', t)
    BY DEF OnlyLowBitsDamaged
  <2>1. plain_bits = n /\ n \in Nat /\ Damaged' = Damaged /\ t \in 0 .. n - 1 /\ t \notin Damaged
    BY <1>1, <1>2 DEF TypeOK, Damaged
  <2>2. /\ Unsigned(data[k])' = Number(c, lo, data'[k]) /\ Unsigned(plain[k])' = Number(c, lo, plain[k])
    BY <1>2 DEF Unsigned, Number
  <2>3. \A v : UnsignedThen(v) = Number(c, lo, v)
    <3>1. \A v : Number(c, SignedMin(n), v) = Number(c, lo, v)
      BY <1>3, NumberThen
    <3>2. QED
      BY <2>1, <3>1, Zenon DEF UnsignedThen
  <2> DEFINE j == n - 1 - t
             x == Bit(Number(c, lo, plain[k]), t)
             y == Bit(keystream[k], j)
             z == Bit(Number(c, lo, data[k]), j)
  <2>4. j \in 0 .. n - 1 /\ n - 1 - j = t
    BY <2>1
  <2>5. z = (x + y) % 2
    <3>1. plain_bits - 1 - j \notin Damaged /\ j \in 0 .. plain_bits - 1
      BY <2>1, <2>4
    <3> HIDE DEF j
    <3>2. Bit(UnsignedThen(data[k]), j)
            = (Bit(UnsignedThen(plain[k]), plain_bits - 1 - j) + Bit(keystream[k], j)) % 2
      BY <1>1, <1>2, <3>1 DEF Kept
    <3>3. QED
      BY <2>1, <2>3, <2>4, <3>2
  <2>6. Bit(Number(c, lo, data'[k]), t) = (z + y) % 2
    BY <1>5, <1>6, <2>1
  <2>7. x \in {0, 1} /\ y \in {0, 1}
    <3>1. t \in 0 .. 15 /\ j \in 0 .. 15
      BY <1>3, <2>1, <2>4 DEF Settled
    <3>2. plain[k] \in Coefs /\ keystream[k] \in Int
      BY <1>1 DEF TypeOK
    <3>3. Number(c, lo, plain[k]) \in Int
      <4>1. lo \in Int /\ plain[k] \in Int
        BY <1>3, <3>2, CoefsAre, BoundsAre DEF Settled
      <4>2. QED
        BY <4>1, Uint16Bits DEF Number
    <3> HIDE DEF j, lo, c
    <3>4. QED
      BY <3>1, <3>2, <3>3, HalfStep
  <2> HIDE DEF x, y, z
  <2>8. (z + y) % 2 = x
    BY <2>5, <2>7
  <2>9. Bit(Number(c, lo, data'[k]), t) = x
    BY <2>6, <2>8
  <2>10. QED
    BY <2>2, <2>9 DEF x
<1>13. QED
  BY <1>9, <1>10, <1>11, <1>12 DEF LsbTpeInv
-----------------------------------------------------------------------------
(* Every reachable state satisfies the invariant, for every value of the   *)
(* constants.                                                              *)
THEOREM LsbTpeInvariant == Spec => []LsbTpeInv
<1>1. LsbTpeInv /\ [Next]_vars => LsbTpeInv'
  <2> SUFFICES ASSUME LsbTpeInv, [Next]_vars PROVE LsbTpeInv'
    OBVIOUS
  <2>1. CASE Next
    BY <2>1, StartStep, EncryptStep, FlipStep, NextBitStep, FixupDoneStep, DecryptStep DEF Next
  <2>2. CASE UNCHANGED vars
    <3>1. UNCHANGED <<pc, cipher, option, keystream, data, range, num_bits, sign_bit_position,
                      num_lsb_bits, order, delta, bit, i, plain, plain_bits>>
      BY <2>2 DEF vars, settings, local
    <3>2. TypeOK /\ Ready /\ Encrypting /\ Flipping /\ Kept
      BY DEF LsbTpeInv
    <3>3. TypeOK'
      <4>1. fcn_user_arg' \in Int
        BY <3>1, <3>2 DEF TypeOK, fcn_user_arg
      <4>2. QED
        BY <3>1, <3>2, <4>1 DEF TypeOK
    <3>4. Ready' /\ Encrypting' /\ Kept'
      BY <3>1, <3>2 DEF Ready, Encrypting, Kept, UnsignedThen, Damaged
    <3>5. Flipping'
      BY <3>1, <3>2 DEF Flipping, Visited, MaskPos
    <3>6. DeltaIsExact' /\ AsCloseAsTheBitsAllow' /\ OnlyLowBitsDamaged'
      <4>1. DeltaIsExact /\ AsCloseAsTheBitsAllow /\ OnlyLowBitsDamaged
        BY DEF LsbTpeInv
      <4>2. DeltaIsExact'
        BY <3>1, <4>1 DEF DeltaIsExact
      <4>3. OnlyLowBitsDamaged'
        BY <3>1, <4>1 DEF OnlyLowBitsDamaged, Damaged, Unsigned
      <4>4. AsCloseAsTheBitsAllow'
        <5> DEFINE last == IF bit = num_lsb_bits \/ MaskPos(bit) < 0 THEN bit - 1 ELSE bit
                   bits == {Bit(Unsigned(data[k]), MaskPos(last)) : k \in Positions}
        <5>1. last' = last /\ bits' = bits /\ MaskPos(last)' = MaskPos(last)
          BY <3>1 DEF MaskPos, Unsigned
        <5>2. pc = "sent" /\ last >= 0 => \/ 2 * Abs(delta) <= 2^MaskPos(last)
                                          \/ delta > 0 /\ bits = {1}
                                          \/ delta < 0 /\ bits = {0}
          BY <4>1 DEF AsCloseAsTheBitsAllow
        <5> HIDE DEF last, bits
        <5>3. pc' = "sent" /\ last' >= 0 => \/ 2 * Abs(delta') <= 2^(MaskPos(last)')
                                            \/ delta' > 0 /\ bits' = {1}
                                            \/ delta' < 0 /\ bits' = {0}
          BY <3>1, <5>1, <5>2
        <5>4. QED
          BY <5>3 DEF AsCloseAsTheBitsAllow, last, bits
      <4>5. QED
        BY <4>2, <4>3, <4>4
    <3>7. QED
      BY <3>3, <3>4, <3>5, <3>6 DEF LsbTpeInv
  <2>3. QED
    BY <2>1, <2>2
<1>2. QED
  BY InitInv, <1>1, PTL DEF Spec

(* The assertions of lsb.c and drpe_lsb.c never fail: the number of bits   *)
(* to flip is not negative and not above that of the bits that vary, and   *)
(* in lsb.c every value is within its range.                               *)
THEOREM LsbTpeAsserts == Spec => []AssertsHold
<1>1. LsbTpeInv => AssertsHold
  <2> SUFFICES ASSUME LsbTpeInv PROVE AssertsHold
    OBVIOUS
  <2>1. pc = "fixup" => num_lsb_bits \in 0 .. num_bits
    BY DEF LsbTpeInv, Encrypting
  <2>2. cipher = "lsb" /\ pc # "plain" => Within(data, range.min, range.max)
    BY DEF LsbTpeInv, TypeOK, Ready, Within, Elements
  <2>3. QED
    BY <2>1, <2>2 DEF AssertsHold
<1>2. QED
  BY LsbTpeInvariant, <1>1, PTL

(* The distance that the flipping adjusts is always that of the two sums.  *)
THEOREM LsbTpeDelta == Spec => []DeltaIsExact
<1>1. LsbTpeInv => DeltaIsExact
  BY DEF LsbTpeInv
<1>2. QED
  BY LsbTpeInvariant, <1>1, PTL

(* When the flipping ends, the sum is within half of the last bit tried,   *)
(* or every element of the block has that bit as it is needed.             *)
THEOREM LsbTpeClose == Spec => []AsCloseAsTheBitsAllow
<1>1. LsbTpeInv => AsCloseAsTheBitsAllow
  BY DEF LsbTpeInv
<1>2. QED
  BY LsbTpeInvariant, <1>1, PTL

(* A decrypting run that finds as many varying bits as the encrypting run  *)
(* recovers every bit but those that flipped bits stood for.               *)
THEOREM LsbTpeDamage == Spec => []OnlyLowBitsDamaged
<1>1. LsbTpeInv => OnlyLowBitsDamaged
  BY DEF LsbTpeInv
<1>2. QED
  BY LsbTpeInvariant, <1>1, PTL
=============================================================================
