---------------------------- MODULE CoefTheorems ----------------------------
(***************************************************************************)
(* Facts on which the proofs of several components rest. About numbers:    *)
(* induction, functions defined by recursion, and multiples; these need    *)
(* nothing of the model. About coefficients, for the ciphers: their bits,  *)
(* the conversions to and from unsigned numbers, what the range functions  *)
(* of minmax.c find, and what drpe.c, fpe.c and mosaic.c make of a block   *)
(* within a range. They hold for blocks of any length, any coefficients an *)
(* image may hold and any keystream.                                       *)
(*                                                                         *)
(* Numbers of 16 bits are met as powers of two named Two(t), so that no    *)
(* fact depends on a table of them except where the width matters.         *)
(***************************************************************************)
EXTENDS ElementCiphers, Integers, WellFoundedInduction, TLAPS

(* A nonempty set of numbers has a least one, so what holds of 0 and with  *)
(* each number of the next holds of all.                                   *)
LEMMA LeastNumber ==
  ASSUME NEW T, T \subseteq Nat, T # {}
  PROVE  \E n \in T : \A m \in T : n <= m
<1> DEFINE R == {p \in Nat \X Nat : p[1] < p[2]}
<1>1. IsWellFoundedOn(R, Nat)
  BY NatLessThanWellFounded, Zenon DEF OpToRel
<1> HIDE DEF R
<1>2. PICK n \in T : \A m \in T : ~ (<<m, n>> \in R)
  BY <1>1, WFMin
<1>3. ASSUME NEW m \in T PROVE n <= m
  <2>1. n \in Nat /\ m \in Nat
    BY <1>2
  <2>2. <<m, n>> \notin R
    BY <1>2
  <2>3. ~ (m < n)
    BY <2>1, <2>2 DEF R
  <2>4. QED
    BY <2>1, <2>3
<1>4. QED
  BY <1>2, <1>3

(* Induction over the numbers, for a set G of those that have the property. *)
LEMMA Induction ==
  ASSUME NEW G, 0 \in G, \A n \in Nat : n \in G => n + 1 \in G
  PROVE  Nat \subseteq G
<1> SUFFICES ASSUME NEW z \in Nat, z \notin G PROVE FALSE
  OBVIOUS
<1> DEFINE T == Nat \ G
<1>1. PICK m \in T : \A k \in T : m <= k
  BY LeastNumber
<1>2. m \in Nat /\ m # 0 /\ m - 1 \in Nat
  BY <1>1
<1>3. m - 1 \in G
  BY <1>1, <1>2
<1>4. m - 1 + 1 \in G /\ m - 1 + 1 = m
  BY <1>2, <1>3
<1>5. QED
  BY <1>1, <1>4

(* A function on 0..n can be defined step by step: f follows the rules h   *)
(* from a when each value comes from the one before by the rule for it.    *)
Rules(S, n) == [1..n -> [S -> S]]
Follows(f, n, a, h) == f[0] = a /\ \A k \in 1..n : f[k] = h[k][f[k - 1]]

LEMMA Recursion ==
  ASSUME NEW S, NEW n \in Nat, NEW a \in S, NEW h \in Rules(S, n)
  PROVE  \E f : f \in [0..n -> S] /\ Follows(f, n, a, h)
<1> DEFINE G == {m \in Nat : m <= n => \E f : f \in [0..m -> S] /\ Follows(f, m, a, h)}
<1>1. 0 \in G
  <2> DEFINE f == [k \in 0..0 |-> a]
  <2>1. f \in [0..0 -> S] /\ Follows(f, 0, a, h)
    BY DEF Follows
  <2>2. QED
    BY <2>1
<1>2. ASSUME NEW m \in Nat, m \in G PROVE m + 1 \in G
  <2> SUFFICES ASSUME m + 1 <= n
               PROVE  \E f : f \in [0..(m + 1) -> S] /\ Follows(f, m + 1, a, h)
    OBVIOUS
  <2>1. PICK f : f \in [0..m -> S] /\ Follows(f, m, a, h)
    BY <1>2
  <2>2. f[m] \in S /\ m + 1 \in 1..n
    BY <2>1
  <2>3. h[m + 1][f[m]] \in S
    BY <2>2 DEF Rules
  <2> DEFINE g == [k \in 0..(m + 1) |-> IF k = m + 1 THEN h[m + 1][f[m]] ELSE f[k]]
  <2>4. g \in [0..(m + 1) -> S]
    BY <2>1, <2>3
  <2>5. Follows(g, m + 1, a, h)
    BY <2>1 DEF Follows
  <2>6. QED
    BY <2>4, <2>5
<1>3. Nat \subseteq G
  BY <1>1, <1>2, Induction
<1>4. n \in G
  BY <1>3
<1>5. QED
  BY <1>4

(* What holds at 0 and is kept by every step holds up to n.                *)
LEMMA Ascent ==
  ASSUME NEW S, NEW n \in Nat, NEW f, f[0] \in S, \A k \in 1..n : f[k - 1] \in S => f[k] \in S
  PROVE  \A k \in 0..n : f[k] \in S
<1> DEFINE G == {m \in Nat : m <= n => f[m] \in S}
<1>1. 0 \in G
  OBVIOUS
<1>2. ASSUME NEW m \in Nat, m \in G PROVE m + 1 \in G
  <2> SUFFICES ASSUME m + 1 <= n PROVE f[m + 1] \in S
    OBVIOUS
  <2>1. m + 1 \in 1..n /\ m + 1 - 1 = m /\ f[m] \in S
    BY <1>2
  <2>2. QED
    BY <2>1
<1>3. Nat \subseteq G
  BY <1>1, <1>2, Induction
<1>4. QED
  BY <1>3
-----------------------------------------------------------------------------
(* Two multiples of s that differ are at least s apart.                    *)
LEMMA MultiplesApart ==
  ASSUME NEW s \in Nat \ {0}, NEW a \in Nat, NEW b \in Nat,
         a % s = 0, b % s = 0, a < b
  PROVE  a + s <= b
<1> DEFINE p == a \div s
           q == b \div s
<1>1. p \in Int /\ q \in Int /\ a = s * p /\ b = s * q
  OBVIOUS
<1> HIDE DEF p, q
<1>2. p < q
  <2>1. CASE q <= p
    <3>1. s * (p - q) >= 0 /\ s * (p - q) = s * p - s * q
      BY <1>1, <2>1
    <3>2. QED
      BY <1>1, <3>1
  <2>2. QED
    BY <1>1, <2>1
<1>3. s * (q - p - 1) >= 0 /\ s * (q - p - 1) = s * q - s * p - s
  BY <1>1, <1>2
<1>4. QED
  BY <1>1, <1>3

(* A multiple of s leaves no remainder.                                    *)
LEMMA MultipleModulo ==
  ASSUME NEW s \in Nat \ {0}, NEW k \in Nat
  PROVE  (s * k) % s = 0
<1> DEFINE m == s * k
           q == m \div s
           r == m % s
<1>1. m \in Nat
  OBVIOUS
<1>2. q \in Int /\ r \in 0 .. s - 1 /\ m = s * q + r
  BY <1>1
<1> HIDE DEF q, r
<1>3. s * (k - q) = r /\ k - q \in Int
  <2>1. s * (k - q) = s * k - s * q /\ s * q \in Int
    BY <1>2
  <2>2. QED
    BY <1>2, <2>1
<1>4. r = 0
  <2> DEFINE d == k - q
  <2>1. s * d = r /\ d \in Int
    BY <1>3
  <2> HIDE DEF d
  <2>2. CASE d >= 1
    <3>1. s * (d - 1) >= 0 /\ s * (d - 1) = s * d - s
      BY <2>1, <2>2
    <3>2. QED
      BY <1>2, <2>1, <3>1
  <2>3. CASE d <= 0
    <3>1. s * (-d) >= 0 /\ s * (-d) = -(s * d)
      BY <2>1, <2>3
    <3>2. QED
      BY <1>2, <2>1, <3>1
  <2>4. QED
    BY <2>1, <2>2, <2>3
<1>5. QED
  BY <1>4 DEF r

(* The next multiple, and the last one up to a number.                     *)
LEMMA Multiples ==
  ASSUME NEW s \in Nat \ {0}, NEW n \in Nat
  PROVE  /\ 0 % s = 0
         /\ n % s = 0 => (n + s) % s = 0
         /\ n - (n % s) \in 0 .. n /\ n < n - (n % s) + s
         /\ (n - (n % s)) % s = 0
<1>1. 0 % s = 0
  OBVIOUS
<1>2. n % s \in 0 .. s - 1 /\ n % s <= n
  OBVIOUS
<1> DEFINE q == n \div s
<1>3. q \in Int /\ n = s * q + (n % s)
  OBVIOUS
<1> HIDE DEF q
<1>4. q \in Nat
  <2>1. CASE q < 0
    <3>1. s * (-q - 1) >= 0 /\ s * (-q - 1) = -(s * q) - s /\ s * q \in Int
      BY <1>3, <2>1
    <3>2. QED
      BY <1>2, <1>3, <3>1
  <2>2. QED
    BY <1>3, <2>1
<1>5. (s * q) % s = 0 /\ (s * (q + 1)) % s = 0 /\ s * (q + 1) = s * q + s
  BY <1>4, MultipleModulo
<1>6. n % s = 0 => (n + s) % s = 0
  BY <1>3, <1>5, <1>4
<1>7. (n - (n % s)) % s = 0
  BY <1>2, <1>3, <1>5, <1>4
<1>8. QED
  BY <1>1, <1>2, <1>6, <1>7

-----------------------------------------------------------------------------
(* The powers of two up to the width, and those of 16 below it, named so   *)
(* that they can be told from the numbers they are.                        *)
Two(t) == 2^t
Hex(d) == 16^d

LEMMA Powers ==
  /\ Two(0) = 1 /\ Two(1) = 2 /\ Two(2) = 4 /\ Two(3) = 8 /\ Two(4) = 16 /\ Two(5) = 32
  /\ Two(6) = 64 /\ Two(7) = 128 /\ Two(8) = 256 /\ Two(9) = 512 /\ Two(10) = 1024
  /\ Two(11) = 2048 /\ Two(12) = 4096 /\ Two(13) = 8192 /\ Two(14) = 16384
  /\ Two(15) = 32768 /\ Two(16) = 65536
BY DEF Two

LEMMA HexPowers == Hex(0) = 1 /\ Hex(1) = 16 /\ Hex(2) = 256 /\ Hex(3) = 4096
BY DEF Hex

LEMMA Named ==
  ASSUME NEW v, NEW t
  PROVE  Bit(v, t) = (v \div Two(t)) % 2 /\ Digit(v, t) = (v \div Hex(t)) % 16
BY Zenon DEF Bit, Digit, Two, Hex

LEMMA Doubling ==
  \A t \in 0 .. 15 : Two(t) \in Nat \ {0} /\ Two(t + 1) = 2 * Two(t)
<1> SUFFICES ASSUME NEW t \in 0 .. 15
             PROVE  Two(t) \in Nat \ {0} /\ Two(t + 1) = 2 * Two(t)
  OBVIOUS
<1>1. \/ t = 0 \/ t = 1 \/ t = 2 \/ t = 3 \/ t = 4 \/ t = 5 \/ t = 6 \/ t = 7 \/ t = 8 \/ t = 9
      \/ t = 10 \/ t = 11 \/ t = 12 \/ t = 13 \/ t = 14 \/ t = 15
  OBVIOUS
<1>2. QED
  BY <1>1, Powers

(* An entry of the table of exclusive ors has the bits it is made of.      *)
LEMMA XorDigitBits ==
  ASSUME NEW a \in 0 .. 15, NEW b \in 0 .. 15
  PROVE  /\ XorDigit[a][b] \in 0 .. 15
         /\ \A t \in 0 .. 3 : Bit(XorDigit[a][b], t) = XorBit(a, b, t)
<1> DEFINE e(t) == XorBit(a, b, t)
           x == XorDigit[a][b]
<1>1. x = e(0) + 2 * e(1) + 4 * e(2) + 8 * e(3)
  BY DEF XorDigit
<1>2. ASSUME NEW t \in 0 .. 3 PROVE e(t) \in 0 .. 1
  <2>1. Two(t) \in Nat \ {0}
    BY Doubling
  <2>2. QED
    BY <2>1, Named DEF XorBit
<1> HIDE DEF e, x
<1>3. e(0) \in 0 .. 1 /\ e(1) \in 0 .. 1 /\ e(2) \in 0 .. 1 /\ e(3) \in 0 .. 1
  BY <1>2
<1>4. x \in 0 .. 15
  BY <1>1, <1>3
<1>5. /\ (x \div 1) % 2 = e(0) /\ (x \div 2) % 2 = e(1)
      /\ (x \div 4) % 2 = e(2) /\ (x \div 8) % 2 = e(3)
  BY <1>1, <1>3
<1>6. Bit(x, 0) = e(0) /\ Bit(x, 1) = e(1) /\ Bit(x, 2) = e(2) /\ Bit(x, 3) = e(3)
  BY <1>5, Named, Powers
<1>7. QED
  BY <1>4, <1>6 DEF e, x

(* What division by a number means, and division by two numbers in turn.   *)
LEMMA Division ==
  ASSUME NEW d \in Nat \ {0}, NEW v \in Int
  PROVE  v \div d \in Int /\ v % d \in 0 .. d - 1 /\ v = d * (v \div d) + (v % d)
OBVIOUS

LEMMA DivisionUnique ==
  ASSUME NEW d \in Nat \ {0}, NEW v \in Int, NEW q \in Int, NEW r \in 0 .. d - 1, v = d * q + r
  PROVE  v \div d = q /\ v % d = r
<1> DEFINE p == v \div d
           s == v % d
<1>1. p \in Int /\ s \in 0 .. d - 1 /\ v = d * p + s
  BY Division
<1> HIDE DEF p, s
<1>2. d * p \in Int /\ d * q \in Int /\ d * (p - q) = d * p - d * q
  BY <1>1
<1>3. CASE p > q
  <2>1. d * (p - q - 1) >= 0 /\ d * (p - q - 1) = d * (p - q) - d
    BY <1>1, <1>3
  <2>2. QED
    BY <1>1, <1>2, <2>1
<1>4. CASE p < q
  <2>1. d * (q - p - 1) >= 0 /\ d * (q - p - 1) = -(d * (p - q)) - d
    BY <1>1, <1>4
  <2>2. QED
    BY <1>1, <1>2, <2>1
<1>5. CASE p = q
  BY <1>1, <1>5 DEF p, s
<1>6. QED
  BY <1>1, <1>3, <1>4, <1>5

LEMMA DivideTwice ==
  ASSUME NEW a \in Nat \ {0}, NEW b \in Nat \ {0}, NEW v \in Int
  PROVE  (v \div a) \div b = v \div (a * b)
<1> DEFINE q == v \div a
           r == v % a
           p == q \div b
           s == q % b
<1>1. q \in Int /\ r \in 0 .. a - 1 /\ v = a * q + r
  BY Division
<1> HIDE DEF q, r
<1>2. p \in Int /\ s \in 0 .. b - 1 /\ q = b * p + s
  BY <1>1, Division
<1> HIDE DEF p, s
<1>3. a * q = (a * b) * p + a * s /\ (a * b) * p \in Int /\ a * s \in Int
  BY <1>1, <1>2
<1>4. a * s >= 0 /\ a * s <= a * b - a
  <2>1. a * s >= 0 /\ a * (b - 1 - s) >= 0
    BY <1>2
  <2>2. a * (b - 1 - s) = a * b - a - a * s /\ a * b \in Int
    BY <1>2
  <2>3. QED
    BY <1>3, <2>1, <2>2
<1>5. a * b \in Nat \ {0} /\ a * s + r \in 0 .. a * b - 1
  BY <1>1, <1>3, <1>4
<1>6. v = (a * b) * p + (a * s + r)
  BY <1>1, <1>3
<1>7. v \div (a * b) = p
  BY <1>2, <1>5, <1>6, DivisionUnique
<1>8. QED
  BY <1>7 DEF p, q

(* A number of four digits has them, and the bits of a number are those of *)
(* its digits.                                                             *)
Nibbles == 0 .. 15
Digits(p, q, r, s) == p + 16 * q + 256 * r + 4096 * s

LEMMA FourDigits ==
  ASSUME NEW p \in Nibbles, NEW q \in Nibbles, NEW r \in Nibbles, NEW s \in Nibbles,
         NEW v, v = Digits(p, q, r, s)
  PROVE  /\ v \in Nat /\ v < 65536
         /\ Digit(v, 0) = p /\ Digit(v, 1) = q /\ Digit(v, 2) = r /\ Digit(v, 3) = s
<1>0. v = p + 16 * q + 256 * r + 4096 * s
  BY DEF Digits
<1> USE DEF Nibbles
<1>1. v \in Int /\ v >= 0
  BY <1>0
<1>2. v <= 65535
  BY <1>0
<1>3. v \div 1 = v /\ v % 16 = p
  BY <1>0
<1>4. v \div 16 = q + 16 * r + 256 * s /\ (q + 16 * r + 256 * s) % 16 = q
  BY <1>0
<1>5. v \div 256 = r + 16 * s /\ (r + 16 * s) % 16 = r
  BY <1>0
<1>6. v \div 4096 = s /\ s % 16 = s
  BY <1>0
<1>7. Digit(v, 0) = p /\ Digit(v, 1) = q /\ Digit(v, 2) = r /\ Digit(v, 3) = s
  BY <1>3, <1>4, <1>5, <1>6, Named, HexPowers
<1>8. QED
  BY <1>1, <1>2, <1>7

LEMMA DigitBits ==
  ASSUME NEW v \in Int, NEW d \in 0 .. 3, NEW t \in 0 .. 3
  PROVE  Digit(v, d) \in 0 .. 15 /\ Bit(Digit(v, d), t) = Bit(v, t + 4 * d)
<1> DEFINE f == Hex(d)
           g == Two(t)
           w == v \div f
<1>1. d = 0 \/ d = 1 \/ d = 2 \/ d = 3
  OBVIOUS
<1>2. t = 0 \/ t = 1 \/ t = 2 \/ t = 3
  OBVIOUS
<1>3. f \in Nat \ {0}
  BY <1>1, HexPowers
<1>4. g = 1 \/ g = 2 \/ g = 4 \/ g = 8
  BY <1>2, Powers
<1>5. f * g = Two(t + 4 * d)
  BY <1>1, <1>2, HexPowers, Powers
<1> HIDE DEF f, g
<1>6. w \in Int /\ w \div g = v \div (f * g)
  <2>1. g \in Nat \ {0}
    BY <1>4
  <2>2. (v \div f) \div g = v \div (f * g)
    BY <1>3, <2>1, DivideTwice, Zenon
  <2>3. v \div f \in Int
    BY <1>3, Division, Zenon
  <2>4. QED
    BY <2>2, <2>3, Zenon
<1> HIDE DEF w
<1>7. w % 16 \in 0 .. 15 /\ ((w % 16) \div g) % 2 = (w \div g) % 2
  BY <1>4, <1>6
<1>8. Digit(v, d) = w % 16
  BY Named DEF f, w
<1>9. Bit(w % 16, t) = ((w % 16) \div g) % 2 /\ Bit(v, t + 4 * d) = (v \div (f * g)) % 2
  BY <1>5, Named DEF g
<1>10. QED
  BY <1>6, <1>7, <1>8, <1>9

(* Exclusive or, bit by bit.                                               *)
LEMMA XorBits ==
  ASSUME NEW a \in Int, NEW b \in Int
  PROVE  /\ Xor(a, b) \in Nat /\ Xor(a, b) < 65536
         /\ \A t \in 0 .. 15 : Bit(Xor(a, b), t) = XorBit(a, b, t)
<1> DEFINE x(d) == XorDigit[Digit(a, d)][Digit(b, d)]
<1>1. \A d \in 0 .. 3 : /\ x(d) \in 0 .. 15
                       /\ \A t \in 0 .. 3 : Bit(x(d), t) = XorBit(Digit(a, d), Digit(b, d), t)
  BY DigitBits, XorDigitBits
<1>2. Xor(a, b) = x(0) + 16 * x(1) + 256 * x(2) + 4096 * x(3)
  BY DEF Xor
<1> HIDE DEF x
<1>3. Xor(a, b) \in Nat /\ Xor(a, b) < 65536 /\ \A d \in 0 .. 3 : Digit(Xor(a, b), d) = x(d)
  <2> DEFINE v == Xor(a, b)
             p == x(0)
             q == x(1)
             r == x(2)
             s == x(3)
  <2>1. p \in Nibbles /\ q \in Nibbles /\ r \in Nibbles /\ s \in Nibbles
    BY <1>1 DEF Nibbles
  <2>2. v = Digits(p, q, r, s)
    BY <1>2 DEF Digits
  <2> HIDE DEF v, p, q, r, s
  <2>3. /\ v \in Nat /\ v < 65536
        /\ Digit(v, 0) = p /\ Digit(v, 1) = q /\ Digit(v, 2) = r /\ Digit(v, 3) = s
    BY <2>1, <2>2, FourDigits
  <2>4. \A d \in 0 .. 3 : d = 0 \/ d = 1 \/ d = 2 \/ d = 3
    OBVIOUS
  <2>5. QED
    BY <2>3, <2>4 DEF v, p, q, r, s
<1>4. ASSUME NEW d \in 0 .. 3, NEW t \in 0 .. 3
      PROVE  Bit(Xor(a, b), t + 4 * d) = XorBit(a, b, t + 4 * d)
  <2>1. Bit(x(d), t) = (Bit(Digit(a, d), t) + Bit(Digit(b, d), t)) % 2
    BY <1>1 DEF XorBit
  <2>2. Bit(x(d), t) = Bit(Xor(a, b), t + 4 * d)
    BY <1>3, DigitBits
  <2>3. Bit(Digit(a, d), t) = Bit(a, t + 4 * d) /\ Bit(Digit(b, d), t) = Bit(b, t + 4 * d)
    BY DigitBits
  <2>4. QED
    BY <2>1, <2>2, <2>3 DEF XorBit
<1>5. ASSUME NEW t \in 0 .. 15 PROVE Bit(Xor(a, b), t) = XorBit(a, b, t)
  <2> DEFINE r == t % 4
             d == t \div 4
  <2>1. r \in 0 .. 3 /\ d \in 0 .. 3 /\ t = r + 4 * d
    OBVIOUS
  <2> HIDE DEF r, d
  <2>2. QED
    BY <1>4, <2>1
<1>6. QED
  BY <1>3, <1>5

-----------------------------------------------------------------------------
(* A number without its t lowest bits is twice the number without one more *)
(* of them, and that bit.                                                  *)
LEMMA HalfStep ==
  ASSUME NEW v \in Int, NEW t \in 0 .. 15
  PROVE  /\ Bit(v, t) \in {0, 1}
         /\ v \div Two(t) \in Int /\ v \div Two(t + 1) \in Int
         /\ v \div Two(t) = 2 * (v \div Two(t + 1)) + Bit(v, t)
         /\ v % Two(t) \in 0 .. Two(t) - 1
         /\ v % Two(t + 1) = (v % Two(t)) + Bit(v, t) * Two(t)
<1> DEFINE p == Two(t)
           w == v \div p
           h == v \div (2 * p)
           r == v % p
           s == v % (2 * p)
           b == w % 2
<1>1. p \in Nat \ {0} /\ 2 * p \in Nat \ {0} /\ Two(t + 1) = 2 * p
  BY Doubling
<1> HIDE DEF p
<1>2. w \in Int /\ r \in 0 .. p - 1 /\ v = p * w + r
  BY <1>1, Division
<1>3. h \in Int /\ s \in 0 .. 2 * p - 1 /\ v = (2 * p) * h + s
  BY <1>1, Division
<1>4. w \div 2 = h
  <2>1. 2 \in Nat \ {0} /\ p * 2 = 2 * p
    BY <1>1
  <2>2. (v \div p) \div 2 = v \div (p * 2)
    BY <1>1, <2>1, DivideTwice, Zenon
  <2>3. QED
    BY <2>1, <2>2
<1> HIDE DEF w, h, r, s
<1>5. b \in {0, 1} /\ w = 2 * h + b
  BY <1>2, <1>4
<1> HIDE DEF b
<1>6. p * w = (2 * p) * h + p * b /\ (2 * p) * h \in Int /\ p * b \in Int /\ p * b = b * p
  BY <1>1, <1>3, <1>5
<1>7. s = r + b * p
  BY <1>2, <1>3, <1>6
<1>8. Bit(v, t) = b
  BY Named DEF b, w, p
<1>9. v \div Two(t) = w /\ v \div Two(t + 1) = h /\ v % Two(t) = r /\ v % Two(t + 1) = s
  BY <1>1 DEF w, h, r, s, p
<1>10. QED
  BY <1>2, <1>3, <1>5, <1>7, <1>8, <1>9 DEF p

(* So two numbers agree above bit t-1 if they do above bit t and in it, and *)
(* below bit t+1 if they do below bit t and in it.                         *)
LEMMA SameStep ==
  ASSUME NEW a \in Int, NEW b \in Int, NEW t \in 0 .. 15
  PROVE  /\ a \div Two(t) = b \div Two(t)
               <=> a \div Two(t + 1) = b \div Two(t + 1) /\ Bit(a, t) = Bit(b, t)
         /\ a % Two(t + 1) = b % Two(t + 1)
               <=> a % Two(t) = b % Two(t) /\ Bit(a, t) = Bit(b, t)
<1> DEFINE p == Two(t)
           c == Bit(a, t)
           d == Bit(b, t)
           e == a \div Two(t)
           f == b \div Two(t)
           g == a \div Two(t + 1)
           h == b \div Two(t + 1)
           r == a % Two(t)
           s == b % Two(t)
           y == a % Two(t + 1)
           z == b % Two(t + 1)
<1>1. p \in Nat \ {0}
  BY Doubling
<1>2. c \in {0, 1} /\ e \in Int /\ g \in Int /\ e = 2 * g + c /\ r \in 0 .. p - 1 /\ y = r + c * p
  BY HalfStep, Zenon
<1>3. d \in {0, 1} /\ f \in Int /\ h \in Int /\ f = 2 * h + d /\ s \in 0 .. p - 1 /\ z = s + d * p
  BY HalfStep, Zenon
<1> HIDE DEF p, c, d, e, f, g, h, r, s, y, z
<1>4. e = f <=> g = h /\ c = d
  BY <1>2, <1>3
<1>5. y = z <=> r = s /\ c = d
  BY <1>1, <1>2, <1>3
<1>6. QED
  BY <1>4, <1>5, Zenon DEF c, d, e, f, g, h, r, s, y, z

(* Numbers that agree without their n lowest bits agree in all others.     *)
LEMMA SameAbove ==
  ASSUME NEW a \in Int, NEW b \in Int, NEW n \in 0 .. 16, a \div Two(n) = b \div Two(n)
  PROVE  /\ \A t \in n .. 16 : a \div Two(t) = b \div Two(t)
         /\ \A t \in n .. 15 : Bit(a, t) = Bit(b, t)
<1> DEFINE G == {m \in Nat : n + m <= 16 => a \div Two(n + m) = b \div Two(n + m)}
<1>1. 0 \in G
  OBVIOUS
<1>2. ASSUME NEW m \in Nat, m \in G PROVE m + 1 \in G
  <2> SUFFICES ASSUME n + m + 1 <= 16 PROVE a \div Two(n + m + 1) = b \div Two(n + m + 1)
    OBVIOUS
  <2> DEFINE t == n + m
  <2>1. t \in 0 .. 15 /\ a \div Two(t) = b \div Two(t)
    BY <1>2
  <2> HIDE DEF t
  <2>2. a \div Two(t + 1) = b \div Two(t + 1)
    BY <2>1, SameStep, Zenon
  <2>3. QED
    BY <2>2 DEF t
<1> HIDE DEF G
<1>3. Nat \subseteq G
  BY <1>1, <1>2, Induction
<1>4. ASSUME NEW t \in n .. 16 PROVE a \div Two(t) = b \div Two(t)
  <2>1. t - n \in G /\ n + (t - n) = t /\ t <= 16
    BY <1>3
  <2>2. QED
    BY <2>1 DEF G
<1>5. ASSUME NEW t \in n .. 15 PROVE Bit(a, t) = Bit(b, t)
  BY <1>4, Named
<1>6. QED
  BY <1>4, <1>5

(* Numbers that agree without their m lowest bits, and in bits n..m-1.     *)
LEMMA SameDownTo ==
  ASSUME NEW a \in Int, NEW b \in Int, NEW m \in 0 .. 16, NEW n \in 0 .. m,
         a \div Two(m) = b \div Two(m), \A t \in n .. m - 1 : Bit(a, t) = Bit(b, t)
  PROVE  a \div Two(n) = b \div Two(n)
<1> DEFINE G == {k \in Nat : n <= m - k => a \div Two(m - k) = b \div Two(m - k)}
<1>1. 0 \in G
  OBVIOUS
<1>2. ASSUME NEW k \in Nat, k \in G PROVE k + 1 \in G
  <2> SUFFICES ASSUME n <= m - (k + 1)
               PROVE  a \div Two(m - (k + 1)) = b \div Two(m - (k + 1))
    OBVIOUS
  <2> DEFINE t == m - (k + 1)
  <2>1. t \in 0 .. 15 /\ t \in n .. m - 1 /\ m - k = t + 1 /\ n <= m - k
    OBVIOUS
  <2>2. a \div Two(t + 1) = b \div Two(t + 1) /\ Bit(a, t) = Bit(b, t)
    BY <1>2, <2>1
  <2> HIDE DEF t
  <2>3. a \div Two(t) = b \div Two(t)
    BY <2>1, <2>2, SameStep, Zenon
  <2>4. QED
    BY <2>3 DEF t
<1> HIDE DEF G
<1>3. Nat \subseteq G
  BY <1>1, <1>2, Induction
<1>4. m - n \in G /\ m - (m - n) = n
  BY <1>3
<1>5. QED
  BY <1>4 DEF G

(* Numbers that agree in their n lowest bits leave the same remainder, and *)
(* conversely.                                                             *)
LEMMA SameBelow ==
  ASSUME NEW a \in Int, NEW b \in Int, NEW n \in 0 .. 16
  PROVE  (\A t \in 0 .. n - 1 : Bit(a, t) = Bit(b, t)) <=> a % Two(n) = b % Two(n)
<1>1. ASSUME \A t \in 0 .. n - 1 : Bit(a, t) = Bit(b, t) PROVE a % Two(n) = b % Two(n)
  <2> DEFINE G == {m \in Nat : m <= n => a % Two(m) = b % Two(m)}
  <2>1. 0 \in G
    BY Powers
  <2>2. ASSUME NEW m \in Nat, m \in G PROVE m + 1 \in G
    <3> SUFFICES ASSUME m + 1 <= n PROVE a % Two(m + 1) = b % Two(m + 1)
      OBVIOUS
    <3>1. m \in 0 .. 15 /\ m \in 0 .. n - 1 /\ a % Two(m) = b % Two(m)
      BY <2>2
    <3>2. Bit(a, m) = Bit(b, m)
      BY <1>1, <3>1
    <3>3. QED
      BY <3>1, <3>2, SameStep, Zenon
  <2> HIDE DEF G
  <2>3. n \in G
    BY <2>1, <2>2, Induction
  <2>4. QED
    BY <2>3 DEF G
<1>2. ASSUME a % Two(n) = b % Two(n) PROVE \A t \in 0 .. n - 1 : Bit(a, t) = Bit(b, t)
  <2> DEFINE G == {k \in Nat : 0 <= n - k => a % Two(n - k) = b % Two(n - k)}
  <2>1. 0 \in G
    BY <1>2
  <2>2. ASSUME NEW t \in 0 .. 15, a % Two(t + 1) = b % Two(t + 1)
        PROVE  Bit(a, t) = Bit(b, t) /\ a % Two(t) = b % Two(t)
    BY <2>2, SameStep, Zenon
  <2>3. ASSUME NEW k \in Nat, k \in G PROVE k + 1 \in G
    <3> SUFFICES ASSUME 0 <= n - (k + 1) PROVE a % Two(n - (k + 1)) = b % Two(n - (k + 1))
      OBVIOUS
    <3> DEFINE t == n - (k + 1)
    <3>1. t \in 0 .. 15 /\ n - k = t + 1 /\ 0 <= n - k
      OBVIOUS
    <3>2. a % Two(t + 1) = b % Two(t + 1)
      BY <2>3, <3>1
    <3> HIDE DEF t
    <3>3. a % Two(t) = b % Two(t)
      BY <2>2, <3>1, <3>2
    <3>4. QED
      BY <3>3 DEF t
  <2> HIDE DEF G
  <2>4. Nat \subseteq G
    BY <2>1, <2>3, Induction
  <2>5. ASSUME NEW t \in 0 .. n - 1 PROVE Bit(a, t) = Bit(b, t)
    <3>1. n - (t + 1) \in G /\ n - (n - (t + 1)) = t + 1 /\ 0 <= t + 1 /\ t \in 0 .. 15
      BY <2>4
    <3>2. a % Two(t + 1) = b % Two(t + 1)
      BY <3>1 DEF G
    <3>3. QED
      BY <2>2, <3>1, <3>2
  <2>6. QED
    BY <2>5
<1>3. QED
  BY <1>1, <1>2

-----------------------------------------------------------------------------
(* The bits of a number are those of its lower part, and of the number as  *)
(* a uint16_t.                                                             *)
LEMMA LowPart ==
  ASSUME NEW v \in Int, NEW n \in 0 .. 16
  PROVE  /\ v % Two(n) \in 0 .. Two(n) - 1
         /\ \A t \in 0 .. n - 1 : Bit(v % Two(n), t) = Bit(v, t)
         /\ \A t \in n .. 15 : Bit(v % Two(n), t) = 0
<1> DEFINE p == Two(n)
           r == v % p
<1>1. p \in Nat \ {0}
  <2>1. n \in 0 .. 15 \/ n = 16
    OBVIOUS
  <2>2. QED
    BY <2>1, Doubling, Powers
<1> HIDE DEF p
<1>2. r \in 0 .. p - 1
  BY <1>1, Division
<1> HIDE DEF r
<1>3. r % p = r /\ r \div p = 0 /\ 0 \div p = 0
  <2>1. r = p * 0 + r /\ 0 = p * 0 + 0 /\ 0 \in 0 .. p - 1 /\ r \in Int
    BY <1>1, <1>2
  <2>2. QED
    BY <1>1, <1>2, <2>1, DivisionUnique
<1>4. \A t \in 0 .. n - 1 : Bit(r, t) = Bit(v, t)
  <2>1. r % Two(n) = v % Two(n) /\ r \in Int
    BY <1>2, <1>3 DEF p, r
  <2>2. QED
    BY <2>1, SameBelow
<1>5. \A t \in n .. 15 : Bit(r, t) = 0
  <2>1. r \div Two(n) = 0 \div Two(n) /\ r \in Int /\ 0 \in Int
    BY <1>2, <1>3 DEF p
  <2>2. \A t \in n .. 15 : Bit(r, t) = Bit(0, t)
    BY <2>1, SameAbove
  <2>3. \A t \in 0 .. 15 : Bit(0, t) = 0
    <3>1. ASSUME NEW t \in 0 .. 15 PROVE Bit(0, t) = 0
      <4>1. Two(t) \in Nat \ {0}
        BY Doubling
      <4>2. 0 \div Two(t) = 0
        BY <4>1
      <4>3. QED
        BY <4>2, Named
    <3>2. QED
      BY <3>1
  <2>4. QED
    BY <2>2, <2>3
<1>6. QED
  BY <1>2, <1>4, <1>5 DEF p, r

(* Exclusive or with the n lowest bits of the keystream.                   *)
Masked(v, k, n) == Xor(Uint16(v), k % 2^n)

LEMMA MaskedBits ==
  ASSUME NEW v \in Int, NEW k \in Int, NEW n \in 0 .. 16
  PROVE  /\ Masked(v, k, n) \in Int
         /\ \A t \in 0 .. n - 1 : Bit(Masked(v, k, n), t) = XorBit(v, k, t)
         /\ \A t \in n .. 15 : Bit(Masked(v, k, n), t) = Bit(v, t)
<1> DEFINE u == Uint16(v)
           j == k % 2^n
<1>1. u = v % Two(16) /\ j = k % Two(n)
  BY Zenon DEF Uint16, Width, Two
<1> HIDE DEF u, j
<1>2. 16 \in 0 .. 16 /\ 0 .. 15 = 0 .. 16 - 1
  OBVIOUS
<1>3. u \in Int /\ \A t \in 0 .. 15 : Bit(u, t) = Bit(v, t)
  <2>1. u \in 0 .. Two(16) - 1 /\ \A t \in 0 .. 16 - 1 : Bit(u, t) = Bit(v, t)
    BY <1>1, <1>2, LowPart, Zenon
  <2>2. QED
    BY <1>2, <2>1
<1>4. /\ j \in Int
      /\ (\A t \in 0 .. n - 1 : Bit(j, t) = Bit(k, t)) /\ (\A t \in n .. 15 : Bit(j, t) = 0)
  <2>1. /\ j \in 0 .. Two(n) - 1
        /\ (\A t \in 0 .. n - 1 : Bit(j, t) = Bit(k, t)) /\ (\A t \in n .. 15 : Bit(j, t) = 0)
    BY <1>1, LowPart, Zenon
  <2>2. QED
    BY <2>1
<1>5. Xor(u, j) \in Int /\ \A t \in 0 .. 15 : Bit(Xor(u, j), t) = (Bit(u, t) + Bit(j, t)) % 2
  <2>1. u \in Int /\ j \in Int
    BY <1>3, <1>4
  <2>2. Xor(u, j) \in Nat /\ \A t \in 0 .. 15 : Bit(Xor(u, j), t) = XorBit(u, j, t)
    BY <2>1, XorBits
  <2>3. QED
    BY <2>2 DEF XorBit
<1>6. \A t \in 0 .. n - 1 : Bit(Xor(u, j), t) = (Bit(v, t) + Bit(k, t)) % 2
  BY <1>3, <1>4, <1>5
<1>7. ASSUME NEW t \in n .. 15 PROVE Bit(Xor(u, j), t) = Bit(v, t)
  <2>1. t \in 0 .. 15
    OBVIOUS
  <2>2. Bit(v, t) \in {0, 1}
    BY <2>1, HalfStep
  <2>3. Bit(Xor(u, j), t) = (Bit(v, t) + 0) % 2
    BY <1>3, <1>4, <1>5, <2>1
  <2>4. QED
    BY <2>2, <2>3
<1>8. QED
  BY <1>5, <1>6, <1>7 DEF Masked, XorBit, u, j

(* A number that has its sign in bit p and, without it, p bits.            *)
Fits(v, p) == -Two(p) <= v /\ v < Two(p)

LEMMA SignBit ==
  ASSUME NEW v \in Int, NEW p \in 0 .. 15, Fits(v, p)
  PROVE  /\ v >= 0 => v \div Two(p) = 0 /\ Bit(v, p) = 0
         /\ v < 0 => v \div Two(p) = -1 /\ Bit(v, p) = 1
<1> DEFINE q == Two(p)
<1>1. q \in Nat \ {0} /\ -q <= v /\ v < q
  BY Doubling DEF Fits
<1> HIDE DEF q
<1>2. CASE v >= 0
  <2>1. v = q * 0 + v /\ v \in 0 .. q - 1
    BY <1>1, <1>2
  <2>2. v \div q = 0
    BY <1>1, <2>1, DivisionUnique
  <2>3. QED
    BY <1>2, <2>2, Named DEF q
<1>3. CASE v < 0
  <2>1. v = q * (-1) + (v + q) /\ v + q \in 0 .. q - 1
    BY <1>1, <1>3
  <2>2. v \div q = -1
    BY <1>1, <2>1, DivisionUnique
  <2>3. QED
    BY <1>3, <2>2, Named DEF q
<1>4. QED
  BY <1>2, <1>3

LEMMA Determined ==
  ASSUME NEW a \in Int, NEW b \in Int, NEW p \in 0 .. 15, Fits(a, p), Fits(b, p),
         \A t \in 0 .. p : Bit(a, t) = Bit(b, t)
  PROVE  a = b
<1>1. a \div Two(p) = b \div Two(p)
  <2>1. Bit(a, p) = Bit(b, p)
    OBVIOUS
  <2>2. QED
    BY <2>1, SignBit
<1>2. a % Two(p) = b % Two(p)
  BY SameBelow
<1>3. Two(p) \in Nat \ {0}
  BY Doubling
<1>4. a = Two(p) * (a \div Two(p)) + (a % Two(p)) /\ b = Two(p) * (b \div Two(p)) + (b % Two(p))
  BY <1>3, Division
<1>5. QED
  BY <1>1, <1>2, <1>4

(* Repairing the sign keeps the bits up to that of the sign.               *)
LEMMA SignFixed ==
  ASSUME NEW u \in Int, NEW p \in 0 .. 15
  PROVE  LET w == drpe_fixup_sign_bit(u, p)
         IN  w \in Int /\ Fits(w, p) /\ \A t \in 0 .. p : Bit(w, t) = Bit(u, t)
<1> DEFINE w == drpe_fixup_sign_bit(u, p)
           q == Two(p)
           r == u % q
           b == Bit(u, p)
<1>1. q \in Nat \ {0} /\ b \in {0, 1} /\ r \in 0 .. q - 1 /\ u % Two(p + 1) = r + b * q
  BY Doubling, HalfStep
<1>2. w = r - b * q
  BY Zenon DEF drpe_fixup_sign_bit, Two
<1>3. Two(p + 1) = 2 * q
  BY Doubling
<1> HIDE DEF w, q, r, b
<1>4. w \in Int /\ -q <= w /\ w < q
  BY <1>1, <1>2
<1>5. w % (2 * q) = r + b * q
  <2>1. CASE b = 0
    <3>1. w = (2 * q) * 0 + w /\ w \in 0 .. 2 * q - 1 /\ w = r + b * q
      BY <1>1, <1>2, <2>1
    <3>2. 2 * q \in Nat \ {0}
      BY <1>1
    <3>3. w % (2 * q) = w
      BY <1>4, <3>1, <3>2, DivisionUnique
    <3>4. QED
      BY <3>1, <3>3
  <2>2. CASE b = 1
    <3>1. w = (2 * q) * (-1) + (r + q) /\ r + q \in 0 .. 2 * q - 1 /\ r + q = r + b * q
      BY <1>1, <1>2, <2>2
    <3>2. 2 * q \in Nat \ {0} /\ -1 \in Int
      BY <1>1
    <3>3. w % (2 * q) = r + q
      BY <1>4, <3>1, <3>2, DivisionUnique
    <3>4. QED
      BY <3>1, <3>3
  <2>3. QED
    BY <1>1, <2>1, <2>2
<1>6. \A t \in 0 .. p : Bit(w, t) = Bit(u, t)
  <2>1. w % Two(p + 1) = u % Two(p + 1) /\ p + 1 \in 0 .. 16
    BY <1>1, <1>3, <1>5
  <2>2. \A t \in 0 .. (p + 1) - 1 : Bit(w, t) = Bit(u, t)
    BY <1>4, <2>1, SameBelow
  <2>3. QED
    BY <2>2
<1>7. QED
  BY <1>4, <1>6 DEF Fits, w, q

-----------------------------------------------------------------------------
(* What drpe makes of a coefficient when n bits vary and the sign is in p. *)
Drped(v, k, n, p) == drpe_fixup_sign_bit(Masked(v, k, n), p)

LEMMA DrpedBits ==
  ASSUME NEW v \in Int, NEW k \in Int, NEW n \in 0 .. 16, NEW p \in 0 .. 15
  PROVE  LET w == Drped(v, k, n, p)
         IN  /\ w \in Int /\ Fits(w, p)
             /\ \A t \in 0 .. p : t < n => Bit(w, t) = XorBit(v, k, t)
             /\ \A t \in 0 .. p : t >= n => Bit(w, t) = Bit(v, t)
<1> DEFINE u == Masked(v, k, n)
           w == Drped(v, k, n, p)
<1>1. /\ u \in Int
      /\ \A t \in 0 .. n - 1 : Bit(u, t) = XorBit(v, k, t)
      /\ \A t \in n .. 15 : Bit(u, t) = Bit(v, t)
  BY MaskedBits, Zenon
<1> HIDE DEF u
<1>2. w \in Int /\ Fits(w, p) /\ \A t \in 0 .. p : Bit(w, t) = Bit(u, t)
  BY <1>1, SignFixed, Zenon DEF Drped, u
<1> HIDE DEF w
<1>3. ASSUME NEW t \in 0 .. p, t < n PROVE Bit(w, t) = XorBit(v, k, t)
  <2>1. t \in 0 .. n - 1
    BY <1>3
  <2>2. QED
    BY <1>1, <1>2, <2>1
<1>4. ASSUME NEW t \in 0 .. p, t >= n PROVE Bit(w, t) = Bit(v, t)
  <2>1. t \in n .. 15
    BY <1>4
  <2>2. QED
    BY <1>1, <1>2, <2>1
<1>5. QED
  BY <1>2, <1>3, <1>4 DEF w

(* The bits above those that vary stay, and with them the sign.            *)
LEMMA DrpedKeepsHigh ==
  ASSUME NEW v \in Int, NEW k \in Int, NEW p \in 0 .. 15, NEW n \in 0 .. p, Fits(v, p)
  PROVE  LET w == Drped(v, k, n, p)
         IN  w \div Two(n) = v \div Two(n) /\ (w >= 0 <=> v >= 0)
<1> DEFINE w == Drped(v, k, n, p)
<1>1. n \in 0 .. 16
  OBVIOUS
<1>2. w \in Int /\ Fits(w, p) /\ \A t \in 0 .. p : t >= n => Bit(w, t) = Bit(v, t)
  BY <1>1, DrpedBits, Zenon
<1> HIDE DEF w
<1>3. Bit(w, p) = Bit(v, p)
  BY <1>2
<1>4. w \div Two(p) = v \div Two(p) /\ (w >= 0 <=> v >= 0)
  BY <1>2, <1>3, SignBit
<1>5. p \in 0 .. 16 /\ \A t \in n .. p - 1 : Bit(w, t) = Bit(v, t)
  BY <1>2
<1>6. w \div Two(n) = v \div Two(n)
  BY <1>2, <1>4, <1>5, SameDownTo, Zenon
<1>7. QED
  BY <1>4, <1>6 DEF w

(* The same bits of the keystream twice are none.                          *)
LEMMA TwiceBits ==
  ASSUME NEW v \in Int, NEW w \in Int, NEW k \in Int, NEW t \in 0 .. 15,
         Bit(w, t) = XorBit(v, k, t)
  PROVE  XorBit(w, k, t) = Bit(v, t)
<1> DEFINE a == Bit(v, t)
           b == Bit(k, t)
           c == Bit(w, t)
<1>1. a \in {0, 1} /\ b \in {0, 1}
  BY HalfStep
<1>2. c = (a + b) % 2
  BY DEF XorBit
<1> HIDE DEF a, b, c
<1>3. (c + b) % 2 = a
  BY <1>1, <1>2
<1>4. QED
  BY <1>3, Zenon DEF XorBit, a, b, c

(* drpe is its own inverse for the same number of varying bits and the     *)
(* same position of the sign.                                              *)
LEMMA DrpedTwice ==
  ASSUME NEW v \in Int, NEW k \in Int, NEW n \in 0 .. 16, NEW p \in 0 .. 15, Fits(v, p)
  PROVE  Drped(Drped(v, k, n, p), k, n, p) = v
<1> DEFINE w == Drped(v, k, n, p)
           x == Drped(w, k, n, p)
<1>1. /\ w \in Int
      /\ \A t \in 0 .. p : t < n => Bit(w, t) = XorBit(v, k, t)
      /\ \A t \in 0 .. p : t >= n => Bit(w, t) = Bit(v, t)
  BY DrpedBits, Zenon
<1>2. /\ x \in Int /\ Fits(x, p)
      /\ \A t \in 0 .. p : t < n => Bit(x, t) = XorBit(w, k, t)
      /\ \A t \in 0 .. p : t >= n => Bit(x, t) = Bit(w, t)
  BY <1>1, DrpedBits, Zenon
<1> HIDE DEF w, x
<1>3. ASSUME NEW t \in 0 .. p PROVE Bit(x, t) = Bit(v, t)
  <2>1. CASE t < n
    <3>1. t \in 0 .. 15 /\ Bit(w, t) = XorBit(v, k, t) /\ Bit(x, t) = XorBit(w, k, t)
      BY <1>1, <1>2, <2>1
    <3>2. QED
      BY <1>1, <3>1, TwiceBits
  <2>2. CASE t >= n
    BY <1>1, <1>2, <2>2
  <2>3. QED
    BY <2>1, <2>2
<1>4. x = v
  BY <1>2, <1>3, Determined
<1>5. QED
  BY <1>4 DEF w, x

(* Above the bits that vary, the position of the sign makes no difference. *)
LEMMA DrpedAnywhere ==
  ASSUME NEW v \in Int, NEW k \in Int, NEW p \in 0 .. 15, NEW q \in 0 .. 15,
         NEW n \in Nat, n <= p, n <= q, Fits(v, p), Fits(v, q)
  PROVE  Drped(v, k, n, p) = Drped(v, k, n, q)
<1> DEFINE w == Drped(v, k, n, p)
           x == Drped(v, k, n, q)
<1>1. n \in 0 .. p /\ n \in 0 .. q /\ n \in 0 .. 16 /\ n \in 0 .. 15
  OBVIOUS
<1>2. /\ w \in Int /\ w \div Two(n) = v \div Two(n)
      /\ \A t \in 0 .. p : t < n => Bit(w, t) = XorBit(v, k, t)
  <2>1. /\ w \in Int /\ Fits(w, p)
        /\ \A t \in 0 .. p : t < n => Bit(w, t) = XorBit(v, k, t)
        /\ \A t \in 0 .. p : t >= n => Bit(w, t) = Bit(v, t)
    BY <1>1, DrpedBits, Zenon
  <2>2. w \div Two(n) = v \div Two(n)
    BY <1>1, DrpedKeepsHigh, Zenon
  <2>3. QED
    BY <2>1, <2>2, Zenon
<1>3. /\ x \in Int /\ x \div Two(n) = v \div Two(n)
      /\ \A t \in 0 .. q : t < n => Bit(x, t) = XorBit(v, k, t)
  <2>1. /\ x \in Int /\ Fits(x, q)
        /\ \A t \in 0 .. q : t < n => Bit(x, t) = XorBit(v, k, t)
        /\ \A t \in 0 .. q : t >= n => Bit(x, t) = Bit(v, t)
    BY <1>1, DrpedBits, Zenon
  <2>2. x \div Two(n) = v \div Two(n)
    BY <1>1, DrpedKeepsHigh, Zenon
  <2>3. QED
    BY <2>1, <2>2, Zenon
<1> HIDE DEF w, x
<1>4. \A t \in 0 .. n - 1 : Bit(w, t) = Bit(x, t)
  BY <1>2, <1>3
<1>5. w % Two(n) = x % Two(n)
  BY <1>1, <1>2, <1>3, <1>4, SameBelow
<1>6. Two(n) \in Nat \ {0}
  BY <1>1, Doubling
<1>7. w = Two(n) * (w \div Two(n)) + (w % Two(n)) /\ x = Two(n) * (x \div Two(n)) + (x % Two(n))
  BY <1>2, <1>3, <1>6, Division, Zenon
<1>8. w = x
  BY <1>2, <1>3, <1>5, <1>7
<1>9. QED
  BY <1>8 DEF w, x

-----------------------------------------------------------------------------
(* The least and the greatest of a set of numbers.                         *)
LEMMA LeastOf ==
  ASSUME NEW S, S # {}, NEW a \in Int, \A x \in S : x \in Int /\ a <= x
  PROVE  Min(S) \in S /\ \A x \in S : Min(S) <= x
<1> DEFINE T == {n \in Nat : n + a \in S}
<1>1. T \subseteq Nat /\ T # {}
  <2>1. PICK x \in S : TRUE
    OBVIOUS
  <2>2. x - a \in Nat /\ (x - a) + a = x
    BY <2>1
  <2>3. QED
    BY <2>1, <2>2
<1>2. PICK n \in T : \A m \in T : n <= m
  BY <1>1, LeastNumber, Zenon
<1>3. n + a \in S /\ \A x \in S : n + a <= x
  <2>1. ASSUME NEW x \in S PROVE n + a <= x
    <3>1. x - a \in Nat /\ (x - a) + a = x
      OBVIOUS
    <3>2. x - a \in T
      BY <3>1
    <3>3. QED
      BY <1>2, <3>1, <3>2
  <2>2. QED
    BY <1>2, <2>1
<1> HIDE DEF T
<1>4. \E x \in S : \A y \in S : x <= y
  BY <1>3
<1>5. QED
  BY <1>4, Zenon DEF Min

LEMMA GreatestOf ==
  ASSUME NEW S, S # {}, NEW a \in Int, \A x \in S : x \in Int /\ x <= a
  PROVE  Max(S) \in S /\ \A x \in S : x <= Max(S)
<1> DEFINE T == {n \in Nat : a - n \in S}
<1>1. T \subseteq Nat /\ T # {}
  <2>1. PICK x \in S : TRUE
    OBVIOUS
  <2>2. a - x \in Nat /\ a - (a - x) = x
    BY <2>1
  <2>3. QED
    BY <2>1, <2>2
<1>2. PICK n \in T : \A m \in T : n <= m
  BY <1>1, LeastNumber, Zenon
<1>3. a - n \in S /\ \A x \in S : x <= a - n
  <2>1. ASSUME NEW x \in S PROVE x <= a - n
    <3>1. a - x \in Nat /\ a - (a - x) = x
      OBVIOUS
    <3>2. a - x \in T
      BY <3>1
    <3>3. QED
      BY <1>2, <3>1, <3>2
  <2>2. QED
    BY <1>2, <2>1
<1> HIDE DEF T
<1>4. \E x \in S : \A y \in S : x >= y
  BY <1>3
<1>5. Max(S) \in S /\ \A y \in S : Max(S) >= y
  BY <1>4, Zenon DEF Max
<1>6. QED
  BY <1>5

-----------------------------------------------------------------------------
(* Greater powers are greater, and division keeps the order.               *)
LEMMA PowersGrow ==
  ASSUME NEW m \in 0 .. 16, NEW n \in 0 .. m
  PROVE  Two(n) \in Nat \ {0} /\ Two(m) \in Nat \ {0} /\ Two(n) <= Two(m)
<1> DEFINE G == {k \in Nat : n + k <= 16 => Two(n + k) \in Nat /\ Two(n) <= Two(n + k)}
<1>1. \A t \in 0 .. 16 : Two(t) \in Nat \ {0}
  <2>1. \A t \in 0 .. 16 : t \in 0 .. 15 \/ t = 16
    OBVIOUS
  <2>2. QED
    BY <2>1, Doubling, Powers
<1>2. 0 \in G
  BY <1>1
<1>3. ASSUME NEW k \in Nat, k \in G PROVE k + 1 \in G
  <2> SUFFICES ASSUME n + k + 1 <= 16
               PROVE  Two(n + k + 1) \in Nat /\ Two(n) <= Two(n + k + 1)
    OBVIOUS
  <2>1. n + k \in 0 .. 15 /\ Two(n + k) \in Nat /\ Two(n) <= Two(n + k)
    BY <1>3
  <2>2. Two(n + k + 1) = 2 * Two(n + k)
    BY <2>1, Doubling
  <2>3. QED
    BY <1>1, <2>1, <2>2
<1> HIDE DEF G
<1>4. m - n \in G /\ n + (m - n) = m
  BY <1>2, <1>3, Induction
<1>5. QED
  BY <1>1, <1>4 DEF G

LEMMA DivisionGrows ==
  ASSUME NEW d \in Nat \ {0}, NEW a \in Int, NEW b \in Int, a <= b
  PROVE  a \div d <= b \div d
<1> DEFINE p == a \div d
           q == b \div d
           r == a % d
           s == b % d
<1>1. p \in Int /\ r \in 0 .. d - 1 /\ a = d * p + r
  BY Division
<1>2. q \in Int /\ s \in 0 .. d - 1 /\ b = d * q + s
  BY Division
<1> HIDE DEF p, q, r, s
<1>3. CASE q < p
  <2>1. d * (p - q - 1) >= 0 /\ d * (p - q - 1) = d * p - d * q - d
    BY <1>1, <1>2, <1>3
  <2>2. QED
    BY <1>1, <1>2, <2>1
<1>4. QED
  BY <1>1, <1>2, <1>3 DEF p, q

LEMMA FitsMore ==
  ASSUME NEW v \in Int, NEW m \in 0 .. 15, NEW n \in 0 .. m, Fits(v, n)
  PROVE  Fits(v, m)
<1>1. m \in 0 .. 16
  OBVIOUS
<1>2. Two(n) \in Nat \ {0} /\ Two(m) \in Nat \ {0} /\ Two(n) <= Two(m)
  BY <1>1, PowersGrow, Zenon
<1>3. QED
  BY <1>2 DEF Fits

(* A coefficient has at most ten bits besides its sign.                    *)
IsCoef(v) == v \in Int /\ Fits(v, 10)

LEMMA CoefRange == ASSUME NEW v PROVE IsCoef(v) <=> v \in Int /\ -1024 <= v /\ v <= 1023
BY Powers DEF IsCoef, Fits

LEMMA CoefBetween ==
  ASSUME NEW a, NEW b, NEW v \in Int, IsCoef(a), IsCoef(b), a <= v, v <= b
  PROVE  IsCoef(v)
BY CoefRange

(* Its bits besides the sign.                                              *)
LEMMA Magnitude ==
  ASSUME NEW v, IsCoef(v)
  PROVE  MagnitudeBits(v) \in 0 .. 10 /\ Fits(v, MagnitudeBits(v))
<1> DEFINE S == {b \in 0 .. Width - 1 : -(2^b) <= v /\ v < 2^b}
<1>1. S = {b \in 0 .. 15 : Fits(v, b)}
  <2>1. Width - 1 = 15
    BY DEF Width
  <2>2. QED
    BY <2>1, Zenon DEF Fits, Two
<1> HIDE DEF S
<1>2. 10 \in S /\ \A x \in S : x \in Int /\ 0 <= x
  BY <1>1 DEF IsCoef
<1>3. Min(S) \in S /\ \A x \in S : Min(S) <= x
  BY <1>2, LeastOf
<1>4. Min(S) \in 0 .. 10 /\ Fits(v, Min(S))
  BY <1>1, <1>2, <1>3
<1>5. QED
  BY <1>4, Zenon DEF MagnitudeBits, S

(* Coefficients of the same sign have the same bits above ten.             *)
LEMMA SameSignHigh ==
  ASSUME NEW a, NEW b, IsCoef(a), IsCoef(b), SameSign(a, b),
         NEW p \in 0 .. 15, Fits(a, p), Fits(b, p)
  PROVE  a \div Two(p) = b \div Two(p)
<1>1. a \in Int /\ b \in Int /\ (a >= 0 <=> b >= 0)
  BY DEF IsCoef, SameSign
<1>2. QED
  BY <1>1, SignBit

(* drpe_calc_numbits, when the least and the greatest coefficient have the *)
(* same sign: the bits from n on are the same, n is the least such number, *)
(* and the sign is in bit p or above.                                      *)
LEMMA BitsOfSameSign ==
  ASSUME NEW lo, NEW hi, IsCoef(lo), IsCoef(hi), SameSign(lo, hi), lo # hi
  PROVE  LET n == NumBits(lo, hi)
             p == SignBitPosition(lo, hi)
         IN  /\ p \in 0 .. 10 /\ n \in 1 .. p /\ Fits(lo, p) /\ Fits(hi, p)
             /\ lo \div Two(n) = hi \div Two(n)
             /\ \A m \in 0 .. 15 : lo \div Two(m) = hi \div Two(m) => n <= m
<1> DEFINE D == {t \in 0 .. 15 : Bit(lo, t) # Bit(hi, t)}
           n == NumBits(lo, hi)
           p == SignBitPosition(lo, hi)
           i == MagnitudeBits(lo)
           j == MagnitudeBits(hi)
<1>1. lo \in Int /\ hi \in Int
  BY DEF IsCoef
<1>2. n = Max(D) + 1
  <2>1. Width - 1 = 15
    BY DEF Width
  <2>2. QED
    BY <2>1, Zenon DEF NumBits
<1>3. p = Max({i, j})
  BY Zenon DEF SignBitPosition
<1> HIDE DEF D, n, p, i, j
<1>4. 15 \in 0 .. 15 /\ 16 \in 0 .. 16 /\ 10 \in 0 .. 15 /\ Fits(lo, 10) /\ Fits(hi, 10)
  BY DEF IsCoef
<1>5. lo \div Two(10) = hi \div Two(10)
  BY <1>4, SameSignHigh, Zenon
<1>6. D # {}
  <2>1. SUFFICES ASSUME D = {} PROVE FALSE
    OBVIOUS
  <2>2. \A t \in 0 .. 10 : Bit(lo, t) = Bit(hi, t)
    BY <2>1 DEF D
  <2>3. QED
    BY <1>1, <1>4, <2>2, Determined
<1>7. Max(D) \in D /\ \A t \in D : t <= Max(D)
  <2>1. \A t \in D : t \in Int /\ t <= 15
    BY DEF D
  <2>2. QED
    BY <1>6, <2>1, GreatestOf
<1> DEFINE t == Max(D)
<1>8. t \in 0 .. 15 /\ Bit(lo, t) # Bit(hi, t) /\ \A s \in 0 .. 15 : s > t => Bit(lo, s) = Bit(hi, s)
  BY <1>7 DEF D
<1>9. \A m \in 0 .. 15 : lo \div Two(m) = hi \div Two(m) => n <= m
  <2>1. SUFFICES ASSUME NEW m \in 0 .. 15, lo \div Two(m) = hi \div Two(m), m <= t PROVE FALSE
    BY <1>2, <1>8
  <2>2. m \in 0 .. 16 /\ t \in m .. 15
    BY <1>8, <2>1
  <2>3. Bit(lo, t) = Bit(hi, t)
    BY <1>1, <2>1, <2>2, SameAbove
  <2>4. QED
    BY <1>8, <2>3
<1>10. n \in 1 .. 10
  BY <1>2, <1>4, <1>5, <1>8, <1>9
<1>11. lo \div Two(n) = hi \div Two(n)
  <2>1. n \in 0 .. 10 /\ 10 \in 0 .. 16 /\ \A s \in n .. 10 - 1 : Bit(lo, s) = Bit(hi, s)
    BY <1>2, <1>8, <1>10
  <2>2. QED
    BY <1>1, <1>5, <2>1, SameDownTo, Zenon
<1>12. p \in 0 .. 10 /\ Fits(lo, p) /\ Fits(hi, p)
  <2>1. i \in 0 .. 10 /\ Fits(lo, i) /\ j \in 0 .. 10 /\ Fits(hi, j)
    BY Magnitude DEF i, j
  <2>2. {i, j} # {} /\ 10 \in Int /\ \A x \in {i, j} : x \in Int /\ x <= 10
    BY <2>1
  <2>3. p \in {i, j} /\ \A x \in {i, j} : x <= p
    BY <1>3, <2>2, GreatestOf
  <2>4. p \in 0 .. 15 /\ i \in 0 .. p /\ j \in 0 .. p /\ p \in 0 .. 10
    BY <2>1, <2>3
  <2>5. QED
    BY <1>1, <2>1, <2>4, FitsMore
<1>13. n <= p
  <2>1. p \in 0 .. 15
    BY <1>12
  <2>2. lo \div Two(p) = hi \div Two(p)
    BY <1>12, <2>1, SameSignHigh
  <2>3. QED
    BY <1>9, <2>1, <2>2
<1>14. n \in 1 .. p
  BY <1>10, <1>12, <1>13
<1>15. QED
  BY <1>9, <1>11, <1>12, <1>14 DEF n, p

(* And when they have not: n bits hold all coefficients with their sign.   *)
LEMMA BitsOfBothSigns ==
  ASSUME NEW lo, NEW hi, IsCoef(lo), IsCoef(hi), lo < 0, hi >= 0
  PROVE  LET n == NumBits(lo, hi)
             p == SignBitPosition(lo, hi)
         IN  /\ p \in 0 .. 10 /\ n = p + 1 /\ Fits(lo, p) /\ Fits(hi, p)
             /\ \A q \in 0 .. 15 : Fits(lo, q) /\ Fits(hi, q) => n <= q + 1
<1> DEFINE S == {b \in 1 .. 16 : -(2^(b - 1)) <= lo /\ hi < 2^(b - 1)}
           n == NumBits(lo, hi)
           p == SignBitPosition(lo, hi)
<1>1. lo \in Int /\ hi \in Int /\ lo # hi /\ ~SameSign(lo, hi)
  BY DEF IsCoef, SameSign
<1>2. n = Min(S) /\ p = n - 1
  <2>1. Width = 16
    BY DEF Width
  <2>2. n = Min(S)
    BY <1>1, <2>1, Zenon DEF NumBits
  <2>3. p = n - 1
    BY <1>1, Zenon DEF SignBitPosition
  <2>4. QED
    BY <2>2, <2>3
<1>3. S = {b \in 1 .. 16 : -Two(b - 1) <= lo /\ hi < Two(b - 1)}
  BY Zenon DEF Two
<1> HIDE DEF S, n, p
<1>4. ASSUME NEW q \in 0 .. 15 PROVE q + 1 \in S <=> Fits(lo, q) /\ Fits(hi, q)
  <2>1. q + 1 \in 1 .. 16 /\ (q + 1) - 1 = q
    OBVIOUS
  <2>2. Two(q) \in Nat \ {0}
    BY Doubling
  <2>3. q + 1 \in S <=> -Two(q) <= lo /\ hi < Two(q)
    BY <1>3, <2>1
  <2>4. QED
    BY <1>1, <2>2, <2>3 DEF Fits
<1>5. 10 \in 0 .. 15 /\ 11 \in S
  BY <1>4 DEF IsCoef
<1>6. Min(S) \in S /\ \A x \in S : Min(S) <= x
  <2>1. 1 \in Int /\ S # {}
    BY <1>5
  <2>2. \A x \in S : x \in Int /\ 1 <= x
    BY <1>3
  <2>3. QED
    BY <2>1, <2>2, LeastOf
<1>7. n \in S /\ n \in 1 .. 16 /\ n <= 11 /\ p = n - 1
  BY <1>2, <1>3, <1>5, <1>6
<1>8. p \in 0 .. 10 /\ p \in 0 .. 15 /\ n = p + 1
  BY <1>7
<1>9. Fits(lo, p) /\ Fits(hi, p)
  BY <1>4, <1>7, <1>8
<1>10. ASSUME NEW q \in 0 .. 15, Fits(lo, q), Fits(hi, q) PROVE n <= q + 1
  BY <1>2, <1>4, <1>6, <1>10
<1>11. QED
  BY <1>8, <1>9, <1>10 DEF n, p

-----------------------------------------------------------------------------
(* What drpe can make of the coefficients from lo to hi: where they have   *)
(* one sign, numbers of this sign with the same bits that do not vary, and *)
(* otherwise numbers of n bits.                                            *)
Spread(lo, hi, w) ==
  /\ IsCoef(w)
  /\ IF SameSign(lo, hi)
     THEN (w >= 0 <=> lo >= 0) /\ w \div Two(NumBits(lo, hi)) = lo \div Two(NumBits(lo, hi))
     ELSE Fits(w, SignBitPosition(lo, hi))

Bounds(lo, hi) == IsCoef(lo) /\ IsCoef(hi) /\ lo <= hi

LEMMA BoundsAre ==
  ASSUME NEW lo, NEW hi, Bounds(lo, hi)
  PROVE  /\ lo \in Int /\ hi \in Int /\ lo <= hi
         /\ SameSign(lo, hi) \/ (lo < 0 /\ hi >= 0)
         /\ lo = hi => SameSign(lo, hi)
         /\ SameSign(lo, hi) => (lo >= 0 <=> hi >= 0)
BY DEF Bounds, IsCoef, SameSign

(* The coefficients themselves are among these.                            *)
LEMMA SpreadOfItself ==
  ASSUME NEW lo, NEW hi, Bounds(lo, hi), NEW v \in lo .. hi
  PROVE  /\ v \in Int /\ Spread(lo, hi, v)
         /\ lo # hi => Fits(v, SignBitPosition(lo, hi))
<1> DEFINE n == NumBits(lo, hi)
           p == SignBitPosition(lo, hi)
<1>1. /\ lo \in Int /\ hi \in Int /\ v \in Int /\ lo <= v /\ v <= hi
      /\ SameSign(lo, hi) \/ (lo < 0 /\ hi >= 0)
      /\ SameSign(lo, hi) => (lo >= 0 <=> hi >= 0)
  BY BoundsAre
<1>2. IsCoef(v) /\ IsCoef(lo) /\ IsCoef(hi)
  BY <1>1, CoefBetween DEF Bounds
<1>3. ASSUME NEW q \in 0 .. 15, Fits(lo, q), Fits(hi, q) PROVE Fits(v, q)
  <2>1. Two(q) \in Nat \ {0}
    BY Doubling
  <2>2. QED
    BY <1>1, <1>3, <2>1 DEF Fits
<1>4. CASE lo = hi
  <2>1. v = lo /\ SameSign(lo, hi)
    BY <1>1, <1>4
  <2>2. QED
    BY <1>2, <1>4, <2>1 DEF Spread
<1>5. CASE lo # hi /\ SameSign(lo, hi)
  <2>1. /\ p \in 0 .. 10 /\ n \in 1 .. p /\ Fits(lo, p) /\ Fits(hi, p)
        /\ lo \div Two(n) = hi \div Two(n)
    BY <1>2, <1>5, BitsOfSameSign, Zenon
  <2> HIDE DEF n, p
  <2>2. Two(n) \in Nat \ {0} /\ p \in 0 .. 15
    BY <2>1, Doubling
  <2>3. /\ lo \div Two(n) \in Int /\ v \div Two(n) \in Int
        /\ lo \div Two(n) <= v \div Two(n) /\ v \div Two(n) <= hi \div Two(n)
    <3>1. lo \div Two(n) <= v \div Two(n)
      BY <1>1, <2>2, DivisionGrows
    <3>2. v \div Two(n) <= hi \div Two(n)
      BY <1>1, <2>2, DivisionGrows
    <3>3. lo \div Two(n) \in Int /\ v \div Two(n) \in Int
      BY <1>1, <2>2, Division
    <3>4. QED
      BY <3>1, <3>2, <3>3
  <2>4. v \div Two(n) = lo \div Two(n)
    BY <2>1, <2>3
  <2>5. Fits(v, p) /\ (v >= 0 <=> lo >= 0)
    BY <1>1, <1>3, <1>5, <2>1, <2>2
  <2>6. QED
    BY <1>1, <1>2, <1>5, <2>4, <2>5 DEF Spread, n, p
<1>6. CASE lo # hi /\ ~SameSign(lo, hi)
  <2>1. lo < 0 /\ hi >= 0
    BY <1>1, <1>6
  <2>2. p \in 0 .. 10 /\ Fits(lo, p) /\ Fits(hi, p)
    BY <1>2, <2>1, BitsOfBothSigns, Zenon
  <2>3. Fits(v, p)
    BY <1>3, <2>2
  <2>4. QED
    BY <1>1, <1>2, <1>6, <2>3 DEF Spread
<1>7. QED
  BY <1>4, <1>5, <1>6

(* The parameters of drpe are in range.                                    *)
LEMMA DrpeParameters ==
  ASSUME NEW lo, NEW hi, Bounds(lo, hi)
  PROVE  LET n == NumBits(lo, hi)
             p == SignBitPosition(lo, hi)
         IN  /\ n = 0 <=> lo = hi
             /\ n \in 0 .. 11 /\ p \in 0 .. 10
             /\ lo # hi /\ SameSign(lo, hi) => n <= p
             /\ lo # hi /\ ~SameSign(lo, hi) => n = p + 1
<1> DEFINE n == NumBits(lo, hi)
           p == SignBitPosition(lo, hi)
<1>1. IsCoef(lo) /\ IsCoef(hi)
  BY DEF Bounds
<1>2. CASE lo = hi
  <2>1. n = 0 /\ p = 0
    BY <1>2, Zenon DEF NumBits, SignBitPosition
  <2>2. QED
    BY <1>2, <2>1
<1>3. CASE lo # hi /\ SameSign(lo, hi)
  <2>1. p \in 0 .. 10 /\ n \in 1 .. p
    BY <1>1, <1>3, BitsOfSameSign, Zenon
  <2> HIDE DEF n, p
  <2>2. n # 0 /\ n \in 0 .. 11 /\ n <= p
    BY <2>1
  <2>3. QED
    BY <1>3, <2>1, <2>2 DEF n, p
<1>4. CASE lo # hi /\ ~SameSign(lo, hi)
  <2>1. lo < 0 /\ hi >= 0
    BY <1>4, BoundsAre
  <2>2. p \in 0 .. 10 /\ n = p + 1
    BY <1>1, <2>1, BitsOfBothSigns, Zenon
  <2> HIDE DEF n, p
  <2>3. n # 0 /\ n \in 0 .. 11
    BY <2>2
  <2>4. QED
    BY <1>4, <2>2, <2>3 DEF n, p
<1>5. QED
  BY <1>2, <1>3, <1>4

(* So are the numbers that drpe makes of them.                             *)
LEMMA SpreadOfDrped ==
  ASSUME NEW lo, NEW hi, Bounds(lo, hi), lo # hi, NEW v \in lo .. hi, NEW k \in Int
  PROVE  LET p == SignBitPosition(lo, hi)
             w == Drped(v, k, NumBits(lo, hi), p)
         IN  w \in Int /\ Spread(lo, hi, w) /\ Fits(w, p)
<1> DEFINE n == NumBits(lo, hi)
           p == SignBitPosition(lo, hi)
           w == Drped(v, k, n, p)
<1>1. v \in Int /\ Fits(v, p) /\ Spread(lo, hi, v)
  BY SpreadOfItself, Zenon
<1>2. n \in 0 .. 11 /\ p \in 0 .. 10 /\ (SameSign(lo, hi) => n <= p)
  BY DrpeParameters, Zenon
<1> HIDE DEF n, p
<1>3. n \in 0 .. 16 /\ p \in 0 .. 15 /\ 10 \in 0 .. 15 /\ p \in 0 .. 10
  BY <1>2
<1>4. w \in Int /\ Fits(w, p)
  BY <1>1, <1>3, DrpedBits, Zenon
<1>5. IsCoef(w)
  BY <1>3, <1>4, FitsMore DEF IsCoef
<1>6. CASE SameSign(lo, hi)
  <2>1. n \in 0 .. p
    BY <1>2, <1>6
  <2>2. w \div Two(n) = v \div Two(n) /\ (w >= 0 <=> v >= 0)
    BY <1>1, <1>3, <2>1, DrpedKeepsHigh, Zenon
  <2>3. v \div Two(n) = lo \div Two(n) /\ (v >= 0 <=> lo >= 0)
    BY <1>1, <1>6, Zenon DEF Spread, n
  <2> HIDE DEF w
  <2>4. w \div Two(n) = lo \div Two(n) /\ (w >= 0 <=> lo >= 0)
    BY <2>2, <2>3, Zenon
  <2>5. QED
    BY <1>4, <1>5, <1>6, <2>4, Zenon DEF Spread, n, p, w
<1>7. CASE ~SameSign(lo, hi)
  BY <1>4, <1>5, <1>7, Zenon DEF Spread, n, p, w
<1>8. QED
  BY <1>6, <1>7

(* Nothing varies in these numbers that did not vary before.               *)
LEMMA SpreadShrinks ==
  ASSUME NEW lo, NEW hi, Bounds(lo, hi), NEW lo2, NEW hi2, Bounds(lo2, hi2),
         Spread(lo, hi, lo2), Spread(lo, hi, hi2)
  PROVE  /\ NumBits(lo2, hi2) <= NumBits(lo, hi)
         /\ SameSign(lo, hi) => SameSign(lo2, hi2)
         /\ ~SameSign(lo, hi) /\ SameSign(lo2, hi2) => NumBits(lo2, hi2) < NumBits(lo, hi)
<1> DEFINE n == NumBits(lo, hi)
           p == SignBitPosition(lo, hi)
           m == NumBits(lo2, hi2)
<1>1. /\ n \in 0 .. 11 /\ p \in 0 .. 10 /\ (n = 0 <=> lo = hi)
      /\ (lo # hi /\ ~SameSign(lo, hi) => n = p + 1)
  BY DrpeParameters, Zenon
<1>2. m \in 0 .. 11 /\ (m = 0 <=> lo2 = hi2)
  BY DrpeParameters, Zenon
<1>3. /\ IsCoef(lo2) /\ IsCoef(hi2) /\ lo2 \in Int /\ hi2 \in Int /\ lo \in Int
      /\ (lo = hi => SameSign(lo, hi)) /\ (SameSign(lo2, hi2) \/ (lo2 < 0 /\ hi2 >= 0))
  BY BoundsAre DEF Bounds
<1>4. CASE SameSign(lo, hi)
  <2>1. /\ (lo2 >= 0 <=> lo >= 0) /\ (hi2 >= 0 <=> lo >= 0)
        /\ lo2 \div Two(n) = hi2 \div Two(n)
    BY <1>4, Zenon DEF Spread
  <2>2. SameSign(lo2, hi2)
    BY <1>3, <2>1 DEF SameSign
  <2>3. m <= n
    <3>1. CASE lo2 = hi2
      BY <1>1, <1>2, <3>1
    <3>2. CASE lo2 # hi2
      <4>1. n \in 0 .. 15
        BY <1>1
      <4>2. QED
        BY <1>3, <2>1, <2>2, <3>2, <4>1, BitsOfSameSign, Zenon
    <3>3. QED
      BY <3>1, <3>2
  <2>4. QED
    BY <1>4, <2>2, <2>3
<1>5. CASE ~SameSign(lo, hi)
  <2>1. Fits(lo2, p) /\ Fits(hi2, p)
    BY <1>5, Zenon DEF Spread
  <2>2. n = p + 1 /\ p \in 0 .. 15
    BY <1>1, <1>3, <1>5
  <2>3. CASE lo2 = hi2
    BY <1>1, <1>2, <1>5, <2>2, <2>3
  <2>4. CASE lo2 # hi2 /\ SameSign(lo2, hi2)
    <3>1. lo2 \div Two(p) = hi2 \div Two(p)
      BY <1>3, <2>1, <2>2, <2>4, SameSignHigh, Zenon
    <3>2. m <= p
      BY <1>3, <2>2, <2>4, <3>1, BitsOfSameSign, Zenon
    <3>3. QED
      BY <1>1, <1>2, <1>5, <2>2, <3>2
  <2>5. CASE ~SameSign(lo2, hi2)
    <3>1. m <= p + 1
      BY <1>3, <2>1, <2>2, <2>5, BitsOfBothSigns, Zenon
    <3>2. QED
      BY <1>5, <2>2, <2>5, <3>1
  <2>6. QED
    BY <2>3, <2>4, <2>5
<1>6. QED
  BY <1>4, <1>5

(* So with as many varying bits, drpe does to them what it does with the   *)
(* parameters of before.                                                   *)
LEMMA SameCipher ==
  ASSUME NEW lo, NEW hi, Bounds(lo, hi), lo # hi, NEW lo2, NEW hi2, Bounds(lo2, hi2),
         Spread(lo, hi, lo2), Spread(lo, hi, hi2),
         NumBits(lo2, hi2) = NumBits(lo, hi),
         NEW w \in lo2 .. hi2, Fits(w, SignBitPosition(lo, hi)), NEW k \in Int
  PROVE  Drped(w, k, NumBits(lo2, hi2), SignBitPosition(lo2, hi2))
           = Drped(w, k, NumBits(lo, hi), SignBitPosition(lo, hi))
<1> DEFINE n == NumBits(lo, hi)
           p == SignBitPosition(lo, hi)
           m == NumBits(lo2, hi2)
           q == SignBitPosition(lo2, hi2)
<1>1. /\ n \in 0 .. 11 /\ p \in 0 .. 10 /\ (n = 0 <=> lo = hi)
      /\ (lo # hi /\ SameSign(lo, hi) => n <= p)
      /\ (lo # hi /\ ~SameSign(lo, hi) => n = p + 1)
  BY DrpeParameters, Zenon
<1>2. /\ q \in 0 .. 10 /\ (m = 0 <=> lo2 = hi2)
      /\ (lo2 # hi2 /\ SameSign(lo2, hi2) => m <= q)
      /\ (lo2 # hi2 /\ ~SameSign(lo2, hi2) => m = q + 1)
  BY DrpeParameters, Zenon
<1>3. lo2 # hi2
  BY <1>1, <1>2
<1>4. /\ SameSign(lo, hi) => SameSign(lo2, hi2)
      /\ ~SameSign(lo, hi) /\ SameSign(lo2, hi2) => m < n
  BY SpreadShrinks, Zenon
<1>5. w \in Int /\ Fits(w, q)
  BY <1>3, SpreadOfItself, Zenon
<1>6. m = n /\ Fits(w, p)
  OBVIOUS
<1> HIDE DEF n, p, m, q
<1>7. CASE SameSign(lo, hi)
  <2>1. n <= p /\ n <= q /\ n \in Nat /\ p \in 0 .. 15 /\ q \in 0 .. 15
    BY <1>1, <1>2, <1>3, <1>4, <1>6, <1>7
  <2>2. Drped(w, k, n, p) = Drped(w, k, n, q)
    BY <1>5, <1>6, <2>1, DrpedAnywhere, ZenonT(60)
  <2>3. QED
    BY <1>6, <2>2, Zenon DEF n, p, m, q
<1>8. CASE ~SameSign(lo, hi)
  <2>1. ~SameSign(lo2, hi2)
    BY <1>1, <1>4, <1>6, <1>8
  <2>2. p = q
    BY <1>1, <1>2, <1>3, <1>6, <1>8, <2>1
  <2>3. QED
    BY <1>6, <2>2, Zenon DEF n, p, m, q
<1>9. QED
  BY <1>7, <1>8

-----------------------------------------------------------------------------
(* The conversions keep the numbers that fit.                              *)
LEMMA Conversions ==
  ASSUME NEW v \in Int
  PROVE  /\ 0 <= v /\ v < 65536 => Uint16(v) = v
         /\ -32768 <= v /\ v < 32768 => Int16(v) = v
         /\ Uint16(v) \in Nat
         /\ Int16(v) \in Int /\ -32768 <= Int16(v) /\ Int16(v) < 32768
<1>1. Uint16(v) = v % Two(16) /\ Int16(v) = ((v + Two(15)) % Two(16)) - Two(15)
  <2>1. Width = 16 /\ Width - 1 = 15
    BY DEF Width
  <2>2. QED
    BY <2>1, Zenon DEF Uint16, Int16, Two
<1>2. Uint16(v) = v % 65536 /\ Int16(v) = ((v + 32768) % 65536) - 32768
  BY <1>1, Powers
<1>3. QED
  BY <1>2

(* Going around the end of a range and back.                               *)
LEMMA Around ==
  ASSUME NEW r \in Nat \ {0}, NEW a \in Nat, a < r, NEW d \in Nat, d < r,
         NEW b, b = (a + d) % r
  PROVE  b \in Nat /\ b < r /\ (b + (r - d)) % r = a
<1>1. CASE a + d < r
  <2>1. a + d = r * 0 + (a + d) /\ a + d \in 0 .. r - 1 /\ a + d \in Int /\ 0 \in Int
    BY <1>1
  <2>2. b = a + d
    BY <2>1, DivisionUnique
  <2>3. b + (r - d) = r * 1 + a /\ b + (r - d) \in Int /\ a \in 0 .. r - 1 /\ 1 \in Int
    BY <2>2
  <2>4. (b + (r - d)) % r = a
    BY <2>3, DivisionUnique
  <2>5. QED
    BY <1>1, <2>2, <2>4
<1>2. CASE a + d >= r
  <2>1. a + d = r * 1 + (a + d - r) /\ a + d - r \in 0 .. r - 1 /\ a + d \in Int /\ 1 \in Int
    BY <1>2
  <2>2. b = a + d - r
    BY <2>1, DivisionUnique
  <2>3. b + (r - d) = r * 0 + a /\ b + (r - d) \in Int /\ a \in 0 .. r - 1 /\ 0 \in Int
    BY <2>2
  <2>4. (b + (r - d)) % r = a
    BY <2>3, DivisionUnique
  <2>5. b \in Nat /\ b < r
    BY <1>2, <2>2
  <2>6. QED
    BY <2>4, <2>5
<1>3. a + d < r \/ a + d >= r
  OBVIOUS
<1>4. QED
  BY <1>1, <1>2, <1>3

(* What fpe makes of any number is in the range, and it can be undone for  *)
(* a number that was in the range.                                         *)
LEMMA ShiftedIsSum ==
  ASSUME NEW lo, NEW hi, Bounds(lo, hi), NEW r, r = RangeSize(lo, hi),
         NEW v \in Int, NEW delta \in Int
  PROVE  /\ r \in Nat \ {0} /\ r <= 2048 /\ r = hi - lo + 1
         /\ Shifted(v, delta, lo, hi) = ((Uint16(v - lo) + Uint16(delta)) % r) + lo
         /\ Shifted(v, delta, lo, hi) \in lo .. hi
<1> DEFINE u == Uint16(v - lo) + Uint16(delta)
           x == u % r
<1>1. lo \in Int /\ hi \in Int /\ -1024 <= lo /\ lo <= hi /\ hi <= 1023
  BY CoefRange DEF Bounds
<1>2. r = hi - lo + 1
  BY DEF RangeSize
<1>3. r \in Nat \ {0} /\ r <= 2048
  BY <1>1, <1>2
<1>4. u \in Int
  <2>1. v - lo \in Int
    BY <1>1
  <2>2. Uint16(v - lo) \in Nat /\ Uint16(delta) \in Nat
    BY <2>1, Conversions
  <2>3. QED
    BY <2>2
<1> HIDE DEF u
<1>5. x \in 0 .. r - 1
  <2>1. \A d \in Nat \ {0} : \A w \in Int : w % d \in 0 .. d - 1
    BY Division
  <2>2. r \in Nat \ {0}
    BY <1>3
  <2>3. u % r \in 0 .. r - 1
    BY <1>4, <2>1, <2>2, Zenon
  <2>4. QED
    BY <2>3
<1>6. Shifted(v, delta, lo, hi) = Int16(x + lo)
  BY Zenon DEF Shifted, x, u
<1> HIDE DEF x
<1>7. x + lo \in lo .. hi /\ x + lo \in Int /\ -32768 <= x + lo /\ x + lo < 32768
  BY <1>1, <1>2, <1>5
<1>8. Int16(x + lo) = x + lo
  BY <1>7, Conversions
<1>9. QED
  BY <1>2, <1>3, <1>6, <1>7, <1>8 DEF x, u

LEMMA ShiftedBack ==
  ASSUME NEW lo, NEW hi, Bounds(lo, hi), NEW v \in lo .. hi,
         NEW r, r = RangeSize(lo, hi), NEW d \in 0 .. r - 1
  PROVE  Shifted(Shifted(v, d, lo, hi), r - d, lo, hi) = v
<1>1. lo \in Int /\ hi \in Int /\ v \in Int /\ lo <= v /\ v <= hi /\ 0 \in Int
  BY BoundsAre
<1>2. r \in Nat \ {0} /\ r <= 2048 /\ r = hi - lo + 1
  BY <1>1, ShiftedIsSum
<1>3. d \in Int /\ r - d \in Int /\ 0 <= d /\ d < r
  BY <1>2
<1> DEFINE w == Shifted(v, d, lo, hi)
<1>4. w = ((Uint16(v - lo) + Uint16(d)) % r) + lo /\ w \in lo .. hi
  BY <1>1, <1>3, ShiftedIsSum
<1> HIDE DEF w
<1>5. w \in Int /\ lo <= w /\ w <= hi
  BY <1>1, <1>4
<1> DEFINE z == Shifted(w, r - d, lo, hi)
<1>6. z = ((Uint16(w - lo) + Uint16(r - d)) % r) + lo
  BY <1>3, <1>5, ShiftedIsSum
<1> HIDE DEF z
<1> DEFINE a == v - lo
           b == w - lo
           c == r - d
<1>7. /\ a \in Int /\ 0 <= a /\ a < 65536 /\ a < r
      /\ d \in Int /\ 0 <= d /\ d < 65536
      /\ b \in Int /\ 0 <= b /\ b < 65536
      /\ c \in Int /\ 0 <= c /\ c < 65536
  <2>1. -1024 <= lo /\ hi <= 1023
    BY CoefRange DEF Bounds
  <2>2. QED
    BY <1>1, <1>2, <1>3, <1>5, <2>1
<1>8. w = ((Uint16(a) + Uint16(d)) % r) + lo /\ z = ((Uint16(b) + Uint16(c)) % r) + lo
  BY <1>4, <1>6
<1> HIDE DEF a, b, c
<1>9. Uint16(a) = a /\ Uint16(d) = d /\ Uint16(b) = b /\ Uint16(c) = c
  BY <1>7, Conversions
<1> DEFINE e == (a + d) % r
<1>16. e = (a + d) % r
  OBVIOUS
<1> HIDE DEF e
<1>10. e \in Nat /\ e < r /\ (e + (r - d)) % r = a
  <2>1. a \in Nat /\ a < r /\ d \in Nat /\ d < r
    BY <1>3, <1>7
  <2>2. QED
    BY <1>2, <1>16, <2>1, Around
<1>11. w = e + lo
  BY <1>8, <1>9, <1>16
<1>12. b = e
  BY <1>1, <1>10, <1>11 DEF b
<1>13. z = ((e + (r - d)) % r) + lo
  BY <1>8, <1>9, <1>12 DEF c
<1>14. z = a + lo
  BY <1>10, <1>13
<1>15. z = v
  BY <1>1, <1>14 DEF a
<1>17. QED
  BY <1>15 DEF z, w

-----------------------------------------------------------------------------
(* The coefficients, and blocks of them.                                   *)
Coefs == {v \in Int : IsCoef(v)}

LEMMA CoefsAre == \A v \in Coefs : v \in Int /\ IsCoef(v) /\ -1024 <= v /\ v <= 1023
BY CoefRange DEF Coefs

(* Sums is what its definition says.                                       *)
LEMMA SumsDef ==
  ASSUME NEW n \in Nat, NEW a \in [1 .. n -> Int], Len(a) = n
  PROVE  /\ Sums(a)[0] = 0
         /\ \A k \in 1 .. n : Sums(a)[k] = Sums(a)[k - 1] + a[k]
<1> DEFINE h == [k \in 1 .. n |-> [v \in Int |-> v + a[k]]]
<1>1. h \in [1 .. n -> [Int -> Int]] /\ \A k \in 1 .. n, v \in Int : h[k][v] = v + a[k]
  OBVIOUS
<1> DEFINE Z == Int
<1>2. 0 \in Z /\ h \in Rules(Z, n)
  BY <1>1 DEF Rules
<1> HIDE DEF Z, h
<1>3. PICK f : f \in [0 .. n -> Z] /\ Follows(f, n, 0, h)
  BY <1>2, Recursion
<1>4. f = [k \in 0 .. n |-> IF k = 0 THEN 0 ELSE f[k - 1] + a[k]]
  <2>1. \A k \in 1 .. n : f[k - 1] \in Int
    BY <1>3 DEF Z
  <2>2. \A k \in 1 .. n : f[k] = f[k - 1] + a[k]
    BY <1>1, <1>3, <2>1 DEF Follows
  <2>3. f = [k \in 0 .. n |-> f[k]]
    BY <1>3
  <2>4. \A k \in 0 .. n : f[k] = IF k = 0 THEN 0 ELSE f[k - 1] + a[k]
    BY <1>3, <2>2 DEF Follows
  <2>5. QED
    BY <2>3, <2>4, Zenon
<1>5. f = [k \in 0 .. Len(a) |-> IF k = 0 THEN 0 ELSE f[k - 1] + a[k]]
  BY <1>4, Zenon
<1>6. Sums(a) = [k \in 0 .. Len(a) |-> IF k = 0 THEN 0 ELSE Sums(a)[k - 1] + a[k]]
  BY <1>5 DEF Sums
<1> DEFINE t == Sums(a)
<1> HIDE DEF t
<1>7. t = [k \in 0 .. n |-> IF k = 0 THEN 0 ELSE t[k - 1] + a[k]]
  BY <1>6 DEF t
<1>8. t[0] = 0 /\ \A k \in 1 .. n : t[k] = t[k - 1] + a[k]
  BY <1>7
<1>9. QED
  BY <1>8 DEF t

(* The sum of n coefficients is between n times the least and n times the  *)
(* greatest of them.                                                       *)
LEMMA SumOfCoefs ==
  ASSUME NEW n \in Nat, NEW a \in [1 .. n -> Coefs], Len(a) = n
  PROVE  Total(a) \in Int /\ -1024 * n <= Total(a) /\ Total(a) <= 1023 * n
<1> DEFINE t == Sums(a)
           G == {m \in Nat : m <= n => t[m] \in Int /\ -1024 * m <= t[m] /\ t[m] <= 1023 * m}
<1>1. \A k \in 1 .. n : a[k] \in Int /\ -1024 <= a[k] /\ a[k] <= 1023
  BY CoefsAre
<1>2. t[0] = 0 /\ \A k \in 1 .. n : t[k] = t[k - 1] + a[k]
  <2>1. a \in [1 .. n -> Int]
    BY <1>1
  <2>2. QED
    BY <2>1, SumsDef
<1> HIDE DEF t
<1>3. 0 \in G
  BY <1>2
<1>4. ASSUME NEW m \in Nat, m \in G PROVE m + 1 \in G
  <2>1. SUFFICES ASSUME m + 1 <= n
                 PROVE  /\ t[m + 1] \in Int
                        /\ -1024 * (m + 1) <= t[m + 1] /\ t[m + 1] <= 1023 * (m + 1)
    OBVIOUS
  <2>2. m + 1 \in 1 .. n /\ (m + 1) - 1 = m
    BY <2>1
  <2>3. t[m + 1] = t[m] + a[m + 1]
    BY <1>2, <2>2
  <2>4. QED
    BY <1>1, <1>4, <2>1, <2>2, <2>3
<1>8. Nat \subseteq G
  <2> HIDE DEF G
  <2>1. QED
    BY <1>3, <1>4, Induction
<1>5. n \in G
  <2> HIDE DEF G
  <2>1. QED
    BY <1>8
<1>6. Total(a) = t[n]
  BY DEF Total, t
<1>7. QED
  BY <1>5, <1>6

(* So their average is a coefficient.                                      *)
LEMMA AverageIsCoef ==
  ASSUME NEW n \in Nat \ {0}, NEW a \in [1 .. n -> Coefs], Len(a) = n
  PROVE  RoundedAverage(a) \in Coefs
<1> DEFINE s == Total(a)
           u == 2 * s + n
           e == 2 * n
           q == Quotient(u, e)
<1>1. s \in Int /\ -1024 * n <= s /\ s <= 1023 * n
  BY SumOfCoefs
<1> HIDE DEF s
<1>2. u \in Int /\ e \in Nat \ {0} /\ -1024 * e <= u /\ u < 1024 * e
  BY <1>1
<1>3. RoundedAverage(a) = Int16(q)
  BY DEF RoundedAverage, s
<1> HIDE DEF u, e
<1>4. ASSUME NEW w \in Int, w >= 0, w < 1024 * e
      PROVE  w \div e \in Int /\ 0 <= w \div e /\ w \div e <= 1023
  <2> DEFINE p == w \div e
  <2>1. p \in Int /\ w % e \in 0 .. e - 1 /\ w = e * p + (w % e)
    <3>1. e \in Nat \ {0}
      BY <1>2
    <3>2. QED
      BY <3>1, Division, Zenon
  <2> HIDE DEF p
  <2>2. e * p <= w /\ w < e * p + e
    BY <1>2, <2>1
  <2>3. p >= 0
    <3>1. SUFFICES ASSUME p <= -1 PROVE FALSE
      BY <2>1
    <3>2. e * (-1 - p) >= 0 /\ e * (-1 - p) = -e - e * p
      BY <1>2, <2>1, <3>1
    <3>3. QED
      BY <1>2, <1>4, <2>1, <2>2, <3>2
  <2>4. p <= 1023
    <3>1. SUFFICES ASSUME p >= 1024 PROVE FALSE
      BY <2>1
    <3>2. e * (p - 1024) >= 0 /\ e * (p - 1024) = e * p - 1024 * e
      BY <1>2, <2>1, <3>1
    <3>3. QED
      BY <1>2, <1>4, <2>1, <2>2, <3>2
  <2>5. QED
    BY <2>1, <2>3, <2>4 DEF p
<1>5. q \in Int /\ -1023 <= q /\ q <= 1023
  <2>1. CASE u >= 0
    BY <1>2, <1>4, <2>1 DEF Quotient
  <2>2. CASE u < 0 /\ u # -1024 * e
    <3>1. -u \in Int /\ -u >= 0 /\ -u < 1024 * e
      BY <1>2, <2>2
    <3>2. (-u) \div e \in Int /\ 0 <= (-u) \div e /\ (-u) \div e <= 1023
      <4> DEFINE w == -u
      <4>1. w \in Int /\ w >= 0 /\ w < 1024 * e
        BY <3>1
      <4> HIDE DEF w
      <4>2. w \div e \in Int /\ 0 <= w \div e /\ w \div e <= 1023
        BY <1>4, <4>1
      <4>3. QED
        BY <4>2 DEF w
    <3>3. QED
      BY <1>2, <2>2, <3>2 DEF Quotient
  <2>3. CASE u = -1024 * e
    <3>1. u = 2 * s + n /\ e = 2 * n
      BY DEF u, e
    <3>2. FALSE
      <4>1. 2 * s + n = -2048 * n
        BY <2>3, <3>1
      <4>2. QED
        BY <1>1, <4>1
    <3>3. QED
      BY <3>2
  <2>4. QED
    BY <1>2, <2>1, <2>2, <2>3
<1> HIDE DEF q
<1>6. Int16(q) = q
  <2>1. q \in Int /\ -32768 <= q /\ q < 32768
    BY <1>5
  <2>2. QED
    BY <2>1, Conversions
<1>7. q \in Int /\ IsCoef(q)
  <2>1. q \in Int /\ -1024 <= q /\ q <= 1023
    BY <1>5
  <2>2. QED
    BY <2>1, CoefRange
<1>8. QED
  BY <1>3, <1>6, <1>7 DEF Coefs

LEMMA RadiusType ==
  ASSUME NEW bits \in Int
  PROVE  Radius(bits) \in Int
<1> DEFINE c == (bits - 1) % 32
<1>1. c \in 0 .. 31
  OBVIOUS
<1>2. Radius(bits) = IF c < Width THEN Int16(Two(c)) ELSE 0
  BY Zenon DEF Radius, Two
<1> HIDE DEF c
<1>3. CASE c < Width
  <2>1. c \in 0 .. 15
    BY <1>1, <1>3 DEF Width
  <2>2. Two(c) \in Nat \ {0}
    BY <2>1, Doubling, Zenon
  <2>3. Two(c) \in Int
    BY <2>2
  <2>4. Int16(Two(c)) \in Int
    <3> DEFINE e == Two(c)
    <3>1. e \in Int
      BY <2>3
    <3> HIDE DEF e
    <3>2. Int16(e) \in Int
      BY <3>1, Conversions
    <3>3. QED
      BY <3>2 DEF e
  <2>5. QED
    BY <1>2, <1>3, <2>4
<1>4. QED
  BY <1>2, <1>3

(* And so is what mosaic makes of it, unless its radius wraps around.      *)
LEMMA FuzzyIsCoef ==
  ASSUME NEW n \in Nat \ {0}, NEW a \in [1 .. n -> Coefs], Len(a) = n,
         NEW key \in [1 .. n -> Int], NEW bits \in Int, bits < 1 \/ Radius(bits) >= 0
  PROVE  mosaic_fuzzy_block(a, key, bits) \in [1 .. n -> Coefs]
<1> DEFINE avg == RoundedAverage(a)
           flat == mosaic_flatten_block(a)
           r == Radius(bits)
           low == avg - r
           high == avg + r
           lo == Int16(IF low < -1024 THEN -1024 ELSE low)
           hi == Int16(IF high > 1023 THEN 1023 ELSE high)
<1>1. avg \in Coefs /\ avg \in Int /\ -1024 <= avg /\ avg <= 1023
  BY AverageIsCoef, CoefsAre
<1>2. flat \in [1 .. n -> Coefs] /\ \A k \in 1 .. n : flat[k] = avg
  BY <1>1 DEF mosaic_flatten_block
<1>3. r \in Int
  BY RadiusType
<1>4. mosaic_fuzzy_block(a, key, bits) = IF bits < 1 THEN flat ELSE fpe_encrypt_all(flat, key, lo, hi)
  BY Zenon DEF mosaic_fuzzy_block
<1> HIDE DEF avg, flat, r
<1>5. CASE bits < 1
  BY <1>2, <1>4, <1>5
<1>6. CASE bits >= 1
  <2>1. r >= 0
    BY <1>6 DEF r
  <2>2. lo \in Int /\ hi \in Int /\ -1024 <= lo /\ lo <= hi /\ hi <= 1023
    <3> DEFINE x == IF low < -1024 THEN -1024 ELSE low
               y == IF high > 1023 THEN 1023 ELSE high
    <3>1. x \in Int /\ y \in Int /\ -1024 <= x /\ x <= avg /\ avg <= y /\ y <= 1023
      BY <1>1, <1>3, <2>1
    <3> HIDE DEF x, y
    <3>5. -32768 <= x /\ x < 32768 /\ -32768 <= y /\ y < 32768
      BY <1>1, <3>1
    <3>2. Int16(x) = x /\ Int16(y) = y
      BY <3>1, <3>5, Conversions
    <3>3. lo = x /\ hi = y
      BY <3>2 DEF x, y
    <3>4. QED
      BY <1>1, <3>1, <3>3
  <2> HIDE DEF lo, hi
  <2>3. Bounds(lo, hi)
    BY <2>2, CoefRange DEF Bounds
  <2> DEFINE R == RangeSize(lo, hi)
  <2>4. R \in Nat \ {0}
    BY <2>2 DEF RangeSize
  <2>5. R = RangeSize(lo, hi)
    OBVIOUS
  <2> HIDE DEF R
  <2>6. ASSUME NEW k \in 1 .. n PROVE Shifted(flat[k], key[k] % R, lo, hi) \in Coefs
    <3>1. flat[k] \in Int /\ key[k] % R \in Int
      <4>1. key[k] \in Int
        OBVIOUS
      <4> DEFINE j == key[k]
      <4>2. j \in Int
        BY <4>1
      <4> HIDE DEF j
      <4>3. j % R \in 0 .. R - 1
        BY <2>4, <4>2, Division, Zenon
      <4>4. j % R \in Int
        BY <2>4, <4>3
      <4>5. QED
        BY <1>1, <1>2, <4>4 DEF j
    <3> DEFINE w == Shifted(flat[k], key[k] % R, lo, hi)
    <3>2. w \in lo .. hi
      BY <2>3, <2>5, <3>1, ShiftedIsSum
    <3> HIDE DEF w
    <3>3. w \in Int /\ lo <= w /\ w <= hi /\ IsCoef(lo) /\ IsCoef(hi)
      BY <2>2, <2>3, <3>2 DEF Bounds
    <3>4. w \in Coefs
      BY <3>3, CoefBetween DEF Coefs
    <3>5. QED
      BY <3>4 DEF w
  <2>7. fpe_encrypt_all(flat, key, lo, hi) = [k \in 1 .. n |-> Shifted(flat[k], key[k] % R, lo, hi)]
    BY <1>2, <2>5 DEF fpe_encrypt_all
  <2>8. fpe_encrypt_all(flat, key, lo, hi) \in [1 .. n -> Coefs]
    BY <2>6, <2>7
  <2>9. ~(bits < 1)
    BY <1>6
  <2>10. QED
    BY <1>4, <2>8, <2>9 DEF lo, hi
<1>7. QED
  BY <1>5, <1>6

-----------------------------------------------------------------------------
(* The least and the greatest coefficient of a block are two of them.      *)
LEMMA Observed ==
  ASSUME NEW n \in Nat \ {0}, NEW a \in [1 .. n -> Coefs]
  PROVE  /\ Bounds(ObservedMin(a), ObservedMax(a))
         /\ \A k \in 1 .. n : a[k] \in ObservedMin(a) .. ObservedMax(a)
         /\ \E k \in 1 .. n : ObservedMin(a) = a[k]
         /\ \E k \in 1 .. n : ObservedMax(a) = a[k]
<1> DEFINE S == Elements(a)
<1>1. S = {a[k] : k \in 1 .. n}
  BY DEF Elements
<1> HIDE DEF S
<1>2. S \subseteq Coefs /\ S # {}
  <2>1. 1 \in 1 .. n
    OBVIOUS
  <2>2. QED
    BY <1>1, <2>1
<1>3. -1024 \in Int /\ 1023 \in Int /\ \A x \in S : x \in Int /\ -1024 <= x /\ x <= 1023
  BY <1>2, CoefsAre
<1>4. Min(S) \in S /\ \A x \in S : Min(S) <= x
  BY <1>2, <1>3, LeastOf
<1>5. Max(S) \in S /\ \A x \in S : x <= Max(S)
  BY <1>2, <1>3, GreatestOf
<1>6. ObservedMin(a) = Min(S) /\ ObservedMax(a) = Max(S)
  BY DEF ObservedMin, ObservedMax, S
<1> DEFINE lo == Min(S)
           hi == Max(S)
<1>7. lo \in S /\ hi \in S /\ lo \in Coefs /\ hi \in Coefs /\ \A x \in S : lo <= x /\ x <= hi
  BY <1>2, <1>4, <1>5
<1> HIDE DEF lo, hi
<1>8. lo <= hi /\ lo \in Int /\ hi \in Int /\ IsCoef(lo) /\ IsCoef(hi)
  BY <1>7, CoefsAre
<1>9. \A k \in 1 .. n : a[k] \in S /\ a[k] \in Int
  BY <1>1, <1>3
<1>10. \A k \in 1 .. n : a[k] \in lo .. hi
  BY <1>7, <1>8, <1>9
<1>11. (\E k \in 1 .. n : lo = a[k]) /\ (\E k \in 1 .. n : hi = a[k])
  BY <1>1, <1>7
<1>12. QED
  BY <1>6, <1>8, <1>10, <1>11 DEF Bounds, lo, hi

(* Being within a range, one coefficient at a time.                        *)
LEMMA WithinIs ==
  ASSUME NEW n, NEW a, DOMAIN a = 1 .. n, NEW lo, NEW hi
  PROVE  Within(a, lo, hi) <=> \A k \in 1 .. n : lo <= a[k] /\ a[k] <= hi
BY DEF Within, Elements

(* Truncation.                                                             *)
LEMMA TruncatedFits ==
  ASSUME NEW n \in Nat \ {0}, NEW a \in [1 .. n -> Coefs], NEW lo, NEW hi, Bounds(lo, hi)
  PROVE  /\ Truncated(a, lo, hi) \in [1 .. n -> Coefs]
         /\ Within(Truncated(a, lo, hi), lo, hi)
         /\ Within(a, lo, hi) => Truncated(a, lo, hi) = a
<1> DEFINE b == Truncated(a, lo, hi)
           f(k) == LET v == IF a[k] > hi THEN hi ELSE a[k] IN IF v < lo THEN lo ELSE v
<1>1. lo \in Int /\ hi \in Int /\ lo <= hi /\ lo \in Coefs /\ hi \in Coefs
  BY BoundsAre DEF Bounds, Coefs
<1>2. b = [k \in 1 .. n |-> f(k)]
  BY DEF Truncated
<1>3. ASSUME NEW k \in 1 .. n
      PROVE  /\ f(k) \in Coefs /\ lo <= f(k) /\ f(k) <= hi
             /\ lo <= a[k] /\ a[k] <= hi => f(k) = a[k]
  <2>1. a[k] \in Coefs /\ a[k] \in Int
    BY CoefsAre
  <2>2. f(k) = hi \/ f(k) = lo \/ f(k) = a[k]
    OBVIOUS
  <2>3. QED
    BY <1>1, <2>1, <2>2
<1> HIDE DEF f, b
<1>4. b \in [1 .. n -> Coefs] /\ \A k \in 1 .. n : b[k] = f(k)
  BY <1>2, <1>3
<1>5. Within(b, lo, hi)
  <2>1. DOMAIN b = 1 .. n /\ \A k \in 1 .. n : lo <= b[k] /\ b[k] <= hi
    BY <1>3, <1>4
  <2>2. QED
    BY <2>1, WithinIs, Zenon
<1>6. ASSUME Within(a, lo, hi) PROVE b = a
  <2>1. \A k \in 1 .. n : lo <= a[k] /\ a[k] <= hi
    BY <1>6, WithinIs
  <2>2. \A k \in 1 .. n : b[k] = a[k]
    BY <1>3, <1>4, <2>1
  <2>3. QED
    BY <1>4, <2>2
<1>7. QED
  BY <1>4, <1>5, <1>6 DEF b

(* What a range function returns, and what it means that the range of a    *)
(* ciphertext s lies within it.                                            *)
RangeFor(r, n) ==
  r.array \in [1 .. n -> Coefs] /\ Bounds(r.min, r.max) /\ Within(r.array, r.min, r.max)

Nested(q, r, s) == q.array = s /\ r.min <= q.min /\ q.max <= r.max

LEMMA TruncatedRangeFits ==
  ASSUME NEW n \in Nat \ {0}, NEW a \in [1 .. n -> Coefs], NEW lo, NEW hi, Bounds(lo, hi)
  PROVE  /\ RangeFor(TruncatedRange(a, lo, hi), n)
         /\ TruncatedRange(a, lo, hi).min = lo /\ TruncatedRange(a, lo, hi).max = hi
         /\ Within(a, lo, hi) => TruncatedRange(a, lo, hi).array = a
BY TruncatedFits DEF TruncatedRange, Ranged, RangeFor

LEMMA RawFits ==
  ASSUME NEW n \in Nat \ {0}, NEW a \in [1 .. n -> Coefs]
  PROVE  RangeFor(minmax_raw(a), n) /\ minmax_raw(a).array = a
<1> DEFINE lo == ObservedMin(a)
           hi == ObservedMax(a)
<1>1. Bounds(lo, hi) /\ \A k \in 1 .. n : a[k] \in lo .. hi
  BY Observed, Zenon
<1>2. minmax_raw(a) = [array |-> a, min |-> lo, max |-> hi]
  BY DEF minmax_raw, Ranged
<1> HIDE DEF lo, hi
<1>3. lo \in Int /\ hi \in Int
  BY <1>1, BoundsAre
<1>4. Within(a, lo, hi)
  <2>1. DOMAIN a = 1 .. n /\ \A k \in 1 .. n : lo <= a[k] /\ a[k] <= hi
    BY <1>1, <1>3
  <2>2. QED
    BY <2>1, WithinIs, Zenon
<1>5. QED
  BY <1>1, <1>2, <1>4 DEF RangeFor

-----------------------------------------------------------------------------
(* Signed integers of b bits are coefficients, and among those of c bits.  *)
LEMMA SignedBounds ==
  ASSUME NEW c \in 0 .. 11, NEW b \in 0 .. c
  PROVE  /\ Bounds(SignedMin(b), SignedMax(b))
         /\ SignedMin(c) <= SignedMin(b) /\ SignedMax(b) <= SignedMax(c)
<1>1. \A d \in 0 .. 11 : /\ d = 0 => SignedMin(d) = 0 /\ SignedMax(d) = 0
                         /\ d # 0 => SignedMin(d) = -Two(d - 1) /\ SignedMax(d) = Two(d - 1) - 1
  BY Zenon DEF SignedMin, SignedMax, Two
<1>2. Two(10) = 1024 /\ b \in 0 .. 11
  BY Powers
<1>3. CASE c = 0
  <2>1. b = 0 /\ SignedMin(b) = 0 /\ SignedMax(b) = 0
    BY <1>1, <1>3
  <2>2. QED
    BY <1>3, <2>1, CoefRange DEF Bounds
<1>4. CASE c # 0 /\ b = 0
  <2>1. c - 1 \in 0 .. 15
    BY <1>4
  <2>2. Two(c - 1) \in Nat \ {0}
    BY <2>1, Doubling
  <2>3. QED
    BY <1>1, <1>2, <1>4, <2>2, CoefRange DEF Bounds
<1>5. CASE c # 0 /\ b # 0
  <2>1. c - 1 \in 0 .. 16 /\ b - 1 \in 0 .. c - 1 /\ 10 \in 0 .. 16 /\ b - 1 \in 0 .. 10
    BY <1>5
  <2>2. Two(b - 1) \in Nat \ {0} /\ Two(c - 1) \in Nat \ {0} /\ Two(b - 1) <= Two(c - 1)
    BY <2>1, PowersGrow
  <2>3. Two(b - 1) <= Two(10)
    BY <2>1, PowersGrow
  <2>4. SignedMin(b) = -Two(b - 1) /\ SignedMax(b) = Two(b - 1) - 1
    <3>1. b \in 0 .. 11 /\ b # 0
      BY <1>2, <1>5
    <3>2. QED
      BY <1>1, <3>1, Zenon
  <2>5. SignedMin(c) = -Two(c - 1) /\ SignedMax(c) = Two(c - 1) - 1
    <3>1. c \in 0 .. 11 /\ c # 0
      BY <1>5
    <3>2. QED
      BY <1>1, <3>1, Zenon
  <2>6. QED
    BY <1>2, <2>2, <2>3, <2>4, <2>5, CoefRange DEF Bounds
<1>6. QED
  BY <1>3, <1>4, <1>5

(* minmax_poweroftwo takes the least power that holds the block.           *)
LEMMA PowerChoice ==
  ASSUME NEW n \in Nat \ {0}, NEW a \in [1 .. n -> Coefs], NEW m \in 0 .. 11
  PROVE  \E b \in 0 .. m :
           /\ minmax_poweroftwo(a, 0, m) = TruncatedRange(a, SignedMin(b), SignedMax(b))
           /\ \A c \in 0 .. m : Within(a, SignedMin(c), SignedMax(c))
                => b <= c /\ Within(a, SignedMin(b), SignedMax(b))
<1> DEFINE S == {b \in 0 .. m : Within(a, SignedMin(b), SignedMax(b))}
           b == IF S = {} THEN m ELSE Min(S)
<1>1. minmax_poweroftwo(a, 0, m) = TruncatedRange(a, SignedMin(b), SignedMax(b))
  BY Zenon DEF minmax_poweroftwo
<1>2. CASE S = {}
  <2>1. b = m /\ m \in 0 .. m
    BY <1>2
  <2>2. QED
    BY <1>1, <1>2, <2>1
<1>3. CASE S # {}
  <2>1. 0 \in Int /\ \A x \in S : x \in Int /\ 0 <= x
    OBVIOUS
  <2>2. Min(S) \in S /\ \A x \in S : Min(S) <= x
    BY <1>3, <2>1, LeastOf
  <2>3. b = Min(S)
    BY <1>3
  <2>4. b \in S /\ \A x \in S : b <= x
    BY <2>2, <2>3
  <2> HIDE DEF b
  <2>5. QED
    BY <1>1, <2>4
<1>4. QED
  BY <1>2, <1>3

(* So it truncates into its range, and the range of a block within is within. *)
LEMMA PowerFits ==
  ASSUME NEW n \in Nat \ {0}, NEW a \in [1 .. n -> Coefs], NEW m \in 0 .. 11
  PROVE  /\ RangeFor(minmax_poweroftwo(a, 0, m), n)
         /\ \E b \in 0 .. m : /\ minmax_poweroftwo(a, 0, m).min = SignedMin(b)
                              /\ minmax_poweroftwo(a, 0, m).max = SignedMax(b)
<1> DEFINE r == minmax_poweroftwo(a, 0, m)
<1>1. PICK b \in 0 .. m : r = TruncatedRange(a, SignedMin(b), SignedMax(b))
  BY PowerChoice, Zenon
<1>2. Bounds(SignedMin(b), SignedMax(b))
  BY SignedBounds, Zenon
<1>3. RangeFor(r, n) /\ r.min = SignedMin(b) /\ r.max = SignedMax(b)
  <2> DEFINE lo == SignedMin(b)
             hi == SignedMax(b)
  <2>1. Bounds(lo, hi) /\ r = TruncatedRange(a, lo, hi)
    BY <1>1, <1>2
  <2> HIDE DEF lo, hi, r
  <2>2. RangeFor(r, n) /\ r.min = lo /\ r.max = hi
    BY <2>1, TruncatedRangeFits
  <2>3. QED
    BY <2>2 DEF lo, hi
<1>4. QED
  BY <1>3, Zenon

LEMMA PowerNests ==
  ASSUME NEW n \in Nat \ {0}, NEW s \in [1 .. n -> Coefs], NEW m \in 0 .. 11,
         NEW c \in 0 .. m, Within(s, SignedMin(c), SignedMax(c))
  PROVE  LET q == minmax_poweroftwo(s, 0, m)
         IN  q.array = s /\ SignedMin(c) <= q.min /\ q.max <= SignedMax(c)
<1> DEFINE q == minmax_poweroftwo(s, 0, m)
<1>1. PICK b \in 0 .. m :
        /\ q = TruncatedRange(s, SignedMin(b), SignedMax(b))
        /\ b <= c /\ Within(s, SignedMin(b), SignedMax(b))
  BY PowerChoice, Zenon
<1>2. c \in 0 .. 11 /\ b \in 0 .. c
  BY <1>1
<1>3. /\ Bounds(SignedMin(b), SignedMax(b))
      /\ SignedMin(c) <= SignedMin(b) /\ SignedMax(b) <= SignedMax(c)
  BY <1>2, SignedBounds, Zenon
<1>4. q.array = s /\ q.min = SignedMin(b) /\ q.max = SignedMax(b)
  <2> DEFINE lo == SignedMin(b)
             hi == SignedMax(b)
  <2> HIDE DEF q
  <2>1. Bounds(lo, hi) /\ q = TruncatedRange(s, lo, hi) /\ Within(s, lo, hi)
    BY <1>1, <1>3
  <2> HIDE DEF lo, hi
  <2>2. q.array = s /\ q.min = lo /\ q.max = hi
    BY <2>1, TruncatedRangeFits
  <2>3. QED
    BY <2>2 DEF lo, hi
<1>5. QED
  BY <1>3, <1>4

-----------------------------------------------------------------------------
(* The numbers that agree with v but for its m lowest bits start at Low.   *)
Low(v, m) == (v \div Two(m)) * Two(m)

LEMMA LowAround ==
  ASSUME NEW v \in Int, NEW m \in 0 .. 16
  PROVE  /\ Low(v, m) \in Int /\ Two(m) \in Int /\ Two(m) >= 1
         /\ Low(v, m) <= v /\ v <= Low(v, m) + Two(m) - 1
<1> DEFINE d == Two(m)
           q == v \div d
<1>1. d \in Nat \ {0}
  BY PowersGrow
<1> HIDE DEF d
<1>2. q \in Int /\ v % d \in 0 .. d - 1 /\ v = d * q + (v % d)
  BY <1>1, Division
<1> HIDE DEF q
<1>3. q * d \in Int /\ q * d = d * q
  BY <1>1, <1>2
<1>4. q * d <= v /\ v <= q * d + d - 1
  BY <1>1, <1>2, <1>3
<1>5. d \in Int /\ d >= 1
  BY <1>1
<1>6. QED
  BY <1>3, <1>4, <1>5 DEF Low, q, d

(* These numbers are among those that agree but for more bits.             *)
LEMMA LowNests ==
  ASSUME NEW v \in Int, NEW k \in 0 .. 15, NEW m \in 0 .. k
  PROVE  Low(v, k) <= Low(v, m) /\ Low(v, m) + Two(m) <= Low(v, k) + Two(k)
<1>1. \A t \in 0 .. 15 : /\ Low(v, t + 1) <= Low(v, t)
                         /\ Low(v, t) + Two(t) <= Low(v, t + 1) + Two(t + 1)
  <2>1. SUFFICES ASSUME NEW t \in 0 .. 15
                 PROVE  /\ Low(v, t + 1) <= Low(v, t)
                        /\ Low(v, t) + Two(t) <= Low(v, t + 1) + Two(t + 1)
    OBVIOUS
  <2> DEFINE d == Two(t)
             e == Two(t + 1)
             p == v \div d
             q == v \div e
             b == Bit(v, t)
  <2>2. d \in Nat \ {0} /\ e = 2 * d
    BY Doubling
  <2>3. b \in {0, 1} /\ q \in Int /\ p = 2 * q + b
    BY HalfStep, Zenon
  <2>4. Low(v, t) = p * d /\ Low(v, t + 1) = q * e
    BY DEF Low
  <2> HIDE DEF d, e, p, q, b
  <2>5. q * e = 2 * (q * d) /\ q * d \in Int
    BY <2>2, <2>3
  <2>6. p * d = 2 * (q * d) + b * d /\ (b * d = 0 \/ b * d = d)
    BY <2>2, <2>3
  <2>7. q * e <= p * d /\ p * d + d <= q * e + e
    BY <2>2, <2>5, <2>6
  <2>8. QED
    BY <2>4, <2>7 DEF d, e
<1> DEFINE G == {j \in Nat : m + j <= 15 => /\ Low(v, m + j) <= Low(v, m)
                                            /\ Low(v, m) + Two(m) <= Low(v, m + j) + Two(m + j)}
<1>2. 0 \in G
  <2>1. m \in 0 .. 16 /\ m + 0 = m
    OBVIOUS
  <2>2. Low(v, m) \in Int /\ Two(m) \in Int
    BY <2>1, LowAround, Zenon
  <2>3. QED
    BY <2>1, <2>2
<1>3. ASSUME NEW j \in Nat, j \in G PROVE j + 1 \in G
  <2>1. SUFFICES ASSUME m + (j + 1) <= 15
                 PROVE  /\ Low(v, m + (j + 1)) <= Low(v, m)
                        /\ Low(v, m) + Two(m) <= Low(v, m + (j + 1)) + Two(m + (j + 1))
    OBVIOUS
  <2> DEFINE i == m + j
  <2>2. i \in 0 .. 15 /\ i \in 0 .. 16 /\ i + 1 \in 0 .. 16 /\ m \in 0 .. 16 /\ m + (j + 1) = i + 1
    BY <2>1
  <2>3. Low(v, i) <= Low(v, m) /\ Low(v, m) + Two(m) <= Low(v, i) + Two(i)
    BY <1>3, <2>2
  <2> HIDE DEF i
  <2>4. Low(v, i + 1) <= Low(v, i) /\ Low(v, i) + Two(i) <= Low(v, i + 1) + Two(i + 1)
    BY <1>1, <2>2, Zenon
  <2>5. /\ Low(v, i) \in Int /\ Two(i) \in Int /\ Low(v, m) \in Int /\ Two(m) \in Int
        /\ Low(v, i + 1) \in Int /\ Two(i + 1) \in Int
    BY <2>2, LowAround, Zenon
  <2>6. QED
    BY <2>2, <2>3, <2>4, <2>5
<1>4. Nat \subseteq G
  <2> HIDE DEF G
  <2>1. QED
    BY <1>2, <1>3, Induction
<1>5. k - m \in Nat /\ m + (k - m) = k
  OBVIOUS
<1>6. k - m \in G
  BY <1>4, <1>5, Zenon
<1>7. QED
  BY <1>5, <1>6

(* With the bits of a coefficient that vary, these are coefficients.       *)
LEMMA LowIsCoef ==
  ASSUME NEW v, IsCoef(v), NEW m \in 0 .. 10
  PROVE  Bounds(Low(v, m), Low(v, m) + Two(m) - 1)
<1>1. v \in Int /\ Fits(v, 10) /\ 10 \in 0 .. 15 /\ m \in 0 .. 16 /\ Two(10) = 1024
  BY Powers DEF IsCoef
<1> DEFINE q == v \div Two(10)
<1>2. q = 0 \/ q = -1
  BY <1>1, SignBit
<1>3. Low(v, 10) = q * 1024
  <2>1. Low(v, 10) = q * Two(10)
    BY Zenon DEF Low
  <2>2. Two(10) = 1024
    BY <1>1
  <2> HIDE DEF q
  <2>3. QED
    BY <2>1, <2>2
<1> HIDE DEF q
<1>4. -1024 <= Low(v, 10) /\ Low(v, 10) <= 0
  BY <1>2, <1>3
<1> DEFINE l == Low(v, m)
           d == Two(m)
           h == Low(v, 10)
<1>11. 10 \in 0 .. 15 /\ 10 \in 0 .. 16 /\ m \in 0 .. 16
  BY <1>1
<1>5. h <= l /\ l + d <= h + Two(10)
  BY <1>1, <1>11, LowNests
<1>6. l \in Int /\ d \in Int /\ d >= 1 /\ h \in Int
  <2>1. v \in Int
    BY <1>1
  <2>2. Low(v, m) \in Int /\ Two(m) \in Int /\ Two(m) >= 1
    BY <1>11, <2>1, LowAround, Zenon
  <2>3. Low(v, 10) \in Int
    BY <1>11, <2>1, LowAround, Zenon
  <2>4. QED
    BY <2>2, <2>3
<1>7. -1024 <= h /\ h <= 0
  BY <1>4
<1> HIDE DEF l, d, h
<1>8. l \in Int /\ l + d - 1 \in Int /\ -1024 <= l /\ l <= l + d - 1 /\ l + d - 1 <= 1023
  BY <1>1, <1>5, <1>6, <1>7
<1>9. Bounds(l, l + d - 1)
  BY <1>6, <1>8, CoefRange DEF Bounds
<1>10. QED
  BY <1>9 DEF l, d

-----------------------------------------------------------------------------
(* minmax_bitmask, when all coefficients have the same sign: m is the      *)
(* least number of low bits that hold all the differences.                 *)
LEMMA MaskChoice ==
  ASSUME NEW n \in Nat \ {0}, NEW a \in [1 .. n -> Coefs],
         ~(ObservedMin(a) < 0 /\ ObservedMax(a) >= 0)
  PROVE  LET lo == ObservedMin(a)
             hi == ObservedMax(a)
         IN  \E m \in 0 .. 10 :
               /\ minmax_bitmask(a, 0, 10)
                    = TruncatedRange(a, Low(lo, m), Low(lo, m) + Two(m) - 1)
               /\ lo \div Two(m) = hi \div Two(m)
               /\ \A j \in 0 .. 10 : lo \div Two(j) = hi \div Two(j) => m <= j
<1> DEFINE lo == ObservedMin(a)
           hi == ObservedMax(a)
           D == {t \in 0 .. 10 : Bit(lo, t) # Bit(hi, t)}
           m == IF D = {} THEN 0 ELSE Max(D) + 1
           low == (lo \div Two(m)) * Two(m)
           top == low + Two(m) - 1
<1>1. Bounds(lo, hi)
  BY Observed, Zenon
<1>2. lo \in Int /\ hi \in Int /\ IsCoef(lo) /\ IsCoef(hi) /\ SameSign(lo, hi) /\ 10 \in 0 .. 15
  BY <1>1, BoundsAre DEF Bounds
<1>3. minmax_bitmask(a, 0, 10)
        = TruncatedRange(a, IF low < -Two(10) THEN -Two(10) ELSE low,
                            IF top > Two(10) THEN Two(10) ELSE top)
  <2>1. ~(lo < 0 /\ hi >= 0)
    OBVIOUS
  <2>2. QED
    BY <2>1, Zenon DEF minmax_bitmask, Two
<1>4. lo \div Two(10) = hi \div Two(10)
  BY <1>2, SameSignHigh, Zenon DEF IsCoef
<1>5. Bit(lo, 10) = Bit(hi, 10)
  BY <1>4, Named
<1>6. /\ m \in 0 .. 10 /\ \A t \in m .. 9 : Bit(lo, t) = Bit(hi, t)
      /\ m # 0 => m - 1 \in 0 .. 9 /\ Bit(lo, m - 1) # Bit(hi, m - 1)
  <2>1. CASE D = {}
    <3>1. m = 0
      BY <2>1
    <3>2. \A t \in 0 .. 9 : t \in 0 .. 10
      OBVIOUS
    <3>3. \A t \in 0 .. 9 : Bit(lo, t) = Bit(hi, t)
      BY <2>1, <3>2
    <3> HIDE DEF m
    <3>4. QED
      BY <3>1, <3>3
  <2>2. CASE D # {}
    <3>1. 10 \in Int /\ \A t \in D : t \in Int /\ t <= 10
      OBVIOUS
    <3>2. Max(D) \in D /\ \A t \in D : t <= Max(D)
      BY <2>2, <3>1, GreatestOf
    <3> DEFINE x == Max(D)
    <3>3. x \in 0 .. 10 /\ Bit(lo, x) # Bit(hi, x) /\ \A t \in 0 .. 10 : x < t => Bit(lo, t) = Bit(hi, t)
      <4>1. x \in D /\ \A t \in D : t <= x
        BY <3>2
      <4> HIDE DEF x
      <4>2. x \in 0 .. 10 /\ Bit(lo, x) # Bit(hi, x)
        BY <4>1
      <4>3. ASSUME NEW t \in 0 .. 10, x < t PROVE Bit(lo, t) = Bit(hi, t)
        <5>1. t \notin D
          BY <4>1, <4>2, <4>3
        <5>2. QED
          BY <5>1
      <4>4. QED
        BY <4>2, <4>3
    <3>4. m = x + 1
      BY <2>2
    <3> HIDE DEF x, m
    <3>5. x # 10
      BY <1>5, <3>3
    <3>6. m \in 0 .. 10 /\ m - 1 = x /\ x \in 0 .. 9 /\ \A t \in m .. 9 : t \in 0 .. 10 /\ x < t
      BY <3>3, <3>4, <3>5
    <3>7. QED
      BY <3>3, <3>6
  <2>3. QED
    BY <2>1, <2>2
<1> HIDE DEF m, lo, hi
<1>7. lo \div Two(m) = hi \div Two(m)
  <2>1. 10 \in 0 .. 16 /\ m \in 0 .. 10 /\ 10 - 1 = 9
    BY <1>6
  <2>2. \A t \in m .. 10 - 1 : Bit(lo, t) = Bit(hi, t)
    BY <1>6, <2>1
  <2>3. QED
    BY <1>2, <1>4, <2>1, <2>2, SameDownTo, Zenon
<1>8. ASSUME NEW j \in 0 .. 10, lo \div Two(j) = hi \div Two(j) PROVE m <= j
  <2>1. SUFFICES ASSUME j < m PROVE FALSE
    BY <1>6
  <2>2. j \in 0 .. 16 /\ m - 1 \in j .. 15 /\ m # 0
    BY <1>6, <2>1
  <2>3. Bit(lo, m - 1) = Bit(hi, m - 1)
    BY <1>2, <1>8, <2>2, SameAbove, Zenon
  <2>4. QED
    BY <1>6, <2>2, <2>3
<1>9. low = Low(lo, m) /\ Bounds(low, top)
  <2>1. low = Low(lo, m)
    BY DEF Low
  <2>2. Bounds(Low(lo, m), Low(lo, m) + Two(m) - 1)
    BY <1>2, <1>6, LowIsCoef, Zenon
  <2>3. QED
    BY <2>1, <2>2
<1> HIDE DEF low
<1> HIDE DEF top
<1>10. /\ (IF low < -Two(10) THEN -Two(10) ELSE low) = low
       /\ (IF top > Two(10) THEN Two(10) ELSE top) = top
  <2>1. Two(10) = 1024 /\ low \in Int /\ top \in Int /\ -1024 <= low /\ top <= 1023
    <3>1. Two(10) = 1024
      BY Powers
    <3>2. IsCoef(low) /\ IsCoef(top)
      BY <1>9, Zenon DEF Bounds
    <3>3. QED
      BY <3>1, <3>2, CoefRange
  <2>2. QED
    BY <2>1
<1>11. minmax_bitmask(a, 0, 10) = TruncatedRange(a, low, top)
  BY <1>3, <1>10, Zenon
<1>12. top = Low(lo, m) + Two(m) - 1
  BY <1>9 DEF top
<1>13. QED
  BY <1>6, <1>7, <1>8, <1>9, <1>11, <1>12, Zenon DEF lo, hi

-----------------------------------------------------------------------------
(* These numbers have the sign of v.                                       *)
LEMMA LowOfFitting ==
  ASSUME NEW v \in Int, NEW p \in 0 .. 15, Fits(v, p), NEW m \in 0 .. p
  PROVE  /\ v >= 0 => 0 <= Low(v, m) /\ Low(v, m) + Two(m) <= Two(p)
         /\ v < 0 => -Two(p) <= Low(v, m) /\ Low(v, m) + Two(m) <= 0
<1> DEFINE q == v \div Two(p)
           d == Two(p)
           h == Low(v, p)
           l == Low(v, m)
           e == Two(m)
<1>1. (v >= 0 => q = 0) /\ (v < 0 => q = -1)
  BY SignBit
<1>2. h = q * d
  BY DEF Low
<1>3. h <= l /\ l + e <= h + d
  BY LowNests, Zenon
<1>4. l \in Int /\ e \in Int
  <2>1. m \in 0 .. 16
    OBVIOUS
  <2>2. QED
    BY <2>1, LowAround, Zenon
<1>5. d \in Nat \ {0}
  BY Doubling, Zenon
<1> HIDE DEF q, d, h, l, e
<1>6. (v >= 0 => h = 0) /\ (v < 0 => h = -d)
  BY <1>1, <1>2, <1>5
<1>7. (v >= 0 => 0 <= l /\ l + e <= d) /\ (v < 0 => -d <= l /\ l + e <= 0)
  BY <1>3, <1>4, <1>5, <1>6
<1>8. QED
  BY <1>7 DEF d, l, e

(* What minmax_bitmask returns for a block with one sign: the numbers that *)
(* agree with the block but for the bits that vary.                        *)
LEMMA MaskFits ==
  ASSUME NEW n \in Nat \ {0}, NEW a \in [1 .. n -> Coefs],
         ~(ObservedMin(a) < 0 /\ ObservedMax(a) >= 0)
  PROVE  LET lo == ObservedMin(a)
             hi == ObservedMax(a)
             r  == minmax_bitmask(a, 0, 10)
         IN  /\ RangeFor(r, n) /\ r.array = a
             /\ \E m \in 0 .. 10 :
                  /\ r.min = Low(lo, m) /\ r.max = Low(lo, m) + Two(m) - 1
                  /\ \A j \in 0 .. 10 : lo \div Two(j) = hi \div Two(j) => m <= j
<1> DEFINE lo == ObservedMin(a)
           hi == ObservedMax(a)
           r  == minmax_bitmask(a, 0, 10)
<1>1. PICK m \in 0 .. 10 :
        /\ minmax_bitmask(a, 0, 10) = TruncatedRange(a, Low(lo, m), Low(lo, m) + Two(m) - 1)
        /\ lo \div Two(m) = hi \div Two(m)
        /\ \A j \in 0 .. 10 : lo \div Two(j) = hi \div Two(j) => m <= j
  BY MaskChoice, Zenon
<1> DEFINE low == Low(lo, m)
           top == Low(lo, m) + Two(m) - 1
<1>2. Bounds(lo, hi) /\ \A k \in 1 .. n : a[k] \in lo .. hi
  BY Observed, Zenon
<1>3. lo \in Int /\ hi \in Int /\ IsCoef(lo) /\ lo <= hi
  BY <1>2, BoundsAre DEF Bounds
<1>4. Bounds(low, top)
  BY <1>1, <1>3, LowIsCoef, Zenon
<1>5. low \in Int /\ top \in Int /\ low <= lo /\ hi <= top
  <2>1. m \in 0 .. 16
    BY <1>1
  <2>2. low \in Int /\ Two(m) \in Int /\ low <= lo
    BY <1>3, <2>1, LowAround, Zenon
  <2>3. hi <= Low(hi, m) + Two(m) - 1
    BY <1>3, <2>1, LowAround, Zenon
  <2>4. Low(hi, m) = Low(lo, m)
    BY <1>1, Zenon DEF Low
  <2>5. QED
    BY <2>2, <2>3, <2>4
<1>6. r = TruncatedRange(a, low, top)
  BY <1>1
<1> HIDE DEF low, top, lo, hi, r
<1>7. \A k \in 1 .. n : low <= a[k] /\ a[k] <= top
  <2>1. SUFFICES ASSUME NEW k \in 1 .. n PROVE low <= a[k] /\ a[k] <= top
    OBVIOUS
  <2>2. a[k] \in lo .. hi
    BY <1>2
  <2>3. QED
    BY <1>3, <1>5, <2>2
<1>8. Within(a, low, top)
  BY <1>7, WithinIs
<1>9. RangeFor(r, n) /\ r.array = a /\ r.min = low /\ r.max = top
  BY <1>4, <1>6, <1>8, TruncatedRangeFits
<1>10. QED
  BY <1>1, <1>9, Zenon DEF low, top, lo, hi, r

LEMMA BitmaskIsPower ==
  ASSUME NEW a, ObservedMin(a) < 0, ObservedMax(a) >= 0
  PROVE  minmax_bitmask(a, 0, 10) = minmax_poweroftwo(a, 0, 11)
<1>1. minmax_bitmask(a, 0, 10) = minmax_poweroftwo(a, 0, 10 + 1)
  BY Zenon DEF minmax_bitmask
<1>2. 10 + 1 = 11
  OBVIOUS
<1>3. QED
  BY <1>1, <1>2, Zenon

LEMMA BitmaskFits ==
  ASSUME NEW n \in Nat \ {0}, NEW a \in [1 .. n -> Coefs]
  PROVE  RangeFor(minmax_bitmask(a, 0, 10), n)
<1> DEFINE lo == ObservedMin(a)
           hi == ObservedMax(a)
<1>1. CASE lo < 0 /\ hi >= 0
  <2>1. 11 \in 0 .. 11
    OBVIOUS
  <2>2. RangeFor(minmax_poweroftwo(a, 0, 11), n)
    BY <2>1, PowerFits, Zenon
  <2>3. minmax_bitmask(a, 0, 10) = minmax_poweroftwo(a, 0, 11)
    BY <1>1, BitmaskIsPower, Zenon
  <2>4. QED
    BY <2>2, <2>3, Zenon
<1>2. CASE ~(lo < 0 /\ hi >= 0)
  BY <1>2, MaskFits, Zenon
<1>3. QED
  BY <1>1, <1>2

(* The range of a block within the range of another lies within it.        *)
LEMMA BitmaskNests ==
  ASSUME NEW n \in Nat \ {0}, NEW a \in [1 .. n -> Coefs], NEW s \in [1 .. n -> Coefs],
         Within(s, minmax_bitmask(a, 0, 10).min, minmax_bitmask(a, 0, 10).max)
  PROVE  Nested(minmax_bitmask(s, 0, 10), minmax_bitmask(a, 0, 10), s)
<1> DEFINE r == minmax_bitmask(a, 0, 10)
           q == minmax_bitmask(s, 0, 10)
           lo == ObservedMin(a)
           hi == ObservedMax(a)
           lo2 == ObservedMin(s)
           hi2 == ObservedMax(s)
<1>1. Bounds(lo2, hi2) /\ (\E k \in 1 .. n : lo2 = s[k]) /\ (\E k \in 1 .. n : hi2 = s[k])
  BY Observed, Zenon
<1>2. r.min <= lo2 /\ lo2 <= r.max /\ r.min <= hi2 /\ hi2 <= r.max
  <2>1. DOMAIN s = 1 .. n
    OBVIOUS
  <2>2. \A k \in 1 .. n : r.min <= s[k] /\ s[k] <= r.max
    <3> DEFINE x == r.min
               y == r.max
    <3>1. Within(s, x, y)
      OBVIOUS
    <3> HIDE DEF x, y
    <3>2. \A k \in 1 .. n : x <= s[k] /\ s[k] <= y
      BY <2>1, <3>1, WithinIs
    <3>3. QED
      BY <3>2 DEF x, y
  <2>3. QED
    BY <1>1, <2>2, Zenon
<1>3. lo2 \in Int /\ hi2 \in Int /\ IsCoef(lo2) /\ IsCoef(hi2) /\ lo2 <= hi2
  BY <1>1, BoundsAre DEF Bounds
<1>4. Bounds(lo, hi)
  BY Observed, Zenon
<1>5. lo \in Int /\ hi \in Int /\ IsCoef(lo) /\ lo <= hi
  BY <1>4, BoundsAre DEF Bounds
<1>6. CASE lo < 0 /\ hi >= 0
  <2>1. r = minmax_poweroftwo(a, 0, 11)
    BY <1>6, BitmaskIsPower, Zenon
  <2>2. PICK c \in 0 .. 11 : r.min = SignedMin(c) /\ r.max = SignedMax(c)
    <3>1. 11 \in 0 .. 11
      OBVIOUS
    <3>2. \E c \in 0 .. 11 : /\ minmax_poweroftwo(a, 0, 11).min = SignedMin(c)
                           /\ minmax_poweroftwo(a, 0, 11).max = SignedMax(c)
      BY <3>1, PowerFits, Zenon
    <3> HIDE DEF r
    <3>3. QED
      BY <2>1, <3>2
  <2>3. CASE lo2 < 0 /\ hi2 >= 0
    <3>1. q = minmax_poweroftwo(s, 0, 11) /\ Within(s, SignedMin(c), SignedMax(c))
      BY <2>2, <2>3, BitmaskIsPower, Zenon
    <3>2. 11 \in 0 .. 11
      OBVIOUS
    <3> DEFINE p == minmax_poweroftwo(s, 0, 11)
    <3>4. p.array = s /\ SignedMin(c) <= p.min /\ p.max <= SignedMax(c)
      BY <2>2, <3>1, <3>2, PowerNests, Zenon
    <3>3. q.array = s /\ SignedMin(c) <= q.min /\ q.max <= SignedMax(c)
      <4> HIDE DEF q, p
      <4>1. QED
        BY <3>1, <3>4 DEF p
    <3>5. QED
      BY <2>2, <3>3, Zenon DEF Nested
  <2>4. CASE ~(lo2 < 0 /\ hi2 >= 0)
    <3>1. PICK m \in 0 .. 10 :
            /\ q.array = s
            /\ q.min = Low(lo2, m) /\ q.max = Low(lo2, m) + Two(m) - 1
            /\ \A j \in 0 .. 10 : lo2 \div Two(j) = hi2 \div Two(j) => m <= j
      BY <2>4, MaskFits, Zenon
    <3> HIDE DEF q, r
    <3>2. CASE c = 0
      <4>1. SignedMin(c) = 0 /\ SignedMax(c) = 0
        BY <3>2 DEF SignedMin, SignedMax
      <4>2. lo2 = 0 /\ hi2 = 0
        <5> HIDE DEF lo2, hi2
        <5>1. QED
          BY <1>2, <1>3, <2>2, <4>1
      <4>3. 0 \in 0 .. 10
        OBVIOUS
      <4>4. m <= 0
        BY <3>1, <4>2, <4>3, Zenon
      <4>5. m = 0 /\ Two(0) = 1
        <5>1. m \in 0 .. 10
          BY <3>1
        <5>2. m = 0
          BY <4>4, <5>1
        <5>3. QED
          BY <5>2, Powers
      <4>6. Low(lo2, m) = 0
        <5>1. Low(lo2, m) = (0 \div Two(0)) * Two(0)
          BY <4>2, <4>5, Zenon DEF Low
        <5>2. QED
          BY <4>5, <5>1
      <4>7. Low(lo2, m) + Two(m) - 1 = 0
        BY <4>5, <4>6
      <4>8. QED
        BY <2>2, <3>1, <4>1, <4>6, <4>7 DEF Nested, q, r
    <3>3. CASE c # 0
      <4> DEFINE p == c - 1
                 x == SignedMin(c)
                 y == SignedMax(c)
      <4>1. p \in 0 .. 10 /\ p \in 0 .. 15
        BY <2>2, <3>3
      <4>2. x = -Two(p) /\ y = Two(p) - 1
        BY <3>3, Zenon DEF SignedMin, SignedMax, Two
      <4>3. Two(p) \in Nat \ {0}
        BY <4>1, Doubling, Zenon
      <4> HIDE DEF p, x, y
      <4>4. Fits(lo2, p) /\ Fits(hi2, p)
        <5>1. x <= lo2 /\ lo2 <= y /\ x <= hi2 /\ hi2 <= y
          BY <1>2, <2>2 DEF x, y
        <5> HIDE DEF lo2, hi2
        <5>2. QED
          BY <1>3, <4>2, <4>3, <5>1 DEF Fits
      <4>5. SameSign(lo2, hi2)
        <5> HIDE DEF lo2, hi2
        <5>1. QED
          BY <1>3, <2>4 DEF SameSign
      <4>6. lo2 \div Two(p) = hi2 \div Two(p)
        BY <1>3, <4>1, <4>4, <4>5, SameSignHigh, Zenon
      <4>7. m <= p
        BY <3>1, <4>1, <4>6, Zenon
      <4>8. m \in 0 .. p /\ m \in 0 .. 16
        BY <3>1, <4>1, <4>7
      <4> DEFINE l == Low(lo2, m)
                 e == Two(m)
      <4>9. /\ lo2 >= 0 => 0 <= l /\ l + e <= Two(p)
            /\ lo2 < 0 => -Two(p) <= l /\ l + e <= 0
        BY <1>3, <4>1, <4>4, <4>8, LowOfFitting, Zenon
      <4>10. l \in Int /\ e \in Int
        BY <1>3, <4>8, LowAround, Zenon
      <4>11. q.min = l /\ q.max = l + e - 1 /\ r.min = x /\ r.max = y
        BY <2>2, <3>1 DEF x, y
      <4> HIDE DEF l, e, lo2, hi2
      <4>12. x <= l /\ l + e - 1 <= y
        BY <1>3, <4>2, <4>3, <4>9, <4>10
      <4>13. QED
        BY <3>1, <4>11, <4>12, Zenon DEF Nested, q, r
    <3>4. QED
      BY <3>2, <3>3
  <2>5. QED
    BY <2>3, <2>4
<1>7. CASE ~(lo < 0 /\ hi >= 0)
  <2>1. PICK m \in 0 .. 10 : r.min = Low(lo, m) /\ r.max = Low(lo, m) + Two(m) - 1
    BY <1>7, MaskFits, Zenon
  <2> DEFINE l == Low(lo, m)
             e == Two(m)
             x == lo \div Two(m)
  <2>2. m \in 0 .. 16 /\ m \in 0 .. 15 /\ 10 \in 0 .. 15 /\ Fits(lo, 10)
    BY <1>5, <2>1 DEF IsCoef
  <2>3. l \in Int /\ e \in Nat \ {0}
    BY <1>5, <2>2, LowAround, Doubling, Zenon
  <2>4. l = x * e /\ x \in Int
    <3>1. x \in Int
      BY <1>5, <2>3, Division, Zenon
    <3>2. QED
      BY <3>1 DEF Low
  <2>5. (lo >= 0 => 0 <= l) /\ (lo < 0 => l + e <= 0)
    BY <1>5, <2>1, <2>2, LowOfFitting, Zenon
  <2>6. r.min = l /\ r.max = l + e - 1
    BY <2>1
  <2> HIDE DEF l, e, x, lo, hi, lo2, hi2, q, r
  <2>7. ~(lo2 < 0 /\ hi2 >= 0)
    BY <1>2, <1>3, <1>5, <2>3, <2>5, <2>6
  <2>8. ASSUME NEW v \in Int, l <= v, v <= l + e - 1 PROVE v \div e = x
    <3>1. v = e * x + (v - l) /\ v - l \in 0 .. e - 1
      BY <2>3, <2>4, <2>8
    <3>2. QED
      BY <2>3, <2>4, <3>1, DivisionUnique
  <2>9. lo2 \div e = x /\ hi2 \div e = x
    BY <1>2, <1>3, <2>6, <2>8
  <2>10. PICK m2 \in 0 .. 10 :
            /\ q.array = s
            /\ q.min = Low(lo2, m2) /\ q.max = Low(lo2, m2) + Two(m2) - 1
            /\ \A j \in 0 .. 10 : lo2 \div Two(j) = hi2 \div Two(j) => m2 <= j
    BY <2>7, MaskFits, Zenon DEF lo2, hi2, q
  <2>11. m2 <= m
    BY <2>1, <2>9, <2>10, Zenon DEF e
  <2>12. m2 \in 0 .. m /\ m2 \in 0 .. 16
    BY <2>1, <2>10, <2>11
  <2> DEFINE l2 == Low(lo2, m2)
             e2 == Two(m2)
  <2>13. l2 \in Int /\ e2 \in Int
    BY <1>3, <2>12, LowAround, Zenon
  <2>14. Low(lo2, m) = l
    BY <2>4, <2>9 DEF Low, e
  <2>15. l <= l2 /\ l2 + e2 <= l + e
    <3>1. Low(lo2, m) <= l2 /\ l2 + e2 <= Low(lo2, m) + Two(m)
      BY <1>3, <2>2, <2>12, LowNests, Zenon
    <3>2. QED
      BY <2>14, <3>1 DEF e
  <2>16. q.min = l2 /\ q.max = l2 + e2 - 1 /\ q.array = s
    BY <2>10
  <2> HIDE DEF l2, e2
  <2>17. l2 + e2 - 1 <= l + e - 1
    BY <2>3, <2>13, <2>15
  <2>18. QED
    BY <2>6, <2>15, <2>16, <2>17, Zenon DEF Nested, q, r
<1>8. QED
  BY <1>6, <1>7

-----------------------------------------------------------------------------
(* drpe.c on a block whose coefficients are from lo to hi.                 *)
DrpeOf(v, k, lo, hi) ==
  IF NumBits(lo, hi) = 0 THEN v ELSE Drped(v, k, NumBits(lo, hi), SignBitPosition(lo, hi))

LEMMA DrpeAllIs ==
  ASSUME NEW a, NEW key, NEW lo, NEW hi
  PROVE  drpe_all(a, key, lo, hi) = [k \in DOMAIN a |-> DrpeOf(a[k], key[k], lo, hi)]
BY Zenon DEF drpe_all, DrpeOf, Drped, Masked

LEMMA DrpeOfSpreads ==
  ASSUME NEW lo, NEW hi, Bounds(lo, hi), NEW v \in lo .. hi, NEW k \in Int
  PROVE  /\ DrpeOf(v, k, lo, hi) \in Int /\ Spread(lo, hi, DrpeOf(v, k, lo, hi))
         /\ lo # hi => Fits(DrpeOf(v, k, lo, hi), SignBitPosition(lo, hi))
<1>1. NumBits(lo, hi) = 0 <=> lo = hi
  BY DrpeParameters, Zenon
<1>2. CASE lo = hi
  <2>1. DrpeOf(v, k, lo, hi) = v
    BY <1>1, <1>2, Zenon DEF DrpeOf
  <2>2. v \in Int /\ Spread(lo, hi, v)
    BY SpreadOfItself, Zenon
  <2>3. QED
    BY <1>2, <2>1, <2>2, Zenon
<1>3. CASE lo # hi
  <2>1. DrpeOf(v, k, lo, hi) = Drped(v, k, NumBits(lo, hi), SignBitPosition(lo, hi))
    BY <1>1, <1>3, Zenon DEF DrpeOf
  <2>2. QED
    BY <1>3, <2>1, SpreadOfDrped, Zenon
<1>4. QED
  BY <1>2, <1>3

(* Both functions of drpe.c make such numbers, or leave a coefficient.     *)
DrpeMakes(s, a, key, n, lo, hi) ==
  /\ DOMAIN s = 1 .. n
  /\ \A k \in 1 .. n : s[k] = a[k] \/ s[k] = DrpeOf(a[k], key[k], lo, hi)

LEMMA DrpeSpreads ==
  ASSUME NEW n \in Nat \ {0}, NEW a \in [1 .. n -> Coefs], NEW key \in [1 .. n -> Int],
         NEW lo, NEW hi, Bounds(lo, hi), \A k \in 1 .. n : a[k] \in lo .. hi,
         NEW s \in [1 .. n -> Int], DrpeMakes(s, a, key, n, lo, hi)
  PROVE  /\ s \in [1 .. n -> Coefs]
         /\ \A k \in 1 .. n : /\ Spread(lo, hi, s[k])
                              /\ lo # hi => Fits(s[k], SignBitPosition(lo, hi))
<1>1. ASSUME NEW k \in 1 .. n
      PROVE  /\ s[k] \in Coefs
             /\ Spread(lo, hi, s[k]) /\ (lo # hi => Fits(s[k], SignBitPosition(lo, hi)))
  <2>1. a[k] \in lo .. hi /\ key[k] \in Int
    OBVIOUS
  <2>2. CASE s[k] = a[k]
    <3>1. /\ a[k] \in Int /\ Spread(lo, hi, a[k])
          /\ (lo # hi => Fits(a[k], SignBitPosition(lo, hi)))
      BY <2>1, SpreadOfItself, Zenon
    <3>2. IsCoef(a[k])
      BY <3>1, Zenon DEF Spread
    <3>3. QED
      BY <2>2, <3>1, <3>2, Zenon DEF Coefs
  <2>3. CASE s[k] = DrpeOf(a[k], key[k], lo, hi)
    <3> DEFINE w == DrpeOf(a[k], key[k], lo, hi)
    <3>1. /\ w \in Int /\ Spread(lo, hi, w)
          /\ (lo # hi => Fits(w, SignBitPosition(lo, hi)))
      BY <2>1, DrpeOfSpreads, Zenon
    <3>2. IsCoef(w)
      BY <3>1, Zenon DEF Spread
    <3> HIDE DEF w
    <3>3. s[k] = w
      BY <2>3 DEF w
    <3>4. QED
      BY <3>1, <3>2, <3>3, Zenon DEF Coefs
  <2>4. QED
    BY <2>2, <2>3, Zenon DEF DrpeMakes
<1>2. QED
  BY <1>1

LEMMA DrpeFunctions ==
  ASSUME NEW n \in Nat \ {0}, NEW a \in [1 .. n -> Coefs], NEW key \in [1 .. n -> Int],
         NEW lo, NEW hi, Bounds(lo, hi), \A k \in 1 .. n : a[k] \in lo .. hi
  PROVE  /\ drpe_all(a, key, lo, hi) \in [1 .. n -> Int]
         /\ DrpeMakes(drpe_all(a, key, lo, hi), a, key, n, lo, hi)
         /\ drpe_nonzero(a, key, lo, hi) \in [1 .. n -> Int]
         /\ DrpeMakes(drpe_nonzero(a, key, lo, hi), a, key, n, lo, hi)
<1> DEFINE f(k) == DrpeOf(a[k], key[k], lo, hi)
           s == drpe_all(a, key, lo, hi)
           t == drpe_nonzero(a, key, lo, hi)
<1>1. s = [k \in 1 .. n |-> f(k)]
  <2>1. DOMAIN a = 1 .. n
    OBVIOUS
  <2>2. QED
    BY <2>1, DrpeAllIs, Zenon
<1>2. \A k \in 1 .. n : f(k) \in Int /\ a[k] \in Int
  <2>1. SUFFICES ASSUME NEW k \in 1 .. n PROVE f(k) \in Int /\ a[k] \in Int
    OBVIOUS
  <2>2. a[k] \in lo .. hi /\ key[k] \in Int /\ a[k] \in Coefs
    OBVIOUS
  <2>3. a[k] \in Int
    BY <2>2, CoefsAre
  <2>4. QED
    BY <2>2, <2>3, DrpeOfSpreads, Zenon
<1>3. t = [k \in 1 .. n |-> IF a[k] # 0 /\ s[k] # 0 THEN s[k] ELSE a[k]]
  BY DEF drpe_nonzero
<1> HIDE DEF f, s, t
<1>4. s \in [1 .. n -> Int] /\ \A k \in 1 .. n : s[k] = f(k)
  BY <1>1, <1>2
<1>5. t \in [1 .. n -> Int] /\ \A k \in 1 .. n : t[k] = s[k] \/ t[k] = a[k]
  BY <1>2, <1>3, <1>4
<1>6. /\ DOMAIN s = 1 .. n /\ \A k \in 1 .. n : s[k] = a[k] \/ s[k] = f(k)
      /\ DOMAIN t = 1 .. n /\ \A k \in 1 .. n : t[k] = a[k] \/ t[k] = f(k)
  BY <1>4, <1>5
<1>7. QED
  BY <1>4, <1>5, <1>6, Zenon DEF DrpeMakes, f, s, t

(* No more bits vary in the result than in the block.                      *)
LEMMA DrpeNests ==
  ASSUME NEW n \in Nat \ {0}, NEW lo, NEW hi, Bounds(lo, hi), NEW s \in [1 .. n -> Coefs],
         \A k \in 1 .. n : Spread(lo, hi, s[k])
  PROVE  /\ Bounds(ObservedMin(s), ObservedMax(s))
         /\ Spread(lo, hi, ObservedMin(s)) /\ Spread(lo, hi, ObservedMax(s))
         /\ NumBits(ObservedMin(s), ObservedMax(s)) <= NumBits(lo, hi)
<1>1. /\ Bounds(ObservedMin(s), ObservedMax(s))
      /\ (\E k \in 1 .. n : ObservedMin(s) = s[k]) /\ (\E k \in 1 .. n : ObservedMax(s) = s[k])
  BY Observed, Zenon
<1>2. Spread(lo, hi, ObservedMin(s)) /\ Spread(lo, hi, ObservedMax(s))
  BY <1>1, Zenon
<1>3. NumBits(ObservedMin(s), ObservedMax(s)) <= NumBits(lo, hi)
  BY <1>1, <1>2, SpreadShrinks, Zenon
<1>4. QED
  BY <1>1, <1>2, <1>3, Zenon

(* If as many vary, drpe undoes itself, one coefficient at a time.         *)
SameBits(lo2, hi2, lo, hi) ==
  /\ Bounds(lo2, hi2) /\ Spread(lo, hi, lo2) /\ Spread(lo, hi, hi2)
  /\ NumBits(lo2, hi2) = NumBits(lo, hi)

LEMMA DrpeOfBack ==
  ASSUME NEW lo, NEW hi, Bounds(lo, hi), NEW lo2, NEW hi2, SameBits(lo2, hi2, lo, hi),
         NEW w \in lo2 .. hi2, lo # hi => Fits(w, SignBitPosition(lo, hi)), NEW key \in Int
  PROVE  DrpeOf(w, key, lo2, hi2) = DrpeOf(w, key, lo, hi)
<1>1. /\ Bounds(lo2, hi2) /\ Spread(lo, hi, lo2) /\ Spread(lo, hi, hi2)
      /\ NumBits(lo2, hi2) = NumBits(lo, hi)
  BY DEF SameBits
<1>2. NumBits(lo, hi) = 0 <=> lo = hi
  BY DrpeParameters, Zenon
<1>3. CASE lo = hi
  <2>1. NumBits(lo, hi) = 0 /\ NumBits(lo2, hi2) = 0
    BY <1>1, <1>2, <1>3, Zenon
  <2>2. DrpeOf(w, key, lo2, hi2) = w /\ DrpeOf(w, key, lo, hi) = w
    BY <2>1, Zenon DEF DrpeOf
  <2>3. QED
    BY <2>2, Zenon
<1>4. CASE lo # hi
  <2>1. NumBits(lo, hi) # 0 /\ NumBits(lo2, hi2) # 0 /\ Fits(w, SignBitPosition(lo, hi))
    BY <1>1, <1>2, <1>4, Zenon
  <2>2. Drped(w, key, NumBits(lo2, hi2), SignBitPosition(lo2, hi2))
          = Drped(w, key, NumBits(lo, hi), SignBitPosition(lo, hi))
    BY <1>1, <1>4, <2>1, SameCipher
  <2>3. QED
    BY <2>1, <2>2, Zenon DEF DrpeOf
<1>5. QED
  BY <1>3, <1>4

LEMMA DrpeOfTwice ==
  ASSUME NEW lo, NEW hi, Bounds(lo, hi), NEW v \in lo .. hi, NEW key \in Int
  PROVE  DrpeOf(DrpeOf(v, key, lo, hi), key, lo, hi) = v
<1> DEFINE b == NumBits(lo, hi)
           p == SignBitPosition(lo, hi)
<1>1. (b = 0 <=> lo = hi) /\ b \in 0 .. 11 /\ p \in 0 .. 10
  BY DrpeParameters, Zenon
<1>2. v \in Int /\ (lo # hi => Fits(v, p))
  BY SpreadOfItself, Zenon
<1> HIDE DEF b, p
<1>3. b \in 0 .. 16 /\ p \in 0 .. 15
  BY <1>1
<1>4. CASE b = 0
  BY <1>4, Zenon DEF DrpeOf, b
<1>5. CASE b # 0
  <2>1. Drped(Drped(v, key, b, p), key, b, p) = v
    BY <1>1, <1>2, <1>3, <1>5, DrpedTwice, Zenon
  <2>2. QED
    BY <1>5, <2>1, Zenon DEF DrpeOf, b, p
<1>6. QED
  BY <1>4, <1>5

DrpeUndone(s, a, key, lo, hi) ==
  /\ s = drpe_all(a, key, lo, hi)
       => drpe_all(s, key, ObservedMin(s), ObservedMax(s)) = a
  /\ s = drpe_nonzero(a, key, lo, hi)
       => drpe_nonzero(s, key, ObservedMin(s), ObservedMax(s)) = a

LEMMA DrpeBack ==
  ASSUME NEW n \in Nat \ {0}, NEW a \in [1 .. n -> Coefs], NEW key \in [1 .. n -> Int],
         NEW lo, NEW hi, Bounds(lo, hi), \A k \in 1 .. n : a[k] \in lo .. hi,
         NEW s \in [1 .. n -> Int], DrpeMakes(s, a, key, n, lo, hi),
         NumBits(ObservedMin(s), ObservedMax(s)) = NumBits(lo, hi)
  PROVE  DrpeUndone(s, a, key, lo, hi)
<1> SUFFICES /\ s = drpe_all(a, key, lo, hi)
                  => drpe_all(s, key, ObservedMin(s), ObservedMax(s)) = a
             /\ s = drpe_nonzero(a, key, lo, hi)
                  => drpe_nonzero(s, key, ObservedMin(s), ObservedMax(s)) = a
  BY DEF DrpeUndone
<1> DEFINE f(k) == DrpeOf(a[k], key[k], lo, hi)
           g(k) == DrpeOf(s[k], key[k], lo, hi)
           e == drpe_all(a, key, lo, hi)
           d == drpe_all(s, key, ObservedMin(s), ObservedMax(s))
<1>2. /\ s \in [1 .. n -> Coefs]
      /\ \A k \in 1 .. n : /\ Spread(lo, hi, s[k])
                           /\ lo # hi => Fits(s[k], SignBitPosition(lo, hi))
  BY DrpeSpreads, Zenon
<1>3. e = [k \in 1 .. n |-> f(k)]
  BY DrpeAllIs
<1>4. d = [k \in 1 .. n |-> DrpeOf(s[k], key[k], ObservedMin(s), ObservedMax(s))]
  BY DrpeAllIs
<1>5. \A k \in 1 .. n : DrpeOf(s[k], key[k], ObservedMin(s), ObservedMax(s)) = g(k)
  <2> DEFINE lo2 == ObservedMin(s)
             hi2 == ObservedMax(s)
  <2>1. SameBits(lo2, hi2, lo, hi)
    BY <1>2, DrpeNests, Zenon DEF SameBits
  <2>2. \A k \in 1 .. n : /\ s[k] \in lo2 .. hi2 /\ key[k] \in Int
                          /\ lo # hi => Fits(s[k], SignBitPosition(lo, hi))
    BY <1>2, Observed, Zenon
  <2> HIDE DEF lo2, hi2
  <2>3. ASSUME NEW k \in 1 .. n
        PROVE  DrpeOf(s[k], key[k], lo2, hi2) = DrpeOf(s[k], key[k], lo, hi)
    <3> DEFINE w == s[k]
               i == key[k]
    <3>1. w \in lo2 .. hi2 /\ i \in Int /\ (lo # hi => Fits(w, SignBitPosition(lo, hi)))
      BY <2>2, <2>3
    <3> HIDE DEF w, i
    <3>2. DrpeOf(w, i, lo2, hi2) = DrpeOf(w, i, lo, hi)
      BY <2>1, <3>1, DrpeOfBack
    <3>3. QED
      BY <3>2 DEF w, i
  <2>4. QED
    BY <2>3, Zenon DEF lo2, hi2
<1>6. \A k \in 1 .. n : d[k] = g(k)
  BY <1>4, <1>5, Zenon
<1>7. \A k \in 1 .. n : DrpeOf(f(k), key[k], lo, hi) = a[k]
  BY DrpeOfTwice
<1>8. \A k \in 1 .. n : (s[k] = f(k) => g(k) = a[k]) /\ (s[k] = a[k] => g(k) = f(k))
  BY <1>7, Zenon
<1> HIDE DEF f, g, e, d
<1>9. \A k \in 1 .. n : e[k] = f(k)
  BY <1>3, Zenon
<1>10. DOMAIN d = 1 .. n /\ DOMAIN a = 1 .. n /\ DOMAIN s = 1 .. n
  BY <1>4
<1>11. ASSUME s = e PROVE d = a
  <2>1. \A k \in 1 .. n : d[k] = a[k]
    BY <1>6, <1>8, <1>9, <1>11, Zenon
  <2>2. d = [k \in 1 .. n |-> d[k]] /\ a = [k \in 1 .. n |-> a[k]]
    BY <1>4
  <2>3. QED
    BY <2>1, <2>2
<1>12. ASSUME s = drpe_nonzero(a, key, lo, hi)
       PROVE  drpe_nonzero(s, key, ObservedMin(s), ObservedMax(s)) = a
  <2> DEFINE t == drpe_nonzero(s, key, ObservedMin(s), ObservedMax(s))
  <2>1. \A k \in 1 .. n : s[k] = IF a[k] # 0 /\ e[k] # 0 THEN e[k] ELSE a[k]
    BY <1>12 DEF drpe_nonzero, e
  <2>2. t = [k \in 1 .. n |-> IF s[k] # 0 /\ d[k] # 0 THEN d[k] ELSE s[k]]
    BY <1>10, Zenon DEF drpe_nonzero, d
  <2> HIDE DEF t
  <2>3. \A k \in 1 .. n : t[k] = IF s[k] # 0 /\ d[k] # 0 THEN d[k] ELSE s[k]
    BY <2>2
  <2>4. \A k \in 1 .. n : t[k] = a[k]
    BY <1>6, <1>8, <1>9, <2>1, <2>3
  <2>5. t = a
    BY <2>2, <2>4
  <2>6. QED
    BY <2>5 DEF t
<1>13. QED
  BY <1>11, <1>12 DEF e, d

-----------------------------------------------------------------------------
(* fpe.c: what is not left alone is in the range afterwards.               *)
LEMMA FpeElements ==
  ASSUME NEW n \in Nat \ {0}, NEW a \in [1 .. n -> Coefs], NEW key \in [1 .. n -> Int],
         NEW lo, NEW hi, Bounds(lo, hi)
  PROVE  LET s == fpe_encrypt_nonzero(a, key, lo, hi)
             t == fpe_decrypt_nonzero(a, key, lo, hi)
         IN  /\ DOMAIN s = 1 .. n /\ \A k \in 1 .. n : s[k] = a[k] \/ s[k] \in lo .. hi
             /\ DOMAIN t = 1 .. n /\ \A k \in 1 .. n : t[k] = a[k] \/ t[k] \in lo .. hi
<1> DEFINE r == RangeSize(lo, hi)
           s == fpe_encrypt_nonzero(a, key, lo, hi)
           t == fpe_decrypt_nonzero(a, key, lo, hi)
           e(k) == Shifted(a[k], key[k] % r, lo, hi)
           d(k) == Shifted(a[k], r - (key[k] % r), lo, hi)
<1>1. r = RangeSize(lo, hi) /\ lo \in lo .. hi /\ lo \in Int /\ hi \in Int /\ lo <= hi
  BY BoundsAre
<1>2. s = [k \in 1 .. n |-> IF a[k] # 0 /\ e(k) # 0 THEN e(k) ELSE a[k]]
  BY DEF fpe_encrypt_nonzero, fpe_encrypt_all
<1>3. t = [k \in 1 .. n |-> IF a[k] = 0 /\ r > 1 THEN 0 ELSE IF r = 1 THEN lo ELSE d(k)]
  BY DEF fpe_decrypt_nonzero, fpe_decrypt_all
<1> HIDE DEF r
<1>4. r \in Nat \ {0}
  BY <1>1 DEF RangeSize
<1>5. ASSUME NEW k \in 1 .. n PROVE e(k) \in lo .. hi /\ d(k) \in lo .. hi
  <2> DEFINE v == a[k]
             i == key[k]
             j == i % r
  <2>1. v \in Int /\ i \in Int
    BY CoefsAre
  <2> HIDE DEF v, i
  <2>2. j \in 0 .. r - 1
    BY <1>4, <2>1, Division, Zenon
  <2> HIDE DEF j
  <2>3. j \in Int /\ r - j \in Int
    BY <1>4, <2>2
  <2>4. Shifted(v, j, lo, hi) \in lo .. hi /\ Shifted(v, r - j, lo, hi) \in lo .. hi
    BY <1>1, <2>1, <2>3, ShiftedIsSum, SMTT(40)
  <2>5. QED
    BY <2>4 DEF v, i, j
<1> HIDE DEF e, d, s, t
<1>6. DOMAIN s = 1 .. n /\ \A k \in 1 .. n : s[k] = a[k] \/ s[k] = e(k)
  BY <1>2
<1>7. DOMAIN t = 1 .. n /\ \A k \in 1 .. n : t[k] = a[k] \/ t[k] = lo \/ t[k] = d(k)
  BY <1>3
<1>8. /\ DOMAIN s = 1 .. n /\ \A k \in 1 .. n : s[k] = a[k] \/ s[k] \in lo .. hi
      /\ DOMAIN t = 1 .. n /\ \A k \in 1 .. n : t[k] = a[k] \/ t[k] \in lo .. hi
  BY <1>1, <1>5, <1>6, <1>7, Zenon
<1>9. QED
  BY <1>8 DEF s, t

LEMMA FpeIsCoef ==
  ASSUME NEW n \in Nat \ {0}, NEW a \in [1 .. n -> Coefs], NEW lo, NEW hi, Bounds(lo, hi),
         NEW s, DOMAIN s = 1 .. n, s = [k \in DOMAIN s |-> s[k]],
         \A k \in 1 .. n : s[k] = a[k] \/ s[k] \in lo .. hi
  PROVE  s \in [1 .. n -> Coefs] /\ (Within(a, lo, hi) => Within(s, lo, hi))
<1>1. lo \in Int /\ hi \in Int /\ IsCoef(lo) /\ IsCoef(hi)
  BY BoundsAre DEF Bounds
<1>2. \A k \in 1 .. n : s[k] \in Coefs
  <2>1. SUFFICES ASSUME NEW k \in 1 .. n, s[k] \in lo .. hi PROVE s[k] \in Coefs
    OBVIOUS
  <2> DEFINE v == s[k]
  <2>2. v \in Int /\ lo <= v /\ v <= hi
    BY <1>1, <2>1
  <2> HIDE DEF v
  <2>3. v \in Coefs
    BY <1>1, <2>2, CoefBetween DEF Coefs
  <2>4. QED
    BY <2>3 DEF v
<1>3. s \in [1 .. n -> Coefs]
  BY <1>2
<1>4. ASSUME Within(a, lo, hi) PROVE Within(s, lo, hi)
  <2>1. DOMAIN a = 1 .. n
    OBVIOUS
  <2>2. \A k \in 1 .. n : lo <= a[k] /\ a[k] <= hi
    BY <1>4, <2>1, WithinIs
  <2>3. \A k \in 1 .. n : lo <= s[k] /\ s[k] <= hi
    BY <1>1, <2>2
  <2>4. QED
    BY <2>3, WithinIs
<1>5. QED
  BY <1>3, <1>4

(* And fpe undoes itself, but for what encryption had to leave alone.      *)
FpeUndone(a, key, lo, hi, k) ==
  LET s == fpe_encrypt_nonzero(a, key, lo, hi)
  IN  \/ fpe_decrypt_nonzero(s, key, lo, hi)[k] = a[k]
      \/ a[k] # 0 /\ fpe_encrypt_all(a, key, lo, hi)[k] = 0

LEMMA FpeBack ==
  ASSUME NEW n \in Nat \ {0}, NEW a \in [1 .. n -> Coefs], NEW key \in [1 .. n -> Int],
         NEW lo, NEW hi, Bounds(lo, hi), Within(a, lo, hi) \/ (lo = 0 /\ hi = 0),
         NEW k \in 1 .. n
  PROVE  FpeUndone(a, key, lo, hi, k)
<1> SUFFICES LET s == fpe_encrypt_nonzero(a, key, lo, hi)
             IN  \/ fpe_decrypt_nonzero(s, key, lo, hi)[k] = a[k]
                 \/ a[k] # 0 /\ fpe_encrypt_all(a, key, lo, hi)[k] = 0
  BY DEF FpeUndone
<1> DEFINE r == RangeSize(lo, hi)
           s == fpe_encrypt_nonzero(a, key, lo, hi)
           t == fpe_decrypt_nonzero(s, key, lo, hi)
           v == a[k]
           w == s[k]
           j == key[k] % r
           e == Shifted(v, j, lo, hi)
           d == Shifted(w, r - j, lo, hi)
<1>1. r = RangeSize(lo, hi) /\ lo \in Int /\ hi \in Int /\ lo <= hi /\ v \in Int
  BY BoundsAre, CoefsAre
<1>2. w = (IF v # 0 /\ e # 0 THEN e ELSE v) /\ DOMAIN s = 1 .. n
  BY DEF fpe_encrypt_nonzero, fpe_encrypt_all
<1>3. fpe_encrypt_all(a, key, lo, hi)[k] = e
  BY DEF fpe_encrypt_all
<1>4. t[k] = IF w = 0 /\ r > 1 THEN 0 ELSE IF r = 1 THEN lo ELSE d
  BY <1>2, Zenon DEF fpe_decrypt_nonzero, fpe_decrypt_all
<1> HIDE DEF r
<1>5. r \in Nat \ {0} /\ r = hi - lo + 1
  BY <1>1 DEF RangeSize
<1>6. j \in 0 .. r - 1
  <2> DEFINE i == key[k]
  <2>1. i \in Int
    OBVIOUS
  <2> HIDE DEF i
  <2>2. i % r \in 0 .. r - 1
    BY <1>5, <2>1, Division, Zenon
  <2>3. QED
    BY <2>2 DEF i
<1> HIDE DEF j
<1>7. e \in lo .. hi
  <2>1. j \in Int
    BY <1>5, <1>6
  <2> HIDE DEF v
  <2>2. QED
    BY <1>1, <2>1, ShiftedIsSum
<1>8. Within(a, lo, hi) => v \in lo .. hi
  <2>1. DOMAIN a = 1 .. n
    OBVIOUS
  <2>2. QED
    BY <1>1, <2>1, WithinIs
<1>9. v \in lo .. hi /\ w = e => d = v
  <2>1. SUFFICES ASSUME v \in lo .. hi, w = e PROVE d = v
    OBVIOUS
  <2>2. Shifted(Shifted(v, j, lo, hi), r - j, lo, hi) = v
    <3> HIDE DEF v
    <3>1. QED
      BY <1>1, <1>6, <2>1, ShiftedBack, SMTT(40)
  <2>3. QED
    BY <2>1, <2>2
<1> HIDE DEF v, w, e, d, s, t
<1>10. CASE Within(a, lo, hi)
  <2>3. t[k] = v \/ (v # 0 /\ e = 0)
    <3>1. CASE r = 1
      BY <1>1, <1>4, <1>5, <1>8, <1>10, <3>1
    <3>2. CASE r # 1
      BY <1>2, <1>4, <1>5, <1>8, <1>9, <1>10, <3>2
    <3>3. QED
      BY <3>1, <3>2
  <2>4. QED
    BY <1>3, <2>3 DEF v, s, t
<1>11. CASE lo = 0 /\ hi = 0
  <2>1. r = 1 /\ e = 0
    BY <1>5, <1>7, <1>11
  <2>2. t[k] = 0
    BY <1>4, <1>11, <2>1
  <2>3. t[k] = v \/ (v # 0 /\ e = 0)
    BY <2>1, <2>2
  <2>4. QED
    BY <1>3, <2>3 DEF v, s, t
<1>12. QED
  BY <1>10, <1>11
=============================================================================
