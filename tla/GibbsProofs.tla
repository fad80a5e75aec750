---------------------------- MODULE GibbsProofs ----------------------------
(***************************************************************************)
(* Proofs about gibbs.c for every block length, every range, any number of *)
(* rounds, every keystream and every way to shuffle: no round meets an     *)
(* empty range or a failing assert, the sum is kept, and decryption gives  *)
(* the plaintext back.                                                     *)
(*                                                                         *)
(* The decrypting run has of a round only its result; that it arrives at   *)
(* the same budgets as the encrypting one, going the other way, and at the *)
(* last coefficient by way of the sum, is what the invariant is about.     *)
(***************************************************************************)
EXTENDS Gibbs, TLAPS

(* Induction and recursion over numbers are among the facts proved there.  *)
Facts == INSTANCE CoefTheorems

USE GibbsAssumption

Numbers == [Index -> Int]

(* Sums is what its definition says. *)
LEMMA SumsDef ==
  ASSUME NEW b \in Numbers
  PROVE  /\ Sums(b) \in [0..N -> Int]
         /\ Sums(b)[0] = 0
         /\ \A k \in 1..N : Sums(b)[k] = Sums(b)[k - 1] + b[k - 1]
<1> DEFINE Adds(f, n) == f[0] = 0 /\ \A k \in 1..n : f[k] = f[k - 1] + b[k - 1]
           G == {n \in Nat : n <= N => \E f \in [0..n -> Int] : Adds(f, n)}
<1>1. 0 \in G
  <2> DEFINE f == [k \in 0..0 |-> 0]
  <2>1. f \in [0..0 -> Int] /\ Adds(f, 0)
    OBVIOUS
  <2>2. QED
    BY <2>1
<1>2. ASSUME NEW n \in Nat, n \in G PROVE n + 1 \in G
  <2> SUFFICES ASSUME n + 1 <= N PROVE \E f \in [0..(n + 1) -> Int] : Adds(f, n + 1)
    OBVIOUS
  <2>1. PICK f \in [0..n -> Int] : Adds(f, n)
    BY <1>2
  <2>2. b[n] \in Int
    BY DEF Numbers, Index
  <2> DEFINE g == [k \in 0..(n + 1) |-> IF k = n + 1 THEN f[n] + b[n] ELSE f[k]]
  <2>3. g \in [0..(n + 1) -> Int]
    BY <2>2
  <2>4. Adds(g, n + 1)
    BY <2>1, <2>2
  <2>5. QED
    BY <2>3, <2>4
<1>3. PICK f \in [0..N -> Int] : Adds(f, N)
  <2>1. N \in G
    BY <1>1, <1>2, Facts!Induction
  <2>2. QED
    BY <2>1
<1>4. f = [k \in 0..N |-> IF k = 0 THEN 0 ELSE f[k - 1] + b[k - 1]]
  BY <1>3
<1>5. Sums(b) = [k \in 0..N |-> IF k = 0 THEN 0 ELSE Sums(b)[k - 1] + b[k - 1]]
  BY <1>4 DEF Sums
<1> DEFINE s == Sums(b)
<1> HIDE DEF s
<1>6. \A k \in 1..N : s[k] = s[k - 1] + b[k - 1]
  BY <1>5 DEF s
<1>7. s[0] = 0
  BY <1>5 DEF s
<1>8. s = [k \in 0..N |-> s[k]]
  BY <1>5 DEF s
<1> DEFINE H == {n \in Nat : n <= N => s[n] \in Int}
<1>9. 0 \in H
  BY <1>7
<1>10. ASSUME NEW n \in Nat, n \in H PROVE n + 1 \in H
  BY <1>6, <1>10 DEF Numbers, Index
<1>11. Nat \subseteq H
  BY <1>9, <1>10, Facts!Induction
<1>12. \A k \in 0..N : s[k] \in Int
  BY <1>11
<1>13. s \in [0..N -> Int]
  BY <1>8, <1>12
<1>14. QED
  BY <1>6, <1>7, <1>13 DEF s

(* Sums of blocks that agree up to some place agree up to it. *)
LEMMA SumsAgree ==
  ASSUME NEW b \in Numbers, NEW c \in Numbers, NEW m \in 0..N,
         \A k \in 0..(m - 1) : b[k] = c[k]
  PROVE  Sums(b)[m] = Sums(c)[m]
<1> DEFINE G == {n \in Nat : n <= m => Sums(b)[n] = Sums(c)[n]}
<1>1. 0 \in G
  BY SumsDef
<1>2. ASSUME NEW n \in Nat, n \in G PROVE n + 1 \in G
  <2> SUFFICES ASSUME n + 1 <= m PROVE Sums(b)[n + 1] = Sums(c)[n + 1]
    OBVIOUS
  <2>1. n + 1 \in 1..N /\ n + 1 - 1 = n /\ b[n] = c[n]
    OBVIOUS
  <2>2. Sums(b)[n] = Sums(c)[n]
    BY <1>2
  <2>3. Sums(b)[n + 1] = Sums(b)[n] + b[n] /\ Sums(c)[n + 1] = Sums(c)[n] + c[n]
    BY <2>1, SumsDef
  <2>4. QED
    BY <2>1, <2>2, <2>3
<1>3. Nat \subseteq G
  BY <1>1, <1>2, Facts!Induction
<1>4. QED
  BY <1>3

(* One new coefficient changes the later sums by its change. *)
LEMMA SumsUpdate ==
  ASSUME NEW b \in Numbers, NEW k \in Index, NEW v \in Int
  PROVE  \A n \in 0..N : Sums([b EXCEPT ![k] = v])[n] = Sums(b)[n] + IF n > k THEN v - b[k] ELSE 0
<1> DEFINE c == [b EXCEPT ![k] = v]
<1>0. c \in Numbers /\ c[k] = v /\ b[k] \in Int /\ \A m \in Index \ {k} : c[m] = b[m]
  BY DEF Numbers
<1> HIDE DEF c
<1> DEFINE G == {n \in Nat : n <= N => Sums(c)[n] = Sums(b)[n] + IF n > k THEN v - b[k] ELSE 0}
<1>1. 0 \in G
  BY <1>0, SumsDef DEF Index
<1>2. ASSUME NEW n \in Nat, n \in G PROVE n + 1 \in G
  <2> SUFFICES ASSUME n + 1 <= N
               PROVE  Sums(c)[n + 1] = Sums(b)[n + 1] + IF n + 1 > k THEN v - b[k] ELSE 0
    OBVIOUS
  <2>1. n + 1 \in 1..N /\ n + 1 - 1 = n /\ n \in Index
    BY DEF Index
  <2>2. Sums(c)[n] = Sums(b)[n] + IF n > k THEN v - b[k] ELSE 0
    BY <1>2
  <2>3. Sums(b)[n + 1] = Sums(b)[n] + b[n] /\ Sums(c)[n + 1] = Sums(c)[n] + c[n]
    BY <2>1, <1>0, SumsDef
  <2>4. b[n] \in Int /\ Sums(b)[n] \in Int
    BY <2>1, SumsDef DEF Numbers
  <2>5. QED
    BY <2>1, <2>2, <2>3, <2>4, <1>0 DEF Index
<1>3. Nat \subseteq G
  BY <1>1, <1>2, Facts!Induction
<1>4. \A n \in 0..N : Sums(c)[n] = Sums(b)[n] + IF n > k THEN v - b[k] ELSE 0
  BY <1>3
<1>5. QED
  BY <1>4 DEF c

(* Adding the same amount to every coefficient. *)
LEMMA SumsShift ==
  ASSUME NEW b \in Numbers, NEW d \in Int
  PROVE  Sums([k \in Index |-> b[k] + d])[N] = Sums(b)[N] + N * d
<1> DEFINE c == [k \in Index |-> b[k] + d]
<1>0. c \in Numbers /\ \A k \in Index : c[k] = b[k] + d
  BY DEF Numbers
<1> HIDE DEF c
<1> DEFINE G == {n \in Nat : n <= N => Sums(c)[n] = Sums(b)[n] + n * d}
<1>1. 0 \in G
  BY <1>0, SumsDef
<1>2. ASSUME NEW n \in Nat, n \in G PROVE n + 1 \in G
  <2> SUFFICES ASSUME n + 1 <= N PROVE  Sums(c)[n + 1] = Sums(b)[n + 1] + (n + 1) * d
    OBVIOUS
  <2>1. n + 1 \in 1..N /\ n + 1 - 1 = n /\ n \in Index
    BY DEF Index
  <2>2. Sums(c)[n] = Sums(b)[n] + n * d
    BY <1>2
  <2>3. Sums(b)[n + 1] = Sums(b)[n] + b[n] /\ Sums(c)[n + 1] = Sums(c)[n] + c[n]
    BY <2>1, <1>0, SumsDef
  <2>4. b[n] \in Int /\ Sums(b)[n] \in Int /\ c[n] = b[n] + d
    BY <2>1, <1>0, SumsDef DEF Numbers
  <2>5. (n + 1) * d = n * d + d /\ n * d \in Int
    OBVIOUS
  <2>6. QED
    BY <2>2, <2>3, <2>4, <2>5
<1>3. Nat \subseteq G
  BY <1>1, <1>2, Facts!Induction
<1>4. Sums(c)[N] = Sums(b)[N] + N * d
  BY <1>3
<1>5. QED
  BY <1>4 DEF c

(* Rearranging the first n coefficients does not change their sum: the one *)
(* that comes last is exchanged with the one that should, which changes    *)
(* nothing, and the rest is a rearrangement of n - 1 coefficients.         *)
Rearranges(p, n) ==
  /\ p \in [Index -> Index]
  /\ \A k \in 0..(n - 1) : p[k] \in 0..(n - 1)
  /\ \A k, m \in 0..(n - 1) : p[k] = p[m] => k = m
  /\ \A m \in 0..(n - 1) : \E k \in 0..(n - 1) : p[k] = m

Exchanged(p, m, n) == [p EXCEPT ![m] = p[n], ![n] = p[m]]

(* Exchanging two of the first n + 1 coefficients keeps their sum. *)
LEMMA ExchangeKeepsSum ==
  ASSUME NEW c \in Numbers, NEW n \in Index, NEW m \in 0..n
  PROVE  Exchanged(c, m, n) \in Numbers /\ Sums(Exchanged(c, m, n))[n + 1] = Sums(c)[n + 1]
<1> DEFINE d == [c EXCEPT ![m] = c[n]]
<1>1. m \in Index /\ c[m] \in Int /\ c[n] \in Int /\ n + 1 \in 0..N
  BY DEF Index, Numbers
<1>2. d \in Numbers /\ d[n] = c[n]
  BY <1>1 DEF Numbers
<1>3. Exchanged(c, m, n) = [d EXCEPT ![n] = c[m]]
  BY <1>1 DEF Exchanged, Numbers
<1>4. Sums(d)[n + 1] = Sums(c)[n + 1] + (c[n] - c[m])
  BY <1>1, SumsUpdate DEF Index
<1> HIDE DEF d
<1>5. Sums([d EXCEPT ![n] = c[m]])[n + 1] = Sums(d)[n + 1] + (c[m] - d[n])
  BY <1>1, <1>2, SumsUpdate DEF Index
<1>6. [d EXCEPT ![n] = c[m]] \in Numbers
  BY <1>1, <1>2 DEF Numbers
<1>7. Sums(c)[n + 1] \in Int
  BY <1>1, SumsDef
<1>8. QED
  BY <1>1, <1>2, <1>3, <1>4, <1>5, <1>6, <1>7

(* After the exchange, the last of n + 1 coefficients is where it belongs, *)
(* and the others are rearranged among themselves.                         *)
LEMMA OneLess ==
  ASSUME NEW n \in Index, NEW p, Rearranges(p, n + 1)
  PROVE  \E m \in 0..n : p[m] = n /\ Rearranges(Exchanged(p, m, n), n)
<1>0. n \in Nat /\ n + 1 - 1 = n /\ n \in 0..n
  BY DEF Index
<1>1. PICK m \in 0..n : p[m] = n
  BY <1>0 DEF Rearranges
<1> DEFINE q == Exchanged(p, m, n)
<1>2. m \in Index /\ n \in Index /\ p \in [Index -> Index] /\ 0..n \subseteq Index
  BY DEF Index, Rearranges
<1>3. q \in [Index -> Index] /\ q[n] = n
      /\ (m # n => q[m] = p[n]) /\ \A k \in Index \ {m, n} : q[k] = p[k]
  BY <1>1, <1>2 DEF Exchanged
<1> HIDE DEF q
<1>4. \A k, l \in 0..n : p[k] = p[l] => k = l
  BY SMTT(40) DEF Rearranges, Index
<1>5. \A k \in 0..n : p[k] \in 0..n
  BY DEF Rearranges, Index
<1>6. ASSUME NEW k \in 0..(n - 1) PROVE q[k] \in 0..(n - 1)
  <2>0. k \in 0..n /\ k # n /\ n \in 0..n /\ k \in Index
    BY <1>0, <1>2
  <2>1. CASE k = m
    <3>1. q[k] = p[n] /\ p[n] \in 0..n
      BY <1>3, <1>5, <2>0, <2>1
    <3>2. p[n] # n
      BY <1>1, <1>4, <2>0, <2>1
    <3>3. QED
      BY <1>0, <3>1, <3>2
  <2>2. CASE k # m
    <3>1. q[k] = p[k] /\ p[k] \in 0..n
      BY <1>3, <1>5, <2>0, <2>2
    <3>2. p[k] # n
      BY <1>1, <1>4, <2>0, <2>2
    <3>3. QED
      BY <1>0, <3>1, <3>2
  <2>3. QED
    BY <2>1, <2>2
<1>7. ASSUME NEW k \in 0..(n - 1), NEW l \in 0..(n - 1), q[k] = q[l] PROVE k = l
  <2>1. k \in 0..n /\ l \in 0..n /\ n \in 0..n /\ k # n /\ l # n /\ k \in Index /\ l \in Index
    BY DEF Index
  <2>2. q[k] = IF k = m THEN p[n] ELSE p[k]
    BY <1>3, <2>1
  <2>3. q[l] = IF l = m THEN p[n] ELSE p[l]
    BY <1>3, <2>1
  <2>4. QED
    BY <1>4, <1>7, <2>1, <2>2, <2>3
<1>8. ASSUME NEW y \in 0..(n - 1) PROVE \E k \in 0..(n - 1) : q[k] = y
  <2>1. PICK k \in 0..n : p[k] = y
    BY SMTT(40) DEF Rearranges, Index
  <2>2. k # m
    BY <1>1, <2>1 DEF Index
  <2>3. CASE k = n
    <3>1. m \in 0..(n - 1) /\ q[m] = p[n]
      BY <1>3, <2>2, <2>3 DEF Index
    <3>2. QED
      BY <2>1, <2>3, <3>1
  <2>4. CASE k # n
    <3>1. k \in 0..(n - 1) /\ k \in Index
      BY <2>4 DEF Index
    <3>2. q[k] = p[k]
      BY <1>3, <2>2, <2>4, <3>1
    <3>3. QED
      BY <2>1, <3>1, <3>2
  <2>5. QED
    BY <2>3, <2>4
<1>9. Rearranges(q, n)
  BY <1>3, <1>6, <1>7, <1>8 DEF Rearranges
<1>10. QED
  BY <1>1, <1>9 DEF q

At(b, p) == [k \in Index |-> b[p[k]]]

(* fisheryates_shuffle keeps the sum of the block. *)
LEMMA RearrangedSum ==
  ASSUME NEW b \in Numbers, NEW p, Rearranges(p, N)
  PROVE  Sums(At(b, p))[N] = Sums(b)[N]
<1> DEFINE G == {n \in Nat : n <= N => \A q : Rearranges(q, n) => Sums(At(b, q))[n] = Sums(b)[n]}
<1>0. \A q \in [Index -> Index] : At(b, q) \in Numbers
  BY DEF At, Numbers
<1>1. 0 \in G
  <2> SUFFICES ASSUME NEW q, Rearranges(q, 0) PROVE Sums(At(b, q))[0] = Sums(b)[0]
    OBVIOUS
  <2>1. At(b, q) \in Numbers
    BY <1>0 DEF Rearranges
  <2>2. QED
    BY <2>1, SumsDef
<1>2. ASSUME NEW n \in Nat, n \in G PROVE n + 1 \in G
  <2> SUFFICES ASSUME n + 1 <= N, NEW q, Rearranges(q, n + 1)
               PROVE  Sums(At(b, q))[n + 1] = Sums(b)[n + 1]
    OBVIOUS
  <2>1. n \in Index /\ n + 1 \in 1..N /\ n + 1 - 1 = n
    BY DEF Index
  <2> q \in [Index -> Index]
    BY DEF Rearranges
  <2>2. PICK m \in 0..n : q[m] = n /\ Rearranges(Exchanged(q, m, n), n)
    BY <2>1, OneLess
  <2> DEFINE r == Exchanged(q, m, n)
             c == At(b, q)
  <2>3. m \in Index /\ c \in Numbers /\ r \in [Index -> Index]
    <3>1. m \in Index
      BY <2>1 DEF Index
    <3>2. r \in [Index -> Index]
      BY <2>2 DEF Rearranges
    <3>3. QED
      BY <1>0, <3>1, <3>2
  <2>4. At(b, r) = Exchanged(c, m, n)
    <3>1. \A k \in Index : At(b, r)[k] = Exchanged(c, m, n)[k]
      BY <2>1, <2>3 DEF At, Exchanged
    <3>2. QED
      BY <3>1 DEF At, Exchanged
  <2>5. Sums(At(b, r))[n + 1] = Sums(c)[n + 1]
    BY <2>1, <2>3, <2>4, ExchangeKeepsSum
  <2>6. Sums(At(b, r))[n] = Sums(b)[n]
    BY <1>2, <2>2
  <2>7. At(b, r) \in Numbers
    BY <1>0, <2>3
  <2>8. At(b, r)[n] = b[n]
    BY <2>1, <2>2, <2>3 DEF At, Exchanged
  <2>9. Sums(At(b, r))[n + 1] = Sums(At(b, r))[n] + At(b, r)[n]
    BY <2>1, <2>7, SumsDef
  <2>10. Sums(b)[n + 1] = Sums(b)[n] + b[n]
    BY <2>1, SumsDef
  <2>11. QED
    BY <2>5, <2>6, <2>8, <2>9, <2>10
<1>3. Nat \subseteq G
  BY <1>1, <1>2, Facts!Induction
<1>4. QED
  BY <1>3
-----------------------------------------------------------------------------
Block == [Index -> 0..V]

(* The block that round q is given: the plaintext made positive, or the    *)
(* result of the round before.                                             *)
Start(q) == IF q = 0 THEN [k \in Index |-> plain[k] - Vmin] ELSE after[q - 1]

(* The budget when gibbs_sample comes to coefficient k. *)
Left(q, k) == IF k = 0 THEN before[q][N - 1] ELSE shared[q][k - 1] - after[q][k - 1]

ShuffledOK(q) ==
  /\ shuffles[q] \in Shuffles
  /\ before[q] = At(Start(q), shuffles[q])
  /\ before[q] \in Block
  /\ Total(before[q]) = sum

SampledOK(q, k) ==
  /\ shared[q][k] = Left(q, k) + before[q][k]
  /\ randomness[q][k] \in Nat
  /\ after[q][k] = Rotate(before[q][k], randomness[q][k] % YRange(shared[q][k]), shared[q][k])
  /\ after[q][k] \in 0..V
  /\ Left(q, k + 1) \in 0..V

RoundOK(q) ==
  /\ ShuffledOK(q)
  /\ \A k \in 0..(N - 2) : SampledOK(q, k)
  /\ after[q][N - 1] = Left(q, N - 1)
  /\ after[q] \in Block
  /\ Total(after[q]) = sum

Done(n) == \A q \in 0..(n - 1) : RoundOK(q)

TypeInv ==
  /\ pc \in {"encrypt", "shuffle", "sample", "decrypt", "reverse", "unsample", "restore", "done"}
  /\ V \in 0..MaxV
  /\ x \in Numbers
  /\ round \in RoundNums
  /\ i \in -1..N
  /\ budget \in Int /\ subtotal \in Int /\ sum \in Int
  /\ shuffles \in [RoundNums -> [Index -> Index]]
  /\ randomness \in [RoundNums -> Numbers]
  /\ before \in [RoundNums -> Numbers]
  /\ shared \in [RoundNums -> Numbers]
  /\ after \in [RoundNums -> Numbers]
  /\ plain \in [Index -> Vmin..(Vmin + V)]

(* In the middle of gibbs_sample: what is done, and what is still to come. *)
Sampling ==
  /\ Done(round) /\ ShuffledOK(round)
  /\ i \in 0..N
  /\ \A k \in 0..(N - 2) : k < i => SampledOK(round, k)
  /\ \A k \in Index : x[k] = IF k < i THEN after[round][k] ELSE before[round][k]
  /\ x \in Block
  /\ IF i < N THEN /\ budget = Left(round, i) /\ budget \in 0..V
                   /\ Total(x) + budget - x[N - 1] = sum
              ELSE /\ after[round][N - 1] = Left(round, N - 1)
                   /\ Total(x) = sum

(* In the middle of gibbs_reverse_sample, which goes down. *)
Unsampling ==
  /\ i \in -1..(N - 2)
  /\ \A k \in Index : x[k] = IF k <= i \/ k = N - 1 THEN after[round][k] ELSE before[round][k]
  /\ budget = Left(round, i + 1)
  /\ subtotal = Sums(before[round])[N - 1] - Sums(before[round])[i + 1]

Ciphertext == [k \in Index |-> after[Rounds - 1][k] + Vmin]

LoopInv ==
  /\ pc = "encrypt" => x = plain
  /\ pc = "shuffle" => Done(round) /\ x = Start(round) /\ x \in Block /\ Total(x) = sum
  /\ pc = "sample" => Sampling
  /\ pc \in {"decrypt", "reverse", "unsample", "restore", "done"} => Done(Rounds) /\ cipher = Ciphertext
  /\ pc = "decrypt" => x = cipher
  /\ pc = "reverse" => x = after[round]
  /\ pc = "unsample" => Unsampling
  /\ pc = "restore" => x = Start(0)
  /\ pc = "done" => x = plain
  /\ pc \notin {"encrypt"} => sum = Total(Start(0))

IInv == TypeInv /\ LoopInv

-----------------------------------------------------------------------------
(* The range that two values of 0..V leave to one of them when they share  *)
(* their sum b: it is not empty and holds either value.                    *)
LEMMA RangeFacts ==
  ASSUME V \in Nat, NEW b \in 0..(2 * V)
  PROVE  /\ YMin(b) \in 0..V /\ YMax(b) \in 0..V /\ YMin(b) <= YMax(b)
         /\ YRange(b) \in Nat \ {0} /\ YRange(b) = YMax(b) - YMin(b) + 1
         /\ \A v \in YMin(b)..YMax(b) : v \in 0..V /\ b - v \in 0..V
         /\ \A v \in 0..V : b - v \in 0..V => v \in YMin(b)..YMax(b)
BY DEF YMin, YMax, YRange, Greater, Lesser

(* A coefficient that is moved stays in its range. *)
LEMMA RotateType ==
  ASSUME V \in Nat, NEW b \in 0..(2 * V), NEW v \in YMin(b)..YMax(b), NEW d \in Nat
  PROVE  Rotate(v, d, b) \in YMin(b)..YMax(b)
<1>1. YRange(b) \in Nat \ {0} /\ YMin(b) \in Int /\ YMax(b) \in Int /\ YRange(b) = YMax(b) - YMin(b) + 1
  BY RangeFacts
<1>2. v - YMin(b) + d \in Int
  BY <1>1
<1>3. (v - YMin(b) + d) % YRange(b) \in 0..(YRange(b) - 1)
  BY <1>1, <1>2
<1>4. QED
  BY <1>1, <1>3 DEF Rotate

(* The two cases of % that undoing a move meets. *)
LEMMA Modulo ==
  ASSUME NEW R \in Nat \ {0}, NEW u \in 0..(R - 1)
  PROVE  u % R = u /\ (u + R) % R = u
OBVIOUS

(* Moving on by the inverse of delta ends where moving by delta started.   *)
LEMMA RotateBack ==
  ASSUME V \in Nat, NEW b \in 0..(2 * V), NEW v \in YMin(b)..YMax(b), NEW rnd \in Nat
  PROVE  Rotate(Rotate(v, rnd % YRange(b), b), YRange(b) - (rnd % YRange(b)), b) = v
<1> DEFINE R == YRange(b)
           d == rnd % R
           u == v - YMin(b)
           w == (u + d) % R
<1>1. R \in Nat \ {0} /\ YMin(b) \in Int /\ YMax(b) \in Int /\ R = YMax(b) - YMin(b) + 1
  BY RangeFacts
<1>2. d \in 0..(R - 1) /\ u \in 0..(R - 1) /\ v = u + YMin(b)
  BY <1>1
<1>3. Rotate(v, d, b) = w + YMin(b) /\ (w + YMin(b)) - YMin(b) = w
  BY <1>1, <1>2 DEF Rotate
<1> HIDE DEF R, d, u, w
<1>4. w = IF u + d < R THEN u + d ELSE u + d - R
  <2>0. w = (u + d) % R
    BY DEF w
  <2>1. CASE u + d < R
    BY <1>1, <1>2, <2>0, <2>1, Modulo
  <2>2. CASE ~ (u + d < R)
    <3>1. u + d - R \in 0..(R - 1)
      BY <1>1, <1>2, <2>2
    <3>2. ((u + d - R) + R) % R = u + d - R
      BY <1>1, <3>1, Modulo
    <3>3. (u + d - R) + R = u + d
      BY <1>1, <1>2
    <3>4. QED
      BY <2>0, <2>2, <3>2, <3>3
  <2>3. QED
    BY <2>1, <2>2
<1>5. (w + (R - d)) % R = u
  <2>1. CASE u + d < R
    <3>1. w + (R - d) = u + R
      BY <1>1, <1>2, <1>4, <2>1
    <3>2. QED
      BY <1>1, <1>2, <3>1, Modulo
  <2>2. CASE ~ (u + d < R)
    <3>1. w + (R - d) = u
      BY <1>1, <1>2, <1>4, <2>2
    <3>2. QED
      BY <1>1, <1>2, <3>1, Modulo
  <2>3. QED
    BY <2>1, <2>2
<1>6. Rotate(w + YMin(b), R - d, b) = (((w + YMin(b)) - YMin(b) + (R - d)) % R) + YMin(b)
  BY Zenon DEF Rotate, R
<1>7. QED
  BY <1>2, <1>3, <1>5, <1>6 DEF R, d

(* What fisheryates_shuffle does is a rearrangement of the whole block. *)
LEMMA ShuffleRearranges ==
  ASSUME NEW p \in Shuffles
  PROVE  Rearranges(p, N) /\ p \in [Index -> Index]
BY ShufflesAssumption DEF Rearranges, Index

(* What is done about a round stays so while its data are left alone. *)
LEMMA ShuffledStays ==
  ASSUME NEW q \in RoundNums, plain' = plain, V' = V, sum' = sum,
         before'[q] = before[q], q > 0 => after'[q - 1] = after[q - 1],
         shuffles'[q] = shuffles[q], ShuffledOK(q)
  PROVE  ShuffledOK(q)'
<1>1. Start(q)' = Start(q)
  BY DEF Start, RoundNums
<1>2. QED
  BY <1>1 DEF ShuffledOK, Block, Total, At

(* The same for one coefficient of a round, *)
LEMMA SampledStays ==
  ASSUME NEW q \in RoundNums, NEW k \in 0..(N - 2), V' = V,
         before'[q] = before[q], shared'[q][k] = shared[q][k], after'[q][k] = after[q][k],
         k > 0 => shared'[q][k - 1] = shared[q][k - 1] /\ after'[q][k - 1] = after[q][k - 1],
         randomness'[q][k] = randomness[q][k], SampledOK(q, k)
  PROVE  SampledOK(q, k)'
<1>1. Left(q, k)' = Left(q, k) /\ Left(q, k + 1)' = Left(q, k + 1)
  BY DEF Left
<1>2. QED
  BY <1>1 DEF SampledOK, Rotate, YRange, YMin, YMax

(* for a whole round, *)
LEMMA RoundStays ==
  ASSUME NEW q \in RoundNums, plain' = plain, V' = V, sum' = sum,
         before'[q] = before[q], shared'[q] = shared[q], after'[q] = after[q],
         q > 0 => after'[q - 1] = after[q - 1],
         shuffles'[q] = shuffles[q], randomness'[q] = randomness[q], RoundOK(q)
  PROVE  RoundOK(q)'
<1>1. ShuffledOK(q)'
  BY ShuffledStays DEF RoundOK
<1>2. \A k \in 0..(N - 2) : SampledOK(q, k)'
  BY SampledStays DEF RoundOK
<1>3. Left(q, N - 1)' = Left(q, N - 1)
  BY DEF Left
<1>4. QED
  BY <1>1, <1>2, <1>3 DEF RoundOK, Block, Total

(* and for all the rounds so far. *)
LEMMA DoneStays ==
  ASSUME NEW n \in 0..Rounds, plain' = plain, V' = V, sum' = sum, Done(n),
         \A q \in 0..(n - 1) : /\ before'[q] = before[q] /\ shared'[q] = shared[q] /\ after'[q] = after[q]
                               /\ shuffles'[q] = shuffles[q] /\ randomness'[q] = randomness[q]
  PROVE  Done(n)' /\ (n < Rounds => Start(n)' = Start(n)) /\ Start(0)' = Start(0)
<1>1. ASSUME NEW q \in 0..(n - 1) PROVE RoundOK(q)'
  <2>1. q \in RoundNums /\ (q > 0 => q - 1 \in 0..(n - 1))
    BY DEF RoundNums
  <2>2. QED
    BY <2>1, RoundStays DEF Done
<1>2. n > 0 => n - 1 \in 0..(n - 1)
  OBVIOUS
<1>3. QED
  BY <1>1, <1>2 DEF Done, Start
-----------------------------------------------------------------------------
(* Every action keeps the invariant. *)
LEMMA Initially ==
  ASSUME Init
  PROVE  IInv
<1>1. x \in Numbers /\ x = plain /\ V \in 0..MaxV /\ pc = "encrypt"
  BY DEF Init, Numbers
<1>2. TypeInv
  BY <1>1 DEF Init, TypeInv, Numbers, RoundNums, NoShuffle, NotDrawn, Index
<1>3. QED
  BY <1>1, <1>2 DEF IInv, LoopInv

(* The two preprocessings: one starts the rounds, the other finds what the *)
(* last round left, and the same sum.                                      *)
LEMMA PreprocessKeeps ==
  ASSUME IInv, Preprocess
  PROVE  IInv'
<1> USE DEF IInv
<1>1. x' \in Numbers /\ sum' \in Int
  <2>1. x' \in Numbers
    BY DEF Preprocess, TypeInv, Numbers
  <2>2. sum' = Sums(x')[N]
    BY DEF Preprocess, Total
  <2>3. QED
    BY <2>1, <2>2, SumsDef
<1>2. round' \in RoundNums /\ pc' \in {"shuffle", "reverse"}
  BY DEF Preprocess, RoundNums
<1>3. TypeInv'
  BY <1>1, <1>2 DEF Preprocess, TypeInv, trail
<1>4. CASE pc = "encrypt"
  <2>1. x' = Start(0)' /\ x' \in Block' /\ Start(0)' = [k \in Index |-> plain[k] - Vmin]
    BY <1>4 DEF Preprocess, LoopInv, TypeInv, Start, Block
  <2>2. Done(0)'
    BY DEF Done
  <2>3. round' = 0 /\ pc' = "shuffle" /\ sum' = Total(x')
    BY <1>4 DEF Preprocess
  <2>4. Done(round)' /\ x' = Start(round)' /\ Total(x)' = sum' /\ sum' = Total(Start(0))'
    BY <2>1, <2>2, <2>3 DEF Done, Start, Total
  <2>5. QED
    BY <1>3, <2>1, <2>3, <2>4 DEF LoopInv
<1>5. CASE pc = "decrypt"
  <2>1. x = Ciphertext /\ Done(Rounds) /\ cipher = Ciphertext /\ sum = Total(Start(0))
    BY <1>5 DEF LoopInv
  <2>2. RoundOK(Rounds - 1)
    BY <2>1 DEF Done
  <2>3. x' = after[Rounds - 1]
    <3>1. after[Rounds - 1] \in Numbers
      BY DEF TypeInv, RoundNums
    <3>2. \A k \in Index : x'[k] = after[Rounds - 1][k]
      BY <2>1, <3>1 DEF Preprocess, Ciphertext, Numbers
    <3>3. QED
      BY <3>1, <3>2 DEF Preprocess, Numbers
  <2>4. sum' = sum /\ round' = Rounds - 1 /\ pc' = "reverse"
    BY <1>5, <2>2, <2>3 DEF Preprocess, RoundOK
  <2>5. Done(Rounds)' /\ Start(0)' = Start(0)
    <3>1. UNCHANGED <<V, plain, before, shared, after, shuffles, randomness>>
      BY DEF Preprocess, trail
    <3>2. Rounds \in 0..Rounds
      OBVIOUS
    <3>3. QED
      BY <2>1, <2>4, <3>1, <3>2, DoneStays
  <2>6. cipher' = Ciphertext' /\ x' = after'[round']
    BY <2>1, <2>3, <2>4 DEF Preprocess, trail, Ciphertext
  <2>7. sum' = Total(Start(0))'
    BY <2>1, <2>4, <2>5 DEF Total
  <2>8. QED
    BY <1>3, <2>4, <2>5, <2>6, <2>7 DEF LoopInv
<1>6. QED
  BY <1>4, <1>5 DEF Preprocess

(* A round begins with the block before it, rearranged: the sum stays.     *)
LEMMA ShuffleKeeps ==
  ASSUME IInv, Shuffle
  PROVE  IInv'
<1> USE DEF IInv
<1>1. PICK r \in RoundNums : r = round
  BY DEF TypeInv
<1>2. PICK p \in Shuffles : shuffles' = [shuffles EXCEPT ![r] = p] /\ x' = At(x, p)
  BY <1>1 DEF Shuffle, At
<1>3. Done(r) /\ x = Start(r) /\ x \in Block /\ Total(x) = sum /\ sum = Total(Start(0))
  BY <1>1 DEF Shuffle, LoopInv
<1>4. Rearranges(p, N) /\ p \in [Index -> Index]
  BY ShuffleRearranges
<1>5. x \in Numbers /\ x' \in Block /\ x' \in Numbers
  BY <1>2, <1>3, <1>4 DEF At, Block, Numbers, TypeInv
<1>6. Total(x') = sum
  BY <1>2, <1>3, <1>4, <1>5, RearrangedSum DEF Total
<1>7. before' = [before EXCEPT ![r] = x'] /\ shuffles'[r] = p /\ round' = r
  BY <1>1, <1>2 DEF Shuffle, TypeInv
<1>8. before'[r] = x' /\ budget' = x'[N - 1] /\ i' = 0
  BY <1>1, <1>7 DEF Shuffle, TypeInv
<1>9. UNCHANGED <<V, plain, sum, shared, after, randomness, cipher, subtotal>> /\ pc' = "sample"
  BY DEF Shuffle
<1>10. TypeInv'
  <2>1. before' \in [RoundNums -> Numbers] /\ shuffles' \in [RoundNums -> [Index -> Index]]
    BY <1>2, <1>4, <1>5, <1>7 DEF TypeInv
  <2>2. budget' \in Int /\ i' \in -1..N
    BY <1>5, <1>8 DEF Numbers, Index
  <2>3. QED
    BY <1>5, <1>7, <1>9, <2>1, <2>2 DEF TypeInv
<1>11. Done(r)' /\ Start(r)' = Start(r) /\ Start(0)' = Start(0)
  <2>1. \A q \in 0..(r - 1) : q \in RoundNums /\ q # r
    BY DEF RoundNums
  <2>2. \A q \in 0..(r - 1) : before'[q] = before[q] /\ shuffles'[q] = shuffles[q]
    BY <1>2, <1>7, <2>1 DEF TypeInv
  <2>3. r \in 0..Rounds /\ r < Rounds
    BY DEF RoundNums
  <2>4. QED
    BY <1>3, <1>9, <2>2, <2>3, DoneStays
<1>12. ShuffledOK(r)'
  BY <1>2, <1>3, <1>5, <1>6, <1>7, <1>8, <1>9, <1>11 DEF ShuffledOK, Block, Total
<1>13. Done(round)' /\ ShuffledOK(round)' /\ Left(r, 0)' = x'[N - 1] /\ Left(round, i)' = x'[N - 1]
  BY <1>7, <1>8, <1>11, <1>12 DEF Done, ShuffledOK, Left, Start
<1>14. Sampling'
  <2>1. x'[N - 1] \in 0..V'
    BY <1>5, <1>9 DEF Block, Index
  <2>2. Total(x)' = sum'
    BY <1>6, <1>9 DEF Total
  <2>3. \A k \in 0..(N - 2) : k >= i'
    BY <1>8
  <2>4. \A k \in Index : x'[k] = IF k < i' THEN after'[round'][k] ELSE before'[round'][k]
    BY <1>7, <1>8 DEF Index
  <2>5. Total(x)' \in Int
    BY <1>5, SumsDef DEF Total
  <2>6. (Total(x) + budget - x[N - 1])' = sum'
    BY <1>8, <2>1, <2>2, <2>5
  <2>7. QED
    BY <1>5, <1>8, <1>9, <1>13, <2>1, <2>3, <2>4, <2>6 DEF Sampling, Block
<1>15. sum' = Total(Start(0))'
  BY <1>3, <1>9, <1>11 DEF Total
<1>16. QED
  BY <1>9, <1>10, <1>14, <1>15 DEF LoopInv

(* One coefficient is resampled: it stays in the range that it and the     *)
(* budget leave each other, and what it gives the budget gets.  The last   *)
(* one gets the budget, which makes the sum right.                         *)
LEMMA SampleKeeps ==
  ASSUME IInv, Sample
  PROVE  IInv'
<1> USE DEF IInv
<1>1. PICK r \in RoundNums, j \in Index : r = round /\ j = i
  BY DEF TypeInv, Sample, LoopInv, Sampling, Index
<1>2. Sampling /\ sum = Total(Start(0)) /\ V \in Nat /\ x \in Numbers
  BY DEF Sample, LoopInv, TypeInv
<1>3. /\ budget = Left(r, j) /\ budget \in 0..V /\ x[j] \in 0..V /\ x[N - 1] \in 0..V
      /\ Total(x) + budget - x[N - 1] = sum /\ x[j] = before[r][j]
      /\ Done(r) /\ ShuffledOK(r)
      /\ \A k \in 0..(N - 2) : k < j => SampledOK(r, k)
  BY <1>1, <1>2, SMTT(40) DEF Sampling, Block, Index
<1>4. UNCHANGED <<pc, V, round, subtotal, sum, shuffles, plain, cipher, before>> /\ i' = j + 1 /\ pc' = "sample"
  BY <1>1 DEF Sample
<1>5. \E v \in 0..V, b \in Int :
        /\ x' = [x EXCEPT ![j] = v] /\ budget' = b - v
        /\ shared' = [shared EXCEPT ![r][j] = b]
        /\ \/ j = N - 1 /\ v = b /\ b = budget /\ randomness' = randomness
           \/ /\ j < N - 1 /\ b = budget + x[j] /\ b - v \in 0..V
              /\ \E rnd \in Randoms : /\ v = Rotate(x[j], rnd % YRange(b), b)
                                      /\ randomness' = [randomness EXCEPT ![r][j] = rnd]
  <2>1. CASE j = N - 1
    <3>1. Shared = budget
      BY <1>1, <2>1 DEF Shared
    <3>2. x' = [x EXCEPT ![j] = budget] /\ budget' = budget - budget
          /\ shared' = [shared EXCEPT ![r][j] = budget] /\ randomness' = randomness
      BY <1>1, <2>1, <3>1 DEF Sample
    <3> budget \in 0..V /\ budget \in Int
      BY <1>3
    <3> WITNESS budget \in 0..V, budget \in Int
    <3>3. QED
      BY <2>1, <3>2
  <2>2. CASE j # N - 1
    <3> DEFINE b == budget + x[j]
    <3>0. j < N - 1
      BY <2>2 DEF Index
    <3>1. Shared = b
      BY <1>1, <3>0 DEF Shared
    <3>2. PICK rnd \in Randoms : /\ x' = [x EXCEPT ![j] = Rotate(x[j], rnd % YRange(b), b)]
                                 /\ budget' = b - Rotate(x[j], rnd % YRange(b), b)
                                 /\ randomness' = [randomness EXCEPT ![r][j] = rnd]
      BY <1>1, <2>2, <3>1 DEF Sample
    <3>3. shared' = [shared EXCEPT ![r][j] = b]
      BY <1>1, <3>1 DEF Sample
    <3>4. b \in 0..(2 * V) /\ b - x[j] \in 0..V
      BY <1>2, <1>3
    <3> HIDE DEF b
    <3>5. x[j] \in YMin(b)..YMax(b) /\ YRange(b) \in Nat \ {0}
      BY <1>2, <1>3, <3>4, RangeFacts
    <3>6. rnd % YRange(b) \in Nat
      BY <3>5
    <3>7. Rotate(x[j], rnd % YRange(b), b) \in YMin(b)..YMax(b)
      BY <1>2, <3>4, <3>5, <3>6, RotateType
    <3>8. Rotate(x[j], rnd % YRange(b), b) \in 0..V /\ b - Rotate(x[j], rnd % YRange(b), b) \in 0..V
      BY <1>2, <3>4, <3>7, RangeFacts
    <3>9. b \in Int /\ b = budget + x[j]
      BY <3>4 DEF b
    <3>10. QED
      BY <3>0, <3>2, <3>3, <3>8, <3>9
  <2>3. QED
    BY <2>1, <2>2
<1>6. PICK v \in 0..V, b \in Int :
        /\ x' = [x EXCEPT ![j] = v] /\ budget' = b - v
        /\ shared' = [shared EXCEPT ![r][j] = b]
        /\ \/ j = N - 1 /\ v = b /\ b = budget /\ randomness' = randomness
           \/ /\ j < N - 1 /\ b = budget + x[j] /\ b - v \in 0..V
              /\ \E rnd \in Randoms : /\ v = Rotate(x[j], rnd % YRange(b), b)
                                      /\ randomness' = [randomness EXCEPT ![r][j] = rnd]
  BY <1>5
<1>7. /\ x' \in Numbers /\ x'[j] = v
      /\ \A k \in Index \ {j} : x'[k] = x[k]
      /\ x' \in Block'
  BY <1>2, <1>4, <1>6 DEF Numbers, Block, Sampling
<1>8. /\ shared' \in [RoundNums -> Numbers] /\ shared'[r][j] = b
      /\ \A k \in Index \ {j} : shared'[r][k] = shared[r][k]
      /\ \A q \in RoundNums \ {r} : shared'[q] = shared[q]
  BY <1>6 DEF TypeInv, Numbers
<1>9. /\ after' \in [RoundNums -> Numbers] /\ after'[r][j] = v
      /\ \A k \in Index \ {j} : after'[r][k] = after[r][k]
      /\ \A q \in RoundNums \ {r} : after'[q] = after[q]
  <2>1. after' = [after EXCEPT ![r][j] = v]
    BY <1>1, <1>7 DEF Sample
  <2>2. QED
    BY <2>1 DEF TypeInv, Numbers
<1>10. /\ randomness' \in [RoundNums -> Numbers]
       /\ \A k \in Index \ {j} : randomness'[r][k] = randomness[r][k]
       /\ \A q \in RoundNums \ {r} : randomness'[q] = randomness[q]
  <2>1. CASE randomness' = randomness
    BY <2>1 DEF TypeInv
  <2>2. CASE \E rnd \in Randoms : randomness' = [randomness EXCEPT ![r][j] = rnd]
    BY <2>2 DEF TypeInv, Numbers
  <2>3. QED
    BY <1>6, <2>1, <2>2
<1>11. TypeInv'
  <2>1. budget' \in Int /\ i' \in -1..N
    BY <1>4, <1>6 DEF Index
  <2>2. QED
    BY <1>4, <1>7, <1>8, <1>9, <1>10, <2>1 DEF TypeInv
<1>12. Done(r)' /\ Start(r)' = Start(r) /\ Start(0)' = Start(0)
  <2>1. \A q \in 0..(r - 1) : q \in RoundNums \ {r}
    BY DEF RoundNums
  <2>2. r \in 0..Rounds /\ r < Rounds
    BY DEF RoundNums
  <2>3. \A q \in 0..(r - 1) : /\ before'[q] = before[q] /\ shared'[q] = shared[q] /\ after'[q] = after[q]
                              /\ shuffles'[q] = shuffles[q] /\ randomness'[q] = randomness[q]
    BY <1>4, <1>8, <1>9, <1>10, <2>1
  <2>4. QED
    BY <1>3, <1>4, <2>2, <2>3, DoneStays
<1>13. ShuffledOK(r)'
  <2>1. r > 0 => r - 1 \in RoundNums \ {r}
    BY DEF RoundNums
  <2>2. r > 0 => after'[r - 1] = after[r - 1]
    BY <1>9, <2>1
  <2>3. QED
    BY <1>3, <1>4, <2>2, ShuffledStays
<1>14. Left(r, j)' = budget /\ Left(r, j + 1)' = b - v
  <2>1. j > 0 => j - 1 \in Index \ {j}
    BY DEF Index
  <2>2. Left(r, j)' = Left(r, j)
    BY <1>4, <1>8, <1>9, <2>1 DEF Left, Index
  <2>3. QED
    BY <1>3, <1>8, <1>9, <2>2 DEF Left, Index
<1>15. ASSUME NEW k \in 0..(N - 2), k < j + 1
       PROVE  SampledOK(r, k)'
  <2>1. CASE k = j
    <3>1. PICK rnd \in Randoms : /\ v = Rotate(x[j], rnd % YRange(b), b)
                                 /\ randomness' = [randomness EXCEPT ![r][j] = rnd]
      BY <1>6, <2>1
    <3>2. randomness'[r][j] = rnd /\ rnd \in Nat
      BY <3>1 DEF TypeInv, Numbers
    <3>3. b = budget + x[j] /\ b - v \in 0..V
      BY <1>6, <2>1
    <3>4. after'[r][j] = Rotate(before[r][j], rnd % YRange(b), b)
      BY <1>3, <1>9, <3>1
    <3>5. Rotate(before[r][j], rnd % YRange(b), b)' = Rotate(before[r][j], rnd % YRange(b), b)
      BY <1>4 DEF Rotate, YRange, YMin, YMax
    <3>6. (after[r][j] = Rotate(before[r][j], randomness[r][j] % YRange(shared[r][j]), shared[r][j]))'
      BY <1>4, <1>8, <3>2, <3>4 DEF Rotate, YRange, YMin, YMax
    <3>7. QED
      BY <1>3, <1>4, <1>8, <1>9, <1>14, <2>1, <3>2, <3>3, <3>6 DEF SampledOK
  <2>2. CASE k # j
    <3>1. k \in Index \ {j} /\ (k > 0 => k - 1 \in Index \ {j}) /\ k < j
      BY <1>15, <2>2 DEF Index
    <3>2. SampledOK(r, k)
      BY <1>3, <3>1
    <3>3. QED
      BY <1>4, <1>8, <1>9, <1>10, <3>1, <3>2, SampledStays
  <2>3. QED
    BY <2>1, <2>2
<1>16. Total(x)' = Total(x) + (v - x[j])
  <2>1. Sums(x')[N] = Sums(x)[N] + (v - x[j])
    <3>1. v \in Int /\ N \in 0..N /\ N > j
      BY DEF Index
    <3>2. Sums([x EXCEPT ![j] = v])[N] = Sums(x)[N] + (v - x[j])
      BY <1>2, <3>1, SumsUpdate
    <3>3. QED
      BY <1>6, <3>2
  <2>2. QED
    BY <2>1 DEF Total
<1>17. Total(x) \in Int
  BY <1>2, SumsDef DEF Total
<1>18. \A k \in Index : x'[k] = IF k < j + 1 THEN after'[r][k] ELSE before'[r][k]
  BY <1>1, <1>2, <1>4, <1>7, <1>9 DEF Sampling, Index
<1>19. IF j + 1 < N THEN /\ budget' = Left(r, j + 1)' /\ budget' \in 0..V'
                         /\ Total(x)' + budget' - x'[N - 1] = sum'
                    ELSE /\ after'[r][N - 1] = Left(r, N - 1)'
                         /\ Total(x)' = sum'
  <2>1. CASE j < N - 1
    <3>1. N - 1 \in Index \ {j} /\ j + 1 < N
      BY <2>1 DEF Index
    <3>2. budget' = Left(r, j + 1)' /\ budget' \in 0..V'
      BY <1>4, <1>6, <1>14, <2>1
    <3>3. Total(x)' + budget' - x'[N - 1] = sum'
      BY <1>3, <1>4, <1>6, <1>7, <1>16, <1>17, <2>1, <3>1
    <3>4. QED
      BY <3>1, <3>2, <3>3
  <2>2. CASE j = N - 1
    <3>1. after'[r][N - 1] = Left(r, N - 1)'
      BY <1>6, <1>9, <1>14, <2>2
    <3>2. Total(x)' = sum'
      BY <1>3, <1>4, <1>6, <1>16, <1>17, <2>2
    <3>3. QED
      BY <2>2, <3>1, <3>2
  <2>3. QED
    BY <2>1, <2>2 DEF Index
<1>20. Sampling'
  <2>1. round' = r /\ i' = j + 1 /\ j + 1 \in 0..N
    BY <1>1, <1>4 DEF Index
  <2>2. Done(round)' /\ ShuffledOK(round)'
    BY <1>12, <1>13, <2>1 DEF Done, ShuffledOK, Start
  <2>3. \A k \in 0..(N - 2) : k < i' => SampledOK(round, k)'
    BY <1>15, <2>1 DEF SampledOK, Left
  <2>4. (IF i < N THEN /\ budget = Left(round, i) /\ budget \in 0..V
                       /\ Total(x) + budget - x[N - 1] = sum
                  ELSE /\ after[round][N - 1] = Left(round, N - 1)
                       /\ Total(x) = sum)'
    BY <1>19, <2>1 DEF Left
  <2>5. QED
    BY <1>7, <1>18, <2>1, <2>2, <2>3, <2>4 DEF Sampling
<1>21. sum' = Total(Start(0))'
  BY <1>2, <1>4, <1>12 DEF Total
<1>22. QED
  BY <1>4, <1>11, <1>20, <1>21 DEF LoopInv

(* When gibbs_sample returns, its round is done. *)
LEMMA RoundComplete ==
  ASSUME IInv, pc = "sample", i = N
  PROVE  RoundOK(round) /\ Done(round + 1) /\ x = after[round] /\ x \in Block /\ Total(x) = sum
<1>1. Sampling /\ round \in RoundNums /\ x \in Numbers /\ after[round] \in Numbers
  BY DEF IInv, TypeInv, LoopInv
<1>2. \A k \in Index : x[k] = after[round][k]
  BY <1>1 DEF Sampling, Index
<1>3. x = after[round]
  BY <1>1, <1>2 DEF Numbers
<1>4. RoundOK(round)
  BY <1>1, <1>3 DEF Sampling, RoundOK
<1>5. Done(round + 1)
  BY <1>1, <1>4 DEF Sampling, Done, RoundNums
<1>6. QED
  BY <1>1, <1>3, <1>4, <1>5 DEF Sampling

(* The next round starts from the block that this one made. *)
LEMMA NextRoundKeeps ==
  ASSUME IInv, NextRound
  PROVE  IInv'
<1>1. /\ Done(round + 1) /\ x = after[round] /\ x \in Block /\ Total(x) = sum
      /\ sum = Total(Start(0)) /\ round \in RoundNums /\ round < Rounds - 1
  BY RoundComplete DEF NextRound, IInv, LoopInv, TypeInv
<1>2. /\ UNCHANGED <<V, x, i, budget, subtotal, sum, shuffles, randomness, plain, cipher, before, shared, after>>
      /\ round' = round + 1 /\ pc' = "shuffle" /\ round' \in RoundNums
  BY <1>1 DEF NextRound, trail, RoundNums
<1>3. TypeInv'
  BY <1>2 DEF IInv, TypeInv
<1>4. PICK n \in 0..Rounds : n = round + 1
  BY <1>1 DEF RoundNums
<1>5. Done(n)' /\ Start(0)' = Start(0)
  BY <1>1, <1>2, <1>4, DoneStays
<1>6. Done(round)' /\ x' = Start(round)' /\ x' \in Block' /\ Total(x)' = sum' /\ sum' = Total(Start(0))'
  BY <1>1, <1>2, <1>4, <1>5 DEF Done, Start, RoundNums, Block, Total
<1>7. QED
  BY <1>2, <1>3, <1>6 DEF IInv, LoopInv

(* The last round's block, with vmin added again, is the ciphertext. *)
LEMMA EncryptedKeeps ==
  ASSUME IInv, Encrypted
  PROVE  IInv'
<1>1. /\ Done(Rounds) /\ x = after[Rounds - 1] /\ x \in Numbers
      /\ sum = Total(Start(0))
  BY RoundComplete DEF Encrypted, IInv, LoopInv, TypeInv
<1>2. /\ UNCHANGED <<V, round, i, budget, subtotal, sum, shuffles, randomness, plain, before, shared, after>>
      /\ x' = [k \in Index |-> x[k] + Vmin] /\ cipher' = x' /\ pc' = "decrypt"
  BY DEF Encrypted, trail
<1>3. x' \in Numbers
  BY <1>1, <1>2 DEF Numbers
<1>4. TypeInv'
  BY <1>2, <1>3 DEF IInv, TypeInv
<1>5. Done(Rounds)' /\ Start(0)' = Start(0)
  <2>1. Rounds \in 0..Rounds
    OBVIOUS
  <2>2. QED
    BY <1>1, <1>2, <2>1, DoneStays
<1>6. x' = Ciphertext' /\ sum' = Total(Start(0))'
  BY <1>1, <1>2, <1>5 DEF Ciphertext, Total
<1>7. QED
  BY <1>2, <1>4, <1>5, <1>6 DEF IInv, LoopInv

(* What the steps of the decryption leave alone.                           *)
LEMMA DecryptionFrame ==
  ASSUME IInv, pc \in {"reverse", "unsample", "restore"},
         UNCHANGED <<V, sum, shuffles, randomness, plain, cipher, trail>>
  PROVE  /\ Done(Rounds) /\ Done(Rounds)' /\ cipher' = Ciphertext' /\ sum' = Total(Start(0))'
         /\ Start(0)' = Start(0)
<1>1. Done(Rounds) /\ cipher = Ciphertext /\ sum = Total(Start(0))
  BY DEF IInv, LoopInv
<1>2. UNCHANGED <<V, sum, shuffles, randomness, plain, cipher, before, shared, after>>
  BY DEF trail
<1>3. Rounds \in 0..Rounds
  OBVIOUS
<1>4. Done(Rounds)' /\ Start(0)' = Start(0)
  BY <1>1, <1>2, <1>3, DoneStays
<1>5. QED
  BY <1>1, <1>2, <1>4 DEF Ciphertext, Total

(* The budget starts with the last coefficient, which is what gibbs_sample *)
(* had left for it.                                                        *)
LEMMA StartReverseKeeps ==
  ASSUME IInv, StartReverse
  PROVE  IInv'
<1>1. /\ UNCHANGED <<V, x, round, sum, shuffles, randomness, plain, cipher, before, shared, after>>
      /\ i' = N - 2 /\ budget' = x[N - 1] /\ subtotal' = 0 /\ pc' = "unsample" /\ pc = "reverse"
      /\ UNCHANGED trail
  BY DEF StartReverse, trail
<1>2. PICK r \in RoundNums : r = round
  BY DEF IInv, TypeInv
<1>3. x = after[r] /\ x \in Numbers
  BY <1>1, <1>2 DEF IInv, LoopInv, TypeInv
<1>4. /\ Done(Rounds) /\ Done(Rounds)' /\ cipher' = Ciphertext' /\ sum' = Total(Start(0))'
  BY <1>1, DecryptionFrame
<1>5. after[r][N - 1] = Left(r, N - 1) /\ before[r] \in Numbers
  BY <1>4 DEF Done, RoundNums, RoundOK, IInv, TypeInv
<1>6. TypeInv'
  <2>1. budget' \in Int /\ i' \in -1..N /\ subtotal' \in Int
    BY <1>1, <1>3 DEF Numbers, Index
  <2>2. QED
    BY <1>1, <2>1 DEF IInv, TypeInv
<1>7. Unsampling'
  <2>1. i' \in -1..(N - 2) /\ i' + 1 = N - 1
    BY <1>1
  <2>2. \A k \in Index : x'[k] = after'[round'][k] /\ (k <= i' \/ k = N - 1)
    BY <1>1, <1>2, <1>3 DEF Index
  <2>3. budget' = Left(round, i + 1)'
    BY <1>1, <1>2, <1>3, <1>5, <2>1 DEF Left
  <2>4. Sums(before[r])[N - 1] \in Int
    BY <1>5, SumsDef
  <2>5. subtotal' = Sums(before'[round'])[N - 1] - Sums(before'[round'])[i' + 1]
    BY <1>1, <1>2, <2>1, <2>4
  <2>6. QED
    BY <2>1, <2>2, <2>3, <2>5 DEF Unsampling
<1>8. QED
  BY <1>1, <1>4, <1>6, <1>7 DEF IInv, LoopInv

(* In the loop of gibbs_reverse_sample, what a coefficient has to share is *)
(* what it had to share in gibbs_sample, so it moves in the same range.    *)
LEMMA SameShare ==
  ASSUME IInv, pc = "unsample", i >= 0, NEW r \in RoundNums, r = round, NEW j \in Index, j = i
  PROVE  /\ j \in 0..(N - 2) /\ RoundOK(r) /\ x[j] = after[r][j]
         /\ Shared = shared[r][j] /\ Shared \in 0..(2 * V) /\ V \in Nat
         /\ Left(r, j) = Shared - before[r][j] /\ Left(r, j) \in 0..V
         /\ before[r][j] \in YMin(Shared)..YMax(Shared)
<1>1. Unsampling /\ RoundOK(r) /\ V \in Nat
  BY DEF IInv, LoopInv, TypeInv, Done, RoundNums
<1>2. j \in 0..(N - 2) /\ j + 1 \in 1..(N - 1)
  BY <1>1 DEF Unsampling, Index
<1>3. x[j] = after[r][j] /\ budget = Left(r, j + 1)
  BY <1>1, <1>2 DEF Unsampling
<1>4. SampledOK(r, j)
  BY <1>1, <1>2 DEF RoundOK
<1>5. before[r] \in Block /\ before[r][j] \in 0..V /\ before[r][N - 1] \in 0..V
  BY <1>1 DEF RoundOK, ShuffledOK, Block, Index
<1>6. Left(r, j) \in 0..V
  <2>1. CASE j = 0
    BY <1>5, <2>1 DEF Left
  <2>2. CASE j > 0
    <3>1. j - 1 \in 0..(N - 2) /\ j - 1 + 1 = j
      BY <1>2, <2>2
    <3>2. SampledOK(r, j - 1)
      BY <1>1, <3>1 DEF RoundOK
    <3>3. QED
      BY <3>1, <3>2 DEF SampledOK
  <2>3. QED
    BY <1>2, <2>1, <2>2
<1>7. shared[r][j] = Left(r, j) + before[r][j] /\ after[r][j] \in 0..V
  BY <1>4 DEF SampledOK
<1>8. shared[r][j] \in 0..(2 * V) /\ shared[r][j] - before[r][j] = Left(r, j)
  BY <1>1, <1>5, <1>6, <1>7
<1>9. Left(r, j + 1) = shared[r][j] - after[r][j]
  BY <1>2 DEF Left
<1>10. Shared = shared[r][j]
  BY <1>2, <1>3, <1>7, <1>8, <1>9 DEF Shared
<1>11. before[r][j] \in YMin(Shared)..YMax(Shared)
  BY <1>1, <1>5, <1>6, <1>8, <1>10, RangeFacts
<1>12. QED
  BY <1>1, <1>2, <1>3, <1>6, <1>8, <1>10, <1>11

(* One coefficient is moved back, and the budget goes back to what it was  *)
(* when gibbs_sample came to this coefficient.                             *)
LEMMA ReverseSampleKeeps ==
  ASSUME IInv, ReverseSample
  PROVE  IInv'
<1>1. /\ UNCHANGED <<V, round, sum, shuffles, randomness, plain, cipher, before, shared, after>>
      /\ UNCHANGED trail /\ UNCHANGED pc /\ pc = "unsample" /\ i' = i - 1 /\ i >= 0
  BY DEF ReverseSample, trail
<1>2. PICK r \in RoundNums, j \in Index : r = round /\ j = i
  BY <1>1 DEF IInv, TypeInv, LoopInv, Unsampling, Index
<1>3. Unsampling /\ x \in Numbers
  BY <1>1 DEF IInv, LoopInv, TypeInv
<1>4. PICK b \in 0..(2 * V) : b = Shared
  BY <1>1, <1>2, SameShare
<1>5. /\ j \in 0..(N - 2) /\ RoundOK(r) /\ x[j] = after[r][j]
      /\ b = shared[r][j] /\ V \in Nat
      /\ Left(r, j) = b - before[r][j]
      /\ before[r][j] \in YMin(b)..YMax(b) /\ SampledOK(r, j)
  <2>1. /\ j \in 0..(N - 2) /\ RoundOK(r) /\ x[j] = after[r][j]
        /\ b = shared[r][j] /\ V \in Nat
        /\ Left(r, j) = b - before[r][j]
        /\ before[r][j] \in YMin(b)..YMax(b)
    BY <1>1, <1>2, <1>4, SameShare
  <2>2. QED
    BY <2>1 DEF RoundOK
<1>6. PICK v, rnd :
        /\ rnd = randomness[r][j] /\ rnd \in Nat /\ v = Rotate(x[j], YRange(b) - (rnd % YRange(b)), b)
        /\ x' = [x EXCEPT ![j] = v] /\ budget' = b - v /\ subtotal' = subtotal + v
  BY <1>2, <1>4, <1>5 DEF ReverseSample, SampledOK
<1>7. v = before[r][j]
  <2>1. x[j] = Rotate(before[r][j], rnd % YRange(b), b)
    BY <1>5, <1>6 DEF SampledOK
  <2>2. Rotate(Rotate(before[r][j], rnd % YRange(b), b), YRange(b) - (rnd % YRange(b)), b) = before[r][j]
    BY <1>5, <1>6, RotateBack
  <2>3. QED
    BY <1>6, <2>1, <2>2
<1>8. before[r] \in Numbers /\ v \in Int /\ j \in Index
  BY <1>7 DEF IInv, TypeInv, Numbers
<1>9. x' \in Numbers /\ x'[j] = v /\ \A k \in Index \ {j} : x'[k] = x[k]
  BY <1>3, <1>6, <1>8 DEF Numbers
<1>10. TypeInv'
  <2>1. budget' \in Int /\ i' \in -1..N /\ subtotal' \in Int
    <3>1. V \in Nat /\ b \in Int /\ subtotal \in Int /\ j \in 0..(N - 2)
      BY <1>4, <1>5 DEF IInv, TypeInv
    <3>2. QED
      BY <1>1, <1>2, <1>6, <1>8, <3>1
  <2>2. QED
    BY <1>1, <1>9, <2>1 DEF IInv, TypeInv
<1>11. Unsampling'
  <2>1. i' = j - 1 /\ i' \in -1..(N - 2) /\ i' + 1 = j /\ round' = r
    BY <1>1, <1>2, <1>5
  <2>2. \A k \in Index : x'[k] = IF k <= i' \/ k = N - 1 THEN after'[round'][k] ELSE before'[round'][k]
    BY <1>1, <1>2, <1>3, <1>5, <1>7, <1>9, <2>1 DEF Unsampling, Index
  <2>3. Left(r, j)' = Left(r, j)
    BY <1>1 DEF Left
  <2>4. budget' = Left(round, i + 1)'
    <3>1. Left(round, i + 1)' = Left(r, j)'
      BY <2>1 DEF Left
    <3>2. QED
      BY <1>5, <1>6, <1>7, <2>3, <3>1
  <2>5. subtotal' = Sums(before[r])[N - 1] - Sums(before[r])[j]
    <3>1. subtotal = Sums(before[r])[N - 1] - Sums(before[r])[j + 1]
      BY <1>2, <1>3 DEF Unsampling
    <3>2. j + 1 \in 1..N /\ j + 1 - 1 = j /\ N - 1 \in 0..N /\ j \in 0..N
      BY <1>5
    <3>3. Sums(before[r])[j + 1] = Sums(before[r])[j] + before[r][j]
      BY <1>8, <3>2, SumsDef
    <3>4. Sums(before[r])[j] \in Int /\ Sums(before[r])[N - 1] \in Int
      BY <1>8, <3>2, SumsDef
    <3>5. QED
      BY <1>6, <1>7, <1>8, <3>1, <3>3, <3>4
  <2>6. subtotal' = Sums(before'[round'])[N - 1] - Sums(before'[round'])[i' + 1]
    BY <1>1, <2>1, <2>5
  <2>7. QED
    BY <2>1, <2>2, <2>4, <2>6 DEF Unsampling
<1>12. Done(Rounds)' /\ cipher' = Ciphertext' /\ sum' = Total(Start(0))'
  BY <1>1, DecryptionFrame
<1>13. QED
  BY <1>1, <1>10, <1>11, <1>12 DEF IInv, LoopInv

(* What gibbs_reverse_sample hands to fisheryates_unshuffle. *)
LEMMA Unsampled ==
  ASSUME IInv, pc = "unsample", i < 0, NEW r \in RoundNums, r = round
  PROVE  [x EXCEPT ![N - 1] = sum - subtotal] = before[r] /\ RoundOK(r)
<1>1. Unsampling /\ RoundOK(r) /\ x \in Numbers /\ before[r] \in Numbers
  BY DEF IInv, LoopInv, TypeInv, Done, RoundNums
<1>2. i + 1 = 0
  BY <1>1 DEF Unsampling
<1>3. N \in 1..N /\ N - 1 \in 0..N /\ N - 1 \in Index
  BY DEF Index
<1>4. Sums(before[r])[0] = 0 /\ Sums(before[r])[N] = Sums(before[r])[N - 1] + before[r][N - 1]
  BY <1>1, <1>3, SumsDef
<1>5. Sums(before[r])[N - 1] \in Int /\ before[r][N - 1] \in Int
  BY <1>1, <1>3, SumsDef DEF Numbers
<1>6. subtotal = Sums(before[r])[N - 1] /\ sum = Sums(before[r])[N]
  BY <1>1, <1>2, <1>4, <1>5 DEF Unsampling, RoundOK, ShuffledOK, Total
<1>7. sum - subtotal = before[r][N - 1]
  BY <1>4, <1>5, <1>6
<1>8. \A k \in Index \ {N - 1} : x[k] = before[r][k]
  BY <1>1, <1>2 DEF Unsampling, Index
<1>9. QED
  BY <1>1, <1>3, <1>7, <1>8 DEF Numbers

(* The block of the round before comes back, or at last the plaintext.     *)
LEMMA UnshuffleKeeps ==
  ASSUME IInv, Unshuffle
  PROVE  IInv'
<1>1. /\ UNCHANGED <<V, i, budget, subtotal, sum, shuffles, randomness, plain, cipher, before, shared, after>>
      /\ UNCHANGED trail /\ pc = "unsample" /\ i < 0
  BY DEF Unshuffle, trail
<1>2. PICK r \in RoundNums : r = round
  BY DEF IInv, TypeInv
<1>3. [x EXCEPT ![N - 1] = sum - subtotal] = before[r] /\ RoundOK(r)
  BY <1>1, <1>2, Unsampled
<1>4. PICK p \in Shuffles : p = shuffles[r] /\ before[r] = At(Start(r), p)
  BY <1>3 DEF RoundOK, ShuffledOK
<1>5. Start(r) \in Numbers
  <2>1. r > 0 => r - 1 \in RoundNums
    BY DEF RoundNums
  <2>2. QED
    BY <2>1 DEF Start, IInv, TypeInv, Numbers, RoundNums
<1>6. x' = [k \in Index |-> [x EXCEPT ![N - 1] = sum - subtotal][CHOOSE m \in Index : shuffles[round][m] = k]]
  BY Zenon DEF Unshuffle
<1>7. ASSUME NEW k \in Index PROVE x'[k] = Start(r)[k]
  <2>1. \E m \in Index : shuffles[round][m] = k
    BY <1>2, <1>4, ShufflesAssumption
  <2> DEFINE m == CHOOSE m \in Index : shuffles[round][m] = k
  <2>2. m \in Index /\ shuffles[round][m] = k
    BY <2>1
  <2>3. x'[k] = [x EXCEPT ![N - 1] = sum - subtotal][m]
    BY <1>6, Zenon
  <2> HIDE DEF m
  <2>4. x'[k] = before[r][m] /\ p[m] = k
    BY <1>2, <1>3, <1>4, <2>2, <2>3
  <2>5. QED
    BY <1>4, <2>2, <2>4 DEF At
<1>8. x' = Start(r)
  BY <1>5, <1>6, <1>7 DEF Numbers
<1>9. /\ Done(Rounds)' /\ cipher' = Ciphertext' /\ sum' = Total(Start(0))' /\ Start(0)' = Start(0)
  BY <1>1, DecryptionFrame
<1>10. CASE r > 0
  <2>1. round' = r - 1 /\ pc' = "reverse" /\ r - 1 \in RoundNums
    BY <1>2, <1>10 DEF Unshuffle, RoundNums
  <2>2. x' = after'[round']
    BY <1>1, <1>8, <1>10, <2>1 DEF Start
  <2>3. TypeInv'
    BY <1>1, <1>5, <1>8, <2>1 DEF IInv, TypeInv
  <2>4. QED
    BY <1>9, <2>1, <2>2, <2>3 DEF IInv, LoopInv
<1>11. CASE r = 0
  <2>1. round' = r /\ pc' = "restore" /\ x' = Start(0)'
    BY <1>2, <1>8, <1>9, <1>11 DEF Unshuffle
  <2>2. TypeInv'
    BY <1>1, <1>5, <1>8, <2>1 DEF IInv, TypeInv
  <2>3. QED
    BY <1>9, <2>1, <2>2 DEF IInv, LoopInv
<1>12. QED
  BY <1>10, <1>11 DEF RoundNums

(* postprocess_restore_range gives back the plaintext itself. *)
LEMMA DecryptedKeeps ==
  ASSUME IInv, Decrypted
  PROVE  IInv'
<1>1. /\ UNCHANGED <<V, round, i, budget, subtotal, sum, shuffles, randomness, plain, cipher, before, shared, after>>
      /\ UNCHANGED trail /\ pc = "restore" /\ pc' = "done"
      /\ x' = [k \in Index |-> x[k] + Vmin]
  BY DEF Decrypted, trail
<1>2. x = [k \in Index |-> plain[k] - Vmin] /\ plain \in [Index -> Vmin..(Vmin + V)]
  BY <1>1 DEF IInv, LoopInv, Start, TypeInv
<1>3. \A k \in Index : x'[k] = plain[k]
  BY <1>1, <1>2 DEF IInv, TypeInv
<1>4. x' = plain' /\ x' \in Numbers
  BY <1>1, <1>2, <1>3 DEF Numbers, IInv, TypeInv
<1>5. TypeInv'
  BY <1>1, <1>4 DEF IInv, TypeInv
<1>6. /\ Done(Rounds)' /\ cipher' = Ciphertext' /\ sum' = Total(Start(0))'
  BY <1>1, DecryptionFrame
<1>7. QED
  BY <1>1, <1>4, <1>5, <1>6 DEF IInv, LoopInv

(* The invariant speaks of nothing but the variables. *)
LEMMA StutterKeeps ==
  ASSUME IInv, UNCHANGED vars
  PROVE  IInv'
<1>1. /\ pc' = pc /\ V' = V /\ x' = x /\ round' = round /\ i' = i /\ budget' = budget
      /\ subtotal' = subtotal /\ sum' = sum /\ shuffles' = shuffles /\ randomness' = randomness
      /\ plain' = plain /\ cipher' = cipher /\ before' = before /\ shared' = shared /\ after' = after
  BY DEF vars
<1>2. TypeInv'
  BY <1>1 DEF IInv, TypeInv
<1>3. (\A q, k : Left(q, k)' = Left(q, k)) /\ (\A q : Start(q)' = Start(q))
  BY <1>1 DEF Left, Start
<1>4. \A q : ShuffledOK(q)' <=> ShuffledOK(q)
  BY <1>1, <1>3, Zenon DEF ShuffledOK, Block
<1>5. \A q, k : SampledOK(q, k)' <=> SampledOK(q, k)
  <2> SUFFICES ASSUME NEW q, NEW k PROVE SampledOK(q, k)' <=> SampledOK(q, k)
    OBVIOUS
  <2> DEFINE rotated == Rotate(before[q][k], randomness[q][k] % YRange(shared[q][k]), shared[q][k])
  <2>1. rotated' = rotated
    BY <1>1 DEF Rotate, YRange, YMin, YMax
  <2>2. (after[q][k] = rotated)' <=> after[q][k] = rotated
    BY <1>1, <2>1
  <2>3. QED
    BY <1>1, <1>3, <2>2 DEF SampledOK
<1>6. \A q : RoundOK(q)' <=> RoundOK(q)
  BY <1>1, <1>3, <1>4, <1>5, Zenon DEF RoundOK, Block
<1>7. Sampling => Sampling'
  <2>1. Done(round)' <=> Done(round)
    BY <1>1, <1>6, Zenon DEF Done
  <2>2. /\ ShuffledOK(round)' <=> ShuffledOK(round)
        /\ \A k : SampledOK(round, k)' <=> SampledOK(round, k)
        /\ \A k : Left(round, k)' = Left(round, k)
    BY <1>1, <1>3, <1>4, <1>5, Zenon
  <2>3. QED
    BY <1>1, <2>1, <2>2, Zenon DEF Sampling, Block
<1>8. Unsampling => Unsampling'
  BY <1>1, <1>3, Zenon DEF Unsampling
<1>9. LoopInv'
  <2>1. (\A n : Done(n)' <=> Done(n)) /\ Ciphertext' = Ciphertext
    BY <1>1, <1>6, Zenon DEF Done, Ciphertext
  <2>2. QED
    BY <1>1, <1>3, <1>7, <1>8, <2>1, Zenon DEF IInv, LoopInv, Block
<1>10. QED
  BY <1>2, <1>9 DEF IInv
-----------------------------------------------------------------------------
(* The invariant holds throughout. *)
THEOREM Invariance == Spec => []IInv
<1>1. Init => IInv
  BY Initially
<1>2. IInv /\ [Next]_vars => IInv'
  BY PreprocessKeeps, ShuffleKeeps, SampleKeeps, NextRoundKeeps, EncryptedKeeps, StartReverseKeeps,
     ReverseSampleKeeps, UnshuffleKeeps, DecryptedKeeps, StutterKeeps DEF Next
<1>3. QED
  BY <1>1, <1>2, PTL DEF Spec

(* For every block length, range, keystream and number of rounds, neither  *)
(* loop meets an empty range or a value outside the range it rotates in.   *)
THEOREM NoAbort == Spec => []NeverAborts
<1>1. IInv => NeverAborts
  <2> SUFFICES ASSUME IInv, (pc = "sample" /\ i < N) \/ (pc = "unsample" /\ i >= 0)
               PROVE  /\ YRange(Shared) > 0
                      /\ i < N - 1 /\ YRange(Shared) > 1 =>
                           /\ Shared <= 2 * V
                           /\ x[i] \in 0 .. V
                           /\ x[i] \in YMin(Shared) .. YMax(Shared)
    BY DEF NeverAborts
  <2>0. round \in RoundNums /\ i \in Index
    BY DEF IInv, TypeInv, LoopInv, Sampling, Unsampling, Index
  <2>1. PICK r \in RoundNums, j \in Index : r = round /\ j = i
    BY <2>0, Zenon
  <2>2. V \in Nat
    BY DEF IInv, TypeInv
  <2>3. Shared \in 0..(2 * V) /\ (j < N - 1 => x[j] \in 0..V /\ Shared - x[j] \in 0..V)
    <3>1. CASE pc = "sample" /\ i < N
      <4>1. budget \in 0..V /\ x[j] \in 0..V
        BY <2>1, <3>1 DEF IInv, LoopInv, Sampling, Block
      <4>2. Shared = IF j < N - 1 THEN budget + x[j] ELSE budget
        BY <2>1 DEF Shared
      <4>3. QED
        BY <2>2, <4>1, <4>2
    <3>2. CASE pc = "unsample" /\ i >= 0
      <4>1. /\ j \in 0..(N - 2) /\ RoundOK(r) /\ x[j] = after[r][j]
            /\ Shared = shared[r][j] /\ Shared \in 0..(2 * V)
        BY <2>1, <3>2, SameShare
      <4>2. after[r][j] \in 0..V /\ Left(r, j + 1) \in 0..V
        BY <4>1 DEF RoundOK, SampledOK
      <4>3. Left(r, j + 1) = shared[r][j] - after[r][j]
        BY <4>1 DEF Left
      <4>4. QED
        BY <4>1, <4>2, <4>3
    <3>3. QED
      BY <3>1, <3>2
  <2>4. YRange(Shared) \in Nat \ {0}
    BY <2>2, <2>3, RangeFacts
  <2>5. j < N - 1 => x[j] \in YMin(Shared)..YMax(Shared)
    BY <2>2, <2>3, RangeFacts
  <2>6. QED
    BY <2>1, <2>2, <2>3, <2>4, <2>5
<1>2. QED
  BY <1>1, Invariance, PTL

(* vmin is subtracted once and added once for every coefficient, so the    *)
(* ciphertext has the sum of the plaintext, not just of its positive form. *)
LEMMA SameSumWhenEncrypted ==
  ASSUME IInv, Encrypted
  PROVE  cipher' \in [Index -> Vmin .. Vmin + MaxV] /\ SameSum(plain, cipher')
<1>1. /\ x \in Block /\ Total(x) = sum /\ sum = Total(Start(0)) /\ x \in Numbers
      /\ V \in 0..MaxV /\ plain \in Numbers
  BY RoundComplete DEF Encrypted, IInv, LoopInv, TypeInv, Numbers
<1>2. cipher' = [k \in Index |-> x[k] + Vmin]
  BY DEF Encrypted
<1>3. cipher' \in [Index -> Vmin .. Vmin + MaxV]
  BY <1>1, <1>2 DEF Block
<1>4. Total(cipher') = Total(x) + N * Vmin
  BY <1>1, <1>2, SumsShift DEF Total
<1>5. Total(Start(0)) = Total(plain) + N * (- Vmin)
  <2> DEFINE d == - Vmin
  <2>1. d \in Int /\ \A z \in Int : z + d = z - Vmin
    OBVIOUS
  <2> HIDE DEF d
  <2>2. Sums([k \in Index |-> plain[k] + d])[N] = Sums(plain)[N] + N * d
    BY <1>1, <2>1, SumsShift
  <2>3. [k \in Index |-> plain[k] + d] = Start(0)
    BY <1>1, <2>1 DEF Start, Numbers
  <2>4. QED
    BY <2>2, <2>3 DEF Total, d
<1>6. Total(plain) \in Int /\ N * Vmin \in Int /\ N * (- Vmin) = - (N * Vmin)
  BY <1>1, SumsDef DEF Total
<1>7. QED
  BY <1>1, <1>3, <1>4, <1>5, <1>6 DEF SameSum

(* The two functions implement a cipher that keeps the sum of a block and  *)
(* gives the plaintext back: only the last step of either is visible.      *)
THEOREM Implementation == Spec => ImplementsBlockCipher
<1>1. Init => Caller!Init
  BY DEF Init, Caller!Init
<1>2. ASSUME IInv, [Next]_vars PROVE [Caller!Next]_Caller!vars
  <2>1. CASE Encrypted
    <3>1. pc = "sample" /\ pc' = "decrypt" /\ plain' = plain
      BY <2>1 DEF Encrypted
    <3>2. cipher' \in [Index -> Vmin .. Vmin + MaxV] /\ SameSum(plain, cipher')
      BY <1>2, <2>1, SameSumWhenEncrypted
    <3>3. QED
      BY <3>1, <3>2 DEF Caller!Next, Caller!Encrypt
  <2>2. CASE Decrypted
    <3>1. pc = "restore" /\ pc' = "done" /\ plain' = plain
      BY <2>2 DEF Decrypted
    <3>2. x' = plain
      BY <1>2, <2>2, <3>1, DecryptedKeeps DEF IInv, LoopInv
    <3>3. QED
      BY <3>1, <3>2 DEF Caller!Next, Caller!Decrypt
  <2>3. CASE Preprocess
    BY <2>3 DEF Preprocess, Caller!vars
  <2>4. CASE Shuffle
    BY <2>4 DEF Shuffle, Caller!vars
  <2>5. CASE Sample
    BY <2>5 DEF Sample, Caller!vars
  <2>6. CASE NextRound
    BY <2>6 DEF NextRound, Caller!vars
  <2>7. CASE StartReverse
    BY <2>7 DEF StartReverse, Caller!vars
  <2>8. CASE ReverseSample
    BY <2>8 DEF ReverseSample, Caller!vars
  <2>9. CASE Unshuffle
    BY <2>9 DEF Unshuffle, Caller!vars
  <2>10. CASE UNCHANGED vars
    BY <2>10 DEF vars, Caller!vars
  <2>11. QED
    BY <1>2, <2>1, <2>2, <2>3, <2>4, <2>5, <2>6, <2>7, <2>8, <2>9, <2>10 DEF Next
<1>3. QED
  BY <1>1, <1>2, Invariance, PTL DEF Spec, ImplementsBlockCipher, Caller!Spec
=============================================================================
