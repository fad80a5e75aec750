------------------------- MODULE FisherYatesProofs -------------------------
(***************************************************************************)
(* For every block length, every set of coefficients and every keystream:  *)
(* fisheryates_unshuffle gives back the block that fisheryates_shuffle was *)
(* given.  The argument is the history variable trail: it holds the block  *)
(* at each index of the shuffle, and the unshuffle walks it backwards.     *)
(***************************************************************************)
EXTENDS FisherYates, TLAPS

Partner(k) == randomness[N - 1 - k] % (k + 1)

(* trail, from index m up to N - 1, is the course the shuffle took. *)
Course(m) ==
  /\ trail[N - 1] = plain
  /\ \A k \in m + 1 .. N - 1 : trail[k - 1] = Swap(trail[k], k, Partner(k))

PartnersFrom(m) == \A k \in m .. N - 1 : j[k] = Partner(k)

(* What each loop has done when its index is i: trail and the swap         *)
(* partners together say how to get back from data to plain, which neither *)
(* Recovered nor PartnersAgree does before the last step.                  *)
LoopInv ==
  /\ pc = "shuffle" => /\ i \in Index
                       /\ r = N - 1 - i
                       /\ data = trail[i]
                       /\ Course(i)
  /\ pc = "draw" => /\ i \in Index
                    /\ r = N - 1 - i
                    /\ data = trail[0]
                    /\ Course(0)
                    /\ PartnersFrom(i + 1)
  /\ pc = "unshuffle" => /\ i \in 1 .. N
                         /\ data = trail[i - 1]
                         /\ Course(0)
                         /\ PartnersFrom(1)
  /\ pc = "done" => data = plain

IInv == TypeOK /\ LoopInv

(* Exchanging two positions of a block gives a block. *)
LEMMA SwapType ==
  ASSUME NEW b \in Block, NEW k \in Index, NEW m \in Index
  PROVE  Swap(b, k, m) \in Block
BY DEF Swap, Block

(* Exchanging the same two positions again undoes the exchange. *)
LEMMA SwapTwice ==
  ASSUME NEW b \in Block, NEW k \in Index, NEW m \in Index
  PROVE  Swap(Swap(b, k, m), k, m) = b
BY DEF Swap, Block

(* The swap partner of position k is one of the positions 0 .. k. *)
LEMMA PartnerType ==
  ASSUME TypeOK, NEW k \in 1 .. N - 1
  PROVE  /\ Partner(k) \in 0 .. k
         /\ Partner(k) \in Index
<1>1. N - 1 - k \in Index
  BY NAssumption DEF Index
<1>2. randomness[N - 1 - k] \in Nat
  BY <1>1, RandomsAssumption DEF TypeOK
<1>3. Partner(k) \in 0 .. k
  BY <1>2 DEF Partner
<1>4. QED
  BY <1>3, NAssumption DEF Index

LEMMA InitInv == Init => IInv
BY NAssumption DEF Init, IInv, TypeOK, LoopInv, Course, Block, Index

LEMMA ShuffleSwapInv == IInv /\ ShuffleSwap => IInv'
<1> SUFFICES ASSUME IInv, ShuffleSwap PROVE IInv'
  OBVIOUS
<1> USE NAssumption
<1>1. i \in 1 .. N - 1 /\ r = N - 1 - i /\ data = trail[i] /\ Course(i)
  BY DEF IInv, LoopInv, ShuffleSwap, Index
<1>2. data' = Swap(data, i, Partner(i)) /\ Partner(i) \in Index
  BY <1>1, PartnerType DEF IInv, ShuffleSwap, Partner
<1>3. data' \in Block /\ i \in Index /\ i - 1 \in Index /\ i' = i - 1
  BY <1>1, <1>2, SwapType DEF IInv, TypeOK, ShuffleSwap, Index
<1>4. TypeOK'
  BY <1>1, <1>3 DEF IInv, TypeOK, ShuffleSwap, Index
<1>5. trail' = [trail EXCEPT ![i - 1] = data'] /\ trail \in [Index -> Block]
  BY DEF IInv, TypeOK, ShuffleSwap
<1>6. Course(i)'
  <2>1. \A k \in i .. N - 1 : trail'[k] = trail[k] /\ k \in Index
    BY <1>1, <1>5 DEF Index
  <2>2. trail'[i - 1] = data'
    BY <1>3, <1>5
  <2>3. trail'[N - 1] = plain'
    BY <2>1, <1>1 DEF Course, ShuffleSwap
  <2>4. ASSUME NEW k \in i .. N - 1
        PROVE  trail'[k - 1] = Swap(trail'[k], k, Partner(k)')
    <3>1. Partner(k)' = Partner(k)
      BY DEF Partner, ShuffleSwap
    <3>2. CASE k = i
      BY <3>1, <3>2, <2>1, <2>2, <1>1, <1>2
    <3>3. CASE k # i
      <4>1. k \in i + 1 .. N - 1 /\ k - 1 \in i .. N - 1
        BY <3>3, <1>1
      <4>2. QED
        BY <4>1, <3>1, <2>1, <1>1 DEF Course
    <3>4. QED
      BY <3>2, <3>3
  <2>5. QED
    BY <2>3, <2>4, <1>1, <1>3 DEF Course
<1>7. LoopInv'
  <2>1. pc' = "shuffle" /\ r' = N - 1 - i'
    BY <1>1, <1>3 DEF ShuffleSwap
  <2>2. data' = trail'[i']
    BY <1>3, <1>5
  <2>3. QED
    BY <2>1, <2>2, <1>3, <1>6 DEF LoopInv
<1>8. QED
  BY <1>4, <1>7 DEF IInv

LEMMA StartUnshuffleInv == IInv /\ StartUnshuffle => IInv'
<1> SUFFICES ASSUME IInv, StartUnshuffle PROVE IInv'
  OBVIOUS
<1>1. i = 0 /\ i' = N - 1 /\ r' = 0 /\ pc' = "draw" /\ data' = trail'[0]
  BY DEF IInv, LoopInv, StartUnshuffle
<1>2. TypeOK'
  BY <1>1, NAssumption DEF IInv, TypeOK, StartUnshuffle, Index
<1>3. Course(0)'
  BY <1>1, NAssumption DEF IInv, LoopInv, StartUnshuffle, Course, Partner
<1>4. PartnersFrom(i + 1)'
  BY <1>1, NAssumption DEF PartnersFrom
<1>5. QED
  BY <1>1, <1>2, <1>3, <1>4, NAssumption DEF IInv, LoopInv, Index

LEMMA DrawIndexInv == IInv /\ DrawIndex => IInv'
<1> SUFFICES ASSUME IInv, DrawIndex PROVE IInv'
  OBVIOUS
<1> USE NAssumption
<1>1. i \in 1 .. N - 1 /\ r = N - 1 - i /\ data = trail[0]
  BY DEF IInv, LoopInv, DrawIndex, Index
<1>2. j' = [j EXCEPT ![i] = Partner(i)] /\ Partner(i) \in Index
  BY <1>1, PartnerType DEF IInv, DrawIndex, Partner
<1>3. i' = i - 1 /\ r' = r + 1 /\ pc' = "draw" /\ data' = trail'[0]
  BY <1>1 DEF DrawIndex
<1>4. TypeOK'
  BY <1>1, <1>2, <1>3 DEF IInv, TypeOK, DrawIndex, Index
<1>5. Course(0)'
  BY DEF IInv, LoopInv, DrawIndex, Course, Partner
<1>6. PartnersFrom(i + 1)'
  <2>1. PartnersFrom(i + 1) /\ j \in [Index -> Index \cup {NoIndex}]
    BY DEF IInv, TypeOK, LoopInv, DrawIndex
  <2>2. ASSUME NEW k \in i .. N - 1 PROVE j'[k] = Partner(k)'
    BY <2>1, <1>1, <1>2 DEF PartnersFrom, Partner, DrawIndex, Index
  <2>3. QED
    BY <2>2, <1>1, <1>3 DEF PartnersFrom
<1>7. QED
  BY <1>1, <1>3, <1>4, <1>5, <1>6 DEF IInv, LoopInv, Index

LEMMA StartSwapsInv == IInv /\ StartSwaps => IInv'
<1> SUFFICES ASSUME IInv, StartSwaps PROVE IInv'
  OBVIOUS
<1>1. i = 0 /\ i' = 1 /\ pc' = "unshuffle" /\ data' = trail'[0]
  BY DEF IInv, LoopInv, StartSwaps
<1>2. TypeOK'
  BY <1>1, NAssumption DEF IInv, TypeOK, StartSwaps
<1>3. Course(0)' /\ PartnersFrom(1)'
  BY <1>1 DEF IInv, LoopInv, StartSwaps, Course, PartnersFrom, Partner
<1>4. QED
  BY <1>1, <1>2, <1>3, NAssumption DEF IInv, LoopInv

LEMMA UnshuffleSwapInv == IInv /\ UnshuffleSwap => IInv'
<1> SUFFICES ASSUME IInv, UnshuffleSwap PROVE IInv'
  OBVIOUS
<1> USE NAssumption
<1>1. i \in 1 .. N - 1 /\ i \in Index /\ data = trail[i - 1]
  BY DEF IInv, LoopInv, UnshuffleSwap, Index
<1>2. Course(0) /\ PartnersFrom(1)
  BY DEF IInv, LoopInv, UnshuffleSwap
<1>3. j[i] = Partner(i) /\ Partner(i) \in Index
  BY <1>1, <1>2, PartnerType DEF IInv, PartnersFrom
<1>4. trail[i] \in Block
  BY <1>1 DEF IInv, TypeOK
<1>5. data = Swap(trail[i], i, Partner(i))
  BY <1>1, <1>2 DEF Course
<1>6. data' = trail[i]
  <2>1. data' = Swap(data, i, Partner(i))
    BY <1>3 DEF UnshuffleSwap
  <2>2. Swap(Swap(trail[i], i, Partner(i)), i, Partner(i)) = trail[i]
    BY <1>1, <1>3, <1>4, SwapTwice, ZenonT(60)
  <2>3. QED
    BY <2>1, <2>2, <1>5
<1>7. TypeOK'
  BY <1>1, <1>4, <1>6 DEF IInv, TypeOK, UnshuffleSwap
<1>8. (Course(0) /\ PartnersFrom(1))'
  BY <1>2 DEF UnshuffleSwap, Course, PartnersFrom, Partner
<1>9. QED
  BY <1>1, <1>6, <1>7, <1>8 DEF IInv, LoopInv, UnshuffleSwap

LEMMA ReturnInv == IInv /\ Return => IInv'
BY NAssumption DEF IInv, TypeOK, LoopInv, Return, Course

(* IInv is inductive and so holds in every reachable state. *)
LEMMA Invariance == Spec => []IInv
<1>1. IInv /\ UNCHANGED vars => IInv'
  BY DEF IInv, TypeOK, LoopInv, Course, PartnersFrom, Partner, vars
<1>2. IInv /\ [Next]_vars => IInv'
  BY <1>1, ShuffleSwapInv, StartUnshuffleInv, DrawIndexInv, StartSwapsInv,
     UnshuffleSwapInv, ReturnInv DEF Next
<1>3. QED
  BY InitInv, <1>2, PTL DEF Spec

(* Every access of both functions stays inside the block, the array of     *)
(* random numbers and the array of swap partners.                          *)
THEOREM TypeCorrect == Spec => []TypeOK
BY Invariance, PTL DEF IInv

(* fisheryates_unshuffle inverts fisheryates_shuffle: whatever the block   *)
(* and the keystream are, decryption returns the block encryption got.     *)
THEOREM UnshuffleInvertsShuffle == Spec => []Recovered
<1>1. IInv => Recovered
  BY DEF IInv, LoopInv, Recovered
<1>2. QED
  BY Invariance, <1>1, PTL

(* The two functions consume the keystream in the same order: position k   *)
(* gets the same swap partner from each of them.                           *)
THEOREM SamePartners == Spec => []PartnersAgree
<1>1. IInv => PartnersAgree
  BY PartnerType DEF IInv, LoopInv, PartnersFrom, Course, PartnersAgree
<1>2. QED
  BY Invariance, <1>1, PTL

-----------------------------------------------------------------------------
(* Exchanging two positions of a rearrangement leaves a rearrangement.     *)
LEMMA SwapRearranges ==
  ASSUME NEW a \in Block, NEW b \in Block, Rearranged(a, b),
         NEW k \in Index, NEW m \in Index
  PROVE  Rearranged(a, Swap(b, k, m))
<1>1. PICK p \in [Index -> Index] :
         /\ \A s, t \in Index : p[s] = p[t] => s = t
         /\ b = [s \in Index |-> a[p[s]]]
  BY DEF Rearranged
<1> DEFINE q == [p EXCEPT ![k] = p[m], ![m] = p[k]]
<1>2. q \in [Index -> Index]
  OBVIOUS
<1>3. \A s, t \in Index : q[s] = q[t] => s = t
  BY <1>1
<1>4. Swap(b, k, m) = [s \in Index |-> a[q[s]]]
  BY <1>1 DEF Swap, Block
<1>5. QED
  BY <1>2, <1>3, <1>4 DEF Rearranged

RInv == IInv /\ Rearranged(plain, data)

(* At every step of either function the block is a rearrangement of plain. *)
LEMMA StaysRearranged == Spec => []RInv
<1>1. Init => Rearranged(plain, data)
  <2> SUFFICES ASSUME Init PROVE Rearranged(plain, data)
    OBVIOUS
  <2> DEFINE p == [k \in Index |-> k]
  <2>1. p \in [Index -> Index] /\ \A k, m \in Index : p[k] = p[m] => k = m
    OBVIOUS
  <2>2. data = [k \in Index |-> plain[p[k]]]
    BY DEF Init, Block
  <2>3. QED
    BY <2>1, <2>2 DEF Rearranged
<1>2. ASSUME RInv, [Next]_vars PROVE Rearranged(plain, data)'
  <2> USE DEF RInv
  <2>1. plain' = plain
    BY <1>2 DEF Next, ShuffleSwap, StartUnshuffle, DrawIndex, StartSwaps,
                UnshuffleSwap, Return, vars
  <2>2. CASE ShuffleSwap
    <3>1. i \in 1 .. N - 1 /\ i \in Index /\ r = N - 1 - i
      BY <1>2, <2>2, NAssumption DEF IInv, LoopInv, ShuffleSwap, Index
    <3>2. data' = Swap(data, i, Partner(i)) /\ Partner(i) \in Index
      BY <1>2, <2>2, <3>1, PartnerType DEF IInv, ShuffleSwap, Partner
    <3>3. Rearranged(plain, Swap(data, i, Partner(i)))
      BY <1>2, <3>1, <3>2, SwapRearranges DEF IInv, TypeOK
    <3>4. QED
      BY <2>1, <3>2, <3>3 DEF Rearranged
  <2>3. CASE UnshuffleSwap
    <3>1. i \in 1 .. N - 1 /\ i \in Index
      BY <1>2, <2>3, NAssumption DEF IInv, LoopInv, UnshuffleSwap, Index
    <3>2. data' = Swap(data, i, j[i]) /\ j[i] \in Index
      BY <1>2, <2>3, <3>1, PartnerType
         DEF IInv, LoopInv, PartnersFrom, UnshuffleSwap
    <3>3. Rearranged(plain, Swap(data, i, j[i]))
      BY <1>2, <3>1, <3>2, SwapRearranges DEF IInv, TypeOK
    <3>4. QED
      BY <2>1, <3>2, <3>3 DEF Rearranged
  <2>4. CASE data' = data
    BY <1>2, <2>1, <2>4 DEF Rearranged
  <2>5. QED
    BY <1>2, <2>2, <2>3, <2>4
       DEF Next, StartUnshuffle, DrawIndex, StartSwaps, Return, vars
<1>3. QED
  BY <1>1, <1>2, Invariance, PTL DEF Spec, RInv

(* The two functions implement the abstract block cipher: what the caller  *)
(* sees is one step to a rearrangement and one step back to the plaintext. *)
THEOREM Implementation == Spec => ImplementsBlockCipher
<1> DEFINE stage == CASE pc = "shuffle" -> "plain" [] pc = "done" -> "recovered"
                      [] OTHER -> "cipher"
           block == CASE pc = "shuffle" -> plain [] pc = "done" -> data
                      [] OTHER -> trail[0]
<1>1. Init => Caller!Init
  <2>1. Init => stage = "plain" /\ block = plain /\ plain \in Block
    BY DEF Init
  <2>2. QED
    BY <2>1 DEF Caller!Init
<1>2. ASSUME RInv, [Next]_vars PROVE [Caller!Next]_(Caller!vars)
  <2> USE DEF RInv
  <2>1. CASE ShuffleSwap
    <3>1. stage = "plain" /\ stage' = "plain" /\ block = plain
          /\ block' = plain /\ plain' = plain
      BY <2>1 DEF ShuffleSwap
    <3>2. QED
      BY <3>1 DEF Caller!vars
  <2>2. CASE StartUnshuffle
    <3>1. stage = "plain" /\ stage' = "cipher" /\ plain' = plain
      BY <2>2 DEF StartUnshuffle
    <3>2. block' = data /\ data \in Block
      BY <1>2, <2>2 DEF StartUnshuffle, IInv, LoopInv, TypeOK
    <3>3. Rearranged(plain, block')
      BY <1>2, <3>2
    <3>4. QED
      BY <3>1, <3>2, <3>3 DEF Caller!Next, Caller!Encrypt
  <2>3. CASE Return
    <3>1. stage = "cipher" /\ stage' = "recovered" /\ plain' = plain
      BY <2>3 DEF Return
    <3>2. block' = plain
      BY <1>2, <2>3, ReturnInv DEF Return, IInv, LoopInv
    <3>3. QED
      BY <3>1, <3>2 DEF Caller!Next, Caller!Decrypt
  <2>4. CASE DrawIndex \/ StartSwaps \/ UnshuffleSwap
    <3>1. stage = "cipher" /\ stage' = "cipher" /\ plain' = plain /\ block' = block
      BY <2>4 DEF DrawIndex, StartSwaps, UnshuffleSwap
    <3>2. QED
      BY <3>1 DEF Caller!vars
  <2>5. CASE UNCHANGED vars
    BY <2>5 DEF vars, Caller!vars
  <2>6. QED
    BY <1>2, <2>1, <2>2, <2>3, <2>4, <2>5 DEF Next
<1>3. QED
  BY <1>1, <1>2, StaysRearranged, PTL
     DEF Spec, ImplementsBlockCipher, Caller!Spec
=============================================================================
