------------------------------- MODULE Gibbs -------------------------------
(***************************************************************************)
(* gibbs.c: the cipher that preserves the sum of a block.  Every round     *)
(* shuffles the block and then resamples it: each coefficient but the last *)
(* moves within the range that the running budget leaves it, and what is   *)
(* left of the budget goes to the last one.  Decryption undoes the rounds  *)
(* in reverse order, with the keystream of the same round.                 *)
(*                                                                         *)
(* One behaviour is an encryption and a decryption with the same vmin and  *)
(* vmax, as in tests/testgibbs.c.  The random numbers and the shuffles of  *)
(* a round are drawn when they are first used and looked up afterwards.    *)
(* An int holds every value here: |budget| <= 2 * (vmax - vmin) < 2^15.    *)
(***************************************************************************)
EXTENDS Integers

CONSTANTS
  N,        \* blocklen
  MaxV,     \* bound: the largest vmax - vmin
  Vmin,     \* vmin
  Rounds,   \* gibbs_num_rounds
  Shuffles, \* the rearrangements fisheryates_shuffle can perform
  Randoms   \* the values random_uints can produce

ASSUME GibbsAssumption ==
  /\ N \in Nat \ {0}
  /\ MaxV \in Nat
  /\ Vmin \in Int
  /\ Rounds \in Nat \ {0}
  /\ Randoms \subseteq Nat

Index == 0 .. N - 1
RoundNums == 0 .. Rounds - 1

ASSUME ShufflesAssumption ==
  \A p \in Shuffles : /\ p \in [Index -> Index]
                      /\ \A k, m \in Index : p[k] = p[m] => k = m
                      /\ \A m \in Index : \E k \in Index : p[k] = m

NoShuffle == [k \in Index |-> k]
NotDrawn == -1

VARIABLES
  pc,          \* where the two functions are, see Next
  V,           \* vmax - vmin
  x,           \* the block
  round, i,    \* loop indices
  budget,      \* what the coefficients visited so far may still give away
  subtotal,    \* of gibbs_reverse_sample
  sum,         \* what preprocess_make_positive returned
  shuffles,    \* the rearrangement of every round, from the round's nonce
  randomness,  \* random_uints of every round's resample nonce
  plain,       \* history: the block before encryption
  cipher,      \* history: the block after encryption
  before,      \* history: of every round, the block that is resampled,
  shared,      \*   what its coefficients had to share with the last one,
  after        \*   and the block it becomes

trail == <<before, shared, after>>
vars == <<pc, V, x, round, i, budget, subtotal, sum, shuffles, randomness,
          plain, cipher, before, shared, after>>

(* The sums of the first 0, 1, ..., N coefficients. *)
Sums(b) == LET S[k \in 0 .. N] == IF k = 0 THEN 0 ELSE S[k - 1] + b[k - 1]
           IN  S
Total(b) == Sums(b)[N]

Greater(a, b) == IF a > b THEN a ELSE b
Lesser(a, b) == IF a < b THEN a ELSE b

(* Mutants, here and below: plausible slips in the code that follows. *)
YMinNoFloor(b) == b - V
(* gibbs_sample and gibbs_reverse_sample are called with vmin = 0.  The    *)
(* range of a coefficient that shares the budget b with the last one.      *)
YMin(b) == Greater(0, b - V)
YMax(b) == Lesser(V, b)
YRange(b) == YMax(b) - YMin(b) + 1

(* What coefficient i and the last one have to share in this iteration.    *)
Shared == IF i < N - 1 THEN budget + x[i] ELSE budget

(* Move v by delta inside its range, around its end if need be. *)
Rotate(v, delta, b) == ((v - YMin(b) + delta) % YRange(b)) + YMin(b)

Init ==
  /\ pc = "encrypt"
  /\ V \in 0 .. MaxV
  /\ x \in [Index -> Vmin .. Vmin + V]
  /\ round = 0 /\ i = 0 /\ budget = 0 /\ subtotal = 0 /\ sum = 0
  /\ shuffles = [k \in RoundNums |-> NoShuffle]
  /\ randomness = [k \in RoundNums |-> [m \in Index |-> NotDrawn]]
  /\ plain = x
  /\ cipher = x
  /\ before = [k \in RoundNums |-> [m \in Index |-> 0]]
  /\ shared = before /\ after = before

(* preprocess_make_positive, called by both functions. *)
Preprocess ==
  /\ pc \in {"encrypt", "decrypt"}
  /\ x' = [k \in Index |-> x[k] - Vmin]
  /\ sum' = Total(x')
  /\ IF pc = "encrypt" THEN pc' = "shuffle" /\ round' = 0
                       ELSE pc' = "reverse" /\ round' = Rounds - 1
  /\ UNCHANGED <<V, i, budget, subtotal, shuffles, randomness, plain, cipher, trail>>

(* fisheryates_shuffle, then gibbs_sample up to its loop. *)
Shuffle ==
  /\ pc = "shuffle"
  /\ \E p \in Shuffles :
       /\ shuffles' = [shuffles EXCEPT ![round] = p]
       /\ x' = [k \in Index |-> x[p[k]]]
  /\ before' = [before EXCEPT ![round] = x']
  /\ i' = 0
  /\ budget' = x'[N - 1]
  /\ pc' = "sample"
  /\ UNCHANGED <<V, round, subtotal, sum, randomness, plain, cipher, shared, after>>

(* One iteration of the loop of gibbs_sample. *)
Sample ==
  /\ pc = "sample" /\ i < N
  /\ LET b == Shared
         Put(v) == x' = [x EXCEPT ![i] = v] /\ budget' = b - v
     IN  /\ \/ i = N - 1 /\ Put(b) /\ UNCHANGED randomness
            \/ /\ i < N - 1
               /\ \E rnd \in Randoms :
                    /\ Put(Rotate(x[i], rnd % YRange(b), b))
                    /\ randomness' = [randomness EXCEPT ![round][i] = rnd]
         /\ shared' = [shared EXCEPT ![round][i] = b]
  /\ after' = [after EXCEPT ![round][i] = x'[i]]
  /\ i' = i + 1
  /\ UNCHANGED <<pc, V, round, subtotal, sum, shuffles, plain, cipher, before>>

NextRound ==
  /\ pc = "sample" /\ i = N /\ round < Rounds - 1
  /\ round' = round + 1
  /\ pc' = "shuffle"
  /\ UNCHANGED <<V, x, i, budget, subtotal, sum, shuffles, randomness, plain, cipher, trail>>

(* postprocess_restore_range ends the encryption. *)
Encrypted ==
  /\ pc = "sample" /\ i = N /\ round = Rounds - 1
  /\ x' = [k \in Index |-> x[k] + Vmin]
  /\ cipher' = x'
  /\ pc' = "decrypt"
  /\ UNCHANGED <<V, round, i, budget, subtotal, sum, shuffles, randomness, plain, trail>>

(* gibbs_reverse_sample up to its loop. *)
StartReverse ==
  /\ pc = "reverse"
  /\ i' = N - 2
  /\ budget' = x[N - 1]
  /\ subtotal' = 0
  /\ pc' = "unsample"
  /\ UNCHANGED <<V, x, round, sum, shuffles, randomness, plain, cipher, trail>>

(* One iteration of the loop of gibbs_reverse_sample. *)
ReverseSample ==
  /\ pc = "unsample" /\ i >= 0
  /\ LET delta_inverse == YRange(Shared) - (randomness[round][i] % YRange(Shared))
         v == Rotate(x[i], delta_inverse, Shared)
     IN  /\ x' = [x EXCEPT ![i] = v]
         /\ budget' = Shared - v
         /\ subtotal' = subtotal + v
  /\ i' = i - 1
  /\ UNCHANGED <<pc, V, round, sum, shuffles, randomness, plain, cipher, trail>>

UnshuffleByShuffling ==
  /\ pc = "unsample" /\ i < 0
  /\ LET full == [x EXCEPT ![N - 1] = sum - subtotal]
     IN  x' = [k \in Index |-> full[shuffles[round][k]]]
  /\ IF round > 0 THEN round' = round - 1 /\ pc' = "reverse"
                  ELSE round' = round /\ pc' = "restore"
  /\ UNCHANGED <<V, i, budget, subtotal, sum, shuffles, randomness, plain, cipher, trail>>

(* gibbs_reverse_sample after its loop, then fisheryates_unshuffle. *)
Unshuffle ==
  /\ pc = "unsample" /\ i < 0
  /\ LET full == [x EXCEPT ![N - 1] = sum - subtotal]
         p    == shuffles[round]
     IN  x' = [k \in Index |-> full[CHOOSE m \in Index : p[m] = k]]
  /\ IF round > 0 THEN round' = round - 1 /\ pc' = "reverse"
                  ELSE round' = round /\ pc' = "restore"
  /\ UNCHANGED <<V, i, budget, subtotal, sum, shuffles, randomness, plain, cipher, trail>>

(* postprocess_restore_range ends the decryption. *)
Decrypted ==
  /\ pc = "restore"
  /\ x' = [k \in Index |-> x[k] + Vmin]
  /\ pc' = "done"
  /\ UNCHANGED <<V, round, i, budget, subtotal, sum, shuffles, randomness, plain, cipher, trail>>

Next ==
  \/ Preprocess
  \/ Shuffle \/ Sample \/ NextRound \/ Encrypted
  \/ StartReverse \/ ReverseSample \/ Unshuffle \/ Decrypted

(* One thread runs both functions, and nothing in them waits. *)
Spec == Init /\ [][Next]_vars /\ WF_vars(Next)
-----------------------------------------------------------------------------
(* Every iteration of both loops divides by a range that is not empty and  *)
(* passes the asserts: nothing reaches errx(1, "... range is empty").      *)
NeverAborts ==
  (pc = "sample" /\ i < N) \/ (pc = "unsample" /\ i >= 0) =>
    /\ YRange(Shared) > 0
    /\ i < N - 1 /\ YRange(Shared) > 1 =>
         /\ Shared <= 2 * V
         /\ x[i] \in 0 .. V
         /\ x[i] \in YMin(Shared) .. YMax(Shared)

(* A cipher block has the sum of its plaintext, and decryption with the    *)
(* same range gives the plaintext back, whatever the keystream is.         *)
SameSum(a, b) == Total(a) = Total(b)

Caller == INSTANCE BlockCipher WITH
  Blocks <- [Index -> Vmin .. Vmin + MaxV],
  Related <- SameSum,
  stage <- CASE pc \in {"encrypt", "shuffle", "sample"} -> "plain"
             [] pc = "done" -> "recovered" [] OTHER -> "cipher",
  block <- CASE pc \in {"encrypt", "shuffle", "sample"} -> plain
             [] pc = "done" -> x [] OTHER -> cipher

ImplementsBlockCipher == Caller!Spec
=============================================================================
