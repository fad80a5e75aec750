---------------------------- MODULE FisherYates ----------------------------
(***************************************************************************)
(* fisheryates.c: the keyed shuffle of one block of coefficients and its   *)
(* inverse.  shuffle.c and gibbs.c call fisheryates_shuffle when they      *)
(* encrypt and fisheryates_unshuffle when they decrypt, with the same key, *)
(* nonce and length; random_uints is a function of these, so both calls    *)
(* see the same array, here the variable randomness, chosen once.          *)
(*                                                                         *)
(* One behaviour is one encryption followed by one decryption.             *)
(***************************************************************************)
EXTENDS Integers, FiniteSets

CONSTANTS
  N,        \* datalen, the number of coefficients of the block
  Coefs,    \* the values a coefficient can take
  Randoms   \* the values random_uints can produce

ASSUME NAssumption == N \in Nat \ {0}
ASSUME RandomsAssumption == Randoms \subseteq Nat

Index == 0 .. N - 1
Block == [Index -> Coefs]
NoIndex == -1               \* a cell of malloc'd memory that nothing wrote yet

VARIABLES
  pc,          \* "shuffle", "draw" and "unshuffle" are the three loops
  data,        \* the block, rearranged in place
  i, r,        \* the loop index and the position in the random numbers
  j,           \* the swap partners that unshuffle computes up front
  randomness,  \* what random_uints(key, nonce, datalen) returns
  plain,       \* history: the block before the shuffle
  trail        \* history: trail[k] is the block when shuffle's index was k

vars == <<pc, data, i, r, j, randomness, plain, trail>>

Swap(b, k, m) == [b EXCEPT ![k] = b[m], ![m] = b[k]]

Init ==
  /\ data \in Block
  /\ randomness \in [Index -> Randoms]
  /\ pc = "shuffle"
  /\ i = N - 1
  /\ r = 0
  /\ j = [k \in Index |-> NoIndex]
  /\ plain = data
  /\ trail = [k \in Index |-> data]

(* One iteration of the loop of fisheryates_shuffle. *)
ShuffleSwap ==
  /\ pc = "shuffle" /\ i > 0
  /\ data' = Swap(data, i, randomness[r] % (i + 1))
  /\ r' = r + 1
  /\ i' = i - 1
  /\ trail' = [trail EXCEPT ![i - 1] = data']
  /\ UNCHANGED <<pc, j, randomness, plain>>

(* The loop ends; later, fisheryates_unshuffle starts from fresh locals. *)
StartUnshuffle ==
  /\ pc = "shuffle" /\ i = 0
  /\ pc' = "draw"
  /\ i' = N - 1
  /\ r' = 0
  /\ UNCHANGED <<data, j, randomness, plain, trail>>

(* Mutants, here and below: plausible slips in the code that follows.      *)
DrawIndexByPosition ==
  /\ pc = "draw" /\ i > 0
  /\ j' = [j EXCEPT ![i] = randomness[i] % (i + 1)]
  /\ r' = r + 1 /\ i' = i - 1
  /\ UNCHANGED <<pc, data, randomness, plain, trail>>

(* First loop of fisheryates_unshuffle: recompute every swap partner. *)
DrawIndex ==
  /\ pc = "draw" /\ i > 0
  /\ j' = [j EXCEPT ![i] = randomness[r] % (i + 1)]
  /\ r' = r + 1
  /\ i' = i - 1
  /\ UNCHANGED <<pc, data, randomness, plain, trail>>

StartSwapsOneLate ==
  /\ pc = "draw" /\ i = 0
  /\ pc' = "unshuffle"
  /\ i' = IF N > 1 THEN 2 ELSE 1
  /\ UNCHANGED <<data, r, j, randomness, plain, trail>>

StartSwaps ==
  /\ pc = "draw" /\ i = 0
  /\ pc' = "unshuffle"
  /\ i' = 1
  /\ UNCHANGED <<data, r, j, randomness, plain, trail>>

(* Second loop of fisheryates_unshuffle: undo the swaps, oldest last. *)
UnshuffleSwap ==
  /\ pc = "unshuffle" /\ i < N
  /\ data' = Swap(data, i, j[i])
  /\ i' = i + 1
  /\ UNCHANGED <<pc, r, j, randomness, plain, trail>>

Return ==
  /\ pc = "unshuffle" /\ i = N
  /\ pc' = "done"
  /\ UNCHANGED <<data, i, r, j, randomness, plain, trail>>

Next ==
  \/ ShuffleSwap \/ StartUnshuffle
  \/ DrawIndex \/ StartSwaps
  \/ UnshuffleSwap \/ Return

(* Both functions are straight-line loops of one thread: it keeps running. *)
Spec == Init /\ [][Next]_vars /\ WF_vars(Next)

-----------------------------------------------------------------------------
TypeOK ==
  /\ pc \in {"shuffle", "draw", "unshuffle", "done"}
  /\ data \in Block
  /\ plain \in Block
  /\ randomness \in [Index -> Randoms]
  /\ i \in 0 .. N
  /\ r \in 0 .. N - 1
  /\ j \in [Index -> Index \cup {NoIndex}]
  /\ trail \in [Index -> Block]

(* Decryption gives back the block: the swaps of fisheryates_unshuffle are *)
(* those of fisheryates_shuffle, with the same partners, in reverse order. *)
Recovered == pc = "done" => data = plain

(* Position k of the block always meets the same random number: the one    *)
(* the shuffle consumed for it is the one the unshuffle computes j[k] from.*)
PartnersAgree ==
  pc = "unshuffle" =>
    \A k \in 1 .. N - 1 : /\ j[k] \in 0 .. k
                          /\ trail[k - 1] = Swap(trail[k], k, j[k])

(* Seen from the caller, the two functions are a block cipher whose        *)
(* ciphertext is a rearrangement of the plaintext.                         *)
Rearranged(a, b) ==
  \E p \in [Index -> Index] : /\ \A k, m \in Index : p[k] = p[m] => k = m
                             /\ b = [k \in Index |-> a[p[k]]]

Caller == INSTANCE BlockCipher WITH
  Blocks <- Block,
  Related <- Rearranged,
  stage <- CASE pc = "shuffle" -> "plain" [] pc = "done" -> "recovered"
             [] OTHER -> "cipher",
  block <- CASE pc = "shuffle" -> plain [] pc = "done" -> data
             [] OTHER -> trail[0]

ImplementsBlockCipher == Caller!Spec
=============================================================================
