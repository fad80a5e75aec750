---------------------------- MODULE BlockCipher ----------------------------
(***************************************************************************)
(* What an encryption method promises for one block of coefficients: the   *)
(* ciphertext stands in a given relation to the plaintext (what the method *)
(* preserves: the coefficients, their sum, their range), and decryption    *)
(* gives the plaintext back.  The intermediate blocks are nobody's affair. *)
(***************************************************************************)
CONSTANTS
  Blocks,       \* the blocks the method accepts
  Related(_, _) \* what holds of a plaintext and its ciphertext

VARIABLES
  stage,   \* "plain", "cipher", "recovered"
  block,   \* the block as the caller sees it after the last call returned
  plain    \* the block before the first call

vars == <<stage, block, plain>>

Init == stage = "plain" /\ block \in Blocks /\ plain = block

Encrypt ==
  /\ stage = "plain" /\ stage' = "cipher"
  /\ block' \in Blocks
  /\ Related(plain, block')
  /\ UNCHANGED plain

Decrypt ==
  /\ stage = "cipher" /\ stage' = "recovered"
  /\ block' = plain
  /\ UNCHANGED plain

Next == Encrypt \/ Decrypt

Spec == Init /\ [][Next]_vars
=============================================================================
