------------------------------- MODULE MCTpe -------------------------------
(***************************************************************************)
(* Tpe for every image of two components of up to three by three blocks    *)
(* and every block size up to three blocks: exact fits, borders that cut a *)
(* block, and blocks larger than a component.  The cipher adds to every    *)
(* coefficient an amount that depends on the whole tweak and on the place. *)
(***************************************************************************)
EXTENDS Tpe, FiniteSets

MCCoefs == 0 .. 6
MCImage(k, n, f) == (3 * k + n + 2 * f) % 7

Amount(t, k) == 1 + ((t[1] + 2 * t[2] + 3 * t[3] + 5 * t[4] + k[2]) % 6)

MCCrypt(ps, t, b) ==
  [k \in DOMAIN b |-> IF ps = "encrypt" THEN (b[k] + Amount(t, k)) % 7
                                         ELSE (b[k] - Amount(t, k)) % 7]
=============================================================================
