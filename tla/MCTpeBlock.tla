----------------------------- MODULE MCTpeBlock -----------------------------
(***************************************************************************)
(* TpeBlock for blocks of one and two coefficients: two are enough for any *)
(* range, since the range functions look at the least and the greatest.    *)
(* The samples are both ends of a coefficient, both sides of the powers of *)
(* two where the number of bits changes, and a few in between; the words   *)
(* flip no bit, single bits, all bits.                                     *)
(***************************************************************************)
EXTENDS TpeBlock

MCACs == {-1023, -513, -512, -4, -3, -1, 0, 1, 2, 3, 511, 600, 1023}
MCDCs == (MCACs \ {-513, 600}) \cup {-1024, 5, 6}
MCKeyWords == {0, 1, 2, 3, 6, 1023, 2^15, 2^16 - 1}
MCUserArgs == {0, 1, 3, 11, 16}
=============================================================================
