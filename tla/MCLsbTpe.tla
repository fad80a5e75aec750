------------------------------ MODULE MCLsbTpe ------------------------------
(***************************************************************************)
(* LsbTpe for blocks of three coefficients, so that a flip in one element  *)
(* can be taken back in a later one and a third is still to come.  Small   *)
(* coefficients of both signs give up to four varying bits; -1024 and 1023 *)
(* give all eleven.  The words flip some bits and all bits.  Data and      *)
(* keystream take every arrangement, so two orders stand for all.          *)
(***************************************************************************)
EXTENDS LsbTpe

MCSamples == {-1024, -5, 6, 1023}
MCKeyWords == {22, 2^16 - 1}
MCUserArgs == {-1, 3}
MCOrders == {<<1, 2, 3>>, <<3, 1, 2>>}
=============================================================================
