------------------------------ MODULE MCGibbs ------------------------------
(***************************************************************************)
(* Gibbs for blocks of three coefficients and two rounds, which is where   *)
(* the order of the rounds starts to matter.  0 .. MaxV holds every residue*)
(* modulo every possible range of a coefficient.                           *)
(***************************************************************************)
EXTENDS Gibbs

MCShuffles == {p \in [Index -> Index] :
                 \/ p[0] = 0 /\ {p[1], p[2]} = {1, 2}
                 \/ p[0] = 1 /\ p[1] = 2 /\ p[2] = 0}
MCRandoms == 0 .. MaxV
MCVmin == -1
=============================================================================
