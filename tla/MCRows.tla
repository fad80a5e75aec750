------------------------------- MODULE MCRows -------------------------------
(* Both sides: a behaviour decompresses a display or compresses a source.  *)
EXTENDS OutputRows, InputRows

CONSTANTS MaxH
VARIABLE side

Of(v, D, fancy) == [v |-> v, D |-> D, fancy |-> fancy]
Display(h, m, v, comp, up, quant) == [H |-> h, M |-> m, maxv |-> v, comp |-> comp, up |-> up, quant |-> quant]
Quants == {"none", "1pass", "2pass"}

MCDisplays ==
    {Display(h, m, 2, <<Of(2, m, FALSE), Of(1, m, f)>>, "sep", q) :
        h \in 1..MaxH, m \in 2..3, f \in BOOLEAN, q \in Quants}
    \cup {Display(h, 2, 4, <<Of(4, 2, FALSE), Of(2, 2, TRUE)>>, "sep", q) : h \in {1, 3, 7, 8, 9, MaxH}, q \in Quants}
    \cup {Display(h, m, 2, <<Of(2, m, FALSE), Of(1, 2 * m, FALSE), Of(1, m, TRUE)>>, "sep", "none") : h \in 1..MaxH, m \in 1..2}
    \cup {Display(h, m, v, <<Of(v, m, FALSE), Of(1, m, FALSE)>>, "merged", q) :
        h \in 1..MaxH, m \in 1..2, v \in 1..2, q \in Quants}

Factors(h, v) == [h |-> h, v |-> v]
MCSources ==
    {[h |-> h, samp |-> s, smooth |-> b] :
        h \in 1..MaxH, b \in BOOLEAN,
        s \in {<<Factors(1, 1)>>, <<Factors(2, 2), Factors(1, 1)>>, <<Factors(2, 1), Factors(1, 1)>>,
               <<Factors(1, 2), Factors(1, 1)>>, <<Factors(2, 3), Factors(2, 1)>>,
               <<Factors(4, 4), Factors(2, 2), Factors(1, 1)>>}}

(* The other side stays where it starts. *)
Init == \/ InitOutput /\ side = "output" /\ source = (CHOOSE s \in Sources : TRUE) /\ InputStart
        \/ InitInput /\ side = "input" /\ display = (CHOOSE d \in Displays : TRUE) /\ OutputStart
Next == \/ side = "output" /\ NextOutput /\ UNCHANGED <<cvars, side>>
        \/ side = "input" /\ NextInput /\ UNCHANGED <<dvars, side>>
vars == <<dvars, cvars, side>>
Spec == Init /\ [][Next]_vars
=============================================================================
