----------------------------- MODULE BlockArray -----------------------------
(***************************************************************************)
(* What libjpeg's memory manager promises the users of a virtual array:    *)
(* an array of rows that keeps what is written to it, whatever part of it  *)
(* is in memory.  Rows of an array requested with pre_zero read as zero    *)
(* before they are written; those of other arrays may not be read.         *)
(***************************************************************************)
EXTENDS Integers

CONSTANTS Arrays, Values, Zero, Undefined, MaxRows

VARIABLE contents   \* contents[a] : the rows of array a, from row 0

NoRows == [r \in 0..-1 |-> Zero]

Init == contents = [a \in Arrays |-> NoRows]

\* A new array reads as zero or may not be read.
Create(a) == /\ contents[a] = NoRows
             /\ \E n \in 1..MaxRows, fresh \in {Zero, Undefined} :
                  contents' = [contents EXCEPT ![a] = [r \in 0..n-1 |-> fresh]]

Write(a) == \E first, last \in DOMAIN contents[a] :
              \E new \in [first..last -> Values] :
                contents' = [contents EXCEPT ![a] =
                  [r \in DOMAIN @ |-> IF r \in first..last THEN new[r] ELSE @[r]]]

Drop == contents' = [a \in Arrays |-> NoRows]

Next == Drop \/ \E a \in Arrays : Create(a) \/ Write(a)

Spec == Init /\ [][Next]_contents
=============================================================================
