-------------------------- MODULE MCCoefController --------------------------
EXTENDS CoefController

CONSTANTS W, H, TransW, TransH
Grey == <<[h |-> 1, v |-> 1]>>
GreyTall == <<[h |-> 2, v |-> 2]>>
Colour420 == <<[h |-> 2, v |-> 2], [h |-> 1, v |-> 1]>>
Colour422 == <<[h |-> 2, v |-> 1], [h |-> 1, v |-> 1]>>
Uneven == <<[h |-> 3, v |-> 1], [h |-> 2, v |-> 2]>>
Big == <<[h |-> 3, v |-> 3], [h |-> 2, v |-> 1]>>

Samplings == {Grey, GreyTall, Colour420, Colour422, Uneven, Big}
Images == {[w |-> w, h |-> h, samp |-> s] : w \in 1..W, h \in 1..H, s \in Samplings}
Fits(i) == blocks_in_MCU(i, [c \in 1..Len(i.samp) |-> c]) <= MAX_BLOCKS_IN_MCU
Together(i) == <<[c \in 1..Len(i.samp) |-> c]>>
Apart(i) == [c \in 1..Len(i.samp) |-> <<c>>]

Full == <<[h |-> 2, v |-> 2], [h |-> 1, v |-> 2], [h |-> 1, v |-> 1]>>
Plain == [transform |-> "NONE", trim |-> FALSE, grey |-> FALSE]

MCPictures == {[img |-> i, src |-> i, scans |-> s, way |-> w, xf |-> Plain] :
                  i \in Images, s \in {<<<<1>>>>, <<<<1, 2>>>>, <<<<1>>, <<2>>>>, <<<<2>>, <<1>>>>},
                  w \in {"transcode", "single", "multi"}}
Legal(p) == /\ p.scans = Together(p.img) \/ (Len(p.img.samp) = 2 /\ Len(p.scans) = 2)
            /\ Fits(p.img) \/ (p.way = "transcode" /\ Len(p.scans) = 2)
            /\ p.way = "single" => Len(p.scans) = 1
(* What jpegtran is given.  It drops the other components only when none   *)
(* is sampled more densely than the first (see LegalPictures).             *)
Transformed == {[img |-> i, src |-> i, scans |-> Together(i), way |-> "jpegtran",
                 xf |-> [transform |-> t, trim |-> b, grey |-> g]] :
                    i \in [w : TransW, h : TransH, samp : Samplings \cup {Full}],
                    t \in Transforms, b \in BOOLEAN, g \in BOOLEAN}
LegalPictures ==
    {p \in MCPictures : Legal(p)}
    \cup {p \in Transformed : Fits(p.img) /\ (p.xf.grey => p.img.samp \in {Grey, GreyTall, Full, Colour420})}
=============================================================================
