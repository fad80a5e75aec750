--------------------------- MODULE MCEntropyCoding ---------------------------
(***************************************************************************)
(* Cases for EntropyCoding: blocks of 5 coefficients, symbols of 3 runs    *)
(* and 3 sizes, bytes of 3 bits.                                           *)
(***************************************************************************)
EXTENDS EntropyCoding

N == DCTSIZE2
Block(s) == [k \in 0..(N - 1) |-> s[k + 1]]
Tables12(n) == [c \in 1..n |-> 0]

(* A table with a code for every symbol, some longer than the lookahead. *)
FullTable == [bits |-> [l \in 1..MAX_LEN |-> IF l = 2 THEN 2 ELSE IF l = 4 THEN 7 ELSE 0],
              huffval |-> <<4, 0, 1, 2, 3, 5, 6, 7, 8>>]
DCTable == [bits |-> [l \in 1..MAX_LEN |-> IF l = 1 THEN 1 ELSE IF l = 2 THEN 1 ELSE IF l = 3 THEN 1 ELSE 0],
            huffval |-> <<0, 2, 1>>]
Given == [key \in {<<TRUE, 0>>, <<FALSE, 0>>} |-> IF key[1] THEN DCTable ELSE FullTable]

Base(image, script, ri, slow) ==
    [image |-> image, h |-> [c \in DOMAIN image |-> 1], script |-> script,
     dc |-> [c \in DOMAIN image |-> 0], ac |-> [c \in DOMAIN image |-> 0], tables |-> Given,
     restart_interval |-> ri, optimize |-> TRUE, needed |-> TRUE, slow |-> slow, damage |-> <<>>, counts |-> <<>>]

Sequential(comps) == <<Script!Scan(comps, 0, N - 1, 0, 0)>>

(* Sequential images: every pair of small blocks. *)
SmallBlocks == {Block(s) : s \in {<<0, 0, 0, 0, 0>>, <<1, 0, 0, 0, 1>>, <<-1, 1, 0, -1, 0>>, <<2, 0, 0, 0, 0>>,
                                  <<1, 1, 1, 1, 1>>, <<0, -1, -1, -1, -1>>}}
SequentialCases ==
    {[Base(<<<<b1, b2>>>>, Sequential(<<1>>), ri, slow) EXCEPT !.optimize = opt, !.needed = need] :
        b1 \in SmallBlocks, b2 \in SmallBlocks, ri \in {0, 1}, slow \in BOOLEAN, opt \in BOOLEAN, need \in BOOLEAN}
InterleavedCases ==
    {[Base(<<<<b1, b2>>, <<b2>>>>, script, ri, FALSE) EXCEPT !.h = <<2, 1>>, !.ac = <<0, t>>, !.dc = <<t, 0>>] :
        b1 \in SmallBlocks, b2 \in SmallBlocks, ri \in {0, 1}, t \in {0, 1},
        script \in {Sequential(<<1, 2>>), Sequential(<<2>>) \o Sequential(<<1>>)}}

(* Progressive images, sent by a script down to the last bit. *)
FullScript == <<Script!Scan(<<1>>, 0, 0, 0, 1), Script!Scan(<<1>>, 1, N - 1, 0, 1),
                Script!Scan(<<1>>, 0, 0, 1, 0), Script!Scan(<<1>>, 1, N - 1, 1, 0)>>
DeepBlocks == {Block(s) : s \in {<<0, 0, 0, 0, 0>>, <<-3, 2, 0, 0, 1>>, <<3, 3, -2, -3, 2>>, <<1, 0, -1, 0, 2>>,
                                 <<-1, 0, 0, 3, -1>>, <<2, 1, -1, 1, 1>>, <<0, -2, 0, 0, 0>>}}
ProgressiveCases ==
    {Base(<<<<b1, b2, b3>>>>, FullScript, ri, FALSE) :
        b1 \in DeepBlocks, b2 \in DeepBlocks, b3 \in DeepBlocks, ri \in {0, 2}}
SlowCases == {Base(<<<<b1, b2>>>>, FullScript, 1, TRUE) : b1 \in DeepBlocks, b2 \in DeepBlocks}
LongCases == {Base(<<<<b1, b1, b2, b3, b1, b2>>>>, FullScript, 0, FALSE) :
               b1 \in DeepBlocks, b2 \in DeepBlocks, b3 \in {ZeroBlock, Block(<<3, 3, -2, -3, 2>>)}}

(* Scripts: all of at most two scans of one component, and the usual ones. *)
Scans == {Script!Scan(<<1>>, Ss, Se, Ah, Al) : Ss \in 0..2, Se \in {0, 1, 2, N - 1}, Ah \in 0..2, Al \in 0..2}
Tiny == <<<<Block(<<-3, 2, 0, -1, 3>>)>>>>
Colour == <<<<Block(<<-3, 7, 0, -1, 5>>)>>, <<Block(<<2, 2, 0, -2, 1>>)>>, <<Block(<<1, 0, -1, -3, 0>>)>>>>
ScriptCases ==
    {Base(Tiny, <<s1, s2>>, 0, FALSE) : s1 \in Scans, s2 \in Scans}
UsualCases ==
    {Base(Colour, Script!jpeg_simple_progression(3, ycc), 0, FALSE) : ycc \in BOOLEAN}
    \union {Base(Tiny, Script!jpeg_simple_progression(1, FALSE), 0, FALSE)}
    \union {Base(Colour \o Tiny \o Tiny, Script!jpeg_simple_progression(5, FALSE), 0, FALSE)}

(* A damaged byte of one scan. *)
DamageCases ==
    {[Base(<<<<b1, b2>>>>, script, 0, FALSE) EXCEPT !.damage = <<at, byte>>] :
        b1 \in DeepBlocks \union SmallBlocks, b2 \in DeepBlocks, at \in 1..5, byte \in {0, 2, 5, 7},
        script \in {FullScript, Sequential(<<1>>)}}

CountCases ==
    {[Base(Tiny, <<>>, 0, FALSE) EXCEPT !.tables = <<>>,
                                       !.counts = [s \in Symbols |-> IF s \in DOMAIN f THEN f[s] ELSE 0]] :
        f \in {g \in [{0, 1, 2, 5, 8} -> {0, 1, 2, 3, 5}] : \E s \in DOMAIN g : g[s] > 0}}

AllCases == <<SequentialCases, InterleavedCases, ProgressiveCases, SlowCases, LongCases,
              ScriptCases, UsualCases, DamageCases, CountCases>>
=============================================================================
