--------------------------- MODULE MCJpegTranscode ---------------------------
EXTENDS JpegTranscode

\* The picture of base b: components, MCUs, restart interval.
Picture == << [n |-> 1, mcus |-> 10, interval |-> 1],
              [n |-> 3, mcus |-> 5, interval |-> 2],
              [n |-> 2, mcus |-> 3, interval |-> 0],
              [n |-> 2, mcus |-> 2, interval |-> 0] >>
Value(c, i) == (i + c) % 3
Blocks(b) == [c \in 1..Picture[b].n |-> [i \in 1..Picture[b].mcus |-> Value(c, i)]]

\* The entropy-coded data of a scan of the components comps.
Coded[b \in 1..4, comps \in {<<1>>, <<2>>, <<1, 2, 3>>}, i \in 0..10] ==
    IF i = 0 THEN <<>>
    ELSE LET p == Picture[b]
             start == p.interval # 0 /\ (i - 1) % p.interval = 0
             v(j) == [c \in {comps[k] : k \in 1..Len(comps)} |-> IF j = 0 THEN 0 ELSE Value(c, j)]
             marker == IF start /\ i > 1 THEN Marker(RST0 + (((i - 1) \div p.interval - 1) % 8)) ELSE <<>>
         IN  Coded[b, comps, i - 1] \o marker
             \o <<Mcu(v(i), v(IF start THEN 0 ELSE i - 1), [k \in 1..Len(comps) |-> 21 + comps[k] \div 2])>>

Quant(s, t) == MarkerWith(DQT, "DQT", <<s, t>>)
Huff == MarkerWith(DHT, "DHT", <<0, 21>>) \o MarkerWith(DHT, "DHT", <<1, 22>>)
Frame(ids, tq, n) == MarkerWith(SOF0, "SOF", [ids |-> ids, tq |-> tq, mcus |-> n])

Base1 == Marker(SOI) \o MarkerWith(APP0, "JFIF", 0) \o Quant(0, 11) \o Huff \o Frame(<<1>>, <<0>>, 10)
         \o MarkerWith(DRI, "DRI", 1) \o MarkerWith(SOS, "SOS", <<<<1, 0>>>>)
         \o Coded[1, <<1>>, 10] \o Marker(EOI)
Base2 == Marker(SOI) \o MarkerWith(APP14, "Adobe", 0) \o Quant(0, 11) \o Quant(2, 12) \o Huff
         \o Frame(<<82, 71, 66>>, <<0, 2, 2>>, 5) \o MarkerWith(DRI, "DRI", 2)
         \o MarkerWith(SOS, "SOS", <<<<82, 0>>, <<71, 1>>, <<66, 1>>>>)
         \o Coded[2, <<1, 2, 3>>, 5] \o Marker(EOI)
TwoScans(b, between, n) ==
         Marker(SOI) \o MarkerWith(COM, "COM", 0) \o Quant(0, 11) \o Frame(<<0, 1>>, <<0, 0>>, n) \o Huff
         \o MarkerWith(SOS, "SOS", <<<<0, 0>>>>) \o Coded[b, <<1>>, n] \o between
         \o MarkerWith(SOS, "SOS", <<<<1, 1>>>>) \o Coded[b, <<2>>, n] \o Marker(EOI)
Base3 == TwoScans(3, <<>>, 3)
\* The slot of the first component's table is used again for the second.
Base4 == TwoScans(4, Quant(0, 12), 2)
Base == <<Base1, Base2, Base3, Base4>>

\* A case is a base, a position and what is wrong there.
Intact == 0
Lost == 1
Doubled == 2
CutHere == 3
Changed == {0, 2, 7, 255, EOI, RST0 + 1, RST0 + 4}   \* the byte it becomes, plus 1000

Faulty(s, k, what) ==
    CASE what = Intact -> s
      [] what = Lost -> SubSeq(s, 1, k - 1) \o SubSeq(s, k + 1, Len(s))
      [] what = Doubled -> SubSeq(s, 1, k) \o SubSeq(s, k, Len(s))
      [] what = CutHere -> SubSeq(s, 1, k - 1)
      [] OTHER -> [s EXCEPT ![k] = Byte(what - 1000)]

MCInputFile(c) == Faulty(Base[c[1]], c[2], c[3])
MCOriginal(c) == Blocks(c[1])

\* Where the MCUs are, and the restart interval that a symbol belongs to: both
\* bytes of a marker belong to the interval that begins there.
McuPlaces(s) == {k \in 1..Len(s) : s[k].t = "mcu"}
IsBorder(e) == e.t = "byte" /\ (IsRst(e.c) \/ e.c = EOI)
IntervalAt(s, k) == Cardinality({j \in 2..Len(s) : IsBorder(s[j]) /\ j - 1 <= k})

\* How many intervals after its own a fault may spoil.  When the file ends, or
\* a marker becomes EOI, nothing after it is seen; a restart marker that becomes
\* one of the two that come next is taken to be that one (jdmarker.c:1179-1184).
Spread(s, k, what) ==
    LET ahead == (what - 1000 - RST0 - (IntervalAt(s, k) - 1)) % 8
    IN  CASE what = CutHere -> Len(s)
          [] what # CutHere /\ s[k - 1] # FF -> 0
          [] what = 1000 + EOI /\ s[k - 1] = FF -> Len(s)
          [] OTHER -> IF IsRst(what - 1000) /\ ahead \in 1..2 THEN ahead ELSE 0

\* What comes before the fault, and the intervals after all that it may spoil.
\* Nothing can be said of files without restarts and of faults in the header.
MCSafe(c) ==
    LET s == Base[c[1]]
        k == c[2]
        mcus == 1..Picture[c[1]].mcus
        Place(i) == CHOOSE m \in McuPlaces(s) : Cardinality({j \in McuPlaces(s) : j <= m}) = i
        last == IntervalAt(s, k) + Spread(s, k, c[3])
    IN  CASE c[3] = Intact -> mcus
          [] c[3] # Intact /\ (Picture[c[1]].interval = 0 \/ \A m \in McuPlaces(s) : k < m) -> {}
          [] OTHER -> {i \in mcus : Place(i) < k \/ IntervalAt(s, Place(i)) > last}

Places(b) == {<<b, k, what>> : k \in 1..Len(Base[b]), what \in {Lost, Doubled, CutHere} \cup {1000 + x : x \in Changed}}
MCCases == {<<b, 0, Intact>> : b \in 1..4} \cup Places(1) \cup Places(2) \cup Places(3)

MCCipher(v) == 2 - v
MCStdQuant(s) == 91 + s
MCStdHuff(s) == 81 + s
=============================================================================
