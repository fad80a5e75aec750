---------------------------- MODULE MCJpegMemory ----------------------------
EXTENDS JpegMemory

MCValues == {0, 1}
MCArrays == {"samples", "blocks"}
MCSArrays == {"samples"}
MCFirstSlop == [p \in Pools |-> IF p = "IMAGE" THEN 5 ELSE 2]
MCExtraSlop == [p \in Pools |-> IF p = "IMAGE" THEN 2 ELSE 0]
MCElement == [a \in Arrays |-> IF a = "samples" THEN 1 ELSE 4]
MCWidth == [a \in Arrays |-> IF a = "samples" THEN 3 ELSE 4]
MCShapes == [a \in Arrays |->
  IF a = "samples" THEN [rows : {1}, maxaccess : {1}, pre_zero : {FALSE}]
                   ELSE {[rows |-> 3, maxaccess |-> 2, pre_zero |-> FALSE],
                         [rows |-> 3, maxaccess |-> 2, pre_zero |-> TRUE],
                         [rows |-> 3, maxaccess |-> 1, pre_zero |-> TRUE]}]
MCSizes == {3, 15, 17}
=============================================================================
