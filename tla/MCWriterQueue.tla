--------------------------- MODULE MCWriterQueue ---------------------------
(* Two control frames, the second one larger, and two data frames: each     *)
(* lane's budget and capacity can be met, exceeded by one, and freed again. *)
EXTENDS WriterQueue

CONSTANTS c1, c2, d1, d2

MCSends == {c1, c2, d1, d2}
MCLaneOf == [s \in MCSends |-> IF s \in {d1, d2} THEN "data" ELSE "control"]
MCSize == [s \in MCSends |-> IF s = c2 THEN 2 ELSE 1]
MCCapacity == [l \in {"control", "data"} |-> 1]
MCMaxBytes == [l \in {"control", "data"} |-> IF l = "control" THEN 3 ELSE 1]
=============================================================================
