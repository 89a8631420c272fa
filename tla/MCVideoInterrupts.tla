------------------------- MODULE MCVideoInterrupts -------------------------
(* A frame of four lines of three clocks, in both widths and both heights. *)
EXTENDS VideoInterrupts

MCEdge == [wide \in BOOLEAN |-> IF wide THEN 2 ELSE 1]
=============================================================================
