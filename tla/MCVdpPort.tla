----------------------------- MODULE MCVdpPort -----------------------------
(* VdpPort for TLC: a line of a few positions, some of them access slots. *)
EXTENDS VdpPort

CONSTANTS ActiveSlots, BlankSlots   \* positions of the beam that are slots

(* A display of one height, 40 cells wide whenever it is on. *)
MCMode == {m \in [on : BOOLEAN, h40 : BOOLEAN, tall : BOOLEAN] : ~m.tall /\ (m.on => m.h40)}

(* The distance to the first slot strictly after p, around the period. *)
Distance(slots, p) ==
  CHOOSE d \in 1 .. Period :
    /\ (p + d) % Period \in slots
    /\ \A e \in 1 .. (d - 1) : (p + e) % Period \notin slots

MCGap == [m \in Mode |-> [p \in 0 .. (Period - 1) |->
            Distance(IF m.on THEN ActiveSlots ELSE BlankSlots, p)]]
=============================================================================
