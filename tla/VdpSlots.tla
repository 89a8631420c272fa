------------------------------ MODULE VdpSlots ------------------------------
(***************************************************************************)
(* A line walked from slot to slot: each wait asks for the slots after the *)
(* last one given out.                                                     *)
(***************************************************************************)
EXTENDS AccessSlots

VARIABLES
  h40,      \* Is40Cell
  blank,    \* the line is not displayed, or the display is off
  position, \* master clocks from the line's start
  taken     \* history: slots given out on this line

vars == <<h40, blank, position, taken>>

(* A processor may begin to wait anywhere in a line. *)
Init ==
  /\ h40 \in BOOLEAN
  /\ blank \in BOOLEAN
  /\ position \in 0 .. (LineLength - 1)
  /\ taken = 0

(* On to the slot at "next", on this line or at the head of the next one. *)
GoTo(next) ==
  /\ position' = next % LineLength
  /\ taken' = IF next = LineLength THEN 0 ELSE taken + 1
  /\ IF next = LineLength THEN blank' \in BOOLEAN ELSE UNCHANGED blank
  /\ UNCHANGED h40

Walk ==
  \/ blank /\ GoTo(NextBlankSlot(position, h40))
  \/ ~blank /\ GoTo(NextActiveSlot(position, h40))

Spec == Init /\ [][Walk]_vars

-----------------------------------------------------------------------------
(* "Access positions are hardware timing facts, in master clocks from HBLANK"  *)
(* (ym7101.cpp): a blank line has Count of them, the last at its end, so no    *)
(* walk along one is given more.                                               *)
BlankLineCount == blank => taken < Count(h40)
=============================================================================
