----------------------------- MODULE AccessSlots -----------------------------
(***************************************************************************)
(* The positions of a line at which the VDP lets a queued write or a       *)
(* transfer reach video memory: YM7101::NextAccess (src/ym7101/ym7101.cpp) *)
(* with the code's own numbers, as functions of the position.              *)
(***************************************************************************)
EXTENDS Integers

LineLength == 3420

(* The tables of a displayed line. *)
H32 == {230, 510, 810, 970, 1130, 1450, 1610, 1770, 2090, 2250, 2410, 2730, 2890,
        3050, 3350, 3370}
H40 == {352, 820, 948, 1076, 1332, 1460, 1588, 1844, 1972, 2100, 2356, 2484, 2612,
        2868, 2996, 3124, 3364, 3380}
Table(wide) == IF wide THEN H40 ELSE H32

(* Slots of a blank line. *)
Count(wide) == IF wide THEN 204 ELSE 166

(* The next slot of a blank line; LineLength is the first of the next line. *)
NextBlankSlot(p, wide) ==
  LET next == (((p * Count(wide)) \div LineLength + 1) * LineLength) \div Count(wide)
  IN  IF next <= p THEN next + 1 ELSE next

(* The next slot of a displayed line, or its end if none is left. *)
NextActiveSlot(p, wide) ==
  LET later == {s \in Table(wide) : s > p}
  IN  IF later = {} THEN LineLength ELSE CHOOSE s \in later : \A t \in later : s <= t
=============================================================================
