------------------------------ MODULE GamePad -------------------------------
(***************************************************************************)
(* A pad at its port (src/genesis/gamepad/gamepad.cpp): the host sets the  *)
(* buttons held, the console's program drives the select line TH and reads *)
(* six lines whose meaning depends on TH and on a counter of its rising    *)
(* edges, which falls back when they pause.  Both pads behave alike; the   *)
(* other lines stay inputs, and time passes in units of Advance.           *)
(***************************************************************************)
EXTENDS Naturals

CONSTANTS
  Timeout,  \* 82000 ticks: the counter falls back
  MaxIdle   \* 100000 ticks, where the time saturates

ASSUME PadAssumption ==
  /\ Timeout \in Nat /\ MaxIdle \in Nat
  /\ 0 < Timeout /\ Timeout <= MaxIdle

VARIABLES
  buttons,  \* what the host says is held
  latch,    \* bit 6 of the data register
  output,   \* bit 6 of the control register: TH is driven
  phase, idle

padVars == <<buttons, latch, output, phase, idle>>

Button == {"up", "down", "left", "right", "b", "c", "a", "start",
           "z", "y", "x", "mode"}
Line == 0 .. 5

(* TH floats high unless it is driven. *)
Level(l, o) == o => l
TH == Level(latch, output)

(* The buttons on lines 0 to 5. *)
Plain == <<"up", "down", "left", "right", "b", "c">>
Extra == <<"z", "y", "x", "mode", "b", "c">>
LowByte == <<"up", "down", "none", "none", "a", "start">>

(* The lines that read as 0, of a six-button pad: lines 2 and 3 are pulled *)
(* low with TH, in phase 2 lines 0 to 3 are, in phase 3 none of them is.   *)
PressedOn(table) == {i \in Line : table[i + 1] \in buttons}
LowLines ==
  IF TH
    THEN PressedOn(IF phase = 3 THEN Extra ELSE Plain)
    ELSE CASE phase = 2 -> (0 .. 3) \union PressedOn(LowByte)
           [] phase = 3 -> PressedOn(LowByte) \ (0 .. 3)
           [] OTHER -> {2, 3} \union PressedOn(LowByte)

PadInit ==
  /\ buttons = {} /\ latch = TRUE /\ output = FALSE
  /\ phase = 0 /\ idle = 0

(* GamePad::Init, with each new machine *)
PadReset ==
  /\ buttons' = {} /\ latch' = TRUE /\ output' = FALSE
  /\ phase' = 0 /\ idle' = 0

SetInputState(held) == buttons' = held

(* Fault: an edge is counted when TH falls *)
WriteFalling(l, o) ==
  /\ latch' = l /\ output' = o
  /\ IF TH /\ ~Level(l, o) THEN phase' = (phase + 1) % 4 /\ idle' = 0
                           ELSE UNCHANGED <<phase, idle>>

(* The program writes the data register or the control register. *)
Write(l, o) ==
  /\ latch' = l /\ output' = o
  /\ IF ~TH /\ Level(l, o) THEN phase' = (phase + 1) % 4 /\ idle' = 0
                           ELSE UNCHANGED <<phase, idle>>

PadAdvance(ticks) ==
  /\ idle' = IF idle + ticks > MaxIdle THEN MaxIdle ELSE idle + ticks
  /\ phase' = IF idle' >= Timeout THEN 0 ELSE phase
=============================================================================
