--------------------------- MODULE VideoInterrupts ---------------------------
(***************************************************************************)
(* The way of an interrupt from the beam to the 68000: the VDP's line and  *)
(* frame counters (YM7101::Advance), its two pending latches and their     *)
(* enable bits, the console's poll of them after every slice of time       *)
(* (Genesis::Advance), the 68000's table of requested levels, its mask,    *)
(* STOP and RESET (src/m68k/m68k.cpp).                                     *)
(*                                                                         *)
(* The 68000's Update is CheckInt and then one instruction; the console    *)
(* gives its duration to the VDP, which goes through it in passes that     *)
(* stop at every line's end and at the vertical interrupt's edge.  A       *)
(* transfer holds the 68000, so that time passes before its next Update.   *)
(* The Z80, which has its time before the console polls, can write the     *)
(* VDP's registers too, also while the 68000 is stopped.                   *)
(***************************************************************************)
EXTENDS Naturals, FiniteSets

CONSTANTS
  Line,       \* master clocks of a line: 3420 in the code
  Lines,      \* lines of a frame: 262, or 313 for PAL
  Heights,    \* displayed lines: 224, and 240 for PAL
  Edge,       \* Edge[h40]: clock of the vertical interrupt: 770 or 788
  Reloads,    \* values of register 10
  ByteReload, \* the one the Z80 can write: 138 in the code
  FirstLine,  \* lineInt after YM7101::Init, 255 in the code
  Durations,  \* master clocks of the 68000's instructions
  Masks       \* interrupt masks the 68000's program uses

ASSUME VideoInterruptsAssumption ==
  /\ Line \in Nat \ {0}
  /\ Heights \subseteq Nat \ {0}
  /\ \E h \in Heights : \A other \in Heights : h <= other
  /\ Lines \in Nat
  /\ \A h \in Heights : h + 1 < Lines
  /\ Edge \in [BOOLEAN -> 1 .. (Line - 1)]
  /\ Reloads \subseteq Nat
  /\ {0, ByteReload} \subseteq Reloads
  /\ FirstLine \in Nat
  /\ Durations \subseteq Nat \ {0}
  /\ Masks \subseteq 0 .. 7

VARIABLES
  turn,       \* what runs: "check", "execute", "advance"
  ticks,      \* what YM7101::Advance has left to do
  scanline, clock,              \* where the beam is
  h40, height, reload, ie0, ie1,\* registers 12, 1, 10, 1 and 0
  lineInt,    \* lines to the next horizontal interrupt
  vertical, horizontal,         \* verticalPending and horizontalPending
  requestInt, \* at least one of them is pending and enabled
  levels,     \* the 68000's interrupts: the levels requested of it
  mask, stop, \* its interrupt mask; it has executed STOP
  steady,     \* history: h40 and height unchanged since the frame began
  even,       \* history: reload and height unchanged since lineInt was loaded
  vints       \* history: vertical interrupts latched in this frame, up to 2

beam == <<scanline, clock, lineInt, steady, even, vints>>
regs == <<h40, height, reload, ie0, ie1>>
irq  == <<vertical, horizontal, requestInt>>
cpu  == <<levels, mask, stop>>
vars == <<turn, ticks, beam, regs, irq, cpu>>

VINT == 6
HINT == 4
Smallest(S) == CHOOSE n \in S : \A m \in S : n <= m

TypeOK ==
  /\ turn \in {"check", "execute", "advance"}
  /\ ticks \in Nat
  /\ scanline \in 0 .. (Lines - 1)
  /\ clock \in 0 .. (Line - 1)
  /\ h40 \in BOOLEAN
  /\ height \in Heights
  /\ reload \in Reloads
  /\ ie0 \in BOOLEAN
  /\ ie1 \in BOOLEAN
  /\ lineInt \in Nat
  /\ vertical \in BOOLEAN
  /\ horizontal \in BOOLEAN
  /\ requestInt \in BOOLEAN
  /\ levels \subseteq {HINT, VINT}
  /\ mask \in 0 .. 7
  /\ stop \in BOOLEAN
  /\ steady \in BOOLEAN
  /\ even \in BOOLEAN
  /\ vints \in 0 .. 2

(* YM7101::Init; the 68000 starts with every level masked. *)
Init ==
  /\ turn = "check"
  /\ ticks = 0
  /\ scanline = 0
  /\ clock = 0
  /\ h40 = FALSE
  /\ height = Smallest(Heights)
  /\ reload = 0
  /\ ie0 = FALSE
  /\ ie1 = FALSE
  /\ lineInt = FirstLine
  /\ vertical = FALSE
  /\ horizontal = FALSE
  /\ requestInt = FALSE
  /\ levels = {}
  /\ mask = 7
  /\ stop = FALSE
  /\ steady = TRUE
  /\ even = FALSE
  /\ vints = 0

Wanted(v, on0, h, on1) == (v /\ on0) \/ (h /\ on1)

-----------------------------------------------------------------------------
(* YM7101::Advance. *)

(* A variant: the interrupt's edge does not end a pass. *)
StopsAtLine == {ticks, Line - clock}

(* A pass ends with the time, at the line's end or at the interrupt's edge. *)
Stops == {ticks, Line - clock}
         \cup (IF scanline = height /\ clock < Edge[h40] THEN {Edge[h40] - clock} ELSE {})

(* A variant: the counter runs on below the display. *)
CountLineBelow ==
  /\ lineInt' = IF lineInt = 0 THEN reload ELSE lineInt - 1
  /\ even' = (even \/ scanline + 1 = Lines)

(* The horizontal counter at the end of a line. *)
CountLine ==
  IF scanline + 1 = Lines \/ scanline > height
  THEN lineInt' = reload /\ even' = TRUE
  ELSE lineInt' = (IF lineInt = 0 THEN reload ELSE lineInt - 1) /\ UNCHANGED even

(* A pass that does not reach the line's end. *)
WithinLine(step) ==
  /\ clock + step < Line
  /\ clock' = clock + step
  /\ UNCHANGED <<scanline, lineInt, even, horizontal, steady>>

(* A pass that does. *)
EndLine(step) ==
  /\ clock + step = Line
  /\ clock' = 0
  /\ scanline' = (scanline + 1) % Lines
  /\ CountLine
  /\ horizontal' = (horizontal \/ (scanline <= height /\ lineInt = 0))
  /\ steady' = (steady \/ scanline' = 0)

Pass(step) ==
  /\ turn = "advance"
  /\ ticks > 0
  /\ step = Smallest(Stops)
  /\ ticks' = ticks - step
  /\ WithinLine(step) \/ EndLine(step)
  /\ LET reached == scanline' = height /\ clock' = Edge[h40]
         before  == IF scanline' < scanline THEN 0 ELSE vints
     IN  /\ vertical' = (vertical \/ reached)
         /\ vints' = IF reached /\ before < 2 THEN before + 1 ELSE before
  /\ requestInt' = Wanted(vertical', ie0, horizontal', ie1)
  /\ UNCHANGED <<turn, regs, cpu>>

-----------------------------------------------------------------------------
(* Genesis::Advance, after YM7101::Advance: GetRequestInt and GetIntType. *)

(* Variants: acknowledging the vertical interrupt drops the request of the     *)
(* horizontal one; or its latch.                                               *)
PollVerticalLast ==
  /\ vertical /\ ie0
  /\ vertical' = FALSE
  /\ requestInt' = FALSE
  /\ levels' = levels \cup {VINT}
  /\ UNCHANGED horizontal

PollVerticalBoth ==
  /\ vertical /\ ie0
  /\ vertical' = FALSE
  /\ horizontal' = FALSE
  /\ requestInt' = FALSE
  /\ levels' = levels \cup {VINT}

PollVertical ==
  /\ vertical /\ ie0
  /\ vertical' = FALSE
  /\ requestInt' = (horizontal /\ ie1)
  /\ levels' = levels \cup {VINT}
  /\ UNCHANGED horizontal

PollHorizontal ==
  /\ ~(vertical /\ ie0)
  /\ horizontal /\ ie1
  /\ horizontal' = FALSE
  /\ requestInt' = (vertical /\ ie0)
  /\ levels' = levels \cup {HINT}
  /\ UNCHANGED vertical

PollNothing ==
  /\ ~Wanted(vertical, ie0, horizontal, ie1)
  /\ requestInt' = FALSE
  /\ UNCHANGED <<vertical, horizontal, levels>>

Poll ==
  /\ turn = "advance"
  /\ ticks = 0
  /\ turn' = "check"
  /\ IF requestInt THEN PollVertical \/ PollHorizontal \/ PollNothing
                   ELSE UNCHANGED <<irq, levels>>
  /\ UNCHANGED <<ticks, beam, regs, mask, stop>>

-----------------------------------------------------------------------------
(* The 68000. *)

Highest == CHOOSE l \in levels : \A other \in levels : other <= l

Accepts == levels # {} /\ Highest > mask

(* TakeStallCycles: while a transfer holds the 68000 only time passes. *)
Halted ==
  /\ turn = "check"
  /\ turn' = "advance"
  /\ ticks' \in Durations
  /\ UNCHANGED <<beam, regs, irq, cpu>>

(* CheckInt: enters the highest requested level's handler. *)
CheckInt ==
  /\ turn = "check"
  /\ turn' = "execute"
  /\ IF Accepts THEN /\ levels' = levels \ {Highest}
                     /\ mask' = Highest
                     /\ stop' = FALSE
                ELSE UNCHANGED cpu
  /\ UNCHANGED <<ticks, beam, regs, irq>>

(* The rest of Update, whose duration then passes. *)
Executes ==
  /\ turn = "execute"
  /\ turn' = "advance"
  /\ ticks' \in Durations

Running == Executes /\ ~stop

(* A variant: it takes no time to idle. *)
StoppedAtOnce ==
  /\ turn = "execute"
  /\ stop
  /\ turn' = "check"
  /\ UNCHANGED <<ticks, beam, regs, irq, cpu>>

(* A stopped CPU idles: video, audio and interrupt sources advance. *)
Stopped ==
  /\ Executes
  /\ stop
  /\ UNCHANGED <<beam, regs, irq, cpu>>

(* An instruction that touches nothing modelled here. *)
Compute ==
  /\ Running
  /\ UNCHANGED <<beam, regs, irq, cpu>>

(* A new status register: MOVE to SR, RTE, and STOP. *)
SetMask(m, halt) ==
  /\ Running
  /\ mask' = m
  /\ stop' = halt
  /\ UNCHANGED <<beam, regs, irq, levels>>

(* UpdateRegister for registers 0 and 1, the enable bits and the height. *)
WriteEnables(on0, on1, lines) ==
  /\ ie0' = on0
  /\ ie1' = on1
  /\ height' = lines
  /\ requestInt' = Wanted(vertical, on0, horizontal, on1)
  /\ steady' = (steady /\ lines = height)
  /\ even' = (even /\ lines = height)
  /\ UNCHANGED <<scanline, clock, lineInt, vints, h40, reload, vertical, horizontal>>

(* UpdateRegister for registers 12 and 10. *)
WriteWidth(wide) ==
  /\ h40' = wide
  /\ steady' = (steady /\ wide = h40)
  /\ UNCHANGED <<scanline, clock, lineInt, even, vints, height, reload, ie0, ie1, irq>>

WriteReload(n) ==
  /\ reload' = n
  /\ even' = (even /\ n = reload)
  /\ UNCHANGED <<scanline, clock, lineInt, steady, vints, h40, height, ie0, ie1, irq>>

(* An instruction that writes registers. *)
SetRegister ==
  /\ Running
  /\ \/ \E on0, on1 \in BOOLEAN, lines \in Heights : WriteEnables(on0, on1, lines)
     \/ \E wide \in BOOLEAN : WriteWidth(wide)
     \/ \E n \in Reloads : WriteReload(n)
  /\ UNCHANGED cpu

(* The Z80 in its slice, between YM7101::Advance and the poll.  It writes      *)
(* bytes, which the control port doubles, so that register r can only be given *)
(* the value 128 + r: that clears the enable bit of register 0, or the one of  *)
(* register 1 and with it the height, sets H40, or reloads by ByteReload.      *)
SetRegisterByte ==
  /\ turn = "advance"
  /\ ticks = 0
  /\ \/ WriteEnables(ie0, FALSE, height)
     \/ WriteEnables(FALSE, ie1, Smallest(Heights))
     \/ WriteWidth(TRUE)
     \/ WriteReload(ByteReload)
  /\ UNCHANGED <<turn, ticks, cpu>>

(* RESET: YM7101::Init.  What was requested of the 68000 stays requested. *)
Reset ==
  /\ Running
  /\ scanline' = 0
  /\ clock' = 0
  /\ lineInt' = FirstLine
  /\ h40' = FALSE
  /\ height' = Smallest(Heights)
  /\ reload' = 0
  /\ ie0' = FALSE
  /\ ie1' = FALSE
  /\ vertical' = FALSE
  /\ horizontal' = FALSE
  /\ requestInt' = FALSE
  /\ steady' = TRUE
  /\ even' = FALSE
  /\ vints' = 0
  /\ UNCHANGED cpu

Next ==
  \/ \E step \in 1 .. Line : Pass(step)
  \/ Poll
  \/ Halted
  \/ CheckInt
  \/ Stopped
  \/ Compute
  \/ \E m \in Masks, halt \in BOOLEAN : SetMask(m, halt)
  \/ SetRegister
  \/ SetRegisterByte
  \/ Reset

Spec == Init /\ [][Next]_vars
(* RunFrame's loop never stops by itself, and transfers end (VdpPort) unless *)
(* the Z80 starts them for ever.                                             *)
FairSpec == Spec /\ WF_vars(Next) /\ SF_vars(CheckInt)

-----------------------------------------------------------------------------
(* Properties. *)

(* The console asks GetIntType for a level only while requestInt is set, so it *)
(* must agree with the latches and enables whichever of the four places that   *)
(* recompute it came last.                                                     *)
RequestAgrees == requestInt = Wanted(vertical, ie0, horizontal, ie1)

(* "Generated VINT handler must execute once per frame" (vdptests.cpp): in a   *)
(* frame whose mode is not switched the vertical interrupt is latched once,    *)
(* when the beam reaches the edge, however instructions fall across it.        *)
VintOncePerFrame ==
  steady => vints = IF scanline > height \/ (scanline = height /\ clock >= Edge[h40])
                    THEN 1 ELSE 0

(* The horizontal counter runs through its period from the top of the frame:   *)
(* line n of the display finds n modulo (reload + 1) lines gone.               *)
LineCounter ==
  even /\ scanline <= height => lineInt = reload - (scanline % (reload + 1))

(* "STOP still allows video, audio and interrupt sources to advance"           *)
(* (genesis.cpp): a stopped 68000 that lets the vertical interrupt through     *)
(* wakes, whatever horizontal interrupts compete with it, unless the Z80       *)
(* disables the interrupt meanwhile; it can also switch the mode, which only   *)
(* delays it.                                                                  *)
StopWakes == stop /\ ie0 /\ mask < VINT ~> ~stop \/ ~ie0

(* "acknowledging vertical IRQ does not discard a pending horizontal IRQ"      *)
(* (ym7101/readme.txt): a horizontal interrupt that stays enabled reaches the  *)
(* 68000's table, although every poll prefers the vertical one.                *)
HintSurvives == horizontal /\ ie1 ~> (HINT \in levels \/ ~ie1)
=============================================================================
