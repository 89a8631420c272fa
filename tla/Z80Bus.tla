------------------------------- MODULE Z80Bus -------------------------------
(***************************************************************************)
(* The Z80's clock divider, its reset and bus-request lines, and the       *)
(* accounting of console time between the Z80 and the sound generators     *)
(* (src/z80/z80.cpp).                                                      *)
(*                                                                         *)
(* Z80::Advance is a loop.  Each action below is one pass of it, because a *)
(* pass can end in a bus callback and the callback can re-enter Advance:   *)
(* a VDP access that has to wait moves the whole console's time forward    *)
(* from inside the Z80's own instruction (Genesis::StallMasterCycles).     *)
(*                                                                         *)
(* The instruction engine is the vendored floooh/chips core.  All that is  *)
(* kept of it is how many ticks remain before md_z80_opdone holds, and     *)
(* that a tick may access the bus.                                         *)
(***************************************************************************)
EXTENDS Naturals

CONSTANTS
  Divider,   \* master clocks per Z80 clock: 15 in the code
  MaxAdvance,\* the longest slice of master clocks one call hands over
  MaxOp      \* the longest instruction, in Z80 ticks

ASSUME Z80BusAssumption ==
  /\ Divider \in Nat \ {0}
  /\ MaxAdvance \in Nat \ {0}
  /\ MaxOp \in Nat \ {0}      \* bounds TLC's instances, not the program

VARIABLES
  clock,       \* clockRemainder
  busRequest,  \* the 68000 asks for the Z80's bus
  granted,     \* the 68000 has it
  reset,       \* the Z80's reset line is asserted
  opTicks,     \* ticks until the core reports md_z80_opdone; 0: it does now
  advancing,   \* a call of Advance is on the stack
  left,        \* its masterCycles, still to be handed out
  access,      \* the current tick's bus callback has not returned
  owed,        \* history: master clocks the console counted, less Audio's
  phase        \* history: master clocks Audio received, modulo Divider

lines == <<busRequest, granted, reset>>
vars  == <<clock, busRequest, granted, reset, opTicks, advancing, left, access,
           owed, phase>>

(* md_z80_opdone: the core stands at an instruction boundary. *)
OpDone == opTicks = 0

(* Ticks before the first boundary after md_z80_reset: z80_prefetch leaves  *)
(* the pins clear, so at least one tick is needed.                         *)
AfterReset == 1

TypeOK ==
  /\ clock \in 0 .. (Divider - 1)
  /\ busRequest \in BOOLEAN
  /\ granted \in BOOLEAN
  /\ reset \in BOOLEAN
  /\ opTicks \in 0 .. MaxOp
  /\ advancing \in BOOLEAN
  /\ left \in 0 .. MaxAdvance
  /\ access \in BOOLEAN
  /\ owed \in Nat
  /\ phase \in 0 .. (Divider - 1)

(* Z80::Init: held in reset, the bus not requested. *)
Init ==
  /\ clock = 0
  /\ busRequest = FALSE
  /\ granted = FALSE
  /\ reset = TRUE
  /\ opTicks = AfterReset
  /\ advancing = FALSE
  /\ left = 0
  /\ access = FALSE
  /\ owed = 0
  /\ phase = 0

-----------------------------------------------------------------------------
(* Console time. *)

(* "arrived" clocks are counted by the console, of which Audio::Advance      *)
(* gives "heard" to the sound generators.                                  *)
Clocks(arrived, heard) ==
  /\ owed' = (owed + arrived) - heard
  /\ phase' = (phase + heard) % Divider

(* A variant with a fault the properties must see. *)
SkipClockLost(n) == UNCHANGED clock

(* The divider after n clocks in which the CPU is not ticked. *)
SkipClock(n) == clock' = (clock + (n % Divider)) % Divider

(* Genesis::Advance hands n master clocks to a Z80 that is not inside one. *)
Advance(n) ==
  /\ ~advancing
  /\ advancing' = TRUE
  /\ left' = n
  /\ Clocks(n, 0)
  /\ UNCHANGED <<clock, lines, opTicks, access>>

(* A variant: the nested wait is silent. *)
NestedAdvanceSilent(n) ==
  /\ advancing
  /\ access
  /\ Clocks(n, 0)
  /\ SkipClock(n)
  /\ UNCHANGED <<lines, opTicks, advancing, left, access>>

(* Genesis::Advance called from the Z80's own bus callback: the clocks pass *)
(* for the sound and for the divider, and the instruction engine waits.    *)
NestedAdvance(n) ==
  /\ advancing
  /\ access
  /\ Clocks(n, n)
  /\ SkipClock(n)
  /\ UNCHANGED <<lines, opTicks, advancing, left, access>>

-----------------------------------------------------------------------------
(* One pass of the loop in Z80::Advance. *)

Looping == advancing /\ ~access /\ left > 0

(* A variant: reset and bus ownership wait for the end of the instruction. *)
HeldAtBoundary == OpDone /\ (reset \/ (busRequest /\ granted))

Held == reset \/ (busRequest /\ granted)

(* The CPU is stopped: everything that is left goes to the sound. *)
PassHeld ==
  /\ Looping
  /\ Held
  /\ granted' = busRequest
  /\ Clocks(0, left)
  /\ SkipClock(left)
  /\ left' = 0
  /\ UNCHANGED <<busRequest, reset, opTicks, advancing, access>>

(* The slice ends before the next Z80 clock edge. *)
PassShort ==
  /\ Looping
  /\ ~Held
  /\ left < Divider - clock
  /\ Clocks(0, left)
  /\ clock' = clock + left
  /\ left' = 0
  /\ UNCHANGED <<lines, opTicks, advancing, access>>

(* What every pass that reaches a clock edge does first. *)
ReachEdge ==
  /\ Looping
  /\ ~Held
  /\ left >= Divider - clock
  /\ Clocks(0, Divider - clock)
  /\ left' = left - (Divider - clock)
  /\ clock' = 0
  /\ UNCHANGED <<busRequest, reset, advancing>>

(* At the edge the core is at a boundary and the bus is wanted: hand it over. *)
PassGrant ==
  /\ ReachEdge
  /\ busRequest
  /\ OpDone
  /\ granted' = TRUE
  /\ UNCHANGED <<opTicks, access>>

(* A variant: a tick is taken although the bus could be handed over. *)
PassTickFirst(bus) ==
  /\ ReachEdge
  /\ granted' = FALSE
  /\ \/ OpDone /\ opTicks' \in 1 .. MaxOp
     \/ ~OpDone /\ opTicks' = opTicks - 1
  /\ access' = bus

(* At the edge the CPU takes one tick, which may access the bus.  A tick at *)
(* a boundary begins an instruction, which has up to MaxOp more to go.     *)
PassTick(bus) ==
  /\ ReachEdge
  /\ ~(busRequest /\ OpDone)
  /\ granted' = FALSE
  /\ \/ OpDone /\ opTicks' \in 1 .. MaxOp
     \/ ~OpDone /\ opTicks' = opTicks - 1
  /\ access' = bus

(* The loop has handed everything out: the Advancing guard is destroyed. *)
Return ==
  /\ advancing
  /\ ~access
  /\ left = 0
  /\ advancing' = FALSE
  /\ UNCHANGED <<clock, lines, opTicks, left, access, owed, phase>>

-----------------------------------------------------------------------------
(* The lines.  The 68000 drives them between calls of Advance; the Z80     *)
(* reaches the same registers through its banked window, which excludes    *)
(* only the $A0 page, so it can drive them from inside its own tick.       *)

MayDrive == ~advancing \/ access

(* A variant: giving the request up leaves the grant. *)
SetBusRequestSticky(asserted) ==
  /\ MayDrive
  /\ busRequest' = asserted
  /\ granted' = (granted \/ (asserted /\ reset))
  /\ access' = FALSE
  /\ UNCHANGED <<clock, reset, opTicks, advancing, left, owed, phase>>

(* Z80::SetBusRequest; the 68000's $A11100. *)
SetBusRequest(asserted) ==
  /\ MayDrive
  /\ busRequest' = asserted
  /\ granted' = IF asserted THEN granted \/ reset ELSE FALSE
  /\ access' = FALSE
  /\ UNCHANGED <<clock, reset, opTicks, advancing, left, owed, phase>>

(* Z80::SetReset; the 68000's $A11200.  Only the asserting edge resets the *)
(* core, and every call recomputes the grant.                              *)
SetReset(asserted) ==
  /\ MayDrive
  /\ reset' = asserted
  /\ opTicks' = IF asserted /\ ~reset THEN AfterReset ELSE opTicks
  /\ granted' = (busRequest /\ asserted)
  /\ access' = FALSE
  /\ UNCHANGED <<clock, busRequest, advancing, left, owed, phase>>

(* Genesis::ResetDevices, the 68000's RESET instruction. *)
ResetDevices ==
  /\ ~advancing
  /\ reset' = TRUE
  /\ opTicks' = IF ~reset THEN AfterReset ELSE opTicks
  /\ busRequest' = FALSE
  /\ granted' = FALSE
  /\ UNCHANGED <<clock, advancing, left, access, owed, phase>>

(* A bus callback that drives neither line returns. *)
AccessDone ==
  /\ access
  /\ access' = FALSE
  /\ UNCHANGED <<clock, lines, opTicks, advancing, left, owed, phase>>

Next ==
  \/ \E n \in 1 .. MaxAdvance : Advance(n)
  \/ \E n \in 1 .. MaxAdvance : NestedAdvance(n)
  \/ PassHeld
  \/ PassShort
  \/ PassGrant
  \/ \E bus \in BOOLEAN : PassTick(bus)
  \/ Return
  \/ \E asserted \in BOOLEAN : SetBusRequest(asserted)
  \/ \E asserted \in BOOLEAN : SetReset(asserted)
  \/ ResetDevices
  \/ AccessDone

(* The console keeps handing out time, the loop runs to its end, and every *)
(* bus callback returns; nobody is obliged to touch the lines.             *)
Fairness ==
  /\ WF_vars(\E n \in 1 .. MaxAdvance : Advance(n))
  /\ WF_vars(PassHeld \/ PassShort \/ PassGrant \/ (\E bus \in BOOLEAN : PassTick(bus)))
  /\ WF_vars(Return)
  /\ WF_vars(AccessDone)

Spec == Init /\ [][Next]_vars
FairSpec == Spec /\ Fairness
-----------------------------------------------------------------------------
(* Properties. *)

(* z80/readme.txt: "Z80::Advance receives console master clocks and advances  *)
(* BOTH sound and CPU".  Over nested waits, resets and bus ownership, the     *)
(* sound has received exactly the clocks the console counted, except those    *)
(* the running call still holds: none is lost or given twice.                 *)
AudioAccounts == owed = left

(* "audio and the CPU clock phase advance while the instruction engine        *)
(* remains blocked": whichever of the branches the clocks went through, the   *)
(* divider stands where the sound's own time says it should.                  *)
PhaseKept == clock = phase

(* The 68000 owns the Z80's bus only while it asks for it, and only while the *)
(* Z80 is in reset or stands between two instructions, so that no half-done   *)
(* instruction of the Z80 can meet a write through the 68000's window.        *)
GrantIsSafe == granted => busRequest /\ (reset \/ OpDone)

(* No step leaves the 68000's ownership of the bus with the Z80 having        *)
(* executed anything: its instruction does not move and it starts no bus      *)
(* access, whatever time goes by and whichever line is written.  Only the     *)
(* reset edge may touch the core.                                             *)
FrozenWhileGranted ==
  [][granted /\ ~(reset' /\ ~reset)
       => opTicks' = opTicks /\ (access' => access)]_vars

(* "SetBusRequest requests the 68k's ownership at an instruction boundary":   *)
(* a request that is kept is granted, although it may come in the middle of   *)
(* an instruction that is itself waiting for the VDP, and although the reset  *)
(* line may be moved meanwhile.                                               *)
RequestIsGranted == busRequest ~> (granted \/ ~busRequest)
=============================================================================
