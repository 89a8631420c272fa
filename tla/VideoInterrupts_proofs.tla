------------------------ MODULE VideoInterrupts_proofs ------------------------
(***************************************************************************)
(* Proofs about VideoInterrupts, for every length of a line and a frame,   *)
(* every pair of edges, reload value and duration of an instruction.       *)
(***************************************************************************)
EXTENDS VideoInterrupts, Integers, TLAPS

-----------------------------------------------------------------------------
(* Division with remainder. *)

(* A positive multiple of d is at least d. *)
LEMMA Multiple ==
  ASSUME NEW d \in Nat \ {0}, NEW k \in Int, k >= 1
  PROVE  d * k >= d
<1>1. k - 1 \in Nat
  OBVIOUS
<1>2. d * (k - 1) \in Nat
  BY <1>1
<1>3. d * k = d * (k - 1) + d
  OBVIOUS
<1> QED BY <1>2, <1>3

(* The remainder is the only one. *)
LEMMA ModUnique ==
  ASSUME NEW d \in Nat \ {0}, NEW a \in Nat, NEW q \in Nat, NEW r \in 0 .. (d - 1),
         a = d * q + r
  PROVE  a % d = r
<1> DEFINE p == a \div d
           s == a % d
<1>1. p \in Nat /\ s \in 0 .. (d - 1) /\ a = d * p + s
  BY SMT
<1> HIDE DEF p, s
<1>2. d * (p - q) = r - s
  <2>1. d * (p - q) = d * p - d * q
    BY <1>1
  <2> QED BY <2>1, <1>1
<1>3. d * (q - p) = s - r
  <2>1. d * (q - p) = d * q - d * p
    BY <1>1
  <2> QED BY <2>1, <1>1
<1>4. ~(p - q >= 1)
  <2> SUFFICES ASSUME p - q >= 1 PROVE FALSE
    OBVIOUS
  <2>1. d * (p - q) >= d
    BY <1>1, Multiple
  <2> QED BY <2>1, <1>2, <1>1
<1>5. ~(q - p >= 1)
  <2> SUFFICES ASSUME q - p >= 1 PROVE FALSE
    OBVIOUS
  <2>1. d * (q - p) >= d
    BY <1>1, Multiple
  <2> QED BY <2>1, <1>3, <1>1
<1>6. p = q
  BY <1>1, <1>4, <1>5
<1>7. s = r
  BY <1>1, <1>6
<1> QED BY <1>7 DEF s

LEMMA ModFacts ==
  ASSUME NEW d \in Nat \ {0}, NEW a \in Nat
  PROVE  /\ a % d \in 0 .. (d - 1)
         /\ a < d => a % d = a
         /\ d % d = 0
  BY SMT

(* Counting modulo d: up by one, and from d - 1 back to 0. *)
LEMMA ModSucc ==
  ASSUME NEW d \in Nat \ {0}, NEW a \in Nat
  PROVE  (a + 1) % d = IF a % d = d - 1 THEN 0 ELSE (a % d) + 1
<1> DEFINE q == a \div d
           r == a % d
<1>1. q \in Nat /\ r \in 0 .. (d - 1) /\ a = d * q + r
  BY SMT
<1> HIDE DEF q, r
<1>2. a + 1 \in Nat
  OBVIOUS
<1>3. CASE r = d - 1
  <2>1. d * (q + 1) = d * q + d
    BY <1>1
  <2>2. a + 1 = d * (q + 1) + 0
    BY <1>1, <1>3, <2>1
  <2> DEFINE next == q + 1
  <2>3. next \in Nat /\ a + 1 = d * next + 0 /\ 0 \in 0 .. (d - 1)
    BY <1>1, <2>2
  <2> HIDE DEF next
  <2>4. (a + 1) % d = 0
    BY <2>3, <1>2, ModUnique, Zenon
  <2> QED BY <1>3, <2>4 DEF r
<1>4. CASE r # d - 1
  <2> DEFINE next == r + 1
             more == a + 1
  <2>1. next \in 0 .. (d - 1) /\ more = d * q + next /\ more \in Nat
    BY <1>1, <1>4
  <2> HIDE DEF next, more
  <2>2. more % d = next
    BY <2>1, <1>1, ModUnique, Zenon
  <2> QED BY <1>4, <2>2 DEF r, next, more
<1> QED BY <1>3, <1>4

-----------------------------------------------------------------------------
(* The types. *)

NumbersTyped ==
  /\ turn \in {"check", "execute", "advance"}
  /\ ticks \in Nat
  /\ scanline \in 0 .. (Lines - 1)
  /\ clock \in 0 .. (Line - 1)
  /\ height \in Heights
  /\ reload \in Reloads
  /\ lineInt \in Nat
  /\ levels \subseteq {HINT, VINT}
  /\ mask \in 0 .. 7
  /\ vints \in 0 .. 2

FlagsTyped ==
  /\ h40 \in BOOLEAN
  /\ ie0 \in BOOLEAN
  /\ ie1 \in BOOLEAN
  /\ vertical \in BOOLEAN
  /\ horizontal \in BOOLEAN
  /\ requestInt \in BOOLEAN
  /\ stop \in BOOLEAN
  /\ steady \in BOOLEAN
  /\ even \in BOOLEAN

(* The inductive invariant is the properties themselves. *)
Inv == TypeOK /\ RequestAgrees /\ VintOncePerFrame /\ LineCounter

LEMMA TypeParts == TypeOK <=> NumbersTyped /\ FlagsTyped
  BY Zenon DEF TypeOK, NumbersTyped, FlagsTyped

LEMMA ConstantFacts ==
  ASSUME TypeOK
  PROVE  /\ Line \in Nat \ {0} /\ Lines \in Nat
         /\ height \in Nat \ {0} /\ height + 1 < Lines
         /\ reload \in Nat
         /\ Edge[h40] \in 1 .. (Line - 1)
<1>1. h40 \in BOOLEAN
  BY Zenon DEF TypeOK
<1>2. Edge[h40] \in 1 .. (Line - 1)
  BY <1>1, VideoInterruptsAssumption, Zenon DEF VideoInterruptsAssumption
<1>3. height \in Heights /\ reload \in Reloads
  BY DEF TypeOK
<1> QED BY <1>2, <1>3, VideoInterruptsAssumption DEF VideoInterruptsAssumption

LEMMA SmallestFacts ==
  ASSUME NEW S, \E n \in S : \A m \in S : n <= m
  PROVE  Smallest(S) \in S /\ \A m \in S : Smallest(S) <= m
  BY Zenon DEF Smallest

LEMMA FirstHeight == Smallest(Heights) \in Heights
  BY SmallestFacts, VideoInterruptsAssumption DEF VideoInterruptsAssumption

-----------------------------------------------------------------------------
(* The three kinds of step: the beam moves, the 68000 or the poll acts while it *)
(* stands still, and the 68000's RESET.                                         *)

(* A register that is changed under the beam spoils the frame it is changed in. *)
Stands ==
  /\ UNCHANGED <<scanline, clock, lineInt, vints>>
  /\ steady' => steady /\ height' = height /\ h40' = h40
  /\ even' => even /\ height' = height /\ reload' = reload

(* The 68000 and the Z80 write registers alike. *)
RegisterChanges ==
  \/ \E on0, on1 \in BOOLEAN, lines \in Heights : WriteEnables(on0, on1, lines)
  \/ \E wide \in BOOLEAN : WriteWidth(wide)
  \/ \E n \in Reloads : WriteReload(n)

LEMMA SetsRegisters ==
  /\ SetRegister => RegisterChanges
  /\ TypeOK /\ SetRegisterByte => RegisterChanges
<1>1. ByteReload \in Reloads
  BY VideoInterruptsAssumption DEF VideoInterruptsAssumption
<1>2. TypeOK => ie0 \in BOOLEAN /\ ie1 \in BOOLEAN /\ height \in Heights
  BY Zenon DEF TypeOK
<1> QED BY <1>1, <1>2, FirstHeight, Zenon DEF SetRegister, SetRegisterByte, RegisterChanges

LEMMA StepKinds ==
  ASSUME TypeOK, [Next]_vars
  PROVE  Stands \/ Reset \/ \E step \in 1 .. Line : Pass(step)
<1>1. CASE UNCHANGED vars
  BY <1>1 DEF vars, beam, regs, Stands
<1>2. CASE Poll \/ Halted \/ CheckInt \/ Stopped \/ Compute
  BY <1>2 DEF Poll, Halted, CheckInt, Stopped, Compute, beam, regs, Stands
<1>3. CASE \E m \in Masks, halt \in BOOLEAN : SetMask(m, halt)
  BY <1>3 DEF SetMask, beam, regs, Stands
<1>4. ASSUME RegisterChanges PROVE Stands
  <2>1. ASSUME NEW on0, NEW on1, NEW lines, WriteEnables(on0, on1, lines) PROVE Stands
    BY <2>1, Zenon DEF WriteEnables, Stands
  <2>2. ASSUME NEW wide, WriteWidth(wide) PROVE Stands
    BY <2>2, Zenon DEF WriteWidth, Stands
  <2>3. ASSUME NEW n, WriteReload(n) PROVE Stands
    BY <2>3, Zenon DEF WriteReload, Stands
  <2> QED BY <1>4, <2>1, <2>2, <2>3, Zenon DEF RegisterChanges
<1> QED BY <1>1, <1>2, <1>3, <1>4, SetsRegisters, Zenon DEF Next

-----------------------------------------------------------------------------
(* One pass of the beam. *)

LEMMA PassFacts ==
  ASSUME TypeOK, NEW step \in 1 .. Line, Pass(step)
  PROVE  /\ step <= ticks
         /\ clock + step <= Line
         /\ scanline = height /\ clock < Edge[h40] => clock + step <= Edge[h40]
<1> DEFINE toEdge == Edge[h40] - clock
           toEnd  == Line - clock
           before == scanline = height /\ clock < Edge[h40]
<1>1. ticks \in Nat /\ ticks > 0 /\ clock \in 0 .. (Line - 1) /\ Line \in Nat
      /\ Edge[h40] \in Nat
  BY ConstantFacts DEF TypeOK, Pass
<1>2. toEdge \in Int /\ toEnd \in Int
  BY <1>1
<1>3. Stops = {ticks, toEnd} \cup (IF before THEN {toEdge} ELSE {})
  BY DEF Stops
<1> HIDE DEF toEdge, toEnd, before
<1>4. \E n \in Stops : \A m \in Stops : n <= m
  <2>1. CASE before
    <3>1. Stops = {ticks, toEnd, toEdge}
      BY <1>3, <2>1
    <3>2. PICK n \in {ticks, toEnd, toEdge} : n <= ticks /\ n <= toEnd /\ n <= toEdge
      BY <1>1, <1>2
    <3> QED BY <3>1, <3>2
  <2>2. CASE ~before
    <3>1. Stops = {ticks, toEnd}
      BY <1>3, <2>2
    <3>2. PICK n \in {ticks, toEnd} : n <= ticks /\ n <= toEnd
      BY <1>1, <1>2
    <3> QED BY <3>1, <3>2
  <2> QED BY <2>1, <2>2
<1>5. step \in Stops /\ \A m \in Stops : step <= m
  BY <1>4, SmallestFacts DEF Pass
<1>6. step <= ticks /\ step <= toEnd /\ (before => step <= toEdge)
  BY <1>3, <1>5
<1> QED BY <1>1, <1>6 DEF before, toEdge, toEnd

(* Where the beam is after a pass. *)
LEMMA BeamMoves ==
  ASSUME TypeOK, NEW step \in 1 .. Line, Pass(step)
  PROVE  \/ /\ clock + step < Line
            /\ clock' = clock + step
            /\ UNCHANGED <<scanline, lineInt, even, steady>>
         \/ /\ clock + step = Line
            /\ clock' = 0
            /\ scanline + 1 < Lines
            /\ scanline' = scanline + 1
            /\ steady' => steady
            /\ CountLine
         \/ /\ clock + step = Line
            /\ clock' = 0
            /\ scanline + 1 = Lines
            /\ scanline' = 0
            /\ CountLine
<1>1. CASE WithinLine(step)
  BY <1>1 DEF WithinLine
<1>2. CASE EndLine(step)
  <2>1. scanline \in 0 .. (Lines - 1) /\ Lines \in Nat
    BY ConstantFacts DEF TypeOK
  <2>2. scanline + 1 < Lines \/ scanline + 1 = Lines
    BY <2>1
  <2>3. scanline' = (scanline + 1) % Lines
    BY <1>2 DEF EndLine
  <2> DEFINE next == scanline + 1
  <2>4. next \in Nat \ {0} /\ Lines \in Nat \ {0} /\ scanline' = next % Lines
    BY <2>1, <2>3
  <2> HIDE DEF next
  <2>5. next < Lines => scanline' = next /\ scanline' # 0
    BY <2>4, ModFacts
  <2>6. next = Lines => scanline' = 0
    BY <2>4, ModFacts
  <2>7. scanline + 1 < Lines => scanline' = scanline + 1 /\ scanline' # 0
    BY <2>5 DEF next
  <2>8. scanline + 1 = Lines => scanline' = 0
    BY <2>6 DEF next
  <2>9. /\ clock + step = Line
        /\ clock' = 0
        /\ steady' => steady \/ scanline' = 0
        /\ CountLine
    BY <1>2, Zenon DEF EndLine
  <2> QED BY <2>2, <2>7, <2>8, <2>9, Zenon
<1> QED BY <1>1, <1>2 DEF Pass

LEMMA PassNumbers ==
  ASSUME TypeOK, NEW step \in 1 .. Line, Pass(step)
  PROVE  NumbersTyped'
<1>1. NumbersTyped /\ Line \in Nat \ {0} /\ Lines \in Nat /\ reload \in Nat
  BY TypeParts, ConstantFacts
<1>2. ticks' \in Nat
  BY <1>1, PassFacts DEF Pass, NumbersTyped
<1>3. scanline' \in 0 .. (Lines - 1) /\ clock' \in 0 .. (Line - 1)
  BY <1>1, BeamMoves DEF NumbersTyped
<1>4. lineInt' \in Nat
  <2>1. lineInt' = lineInt \/ lineInt' = reload \/ (lineInt # 0 /\ lineInt' = lineInt - 1)
    BY BeamMoves DEF CountLine
  <2> QED BY <2>1, <1>1 DEF NumbersTyped
<1>5. vints' \in 0 .. 2
  <2> DEFINE reached == scanline' = height /\ clock' = Edge[h40]
             before  == IF scanline' < scanline THEN 0 ELSE vints
  <2>1. before \in 0 .. 2
    BY <1>1 DEF NumbersTyped
  <2>2. vints' = IF reached /\ before < 2 THEN before + 1 ELSE before
    BY DEF Pass
  <2> HIDE DEF reached, before
  <2> QED BY <2>1, <2>2
<1>6. UNCHANGED <<turn, height, reload, levels, mask>>
  BY DEF Pass, regs, cpu
<1> QED BY <1>1, <1>2, <1>3, <1>4, <1>5, <1>6 DEF NumbersTyped

(* The vertical interrupt is latched when the beam crosses the edge and at no *)
(* other time: no pass jumps over it, and a new frame begins before it.       *)
LEMMA PassVints ==
  ASSUME Inv, NEW step \in 1 .. Line, Pass(step)
  PROVE  VintOncePerFrame'
<1>1. /\ NumbersTyped /\ Line \in Nat \ {0} /\ Lines \in Nat
      /\ height \in Nat \ {0} /\ height + 1 < Lines
      /\ Edge[h40] \in 1 .. (Line - 1)
  BY TypeParts, ConstantFacts DEF Inv
<1>2. height' = height /\ h40' = h40
  BY DEF Pass, regs
<1> DEFINE edge == Edge[h40]
           reached == scanline' = height /\ clock' = edge
           before  == IF scanline' < scanline THEN 0 ELSE vints
<1>3. vints' = IF reached /\ before < 2 THEN before + 1 ELSE before
  BY DEF Pass
<1>4. scanline = height /\ clock < edge => clock + step <= edge
  BY PassFacts DEF Inv
<1>5. steady => vints = IF scanline > height \/ (scanline = height /\ clock >= edge)
                        THEN 1 ELSE 0
  BY DEF Inv, VintOncePerFrame
<1>6. edge \in 1 .. (Line - 1)
  BY <1>1
<1>7. VintOncePerFrame' =
        (steady' => vints' = IF scanline' > height \/ (scanline' = height /\ clock' >= edge)
                             THEN 1 ELSE 0)
  BY <1>2 DEF VintOncePerFrame
<1> HIDE DEF edge
<1> SUFFICES ASSUME steady'
             PROVE  vints' = IF scanline' > height \/ (scanline' = height /\ clock' >= edge)
                             THEN 1 ELSE 0
  BY <1>7, Zenon
<1>8. CASE clock + step < Line /\ clock' = clock + step /\ UNCHANGED <<scanline, steady>>
  BY <1>1, <1>3, <1>4, <1>5, <1>6, <1>8 DEF NumbersTyped
<1>9. CASE clock + step = Line /\ clock' = 0 /\ scanline + 1 < Lines
           /\ scanline' = scanline + 1 /\ (steady' => steady)
  BY <1>1, <1>3, <1>4, <1>5, <1>6, <1>9 DEF NumbersTyped
<1>10. CASE clock + step = Line /\ clock' = 0 /\ scanline + 1 = Lines /\ scanline' = 0
  BY <1>1, <1>3, <1>6, <1>10 DEF NumbersTyped
<1> QED BY <1>8, <1>9, <1>10, BeamMoves DEF Inv

(* The counter counts down once a line and is reloaded at zero, below the *)
(* display and at the frame's end.                                        *)
LEMMA PassCounter ==
  ASSUME Inv, NEW step \in 1 .. Line, Pass(step)
  PROVE  LineCounter'
<1>1. /\ NumbersTyped /\ Lines \in Nat /\ reload \in Nat
      /\ height \in Nat \ {0} /\ height + 1 < Lines
  BY TypeParts, ConstantFacts DEF Inv
<1>2. height' = height /\ reload' = reload
  BY DEF Pass, regs
<1> DEFINE period == reload + 1
           line   == scanline % period
<1>3. even /\ scanline <= height => lineInt = reload - line
  BY DEF Inv, LineCounter
<1>4. period \in Nat \ {0} /\ scanline \in Nat
  BY <1>1 DEF NumbersTyped
<1>5. line \in 0 .. reload
  BY <1>1, <1>4, ModFacts
<1>6. (scanline + 1) % period = IF line = reload THEN 0 ELSE line + 1
  <2>1. period - 1 = reload
    BY <1>1
  <2> HIDE DEF period
  <2> QED BY <1>4, <2>1, ModSucc
<1>7. 0 % period = 0
  BY <1>4, ModFacts
<1> SUFFICES ASSUME even', scanline' <= height
             PROVE  lineInt' = reload - (scanline' % period)
  BY <1>2 DEF LineCounter
<1> HIDE DEF line
<1>8. CASE UNCHANGED <<scanline, lineInt, even>>
  BY <1>3, <1>8 DEF line
<1>9. CASE scanline + 1 < Lines /\ scanline' = scanline + 1 /\ CountLine
  <2>1. scanline <= height /\ scanline + 1 # Lines
    BY <1>1, <1>4, <1>9
  <2>2. ~(scanline > height)
    BY <1>1, <1>4, <2>1
  <2>3. lineInt' = (IF lineInt = 0 THEN reload ELSE lineInt - 1) /\ even
    BY <1>9, <2>1, <2>2, Zenon DEF CountLine
  <2>4. lineInt = reload - line
    BY <1>3, <2>1, <2>3
  <2>5. scanline' % period = IF line = reload THEN 0 ELSE line + 1
    BY <1>6, <1>9
  <2> HIDE DEF period
  <2> QED BY <1>1, <1>5, <2>3, <2>4, <2>5
<1>10. CASE scanline + 1 = Lines /\ scanline' = 0 /\ CountLine
  <2>1. lineInt' = reload
    BY <1>10 DEF CountLine
  <2> HIDE DEF period
  <2> QED BY <1>1, <1>7, <1>10, <2>1
<1> QED BY <1>8, <1>9, <1>10, BeamMoves DEF Inv

-----------------------------------------------------------------------------
(* Types, and the request line. *)

LEMMA NumbersStep ==
  ASSUME TypeOK, [Next]_vars
  PROVE  NumbersTyped'
<1>1. NumbersTyped
  BY TypeParts
<1>2. Durations \subseteq Nat /\ Masks \subseteq 0 .. 7 /\ Line \in Nat \ {0}
      /\ Lines \in Nat /\ 0 \in Reloads /\ Reloads \subseteq Nat /\ FirstLine \in Nat
  BY VideoInterruptsAssumption DEF VideoInterruptsAssumption
<1>3. CASE UNCHANGED vars
  BY <1>1, <1>3 DEF vars, beam, regs, cpu, NumbersTyped
<1>4. ASSUME NEW step \in 1 .. Line, Pass(step) PROVE NumbersTyped'
  BY <1>4, PassNumbers
<1>5. CASE Poll
  <2>1. turn' = "check" /\ UNCHANGED <<ticks, scanline, clock, height, reload, lineInt, mask, vints>>
    BY <1>5 DEF Poll, beam, regs
  <2>2. levels' = levels \/ levels' = levels \cup {VINT} \/ levels' = levels \cup {HINT}
    BY <1>5, Zenon DEF Poll, PollVertical, PollHorizontal, PollNothing
  <2>3. levels' \subseteq {HINT, VINT}
    BY <1>1, <2>2 DEF NumbersTyped
  <2> QED BY <1>1, <2>1, <2>3 DEF NumbersTyped
<1>6. CASE CheckInt
  <2>1. turn' = "execute" /\ UNCHANGED <<ticks, scanline, clock, height, reload, lineInt, vints>>
    BY <1>6 DEF CheckInt, beam, regs
  <2>2. CASE Accepts
    <3>1. \E level \in levels : \A other \in levels : other <= level
      <4>1. levels # {} /\ levels \subseteq {4, 6}
        BY <1>1, <2>2, Zenon DEF Accepts, NumbersTyped, HINT, VINT
      <4>2. CASE 6 \in levels
        BY <4>1, <4>2
      <4>3. CASE 6 \notin levels
        <5>1. levels = {4}
          BY <4>1, <4>3
        <5> QED BY <5>1
      <4> QED BY <4>2, <4>3
    <3>2. Highest \in levels
      BY <3>1, Zenon DEF Highest
    <3>3. levels' = levels \ {Highest} /\ mask' = Highest
      BY <1>6, <2>2 DEF CheckInt
    <3>4. Highest \in 0 .. 7
      BY <1>1, <3>2 DEF NumbersTyped, HINT, VINT
    <3> HIDE DEF Highest
    <3> QED BY <1>1, <2>1, <3>3, <3>4 DEF NumbersTyped
  <2>3. CASE ~Accepts
    BY <1>1, <1>6, <2>1, <2>3 DEF CheckInt, cpu, NumbersTyped
  <2> QED BY <2>2, <2>3
<1>7. CASE Stopped \/ Compute \/ Halted
  BY <1>1, <1>2, <1>7
     DEF Stopped, Compute, Halted, Running, Executes, beam, regs, cpu, NumbersTyped
<1>8. CASE \E m \in Masks, halt \in BOOLEAN : SetMask(m, halt)
  BY <1>1, <1>2, <1>8 DEF SetMask, Running, Executes, beam, regs, NumbersTyped
<1>9. ASSUME SetRegister \/ SetRegisterByte PROVE NumbersTyped'
  <2>1. turn' \in {"check", "execute", "advance"} /\ ticks' \in Nat /\ UNCHANGED cpu
    <3>1. CASE SetRegister
      BY <1>2, <3>1 DEF SetRegister, Running, Executes
    <3>2. CASE SetRegisterByte
      BY <1>1, <3>2, Zenon DEF SetRegisterByte, NumbersTyped
    <3> QED BY <1>9, <3>1, <3>2
  <2>2. RegisterChanges /\ height \in Heights /\ reload \in Reloads
    BY <1>1, <1>9, SetsRegisters, Zenon DEF NumbersTyped
  <2>3. height' \in Heights /\ UNCHANGED <<scanline, clock, lineInt, vints>>
    BY <2>2, Zenon DEF RegisterChanges, WriteEnables, WriteWidth, WriteReload
  <2>4. reload' \in Reloads
    BY <2>2, Zenon DEF RegisterChanges, WriteEnables, WriteWidth, WriteReload
  <2> QED BY <1>1, <2>1, <2>3, <2>4 DEF cpu, NumbersTyped
<1>10. CASE Reset
  <2>1. turn' = "advance" /\ ticks' \in Nat /\ scanline' = 0 /\ clock' = 0
        /\ lineInt' = FirstLine /\ height' = Smallest(Heights) /\ reload' = 0
        /\ vints' = 0 /\ UNCHANGED <<levels, mask>>
    BY <1>2, <1>10 DEF Reset, Running, Executes, cpu
  <2>2. 0 \in 0 .. (Line - 1) /\ 0 \in 0 .. (Lines - 1)
    BY <1>1, <1>2 DEF NumbersTyped
  <2> QED BY <1>1, <1>2, <2>1, <2>2, FirstHeight DEF NumbersTyped
<1> QED BY <1>3, <1>4, <1>5, <1>6, <1>7, <1>8, <1>9, <1>10, Zenon DEF Next

LEMMA FlagsStep ==
  ASSUME TypeOK, [Next]_vars
  PROVE  FlagsTyped'
<1>1. FlagsTyped
  BY TypeParts
<1>2. CASE UNCHANGED vars
  BY <1>1, <1>2, Zenon DEF vars, beam, regs, irq, cpu, FlagsTyped
<1>3. ASSUME NEW step \in 1 .. Line, Pass(step) PROVE FlagsTyped'
  <2>1. /\ vertical' = (vertical \/ (scanline' = height /\ clock' = Edge[h40]))
        /\ requestInt' = Wanted(vertical', ie0, horizontal', ie1)
        /\ UNCHANGED <<h40, ie0, ie1, stop>>
    BY <1>3, Zenon DEF Pass, regs, cpu
  <2>2. horizontal' \in BOOLEAN /\ steady' \in BOOLEAN /\ even' \in BOOLEAN
    <3>1. CASE WithinLine(step)
      BY <1>1, <3>1, Zenon DEF WithinLine, FlagsTyped
    <3>2. CASE EndLine(step)
      <4>1. even' = TRUE \/ even' = even
        BY <3>2, Zenon DEF EndLine, CountLine
      <4> QED BY <1>1, <3>2, <4>1, Zenon DEF EndLine, FlagsTyped
    <3> QED BY <1>3, <3>1, <3>2, Zenon DEF Pass
  <2> QED BY <1>1, <2>1, <2>2, Zenon DEF FlagsTyped, Wanted
<1>4. CASE Poll
  <2>1. UNCHANGED <<h40, ie0, ie1, stop, steady, even>>
    BY <1>4, Zenon DEF Poll, beam, regs
  <2>2. vertical' \in BOOLEAN /\ horizontal' \in BOOLEAN /\ requestInt' \in BOOLEAN
    BY <1>1, <1>4, Zenon DEF Poll, PollVertical, PollHorizontal, PollNothing, irq, FlagsTyped
  <2> QED BY <1>1, <2>1, <2>2, Zenon DEF FlagsTyped
<1>5. CASE CheckInt
  <2>1. stop' = FALSE \/ stop' = stop
    BY <1>5, Zenon DEF CheckInt, cpu
  <2> QED BY <1>1, <1>5, <2>1, Zenon DEF CheckInt, beam, regs, irq, FlagsTyped
<1>6. CASE Stopped \/ Compute \/ Halted
  BY <1>1, <1>6, Zenon DEF Stopped, Compute, Halted, beam, regs, irq, cpu, FlagsTyped
<1>7. ASSUME NEW m \in Masks, NEW halt \in BOOLEAN, SetMask(m, halt) PROVE FlagsTyped'
  BY <1>1, <1>7, Zenon DEF SetMask, beam, regs, irq, FlagsTyped
<1>8. ASSUME SetRegister \/ SetRegisterByte PROVE FlagsTyped'
  <2>1. RegisterChanges /\ stop' = stop
    BY <1>8, SetsRegisters, Zenon DEF SetRegister, SetRegisterByte, cpu
  <2>2. ASSUME NEW on0 \in BOOLEAN, NEW on1 \in BOOLEAN, NEW lines,
               WriteEnables(on0, on1, lines)
        PROVE  FlagsTyped'
    BY <1>1, <2>1, <2>2, Zenon DEF WriteEnables, Wanted, FlagsTyped
  <2>3. ASSUME NEW wide \in BOOLEAN, WriteWidth(wide) PROVE FlagsTyped'
    BY <1>1, <2>1, <2>3, Zenon DEF WriteWidth, irq, FlagsTyped
  <2>4. ASSUME NEW n, WriteReload(n) PROVE FlagsTyped'
    BY <1>1, <2>1, <2>4, Zenon DEF WriteReload, irq, FlagsTyped
  <2> QED BY <2>1, <2>2, <2>3, <2>4, Zenon DEF RegisterChanges
<1>9. CASE Reset
  BY <1>1, <1>9, Zenon DEF Reset, cpu, FlagsTyped
<1> QED BY <1>2, <1>3, <1>4, <1>5, <1>6, <1>7, <1>8, <1>9, Zenon DEF Next

(* The request line is recomputed whenever a latch or an enable bit changes. *)
LEMMA RequestStep ==
  ASSUME TypeOK, RequestAgrees, [Next]_vars
  PROVE  RequestAgrees'
<1>1. FlagsTyped /\ FlagsTyped'
  BY TypeParts, FlagsStep
<1>2. ASSUME UNCHANGED <<vertical, horizontal, requestInt, ie0, ie1>> PROVE RequestAgrees'
  BY <1>2, Zenon DEF RequestAgrees, Wanted
<1>3. CASE UNCHANGED vars
  BY <1>2, <1>3, Zenon DEF vars, regs, irq
<1>4. ASSUME NEW step \in 1 .. Line, Pass(step) PROVE RequestAgrees'
  BY <1>4, Zenon DEF Pass, regs, RequestAgrees, Wanted
<1>5. CASE Poll
  <2>1. UNCHANGED <<ie0, ie1>>
    BY <1>5, Zenon DEF Poll, regs
  <2>2. CASE PollVertical
    <3>1. vertical' = FALSE /\ horizontal' = horizontal /\ (requestInt' <=> horizontal /\ ie1)
      BY <2>2, Zenon DEF PollVertical
    <3> QED BY <1>1, <2>1, <3>1, Zenon DEF RequestAgrees, Wanted, FlagsTyped
  <2>3. CASE PollHorizontal
    <3>1. horizontal' = FALSE /\ vertical' = vertical /\ (requestInt' <=> vertical /\ ie0)
      BY <2>3, Zenon DEF PollHorizontal
    <3> QED BY <1>1, <2>1, <3>1, Zenon DEF RequestAgrees, Wanted, FlagsTyped
  <2>4. CASE PollNothing
    BY <1>1, <2>1, <2>4, Zenon DEF PollNothing, RequestAgrees, Wanted, FlagsTyped
  <2>5. CASE UNCHANGED irq
    BY <1>2, <2>1, <2>5, Zenon DEF irq
  <2> QED BY <1>5, <2>2, <2>3, <2>4, <2>5, Zenon DEF Poll
<1>6. CASE Halted \/ CheckInt \/ Stopped \/ Compute
  BY <1>2, <1>6, Zenon DEF Halted, CheckInt, Stopped, Compute, regs, irq
<1>7. CASE \E m \in Masks, halt \in BOOLEAN : SetMask(m, halt)
  BY <1>2, <1>7, Zenon DEF SetMask, regs, irq
<1>8. ASSUME SetRegister \/ SetRegisterByte PROVE RequestAgrees'
  <2>1. ASSUME NEW on0, NEW on1, NEW lines, WriteEnables(on0, on1, lines)
        PROVE  RequestAgrees'
    BY <2>1, Zenon DEF WriteEnables, RequestAgrees, Wanted
  <2>2. ASSUME NEW wide, WriteWidth(wide) PROVE RequestAgrees'
    BY <1>2, <2>2, Zenon DEF WriteWidth, irq
  <2>3. ASSUME NEW n, WriteReload(n) PROVE RequestAgrees'
    BY <1>2, <2>3, Zenon DEF WriteReload, irq
  <2> QED BY <1>8, SetsRegisters, <2>1, <2>2, <2>3, Zenon DEF RegisterChanges
<1>9. CASE Reset
  <2>1. ~vertical' /\ ~horizontal' /\ ~requestInt'
    BY <1>9, Zenon DEF Reset
  <2> QED BY <1>1, <2>1, Zenon DEF RequestAgrees, Wanted, FlagsTyped
<1> QED BY <1>3, <1>4, <1>5, <1>6, <1>7, <1>8, <1>9, Zenon DEF Next

-----------------------------------------------------------------------------
(* Theorems. *)

LEMMA InitInv == Init => Inv
<1> SUFFICES ASSUME Init PROVE Inv
  OBVIOUS
<1>1. NumbersTyped
  <2>1. Line \in Nat \ {0} /\ Lines \in Nat \ {0} /\ FirstLine \in Nat /\ 0 \in Reloads
    BY FirstHeight, VideoInterruptsAssumption DEF VideoInterruptsAssumption
  <2>2. 0 \in 0 .. (Line - 1) /\ 0 \in 0 .. (Lines - 1)
    BY <2>1
  <2> QED BY <2>1, <2>2, FirstHeight DEF Init, NumbersTyped
<1>2. FlagsTyped
  BY Zenon DEF Init, FlagsTyped
<1>3. TypeOK
  BY <1>1, <1>2, TypeParts
<1>4. RequestAgrees
  BY Zenon DEF Init, RequestAgrees, Wanted
<1>5. VintOncePerFrame
  <2>1. vints = 0 /\ scanline = 0 /\ clock = 0
    BY DEF Init
  <2>2. height > 0 /\ Edge[h40] > 0 /\ height \in Nat /\ Edge[h40] \in Nat
    BY <1>3, ConstantFacts
  <2> QED BY <2>1, <2>2 DEF VintOncePerFrame
<1>6. LineCounter
  <2>1. ~even
    BY Zenon DEF Init
  <2> QED BY <2>1, Zenon DEF LineCounter
<1> QED BY <1>3, <1>4, <1>5, <1>6 DEF Inv

(* While the beam stands, a frame is spoilt or nothing it depends on changes. *)
LEMMA StandStep ==
  ASSUME Inv, Stands
  PROVE  VintOncePerFrame' /\ LineCounter'
<1>1. VintOncePerFrame'
  BY DEF Inv, Stands, VintOncePerFrame
<1>2. LineCounter'
  BY DEF Inv, Stands, LineCounter
<1> QED BY <1>1, <1>2

LEMMA ResetStep ==
  ASSUME Inv, Reset
  PROVE  VintOncePerFrame' /\ LineCounter'
<1>1. Smallest(Heights) \in Nat \ {0}
  BY FirstHeight, VideoInterruptsAssumption DEF VideoInterruptsAssumption
<1>2. vints' = 0 /\ scanline' = 0 /\ clock' = 0 /\ height' = Smallest(Heights)
  BY DEF Reset
<1>3. h40' = FALSE /\ ~even'
  BY Zenon DEF Reset
<1> DEFINE edge == Edge[h40']
<1>4. edge \in 1 .. (Line - 1)
  BY <1>3, VideoInterruptsAssumption, Zenon DEF VideoInterruptsAssumption
<1>5. VintOncePerFrame' =
        (steady' => vints' = IF scanline' > height' \/ (scanline' = height' /\ clock' >= edge)
                             THEN 1 ELSE 0)
  BY DEF VintOncePerFrame
<1> HIDE DEF edge
<1>6. VintOncePerFrame'
  <2>1. edge \in Nat \ {0}
    BY <1>4, VideoInterruptsAssumption DEF VideoInterruptsAssumption
  <2>2. vints' = IF scanline' > height' \/ (scanline' = height' /\ clock' >= edge)
                 THEN 1 ELSE 0
    BY <1>1, <1>2, <2>1
  <2> QED BY <1>5, <2>2, Zenon
<1>7. LineCounter'
  BY <1>3, Zenon DEF LineCounter
<1> QED BY <1>6, <1>7

(* The invariant holds throughout. *)
THEOREM Invariance == Spec => []Inv
<1>1. Inv /\ [Next]_vars => Inv'
  <2> SUFFICES ASSUME Inv, [Next]_vars PROVE Inv'
    OBVIOUS
  <2>1. TypeOK' /\ RequestAgrees'
    <3>1. NumbersTyped' /\ FlagsTyped' /\ RequestAgrees'
      BY NumbersStep, FlagsStep, RequestStep DEF Inv
    <3> QED BY <3>1, Zenon DEF TypeOK, NumbersTyped, FlagsTyped
  <2>2. VintOncePerFrame' /\ LineCounter'
    BY StepKinds, StandStep, ResetStep, PassVints, PassCounter DEF Inv
  <2> QED BY <2>1, <2>2 DEF Inv
<1> QED BY <1>1, InitInv, PTL DEF Spec

(* Every variable on an interrupt's way keeps its range. *)
THEOREM TypeCorrect == Spec => []TypeOK
<1>1. Inv => TypeOK
  BY DEF Inv
<1> QED BY <1>1, Invariance, PTL

(* The console's question whether to poll agrees with the latches and enables. *)
THEOREM RequestIsCurrent == Spec => []RequestAgrees
<1>1. Inv => RequestAgrees
  BY DEF Inv
<1> QED BY <1>1, Invariance, PTL

(* One vertical interrupt in every frame whose mode is left alone, wherever    *)
(* the instructions end.                                                       *)
THEOREM OneVint == Spec => []VintOncePerFrame
<1>1. Inv => VintOncePerFrame
  BY DEF Inv
<1> QED BY <1>1, Invariance, PTL

(* The line counter's period is the reload value plus one, from the frame's top. *)
THEOREM CounterPeriod == Spec => []LineCounter
<1>1. Inv => LineCounter
  BY DEF Inv
<1> QED BY <1>1, Invariance, PTL

=============================================================================
