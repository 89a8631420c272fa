---------------------------- MODULE Z80Bus_proofs ----------------------------
(***************************************************************************)
(* Proofs of Z80Bus's safety properties, for every clock divider, slice of *)
(* time and instruction length.                                            *)
(***************************************************************************)
EXTENDS Z80Bus, Integers, TLAPS

-----------------------------------------------------------------------------
(* Division with remainder. *)

(* A positive multiple of d is at least d. *)
LEMMA Multiple ==
  ASSUME NEW d \in Nat \ {0}, NEW k \in Int, k >= 1
  PROVE  d * k >= d
<1>1. k - 1 \in Nat
  OBVIOUS
<1>2. d * (k - 1) \in Nat
  BY <1>1
<1>3. d * k = d * (k - 1) + d
  OBVIOUS
<1> QED BY <1>2, <1>3

(* The remainder is the only one. *)
LEMMA ModUnique ==
  ASSUME NEW d \in Nat \ {0}, NEW a \in Nat, NEW q \in Nat, NEW r \in 0 .. (d - 1),
         a = d * q + r
  PROVE  a % d = r
<1> DEFINE p == a \div d
           s == a % d
<1>1. p \in Nat /\ s \in 0 .. (d - 1) /\ a = d * p + s
  BY SMT
<1> HIDE DEF p, s
<1>2. d * (p - q) = r - s
  <2>1. d * (p - q) = d * p - d * q
    BY <1>1
  <2> QED BY <2>1, <1>1
<1>3. d * (q - p) = s - r
  <2>1. d * (q - p) = d * q - d * p
    BY <1>1
  <2> QED BY <2>1, <1>1
<1>4. ~(p - q >= 1)
  <2> SUFFICES ASSUME p - q >= 1 PROVE FALSE
    OBVIOUS
  <2>1. d * (p - q) >= d
    BY <1>1, Multiple
  <2> QED BY <2>1, <1>2, <1>1
<1>5. ~(q - p >= 1)
  <2> SUFFICES ASSUME q - p >= 1 PROVE FALSE
    OBVIOUS
  <2>1. d * (q - p) >= d
    BY <1>1, Multiple
  <2> QED BY <2>1, <1>3, <1>1
<1>6. p = q
  BY <1>1, <1>4, <1>5
<1>7. s = r
  BY <1>1, <1>6
<1> QED BY <1>7 DEF s

(* To reduce a number before it is added changes nothing. *)
LEMMA ModAdd ==
  ASSUME NEW a \in Nat, NEW b \in Nat, NEW d \in Nat \ {0}
  PROVE  (a + (b % d)) % d = (a + b) % d
<1> DEFINE q == b \div d
           r == b % d
           p == (a + r) \div d
           s == (a + r) % d
<1>1. q \in Nat /\ r \in 0 .. (d - 1) /\ b = d * q + r
  BY SMT
<1>2. a + r \in Nat
  BY <1>1
<1>3. p \in Nat /\ s \in 0 .. (d - 1) /\ a + r = d * p + s
  BY <1>2, SMT
<1> HIDE DEF q, r, p, s
<1>4. d * (p + q) = d * p + d * q
  BY <1>1, <1>3
<1>5. a + b = d * (p + q) + s
  BY <1>1, <1>3, <1>4
<1>6. p + q \in Nat /\ a + b \in Nat
  BY <1>1, <1>3
<1>7. s \in 0 .. (d - 1)
  BY <1>3
<1>8. (a + b) % d = s
  <2> DEFINE m == p + q
  <2>1. m \in Nat /\ a + b = d * m + s
    BY <1>5, <1>6
  <2> HIDE DEF m
  <2> QED BY <2>1, <1>6, <1>7, ModUnique, Zenon
<1> QED BY <1>8 DEF s, r

LEMMA ModFacts ==
  ASSUME NEW d \in Nat \ {0}, NEW a \in Nat
  PROVE  /\ a % d \in 0 .. (d - 1)
         /\ a < d => a % d = a
         /\ d % d = 0
  BY SMT

-----------------------------------------------------------------------------
(* The inductive invariant. *)

(* A call of Advance that has returned holds no clocks, and only a running    *)
(* one can be inside a bus callback.  Without it AudioAccounts is not         *)
(* inductive: a new call would overwrite clocks that are still owed.          *)
CallsNest ==
  /\ ~advancing => left = 0
  /\ access => advancing

Inv ==
  /\ TypeOK
  /\ CallsNest
  /\ AudioAccounts
  /\ PhaseKept
  /\ GrantIsSafe

LEMMA InitInv == Init => Inv
<1> SUFFICES ASSUME Init PROVE Inv
  OBVIOUS
<1>1. TypeOK
  <2>1. /\ clock \in 0 .. (Divider - 1) /\ phase \in 0 .. (Divider - 1)
        /\ opTicks \in 0 .. MaxOp /\ left \in 0 .. MaxAdvance /\ owed \in Nat
    BY Z80BusAssumption DEF Init, AfterReset
  <2>2. /\ busRequest \in BOOLEAN /\ granted \in BOOLEAN /\ reset \in BOOLEAN
        /\ advancing \in BOOLEAN /\ access \in BOOLEAN
    BY Zenon DEF Init
  <2> QED BY <2>1, <2>2 DEF TypeOK
<1>2. CallsNest /\ AudioAccounts /\ PhaseKept /\ GrantIsSafe
  BY DEF Init, CallsNest, AudioAccounts, PhaseKept, GrantIsSafe
<1> QED BY <1>1, <1>2 DEF Inv

(* Where the divider and the sound's phase stand after n clocks that the CPU  *)
(* is not ticked in: at the same place.                                       *)
LEMMA SkippedClocks ==
  ASSUME Inv, NEW n \in Nat, SkipClock(n), phase' = (phase + n) % Divider
  PROVE  /\ clock' \in 0 .. (Divider - 1)
         /\ phase' \in 0 .. (Divider - 1)
         /\ clock' = phase'
<1>1. clock \in Nat /\ phase = clock /\ Divider \in Nat \ {0}
  BY Z80BusAssumption DEF Inv, TypeOK, PhaseKept
<1>2. clock' = phase'
  BY <1>1, ModAdd DEF SkipClock
<1>3. phase + n \in Nat
  BY <1>1
<1>4. (phase + n) % Divider \in 0 .. (Divider - 1)
  BY <1>1, <1>3, ModFacts
<1> QED BY <1>2, <1>4

(* What reaching a clock edge does to the clocks. *)
LEMMA EdgeClocks ==
  ASSUME Inv, ReachEdge
  PROVE  /\ left' \in 0 .. MaxAdvance
         /\ clock' = 0 /\ phase' = 0
         /\ owed' = left'
         /\ UNCHANGED <<busRequest, reset, advancing>>
<1>1. /\ clock \in 0 .. (Divider - 1) /\ left \in 0 .. MaxAdvance
      /\ phase = clock /\ owed = left /\ Divider \in Nat \ {0} /\ MaxAdvance \in Nat
  BY Z80BusAssumption DEF Inv, TypeOK, PhaseKept, AudioAccounts
<1>2. phase' = Divider % Divider
  <2>1. phase' = (phase + (Divider - clock)) % Divider
    BY DEF ReachEdge, Clocks
  <2>2. phase + (Divider - clock) = Divider
    BY <1>1
  <2> QED BY <2>1, <2>2
<1>3. phase' = 0
  BY <1>1, <1>2, ModFacts
<1>4. left' = left - (Divider - clock) /\ left >= Divider - clock
  BY DEF ReachEdge
<1>5. owed' = (owed + 0) - (Divider - clock)
  BY DEF ReachEdge, Clocks
<1> QED BY <1>1, <1>3, <1>4, <1>5 DEF ReachEdge

(* Handing out clocks preserves the invariant. *)
LEMMA TimePreserves ==
  ASSUME Inv,
         \/ \E n \in 1 .. MaxAdvance : Advance(n) \/ NestedAdvance(n)
         \/ PassHeld \/ PassShort \/ Return
  PROVE  Inv'
<1> USE Z80BusAssumption
<1>1. ASSUME NEW n \in 1 .. MaxAdvance, Advance(n) PROVE Inv'
  <2>1. phase' = phase
    <3>1. phase \in Nat /\ phase < Divider
      BY DEF Inv, TypeOK
    <3>2. phase' = (phase + 0) % Divider /\ phase + 0 = phase
      BY <1>1, <3>1 DEF Advance, Clocks
    <3> QED BY <3>1, <3>2, ModFacts
  <2>2. owed' = n /\ left' = n
    BY <1>1 DEF Advance, Clocks, Inv, CallsNest, AudioAccounts, TypeOK
  <2> QED BY <1>1, <2>1, <2>2
          DEF Advance, lines, Inv, TypeOK, CallsNest, AudioAccounts, PhaseKept, GrantIsSafe, OpDone
<1>2. ASSUME NEW n \in 1 .. MaxAdvance, NestedAdvance(n) PROVE Inv'
  <2>1. /\ clock' \in 0 .. (Divider - 1) /\ phase' \in 0 .. (Divider - 1)
        /\ clock' = phase'
    BY <1>2, SkippedClocks DEF NestedAdvance, Clocks
  <2>2. owed' = owed
    BY <1>2 DEF NestedAdvance, Clocks, Inv, TypeOK
  <2> QED BY <1>2, <2>1, <2>2
          DEF NestedAdvance, lines, Inv, TypeOK, CallsNest, AudioAccounts, PhaseKept, GrantIsSafe, OpDone
<1>3. CASE PassHeld
  <2>1. /\ clock' \in 0 .. (Divider - 1) /\ phase' \in 0 .. (Divider - 1)
        /\ clock' = phase'
    <3>1. left \in Nat
      BY DEF Inv, TypeOK
    <3> QED BY <1>3, <3>1, SkippedClocks DEF PassHeld, Clocks
  <2>2. owed' = 0 /\ left' = 0
    BY <1>3 DEF PassHeld, Clocks, Inv, TypeOK, AudioAccounts
  <2> QED BY <1>3, <2>1, <2>2
          DEF PassHeld, Held, Looping, Inv, TypeOK, CallsNest, AudioAccounts, PhaseKept, GrantIsSafe, OpDone
<1>4. CASE PassShort
  <2>1. clock + left \in Nat /\ clock + left < Divider /\ phase = clock
    BY <1>4 DEF PassShort, Inv, TypeOK, PhaseKept
  <2>2. phase' = clock + left
    BY <1>4, <2>1, ModFacts DEF PassShort, Clocks
  <2>3. owed' = 0 /\ left' = 0
    BY <1>4 DEF PassShort, Clocks, Inv, TypeOK, AudioAccounts
  <2> QED BY <1>4, <2>1, <2>2, <2>3
          DEF PassShort, lines, Looping, Inv, TypeOK, CallsNest, AudioAccounts, PhaseKept, GrantIsSafe, OpDone
<1>5. CASE Return
  BY <1>5 DEF Return, lines, Inv, TypeOK, CallsNest, AudioAccounts, PhaseKept, GrantIsSafe, OpDone
<1> QED BY <1>1, <1>2, <1>3, <1>4, <1>5

(* So does a pass that reaches a clock edge. *)
LEMMA EdgePreserves ==
  ASSUME Inv, PassGrant \/ \E bus \in BOOLEAN : PassTick(bus)
  PROVE  Inv'
<1> USE Z80BusAssumption
<1>1. ReachEdge
  BY DEF PassGrant, PassTick
<1>2. /\ left' \in 0 .. MaxAdvance /\ clock' = 0 /\ phase' = 0 /\ owed' = left'
      /\ UNCHANGED <<busRequest, reset, advancing>>
  BY <1>1, EdgeClocks
<1>3. advancing
  BY <1>1 DEF ReachEdge, Looping
<1>4. CASE PassGrant
  BY <1>2, <1>3, <1>4
  DEF PassGrant, Inv, TypeOK, CallsNest, AudioAccounts, PhaseKept, GrantIsSafe, OpDone
<1>5. ASSUME NEW bus \in BOOLEAN, PassTick(bus) PROVE Inv'
  <2>1. opTicks' \in 0 .. MaxOp
    BY <1>5 DEF PassTick, OpDone, Inv, TypeOK
  <2>2. granted' = FALSE /\ access' = bus
    BY <1>5 DEF PassTick
  <2>3. GrantIsSafe' /\ granted' \in BOOLEAN /\ access' \in BOOLEAN
    BY <2>2, Zenon DEF GrantIsSafe
  <2>4. CallsNest' /\ AudioAccounts' /\ PhaseKept'
    BY <1>2, <1>3 DEF CallsNest, AudioAccounts, PhaseKept
  <2>5. owed' \in Nat /\ clock' \in 0 .. (Divider - 1) /\ phase' \in 0 .. (Divider - 1)
    BY <1>2
  <2>6. busRequest' \in BOOLEAN /\ reset' \in BOOLEAN /\ advancing' \in BOOLEAN
    BY <1>2 DEF Inv, TypeOK
  <2>7. TypeOK'
    BY <1>2, <2>1, <2>3, <2>5, <2>6, Zenon DEF TypeOK
  <2> QED BY <2>3, <2>4, <2>7 DEF Inv
<1> QED BY <1>4, <1>5

(* And so does whatever drives the lines. *)
LEMMA LinesPreserve ==
  ASSUME Inv,
         \/ \E asserted \in BOOLEAN : SetBusRequest(asserted) \/ SetReset(asserted)
         \/ ResetDevices \/ AccessDone
  PROVE  Inv'
<1> USE Z80BusAssumption
<1>1. /\ TypeOK /\ CallsNest /\ GrantIsSafe
      /\ UNCHANGED <<clock, left, owed, phase, advancing>>
  BY DEF Inv, SetBusRequest, SetReset, ResetDevices, AccessDone
<1>2. AudioAccounts' /\ PhaseKept'
  BY <1>1 DEF Inv, AudioAccounts, PhaseKept
<1>3. access' = FALSE \/ access' = access
  BY Zenon DEF SetBusRequest, SetReset, ResetDevices, AccessDone
<1>4. CallsNest' /\ access' \in BOOLEAN
  <2>1. advancing' = advancing /\ left' = left
    BY <1>1
  <2>2. access \in BOOLEAN /\ (~advancing => left = 0) /\ (access => advancing)
    BY <1>1 DEF TypeOK, CallsNest
  <2>3. access' \in BOOLEAN
    BY <1>3, <2>2, Zenon
  <2>4. ~advancing' => left' = 0
    BY <2>1, <2>2
  <2>5. access' => advancing'
    BY <1>3, <2>1, <2>2
  <2> QED BY <2>3, <2>4, <2>5 DEF CallsNest
<1>5. opTicks' \in 0 .. MaxOp
  <2>1. opTicks' = opTicks \/ opTicks' = AfterReset
    BY Zenon DEF SetBusRequest, SetReset, ResetDevices, AccessDone
  <2> QED BY <2>1, <1>1 DEF TypeOK, AfterReset
<1>6. busRequest' \in BOOLEAN /\ reset' \in BOOLEAN /\ granted' \in BOOLEAN /\ GrantIsSafe'
  <2>1. ASSUME NEW asserted \in BOOLEAN, SetBusRequest(asserted)
        PROVE  /\ busRequest' = asserted /\ reset' = reset /\ opTicks' = opTicks
               /\ granted' = (asserted /\ (granted \/ reset))
    BY <2>1, <1>1 DEF SetBusRequest
  <2>2. ASSUME NEW asserted \in BOOLEAN, SetReset(asserted)
        PROVE  /\ busRequest' = busRequest /\ reset' = asserted
               /\ granted' = (busRequest /\ asserted)
    BY <2>2 DEF SetReset
  <2>3. CASE \E asserted \in BOOLEAN : SetBusRequest(asserted)
    BY <2>3, <2>1, <1>1, Zenon DEF TypeOK, GrantIsSafe, OpDone
  <2>4. CASE \E asserted \in BOOLEAN : SetReset(asserted)
    BY <2>4, <2>2, <1>1, Zenon DEF TypeOK, GrantIsSafe
  <2>5. CASE ResetDevices
    BY <2>5, <1>1 DEF ResetDevices, TypeOK, GrantIsSafe
  <2>6. CASE AccessDone
    BY <2>6, <1>1 DEF AccessDone, lines, TypeOK, GrantIsSafe, OpDone
  <2> QED BY <2>3, <2>4, <2>5, <2>6
<1>7. TypeOK'
  BY <1>1, <1>4, <1>5, <1>6 DEF TypeOK
<1> QED BY <1>2, <1>4, <1>6, <1>7 DEF Inv

LEMMA NextInv == Inv /\ [Next]_vars => Inv'
<1> SUFFICES ASSUME Inv, [Next]_vars PROVE Inv'
  OBVIOUS
<1>1. CASE UNCHANGED vars
  BY <1>1 DEF vars, lines, Inv, TypeOK, CallsNest, AudioAccounts, PhaseKept, GrantIsSafe, OpDone
<1>2. CASE Next
  BY <1>2, TimePreserves, EdgePreserves, LinesPreserve DEF Next
<1> QED BY <1>1, <1>2

THEOREM Invariance == Spec => []Inv
  BY InitInv, NextInv, PTL DEF Spec

-----------------------------------------------------------------------------
(* The properties. *)

(* Every variable keeps its type; in particular the divider's remainder stays *)
(* below the divider although nested waits add to it.                         *)
THEOREM TypeCorrect == Spec => []TypeOK
<1>1. Inv => TypeOK
  BY DEF Inv
<1> QED BY <1>1, Invariance, PTL

(* The sound generators receive every clock the console counts, once.         *)
THEOREM AudioIsExact == Spec => []AudioAccounts
<1>1. Inv => AudioAccounts
  BY DEF Inv
<1> QED BY <1>1, Invariance, PTL

(* Nested waits and stopped time keep the CPU's clock phase.                  *)
THEOREM PhaseIsExact == Spec => []PhaseKept
<1>1. Inv => PhaseKept
  BY DEF Inv
<1> QED BY <1>1, Invariance, PTL

(* The 68000 has the bus only between two instructions of the Z80.            *)
THEOREM GrantCorrect == Spec => []GrantIsSafe
<1>1. Inv => GrantIsSafe
  BY DEF Inv
<1> QED BY <1>1, Invariance, PTL

(* While the 68000 has the bus the Z80 executes nothing.                      *)
THEOREM OwnerIsAlone == Spec => FrozenWhileGranted
<1> DEFINE Frozen == granted /\ ~(reset' /\ ~reset)
                       => opTicks' = opTicks /\ (access' => access)
<1>1. ASSUME Inv, Next PROVE Frozen
  <2> SUFFICES ASSUME granted, ~(reset' /\ ~reset)
               PROVE  opTicks' = opTicks /\ (access' => access)
    OBVIOUS
  <2>1. Held
    BY <1>1 DEF Inv, GrantIsSafe, Held
  <2>2. ~PassGrant /\ ~(\E bus \in BOOLEAN : PassTick(bus))
    BY <2>1 DEF PassGrant, PassTick, ReachEdge
  <2>3. CASE ResetDevices
    BY <2>3 DEF ResetDevices
  <2>4. ASSUME NEW asserted \in BOOLEAN, SetReset(asserted)
        PROVE  opTicks' = opTicks /\ (access' => access)
    BY <2>4 DEF SetReset
  <2>5. ASSUME NEW asserted \in BOOLEAN, SetBusRequest(asserted)
        PROVE  opTicks' = opTicks /\ (access' => access)
    BY <2>5 DEF SetBusRequest
  <2>6. ASSUME NEW n \in 1 .. MaxAdvance, Advance(n) \/ NestedAdvance(n)
        PROVE  opTicks' = opTicks /\ (access' => access)
    BY <2>6 DEF Advance, NestedAdvance
  <2>7. CASE PassHeld \/ PassShort \/ Return \/ AccessDone
    BY <2>7 DEF PassHeld, PassShort, Return, AccessDone
  <2> QED BY <1>1, <2>2, <2>3, <2>4, <2>5, <2>6, <2>7 DEF Next
<1>2. ASSUME UNCHANGED vars PROVE Frozen
  BY <1>2 DEF vars
<1>3. Inv /\ [Next]_vars => [Frozen]_vars
  BY <1>1, <1>2
<1> QED BY <1>3, Invariance, PTL DEF Spec, FrozenWhileGranted
=============================================================================
