---------------------------- MODULE Eeprom_proofs ----------------------------
(***************************************************************************)
(* Proofs about Eeprom, for every chip, width of a byte and write cycle.   *)
(***************************************************************************)
EXTENDS Eeprom, SequenceTheorems, FiniteSetTheorems, TLAPS

(* A finite set of numbers has a greatest, by the order of the intervals   *)
(* that its members begin.                                                 *)
LEMMA LastOf ==
  ASSUME NEW n \in Nat, NEW S \in SUBSET (1 .. n), S # {}
  PROVE  \E i \in S : \A j \in S : j <= i
<1> DEFINE T == {i .. n : i \in S}
           R == StrictSubsetOrdering(1 .. n)
<1>1. IsWellFoundedOn(R, FiniteSubsetsOf(1 .. n))
  BY FS_StrictSubsetOrderingWellFounded
<1>2. T \subseteq FiniteSubsetsOf(1 .. n) /\ T # {}
  <2>1. ASSUME NEW i \in S  PROVE i .. n \in SUBSET (1 .. n) /\ IsFiniteSet(i .. n)
    BY FS_Interval
  <2> QED BY <2>1 DEF FiniteSubsetsOf
<1>3. PICK x \in T : \A y \in T : ~ (<<y, x>> \in R)
  <2> HIDE DEF R, T
  <2> QED BY <1>1, <1>2, WFMin
<1>4. PICK i \in S : x = i .. n
  BY <1>3
<1>5. ASSUME NEW j \in S, j > i  PROVE FALSE
  <2>1. i \in 1 .. n /\ j \in 1 .. n
    OBVIOUS
  <2>2. j .. n \subseteq i .. n /\ i \in i .. n /\ i \notin j .. n
    BY <2>1, <1>5
  <2>3. <<j .. n, i .. n>> \in (SUBSET (1 .. n)) \X (SUBSET (1 .. n))
    BY <2>1
  <2>4. <<j .. n, i .. n>> \in R
    BY <2>2, <2>3 DEF StrictSubsetOrdering
  <2> QED BY <1>3, <1>4, <2>4
<1>6. \A j \in S : i \in Int /\ j \in Int
  OBVIOUS
<1> QED BY <1>5, <1>6

-----------------------------------------------------------------------------
(* Addresses stay within the memory. *)

LEMMA Multiple ==
  ASSUME NEW n \in Nat, NEW d \in Nat \ {0}, n % d = 0
  PROVE  n = (n \div d) * d /\ n \div d \in Nat
  BY SMT

LEMMA Quotient ==
  ASSUME NEW p \in Nat, NEW d \in Nat \ {0}
  PROVE  /\ p = (p \div d) * d + (p % d)
         /\ p \div d \in Nat /\ p % d \in 0 .. (d - 1)
  BY SMT

LEMMA Below ==
  ASSUME NEW q \in Nat, NEW m \in Nat, NEW d \in Nat \ {0}, NEW r \in 0 .. (d - 1), q < m
  PROVE  q * d + r \in 0 .. (m * d - 1)
<1>1. (m - q - 1) * d >= 0
  BY SMT
<1>2. m * d = q * d + d + (m - q - 1) * d
  BY SMT
<1>3. q * d \in Nat /\ m * d \in Nat
  BY SMT
<1> QED BY <1>1, <1>2, <1>3, SMT

LEMMA InPage ==
  ASSUME NEW size \in Nat \ {0}, NEW page \in Nat \ {0}, size % page = 0,
         NEW p \in 0 .. (size - 1)
  PROVE  ((p \div page) * page) + ((p + 1) % page) \in 0 .. (size - 1)
<1> DEFINE m == size \div page
           q == p \div page
<1>1. size = m * page /\ m \in Nat
  BY Multiple
<1>2. p = q * page + (p % page) /\ q \in Nat /\ p % page \in 0 .. (page - 1)
  <2>1. p \in Nat
    OBVIOUS
  <2> QED BY <2>1, Quotient
<1>3. (p + 1) % page \in 0 .. (page - 1)
  <2>1. p + 1 \in Nat
    OBVIOUS
  <2> QED BY <2>1, Quotient
<1>4. q < m
  <2> SUFFICES ASSUME q >= m PROVE FALSE
    BY <1>1, <1>2
  <2>1. (q - m) * page >= 0
    BY <1>1, <1>2, SMT
  <2>2. q * page = m * page + (q - m) * page
    BY <1>1, <1>2, SMT
  <2> HIDE DEF m, q
  <2> QED BY <1>1, <1>2, <2>1, <2>2, SMT
<1> HIDE DEF m, q
<1>5. q * page + ((p + 1) % page) \in 0 .. (m * page - 1)
  BY <1>1, <1>2, <1>3, <1>4, Below
<1> QED BY <1>1, <1>5 DEF q

LEMMA InBank ==
  ASSUME NEW size \in Nat \ {0}, NEW v \in Nat \ {0}, size % v = 0,
         NEW s \in Nat, s <= (size - 1) \div v, NEW r \in 0 .. (v - 1)
  PROVE  s * v + r \in 0 .. (size - 1)
<1> DEFINE m == size \div v
           q == (size - 1) \div v
<1>1. size = m * v /\ m \in Nat
  BY Multiple
<1>2. size - 1 = q * v + ((size - 1) % v) /\ q \in Nat /\ (size - 1) % v \in 0 .. (v - 1)
  <2>1. size - 1 \in Nat
    OBVIOUS
  <2> QED BY <2>1, Quotient
<1>3. q < m
  <2> SUFFICES ASSUME q >= m PROVE FALSE
    BY <1>1, <1>2
  <2>1. (q - m) * v >= 0
    BY <1>1, <1>2, SMT
  <2>2. q * v = m * v + (q - m) * v
    BY <1>1, <1>2, SMT
  <2> HIDE DEF m, q
  <2> QED BY <1>1, <1>2, <2>1, <2>2, SMT
<1>4. s < m
  <2>1. s <= q
    OBVIOUS
  <2> HIDE DEF m, q
  <2> QED BY <1>1, <1>2, <1>3, <2>1, SMT
<1> HIDE DEF m, q
<1> QED BY <1>1, <1>4, Below

-----------------------------------------------------------------------------
(* Type correctness. *)

LEMMA Geometry ==
  ASSUME MemoryOK
  PROVE  /\ profile.short \in BOOLEAN /\ profile.address \in {1, 2}
         /\ profile.size \in Nat \ {0} /\ profile.page \in Nat \ {0}
         /\ profile.size % profile.page = 0
         /\ ~profile.short => profile.size % Values = 0
  BY EepromAssumption DEF EepromAssumption, MemoryOK

LEMMA Constants ==
  /\ Width \in Nat \ {0} /\ Values \in Nat \ {0} /\ Select \in Nat \ {0}
  /\ WriteTime \in Nat \ {0}
  BY EepromAssumption DEF EepromAssumption, Values

LEMMA NatSum ==
  ASSUME NEW m \in Nat, NEW n \in Nat
  PROVE  m + n \in Nat
  OBVIOUS

(* A received byte of any kind. *)
LEMMA ReceivedTypes ==
  ASSUME TypeOK, NEW value \in Byte, Received(value), UNCHANGED <<chip, saved>>
  PROVE  TypeOK'
<1> DEFINE Cells == 0 .. (profile.size - 1)
<1>1. /\ profile' = profile /\ cells' = cells /\ busy' = busy /\ saved' = saved
  BY DEF chip
<1>2. value \in Nat /\ value \div 2 \in Nat
  BY Constants, SMT DEF Byte
<1>3. pointer \in Nat /\ pointer \in Cells
  BY Geometry DEF TypeOK, MemoryOK
<1>4. CASE ControlByte(value)
  <2>1. /\ afterAck' \in Mode /\ ackStage' = 1 /\ bits' = 0 /\ mode' = mode
        /\ pending' = pending /\ received' \in Nat /\ addressValue' \in Nat
    BY <1>4 DEF ControlByte, Answer, Mode, TypeOK, ProtocolOK, address
  <2>2. pointer' \in Cells /\ bank' \in Nat /\ bank' < profile.size
    <3> DEFINE s == (value \div 2) % Select
    <3>1. CASE profile.short
      <4>1. pointer' = (value \div 2) % profile.size /\ bank' = bank
        BY <1>4, <3>1 DEF ControlByte
      <4>2. (value \div 2) % profile.size \in Cells
        BY <1>2, Geometry, Quotient DEF TypeOK
      <4> QED BY <4>1, <4>2 DEF TypeOK, ProtocolOK
    <3>2. CASE ~profile.short /\ Selected(value)
      <4>0. /\ bank' = s * Values
            /\ pointer' = IF profile.address = 1 THEN (pointer % Values) + s * Values
                          ELSE pointer
        BY <1>4, <3>2, Zenon DEF ControlByte
      <4>1. s \in Nat
        BY <1>2, Constants, Quotient
      <4>2. pointer % Values \in 0 .. (Values - 1) /\ 0 \in 0 .. (Values - 1)
        BY <1>3, Constants, Quotient
      <4>3. CASE profile.address = 1
        <5>1. s <= (profile.size - 1) \div Values
          BY <3>2, <4>3 DEF BankMask, Selected
        <5>2. /\ s * Values + (pointer % Values) \in Cells
              /\ s * Values + 0 \in Cells
          <6> HIDE DEF s
          <6> QED BY <3>2, <4>1, <4>2, <5>1, Geometry, Constants, InBank DEF TypeOK
        <5>3. bank' = s * Values /\ pointer' = (pointer % Values) + s * Values
          BY <4>0, <4>3
        <5>4. s * Values \in Nat
          <6> HIDE DEF s
          <6> QED BY <4>1, Constants, SMT
        <5> HIDE DEF s
        <5>5. pointer' = s * Values + (pointer % Values) /\ bank' = s * Values + 0
          BY <4>2, <5>3, <5>4, SMT
        <5> QED BY <5>2, <5>3, <5>4, <5>5, Geometry DEF TypeOK
      <4>4. CASE profile.address # 1
        <5>1. bank' = s * Values /\ pointer' = pointer
          BY <4>0, <4>4
        <5>2. BankMask = 0 /\ s <= BankMask
          BY <3>2, <4>4 DEF BankMask, Selected
        <5>3. s = 0
          <6> HIDE DEF s
          <6> QED BY <4>1, <5>2
        <5>4. s * Values = 0
          BY <5>3, Constants
        <5> HIDE DEF s
        <5> QED BY <1>3, <5>1, <5>4, Geometry DEF TypeOK
      <4> QED BY <4>3, <4>4
    <3>3. CASE ~profile.short /\ ~Selected(value)
      <4>1. pointer' = pointer /\ bank' = bank
        BY <1>4, <3>3 DEF ControlByte, address
      <4> QED BY <4>1 DEF TypeOK, ProtocolOK, MemoryOK
    <3> QED BY <3>1, <3>2, <3>3, Geometry DEF TypeOK
  <2> QED BY <1>1, <2>1, <2>2, Constants DEF TypeOK, MemoryOK, ProtocolOK
<1>5. CASE BusyByte(value)
  BY <1>1, <1>2, <1>5, Constants DEF BusyByte, Answer, address, Mode, TypeOK, MemoryOK, ProtocolOK
<1>6. CASE AddressByte(value)
  <2>1. /\ afterAck' \in Mode /\ ackStage' = 1 /\ bits' = 0 /\ mode' = mode
        /\ pending' = pending /\ received' \in Nat /\ bank' = bank
        /\ addressValue' = addressValue * Values + value
        /\ pointer' = pointer \/ pointer' = (bank + addressValue') % profile.size
    BY <1>2, <1>6 DEF AddressByte, Answer, Mode
  <2>2. addressValue' \in Nat
    BY <1>2, <2>1, Constants, SMT DEF TypeOK, ProtocolOK
  <2>3. (bank + addressValue') % profile.size \in Cells
    <3>1. bank + addressValue' \in Nat
      <4>1. bank \in Nat
        BY DEF TypeOK, ProtocolOK
      <4> QED BY <2>2, <4>1, NatSum
    <3> QED BY <3>1, Geometry, Quotient DEF TypeOK
  <2> QED BY <1>1, <2>1, <2>2, <2>3, Constants DEF TypeOK, MemoryOK, ProtocolOK
<1>7. CASE DataByte(value)
  <2>1. /\ afterAck' \in Mode /\ ackStage' = 1 /\ bits' = 0 /\ mode' = mode
        /\ received' \in Nat /\ bank' = bank /\ addressValue' = addressValue
        /\ pointer' = NextInPage
        /\ pending' = Append(pending, [cell |-> pointer, value |-> value])
    BY <1>2, <1>7 DEF DataByte, Answer, Mode
  <2>2. pointer' \in Cells
    BY <1>3, <2>1, Geometry, InPage DEF NextInPage, TypeOK
  <2>3. pending' \in Seq([cell : Cells, value : Byte])
    BY <1>3, <2>1, AppendProperties DEF TypeOK, MemoryOK
  <2> QED BY <1>1, <2>1, <2>2, <2>3, Constants DEF TypeOK, MemoryOK, ProtocolOK
<1> QED BY <1>4, <1>5, <1>6, <1>7 DEF Received

(* The stop condition leaves bytes in the cells. *)
LEMMA WrittenTypes ==
  ASSUME MemoryOK
  PROVE  Written \in [0 .. (profile.size - 1) -> Byte]
<1> DEFINE Cells == 0 .. (profile.size - 1)
           writes(c) == {i \in DOMAIN pending : pending[i].cell = c}
<1>1. DOMAIN cells = Cells /\ DOMAIN pending = 1 .. Len(pending) /\ Len(pending) \in Nat
  BY LenProperties DEF MemoryOK
<1>2. \A i \in DOMAIN pending : pending[i].value \in Byte
  <2>1. \A i \in DOMAIN pending : pending[i] \in [cell : Cells, value : Byte]
    BY <1>1, ElementOfSeq DEF MemoryOK
  <2> QED BY <2>1
<1>3. ASSUME NEW c \in Cells, writes(c) # {}
      PROVE  (CHOOSE i \in writes(c) : \A j \in writes(c) : j <= i) \in writes(c)
  <2>1. writes(c) \in SUBSET (1 .. Len(pending))
    BY <1>1
  <2>2. \E i \in writes(c) : \A j \in writes(c) : j <= i
    <3> HIDE DEF writes
    <3> QED BY <1>1, <1>3, <2>1, LastOf
  <2> QED BY <2>2
<1>4. ASSUME NEW c \in Cells
      PROVE  (IF writes(c) = {} THEN cells[c]
              ELSE pending[CHOOSE i \in writes(c) : \A j \in writes(c) : j <= i].value) \in Byte
  <2>1. CASE writes(c) = {}
    BY <2>1 DEF MemoryOK
  <2>2. CASE writes(c) # {}
    BY <1>2, <1>3, <2>2
  <2> QED BY <2>1, <2>2
<1> QED BY <1>1, <1>4 DEF Written

LEMMA BlankTypes ==
  ASSUME NEW p \in Profile
  PROVE  Blank(p) \in [0 .. (p.size - 1) -> Byte] /\ 0 \in 0 .. (p.size - 1)
<1>1. p.size \in Nat \ {0}
  BY EepromAssumption DEF EepromAssumption
<1>2. Values - 1 \in Byte
  BY Constants DEF Byte
<1> QED BY <1>1, <1>2 DEF Blank

LEMMA TypeInit == Init => TypeOK
<1> SUFFICES ASSUME Init PROVE TypeOK
  OBVIOUS
<1>1. MemoryOK
  BY BlankTypes, EmptySeq DEF Init, Fresh, MemoryOK
<1>2. ProtocolOK
  <2>1. profile.size \in Nat \ {0}
    BY <1>1, Geometry
  <2> QED BY <2>1, Constants DEF Init, Fresh, ProtocolOK, Mode
<1> QED BY <1>1, <1>2 DEF TypeOK

LEMMA TypeRising ==
  ASSUME TypeOK, NEW d \in BOOLEAN, Rising(d)
  PROVE  TypeOK'
<1>1. UNCHANGED <<chip, driveLow, saved>>
  BY DEF Rising
<1>2. CASE AckTaken
  BY <1>1, <1>2 DEF AckTaken, TypeOK, MemoryOK, ProtocolOK, chip, address, shift
<1>3. CASE SendBit(d)
  BY <1>1, <1>3, Constants DEF SendBit, TypeOK, MemoryOK, ProtocolOK, chip, address, Mode
<1>4. CASE MasterAnswers(d)
  <2>1. pointer' \in 0 .. (profile.size - 1)
    <3>1. pointer + 1 \in Nat
      BY DEF TypeOK, MemoryOK
    <3>2. (pointer + 1) % profile.size \in 0 .. (profile.size - 1)
      BY <3>1, Geometry, Quotient DEF TypeOK
    <3>3. pointer' = pointer \/ pointer' = (pointer + 1) % profile.size
      BY <1>4 DEF MasterAnswers
    <3> QED BY <3>2, <3>3 DEF TypeOK, MemoryOK
  <2>2. mode' \in Mode /\ (bits' = 0 \/ bits' = bits)
    BY <1>4 DEF MasterAnswers, Mode
  <2>3. UNCHANGED <<afterAck, ack, ackStage, bank, addressValue, received, pending>>
    BY <1>4 DEF MasterAnswers
  <2> QED BY <1>1, <2>1, <2>2, <2>3, Constants DEF TypeOK, MemoryOK, ProtocolOK, chip
<1>5. CASE Ignored
  BY <1>1, <1>5 DEF Ignored, TypeOK, MemoryOK, ProtocolOK, chip, answer, address, shift
<1>6. CASE TakeBit(d)
  <2> DEFINE value == 2 * received + (IF d THEN 1 ELSE 0)
  <2>1. value \in Nat
    BY DEF TypeOK, ProtocolOK
  <2>2. CASE bits + 1 = Width
    <3>1. Received(value % Values)
      BY <1>6, <2>2 DEF TakeBit
    <3>2. value % Values \in Byte
      <4> HIDE DEF value
      <4> QED BY <2>1, Constants, Quotient DEF Byte
    <3>3. UNCHANGED <<chip, saved>>
      BY <1>1
    <3> HIDE DEF value
    <3> QED BY <3>1, <3>2, <3>3, ReceivedTypes
  <2>3. CASE bits + 1 # Width
    <3>1. received' = value /\ bits' = bits + 1 /\ UNCHANGED <<answer, address, pending>>
      BY <1>6, <2>3 DEF TakeBit
    <3>2. bits' \in 0 .. (Width - 1)
      BY <2>3, <3>1, Constants DEF TypeOK, ProtocolOK
    <3> HIDE DEF value
    <3> QED BY <1>1, <2>1, <3>1, <3>2 DEF TypeOK, MemoryOK, ProtocolOK, chip, answer, address
  <2> QED BY <2>2, <2>3
<1> QED BY <1>2, <1>3, <1>4, <1>5, <1>6 DEF Rising

LEMMA TypeLines ==
  ASSUME TypeOK, NEW c \in BOOLEAN, NEW d \in BOOLEAN, WriteLines(c, d)
  PROVE  TypeOK'
<1>1. CASE Stop
  <2>1. cells' \in [0 .. (profile.size - 1) -> Byte]
    BY <1>1, WrittenTypes DEF Stop, TypeOK
  <2>2. busy' \in 0 .. WriteTime
    BY <1>1, Constants DEF Stop, TypeOK, ProtocolOK
  <2>3. pending' \in Seq([cell : 0 .. (profile.size - 1), value : Byte])
    BY <1>1, EmptySeq DEF Stop
  <2> QED BY <1>1, <2>1, <2>2, <2>3
          DEF Stop, TypeOK, MemoryOK, ProtocolOK, address, shift, others, Mode
<1>2. CASE Begin
  BY <1>2, Constants DEF Begin, TypeOK, MemoryOK, ProtocolOK, chip, address, others, Mode
<1>3. CASE Falling /\ UNCHANGED <<chip, pending, afterAck, ack, address, others>>
  <2>1. /\ ackStage' \in 0 .. 3 /\ mode' \in Mode
        /\ bits' = 0 \/ bits' = bits
        /\ received' = 0 \/ received' = received
    BY <1>3 DEF Falling, shift, TypeOK, ProtocolOK
  <2> QED BY <1>3, <2>1, Constants
          DEF TypeOK, MemoryOK, ProtocolOK, chip, address, others
<1>4. CASE Rising(d)
  BY <1>4, TypeRising
<1>5. CASE UNCHANGED <<chip, driveLow, pending, answer, address, shift, others, heard>>
  BY <1>5 DEF TypeOK, MemoryOK, ProtocolOK, chip, answer, address, shift, others
<1> QED BY <1>1, <1>2, <1>3, <1>4, <1>5 DEF WriteLines

LEMMA TypeLoad ==
  ASSUME TypeOK, NEW p \in Profile, Load(p)
  PROVE  TypeOK'
<1>1. p.size \in Nat \ {0}
  BY EepromAssumption DEF EepromAssumption
<1>2. cells' \in [0 .. (p.size - 1) -> Byte] /\ saved' = cells'
  <2>1. CASE p = profile
    BY <2>1 DEF Load, TypeOK, MemoryOK
  <2>2. CASE p # profile
    BY <2>2, BlankTypes DEF Load
  <2> QED BY <2>1, <2>2
<1>3. MemoryOK'
  BY <1>1, <1>2, EmptySeq DEF Load, MemoryOK
<1>4. ProtocolOK'
  BY <1>1, Constants DEF Load, ProtocolOK, Mode
<1> QED BY <1>3, <1>4 DEF TypeOK

(* Every index and every register keeps its range, for every chip; in      *)
(* particular the pointer and the pending cells stay within the memory.    *)
THEOREM TypeCorrect == Spec => []TypeOK
<1>1. TypeOK /\ [Next]_vars => TypeOK'
  <2> SUFFICES ASSUME TypeOK, [Next]_vars PROVE TypeOK'
    OBVIOUS
  <2>1. ASSUME NEW c \in BOOLEAN, NEW d \in BOOLEAN, WriteLines(c, d)  PROVE TypeOK'
    BY <2>1, TypeLines
  <2>2. CASE Advance(1)
    <3>1. busy' \in 0 .. WriteTime
      <4>1. busy \in 0 .. WriteTime
        BY DEF TypeOK, ProtocolOK
      <4>2. busy' = IF 1 >= busy THEN 0 ELSE busy - 1
        BY <2>2 DEF Advance
      <4> QED BY <4>1, <4>2, Constants
    <3> QED BY <2>2, <3>1
            DEF Advance, TypeOK, MemoryOK, ProtocolOK, answer, address, shift, others
  <2>3. CASE Save
    BY <2>3 DEF Save, TypeOK, MemoryOK, ProtocolOK, answer, address, shift
  <2>4. ASSUME NEW p \in Profile, Load(p)  PROVE TypeOK'
    BY <2>4, TypeLoad
  <2>5. CASE UNCHANGED vars
    BY <2>5 DEF vars, TypeOK, MemoryOK, ProtocolOK, chip, answer, address, shift, others
  <2> QED BY <2>1, <2>2, <2>3, <2>4, <2>5 DEF Next
<1> QED BY <1>1, TypeInit, PTL DEF Spec

-----------------------------------------------------------------------------
(* The write cycle.  What a byte clocked in during the cycle can lead to   *)
(* must be ruled out two clocks ahead: its acknowledgement is already      *)
(* decided, and so is the mode after it.                                   *)

QuietInv ==
  /\ WriteCycleQuiet
  /\ busy > 0 /\ ackStage # 0 => ack = FALSE /\ afterAck = "Idle"

LEMMA QuietRising ==
  ASSUME TypeOK, QuietInv, NEW d \in BOOLEAN, Rising(d), busy > 0
  PROVE  /\ driveLow' = FALSE /\ pending' = <<>> /\ mode' \in {"Idle", "Control"}
         /\ ackStage' # 0 => ack' = FALSE /\ afterAck' = "Idle"
<1>1. driveLow' = FALSE /\ pending = <<>> /\ mode \in {"Idle", "Control"}
  BY DEF Rising, QuietInv, WriteCycleQuiet
<1>2. CASE AckTaken
  BY <1>1, <1>2 DEF AckTaken, QuietInv
<1>3. CASE Ignored
  BY <1>1, <1>3 DEF Ignored, answer, QuietInv
<1>4. CASE TakeBit(d)
  <2> DEFINE value == (2 * received + (IF d THEN 1 ELSE 0)) % Values
  <2>1. CASE bits + 1 = Width
    <3>1. Received(value) /\ mode = "Control" /\ busy # 0
      BY <1>1, <1>4, <2>1 DEF TakeBit
    <3> HIDE DEF value
    <3>2. BusyByte(value)
      BY <3>1 DEF Received, ControlByte, AddressByte, DataByte
    <3> QED BY <1>1, <3>2 DEF BusyByte, Answer
  <2>2. CASE bits + 1 # Width
    BY <1>1, <1>4, <2>2 DEF TakeBit, answer, QuietInv
  <2> QED BY <2>1, <2>2
<1>5. ~SendBit(d) /\ ~MasterAnswers(d)
  BY <1>1 DEF SendBit, MasterAnswers
<1> QED BY <1>2, <1>3, <1>4, <1>5 DEF Rising

LEMMA QuietLines ==
  ASSUME TypeOK, QuietInv, NEW c \in BOOLEAN, NEW d \in BOOLEAN, WriteLines(c, d)
  PROVE  QuietInv'
<1>1. CASE Stop
  BY <1>1 DEF Stop, QuietInv, WriteCycleQuiet
<1>2. CASE Begin
  BY <1>2 DEF Begin, chip, QuietInv, WriteCycleQuiet
<1>3. CASE Falling /\ UNCHANGED <<chip, pending, afterAck, ack, address, others>>
  <2>1. UNCHANGED <<busy, pending, afterAck, ack>>
    BY <1>3 DEF chip
  <2>2. ASSUME busy > 0
        PROVE  /\ driveLow' = FALSE /\ mode' \in {"Idle", "Control"}
               /\ ackStage' # 0 => ack = FALSE /\ afterAck = "Idle"
    <3>1. mode \in {"Idle", "Control"} /\ mode # "Send"
      BY <2>2 DEF QuietInv, WriteCycleQuiet
    <3>2. ackStage # 0 => ack = FALSE /\ afterAck = "Idle"
      BY <2>2 DEF QuietInv
    <3>3. CASE ackStage = 1
      BY <1>3, <3>1, <3>2, <3>3 DEF Falling
    <3>4. CASE ackStage = 3
      <4>1. mode' = afterAck /\ ackStage' = 0 /\ afterAck = "Idle"
        BY <1>3, <3>2, <3>4 DEF Falling
      <4>2. driveLow' = (afterAck = "Send" /\ BitLow(0))
        BY <1>3, <3>4 DEF Falling
      <4>3. ~(afterAck = "Send" /\ BitLow(0))
        BY <4>1
      <4> QED BY <4>1, <4>2, <4>3, Zenon
    <3>5. CASE ackStage \notin {1, 3}
      <4>1. mode' = mode /\ ackStage' = ackStage
        BY <1>3, <3>5 DEF Falling
      <4>2. driveLow' = (mode = "Send" /\ BitLow(bits))
        BY <1>3, <3>5 DEF Falling
      <4>3. ~(mode = "Send" /\ BitLow(bits))
        BY <3>1
      <4> QED BY <3>1, <3>2, <4>1, <4>2, <4>3, Zenon
    <3> QED BY <3>3, <3>4, <3>5
  <2> QED BY <2>1, <2>2 DEF QuietInv, WriteCycleQuiet
<1>4. CASE Rising(d)
  <2>1. busy' = busy
    BY <1>4 DEF Rising, chip
  <2> QED BY <1>4, <2>1, QuietRising DEF QuietInv, WriteCycleQuiet
<1>5. CASE UNCHANGED <<chip, driveLow, pending, answer, address, shift, others, heard>>
  BY <1>5 DEF chip, answer, QuietInv, WriteCycleQuiet
<1> QED BY <1>1, <1>2, <1>3, <1>4, <1>5 DEF WriteLines

(* During a write cycle of any length, whatever a program clocks in at     *)
(* whatever point of a byte, the chip never pulls SDA.                     *)
THEOREM QuietCycle == Spec => []WriteCycleQuiet
<1>1. Init => QuietInv
  BY DEF Init, Fresh, QuietInv, WriteCycleQuiet
<1>2. TypeOK /\ QuietInv /\ [Next]_vars => QuietInv'
  <2> SUFFICES ASSUME TypeOK, QuietInv, [Next]_vars PROVE QuietInv'
    OBVIOUS
  <2>1. ASSUME NEW c \in BOOLEAN, NEW d \in BOOLEAN, WriteLines(c, d)  PROVE QuietInv'
    BY <2>1, QuietLines
  <2>2. CASE Advance(1)
    <3>1. busy \in Nat
      BY DEF TypeOK, ProtocolOK
    <3> QED BY <2>2, <3>1 DEF Advance, answer, QuietInv, WriteCycleQuiet
  <2>3. CASE Save
    BY <2>3 DEF Save, answer, QuietInv, WriteCycleQuiet
  <2>4. ASSUME NEW p \in Profile, Load(p)  PROVE QuietInv'
    BY <2>4 DEF Load, QuietInv, WriteCycleQuiet
  <2>5. CASE UNCHANGED vars
    BY <2>5 DEF vars, chip, answer, QuietInv, WriteCycleQuiet
  <2> QED BY <2>1, <2>2, <2>3, <2>4, <2>5 DEF Next
<1>3. QuietInv => WriteCycleQuiet
  BY DEF QuietInv
<1> QED BY <1>1, <1>2, <1>3, TypeCorrect, PTL DEF Spec

-----------------------------------------------------------------------------
(* The mark of unsaved changes. *)

(* Bytes that all equal their cells leave the memory as it was. *)
LEMMA WrittenSame ==
  ASSUME MemoryOK, \A i \in DOMAIN pending : pending[i].value = cells[pending[i].cell]
  PROVE  Written = cells
<1> DEFINE writes(c) == {i \in DOMAIN pending : pending[i].cell = c}
           last(c) == CHOOSE i \in writes(c) : \A j \in writes(c) : j <= i
<1>1. DOMAIN pending = 1 .. Len(pending) /\ Len(pending) \in Nat
  BY LenProperties DEF MemoryOK
<1>2. ASSUME NEW c \in DOMAIN cells, writes(c) # {}
      PROVE  last(c) \in writes(c)
  <2>1. writes(c) \in SUBSET (1 .. Len(pending))
    BY <1>1
  <2>2. \E i \in writes(c) : \A j \in writes(c) : j <= i
    <3> HIDE DEF writes
    <3> QED BY <1>1, <1>2, <2>1, LastOf
  <2> QED BY <2>2
<1>3. ASSUME NEW c \in DOMAIN cells
      PROVE  (IF writes(c) = {} THEN cells[c] ELSE pending[last(c)].value) = cells[c]
  <2>1. CASE writes(c) = {}
    BY <2>1
  <2>2. CASE writes(c) # {}
    <3>1. last(c) \in DOMAIN pending /\ pending[last(c)].cell = c
      BY <1>2, <2>2
    <3> HIDE DEF last
    <3> QED BY <2>2, <3>1
  <2> QED BY <2>1, <2>2
<1>4. Written = [c \in DOMAIN cells |-> cells[c]]
  BY <1>3 DEF Written
<1>5. cells = [c \in DOMAIN cells |-> cells[c]]
  BY DEF MemoryOK
<1> QED BY <1>4, <1>5

(* A memory that is not marked equals its file, for every chip and every   *)
(* sequence of writes, saves and changes of the cartridge.                 *)
THEOREM DirtyIsKept == Spec => []DirtyKept
<1>1. Init => DirtyKept
  BY DEF Init, DirtyKept
<1>2. TypeOK /\ DirtyKept /\ [Next]_vars => DirtyKept'
  <2> SUFFICES ASSUME TypeOK, DirtyKept, [Next]_vars PROVE DirtyKept'
    OBVIOUS
  <2>1. CASE Stop
    <3> SUFFICES ASSUME dirty' # TRUE PROVE cells' = saved'
      BY DEF DirtyKept
    <3>1. /\ dirty # TRUE /\ cells' = Written /\ saved' = saved
          /\ \A i \in DOMAIN pending : pending[i].value = cells[pending[i].cell]
      BY <2>1 DEF Stop, others
    <3> QED BY <3>1, WrittenSame DEF DirtyKept, TypeOK
  <2>2. CASE UNCHANGED <<cells, dirty, saved>>
    BY <2>2 DEF DirtyKept
  <2>3. ASSUME NEW c \in BOOLEAN, NEW d \in BOOLEAN, WriteLines(c, d)
        PROVE  Stop \/ UNCHANGED <<cells, dirty, saved>>
    BY <2>3 DEF WriteLines, Begin, Rising, chip, others
  <2>4. CASE Advance(1)
    BY <2>4, <2>2 DEF Advance, others
  <2>5. CASE Save
    BY <2>5 DEF Save, DirtyKept
  <2>6. ASSUME NEW p \in Profile, Load(p)  PROVE DirtyKept'
    BY <2>6 DEF Load, DirtyKept
  <2>7. CASE UNCHANGED vars
    BY <2>2, <2>7 DEF vars, chip, others
  <2> QED BY <2>1, <2>2, <2>3, <2>4, <2>5, <2>6, <2>7 DEF Next
<1> QED BY <1>1, <1>2, TypeCorrect, PTL DEF Spec

-----------------------------------------------------------------------------
(* What a program reads. *)

(* A quotient by twice a number, and one more bit of it. *)
LEMMA QuotientUnique ==
  ASSUME NEW d \in Nat \ {0}, NEW q \in Nat, NEW p \in Nat,
         NEW r \in 0 .. (d - 1), NEW s \in 0 .. (d - 1), q * d + r = p * d + s
  PROVE  q = p
<1>1. ASSUME NEW k \in Nat, NEW m \in Nat, k < m  PROVE m * d >= k * d + d
  <2>1. (m - k - 1) * d >= 0
    BY <1>1, SMT
  <2>2. m * d = k * d + d + (m - k - 1) * d
    BY SMT
  <2>3. m * d \in Nat /\ k * d \in Nat
    BY SMT
  <2> QED BY <2>1, <2>2, <2>3
<1>2. q * d \in Nat /\ p * d \in Nat
  BY SMT
<1>3. ~(q < p)
  <2> SUFFICES ASSUME q < p PROVE FALSE
    OBVIOUS
  <2>1. p * d >= q * d + d
    BY <1>1
  <2> QED BY <1>2, <2>1
<1>4. ~(p < q)
  <2> SUFFICES ASSUME p < q PROVE FALSE
    OBVIOUS
  <2>1. q * d >= p * d + d
    BY <1>1
  <2> QED BY <1>2, <2>1
<1> QED BY <1>3, <1>4

LEMMA OneBitMore ==
  ASSUME NEW c \in Nat, NEW w \in Nat \ {0}
  PROVE  /\ c \div w = 2 * (c \div (2 * w)) + ((c \div w) % 2)
         /\ (c \div w) % 2 \in {0, 1} /\ c \div (2 * w) \in Nat
<1> DEFINE q == c \div w
           r == c % w
           h == q \div 2
           b == q % 2
           p == c \div (2 * w)
           t == c % (2 * w)
<1>1. c = q * w + r /\ q \in Nat /\ r \in 0 .. (w - 1)
  BY Quotient
<1>2. q = h * 2 + b /\ h \in Nat /\ b \in 0 .. 1
  BY <1>1, SMT
<1>3. 2 * w \in Nat \ {0}
  BY SMT
<1>4. c = p * (2 * w) + t /\ p \in Nat /\ t \in 0 .. (2 * w - 1)
  BY <1>3, Quotient
<1> HIDE DEF q, r, h, b, p, t
<1>5. c = h * (2 * w) + (b * w + r)
  <2>1. q * w = (h * 2) * w + b * w
    BY <1>2, SMT
  <2>2. (h * 2) * w = h * (2 * w)
    BY <1>2, SMT
  <2> DEFINE x == h * (2 * w)
             y == b * w
             z == q * w
  <2>3. x \in Nat /\ y \in Nat /\ z = x + y /\ c = z + r
    BY <1>1, <1>2, <2>1, <2>2, SMT
  <2>4. c = x + (y + r)
    <3> HIDE DEF x, y, z
    <3> QED BY <1>1, <2>3
  <2> QED BY <2>4
<1>6. b * w + r \in 0 .. (2 * w - 1)
  <2>1. b * w \in {0, w}
    BY <1>2
  <2> QED BY <1>1, <2>1
<1>7. h = p
  <2> DEFINE d == 2 * w
             s == b * w + r
  <2>1. d \in Nat \ {0} /\ s \in 0 .. (d - 1) /\ t \in 0 .. (d - 1) /\ h * d + s = p * d + t
    BY <1>3, <1>4, <1>5, <1>6
  <2> HIDE DEF d, s
  <2> QED BY <1>2, <1>4, <2>1, QuotientUnique
<1>8. q = 2 * p + b /\ b \in {0, 1}
  BY <1>2, <1>4, <1>7
<1> QED BY <1>4, <1>8 DEF q, p, b

LEMMA Weights ==
  ASSUME NEW n \in 0 .. (Width - 1)
  PROVE  /\ Weight[Width - n - 1] \in Nat \ {0}
         /\ Weight[Width - n] = 2 * Weight[Width - n - 1]
         /\ Weight[Width - 1 - n] = Weight[Width - n - 1]
         /\ Width - (n + 1) = Width - n - 1
<1>1. Width - n \in 1 .. Width /\ Width - n - 1 \in 0 .. Width /\ Width - 1 - n = Width - n - 1
      /\ Width - (n + 1) = Width - n - 1
  BY Constants
<1> QED BY <1>1, EepromAssumption DEF EepromAssumption

LEMMA NoBits ==
  ASSUME NEW c \in Byte
  PROVE  c \div Weight[Width - 0] = 0 /\ c \div Weight[0] = c /\ c \in Nat
<1>1. Width - 0 = Width /\ Weight[0] = 1 /\ Values = Weight[Width]
  BY Constants, EepromAssumption DEF EepromAssumption, Values
<1>2. c \in Nat /\ c < Values /\ Values \in Nat \ {0}
  BY Constants DEF Byte
<1>3. c \div Values = 0
  <2>1. c = (c \div Values) * Values + (c % Values) /\ c \div Values \in Nat
        /\ c % Values \in 0 .. (Values - 1)
    BY <1>2, Quotient
  <2>2. 0 * Values + c = (c \div Values) * Values + (c % Values) /\ c \in 0 .. (Values - 1)
    BY <1>2, <2>1
  <2> QED BY <1>2, <2>1, <2>2, QuotientUnique
<1>4. c \div 1 = c
  BY <1>2, SMT
<1> QED BY <1>1, <1>2, <1>3, <1>4

(* While SCL is low the chip holds the next bit on SDA; only the chip's    *)
(* eighth bit leads to the program's acknowledgement.                      *)
ReadInv ==
  /\ heard.value \in Nat /\ heard.open \in BOOLEAN
  /\ afterAck # "MasterAck"
  /\ ~scl /\ mode = "Send" /\ ackStage = 0 => driveLow = BitLow(bits)
  /\ ReadsMemory

(* The invariant says nothing outside of the two modes of reading. *)
LEMMA NotReading ==
  ASSUME heard'.value \in Nat, heard'.open \in BOOLEAN, afterAck' # "MasterAck",
         mode' \notin {"Send", "MasterAck"}
  PROVE  ReadInv'
BY DEF ReadInv, ReadsMemory

LEMMA ReadSame ==
  ASSUME ReadInv, UNCHANGED <<cells, pointer, mode, bits, heard>>, afterAck' # "MasterAck",
         mode = "Send" /\ ackStage' = 0 => ackStage = 0,
         ~scl' /\ mode = "Send" /\ ackStage' = 0 => driveLow' = BitLow(bits)
  PROVE  ReadInv'
BY DEF ReadInv, ReadsMemory, BitLow

(* A byte begins: nothing of it has been read. *)
LEMMA ByteBegins ==
  ASSUME TypeOK', heard' = Silence, bits' = 0, mode' = "Send", afterAck' # "MasterAck",
         scl' \/ driveLow' = BitLow(0)'
  PROVE  ReadInv'
<1>1. cells'[pointer'] \in Byte
  BY DEF TypeOK, MemoryOK
<1>2. cells'[pointer'] \div Weight[Width - 0] = 0
  BY <1>1, NoBits
<1>3. heard'.value = 0 /\ heard'.open = TRUE
  BY DEF Silence
<1>4. ReadsMemory'
  BY <1>2, <1>3 DEF ReadsMemory
<1>5. ~scl' => driveLow' = BitLow(bits)'
  BY DEF BitLow
<1>6. heard'.value \in Nat /\ heard'.open \in BOOLEAN
  BY DEF Silence
<1> QED BY <1>4, <1>5, <1>6 DEF ReadInv

LEMMA ReadSends ==
  ASSUME TypeOK, ReadInv, NEW d \in BOOLEAN, SendBit(d), ~scl, scl',
         UNCHANGED <<chip, driveLow>>
  PROVE  ReadInv'
<1> DEFINE c == cells[pointer]
           w == Weight[Width - bits - 1]
<1>1. bits \in 0 .. (Width - 1) /\ c \in Byte
  BY DEF TypeOK, MemoryOK, ProtocolOK
<1>2. /\ ackStage = 0 /\ mode = "Send" /\ cells' = cells /\ pointer' = pointer
      /\ heard' = [value |-> 2 * heard.value + (IF d /\ ~driveLow THEN 1 ELSE 0),
                   open  |-> heard.open /\ d]
      /\ afterAck' = afterAck /\ ackStage' = 0
      /\ \/ bits + 1 = Width /\ mode' = "MasterAck"
         \/ bits + 1 # Width /\ mode' = "Send" /\ bits' = bits + 1
  BY DEF SendBit, chip, address
<1>3. heard'.value \in Nat /\ heard'.open \in BOOLEAN /\ afterAck' # "MasterAck"
  BY <1>2 DEF ReadInv
<1>4. driveLow = BitLow(bits)
  BY <1>2 DEF ReadInv
<1>5. w \in Nat \ {0} /\ Weight[Width - bits] = 2 * w /\ Weight[Width - 1 - bits] = w
      /\ Width - (bits + 1) = Width - bits - 1
  BY <1>1, Weights
<1>6. BitLow(bits) <=> (c \div w) % 2 = 0
  BY <1>5 DEF BitLow
<1>7. ASSUME heard'.open  PROVE heard'.value = c \div w
  <2>1. d /\ heard.open
    BY <1>2, <1>7 DEF ReadInv
  <2>2. heard.value = c \div (2 * w)
    BY <1>2, <1>5, <2>1 DEF ReadInv, ReadsMemory
  <2>3. heard'.value = 2 * (c \div (2 * w)) + (IF (c \div w) % 2 = 0 THEN 0 ELSE 1)
    BY <1>2, <1>4, <1>6, <2>1, <2>2
  <2>4. c \in Nat
    BY <1>1, NoBits
  <2> HIDE DEF c, w
  <2> QED BY <1>5, <2>3, <2>4, OneBitMore
<1>8. CASE bits + 1 = Width
  <2>1. w = Weight[0]
    BY <1>1, <1>8, Constants
  <2>2. heard'.open => heard'.value = c
    BY <1>1, <1>7, <2>1, NoBits
  <2> QED BY <1>2, <1>3, <1>8, <2>2 DEF ReadInv, ReadsMemory
<1>9. CASE bits + 1 # Width
  <2>1. mode' = "Send" /\ bits' = bits + 1
    BY <1>2, <1>9
  <2>2. Weight[Width - bits'] = w
    BY <1>5, <2>1
  <2> QED BY <1>2, <1>3, <1>7, <2>1, <2>2 DEF ReadInv, ReadsMemory
<1> QED BY <1>8, <1>9

LEMMA ReadRising ==
  ASSUME TypeOK, TypeOK', ReadInv, NEW d \in BOOLEAN, Rising(d), ~scl, scl'
  PROVE  ReadInv'
<1>1. UNCHANGED <<chip, driveLow>>
  BY DEF Rising
<1>2. heard.value \in Nat /\ heard.open \in BOOLEAN /\ afterAck # "MasterAck"
  BY DEF ReadInv
<1>3. CASE AckTaken
  BY <1>1, <1>2, <1>3, ReadSame DEF AckTaken, chip, address, shift
<1>4. CASE SendBit(d)
  BY <1>1, <1>4, ReadSends
<1>5. CASE MasterAnswers(d)
  <2>1. CASE d
    BY <1>2, <1>5, <2>1, NotReading DEF MasterAnswers
  <2>2. CASE ~d
    BY <1>2, <1>5, <2>2, ByteBegins DEF MasterAnswers
  <2> QED BY <2>1, <2>2
<1>6. CASE Ignored
  BY <1>2, <1>6, NotReading DEF Ignored, answer
<1>7. CASE TakeBit(d)
  <2>1. mode \in {"Control", "Address", "Receive"} /\ heard' = heard
    BY <1>7 DEF TakeBit
  <2>2. mode' = mode /\ afterAck' # "MasterAck"
    <3> DEFINE value == (2 * received + (IF d THEN 1 ELSE 0)) % Values
    <3>1. CASE UNCHANGED answer
      BY <1>2, <3>1 DEF answer
    <3>2. CASE Received(value)
      <4> HIDE DEF value
      <4> QED BY <3>2 DEF Received, ControlByte, BusyByte, AddressByte, DataByte, Answer
    <3> QED BY <1>7, <3>1, <3>2 DEF TakeBit
  <2> QED BY <1>2, <2>1, <2>2, NotReading
<1> QED BY <1>3, <1>4, <1>5, <1>6, <1>7 DEF Rising

LEMMA ReadFalling ==
  ASSUME TypeOK, TypeOK', ReadInv, Falling, UNCHANGED <<chip, afterAck, address>>
  PROVE  ReadInv'
<1>1. /\ heard.value \in Nat /\ heard.open \in BOOLEAN /\ afterAck' # "MasterAck"
      /\ cells' = cells /\ pointer' = pointer
  BY DEF ReadInv, chip, address
<1>2. CASE ackStage = 1
  BY <1>1, <1>2, ReadSame DEF Falling, shift
<1>3. CASE ackStage = 3
  <2>1. /\ mode' = afterAck /\ heard' = Silence /\ bits' = 0
        /\ driveLow' = (afterAck = "Send" /\ BitLow(0))
    BY <1>3 DEF Falling
  <2>2. heard'.value \in Nat /\ heard'.open \in BOOLEAN
    BY <2>1 DEF Silence
  <2>3. CASE afterAck = "Send"
    <3>1. BitLow(0)' = BitLow(0) /\ BitLow(0) \in BOOLEAN
      BY <1>1 DEF BitLow
    <3>2. driveLow' = BitLow(0)'
      BY <2>1, <2>3, <3>1, Zenon
    <3> QED BY <1>1, <2>1, <2>3, <3>2, ByteBegins
  <2>4. CASE afterAck # "Send"
    BY <1>1, <2>1, <2>2, <2>4, NotReading
  <2> QED BY <2>3, <2>4
<1>4. CASE ackStage \notin {1, 3}
  <2>1. /\ UNCHANGED <<mode, ackStage, bits, heard>>
        /\ driveLow' = (mode = "Send" /\ BitLow(bits))
    BY <1>4 DEF Falling, shift
  <2>2. mode = "Send" => driveLow' = BitLow(bits)
    <3>1. BitLow(bits) \in BOOLEAN
      BY DEF BitLow
    <3> QED BY <2>1, <3>1, Zenon
  <2> QED BY <1>1, <2>1, <2>2, ReadSame
<1> QED BY <1>2, <1>3, <1>4

LEMMA ReadLines ==
  ASSUME TypeOK, TypeOK', ReadInv, NEW c \in BOOLEAN, NEW d \in BOOLEAN, WriteLines(c, d)
  PROVE  ReadInv'
<1>1. scl' = c /\ heard.value \in Nat /\ heard.open \in BOOLEAN /\ afterAck # "MasterAck"
  BY DEF WriteLines, ReadInv
<1>2. CASE Stop \/ Begin
  BY <1>1, <1>2, NotReading DEF Stop, Begin
<1>3. CASE Falling /\ UNCHANGED <<chip, pending, afterAck, ack, address, others>>
  BY <1>3, ReadFalling
<1>4. CASE ~scl /\ c /\ Rising(d)
  BY <1>1, <1>4, ReadRising
<1>5. CASE /\ scl = c
           /\ UNCHANGED <<chip, driveLow, pending, answer, address, shift, others, heard>>
  <2>1. UNCHANGED <<cells, pointer, mode, bits, heard, scl, driveLow, ackStage, afterAck>>
    BY <1>1, <1>5 DEF chip, answer, address, shift
  <2>2. ~scl' /\ mode = "Send" /\ ackStage' = 0 => driveLow' = BitLow(bits)
    BY <2>1 DEF ReadInv
  <2> QED BY <1>1, <2>1, <2>2, ReadSame
<1> QED BY <1>2, <1>3, <1>4, <1>5 DEF WriteLines

(* What a program has read of a byte are the leading bits of the cell: for *)
(* every chip and width of a byte, whatever levels it drove before, and    *)
(* whenever the chip's memory is saved or its cycle ends in between.       *)
THEOREM ReadsTheMemory == Spec => []ReadsMemory
<1>1. Init => ReadInv
  BY DEF Init, Fresh, Silence, ReadInv, ReadsMemory
<1>2. TypeOK /\ TypeOK' /\ ReadInv /\ [Next]_vars => ReadInv'
  <2> SUFFICES ASSUME TypeOK, TypeOK', ReadInv, [Next]_vars PROVE ReadInv'
    OBVIOUS
  <2>1. ASSUME NEW c \in BOOLEAN, NEW d \in BOOLEAN, WriteLines(c, d)  PROVE ReadInv'
    BY <2>1, ReadLines
  <2>2. CASE Advance(1) \/ Save \/ UNCHANGED vars
    <3>1. UNCHANGED <<cells, pointer, mode, bits, heard, scl, driveLow, ackStage, afterAck>>
      BY <2>2 DEF Advance, Save, vars, chip, answer, address, shift
    <3>2. /\ ~scl' /\ mode = "Send" /\ ackStage' = 0 => driveLow' = BitLow(bits)
          /\ afterAck' # "MasterAck"
      BY <3>1 DEF ReadInv
    <3> QED BY <3>1, <3>2, ReadSame
  <2>3. ASSUME NEW p \in Profile, Load(p)  PROVE ReadInv'
    BY <2>3, NotReading DEF Load, Silence
  <2> QED BY <2>1, <2>2, <2>3 DEF Next
<1>3. ReadInv => ReadsMemory
  BY DEF ReadInv
<1> QED BY <1>1, <1>2, <1>3, TypeCorrect, PTL DEF Spec
==============================================================================
