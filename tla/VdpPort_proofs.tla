---------------------------- MODULE VdpPort_proofs ----------------------------
(***************************************************************************)
(* Proofs about VdpPort, for every size of the FIFO, table of slots,       *)
(* length of a transfer and duration of an instruction.                    *)
(***************************************************************************)
EXTENDS VdpPort, SequenceTheorems, TLAPS

Entry    == [word : Value, space : Space, addr : 0 .. (Addr - 1), due : Nat]
Transfer == [type : 0 .. 3, left : 0 .. MaxLength, due : Nat, space : Space]

-----------------------------------------------------------------------------
(* Slots lie strictly ahead. *)

LEMMA GapPositive ==
  ASSUME TypeOK, NEW p \in 0 .. (Period - 1)
  PROVE  Gap[mode][p] \in Nat \ {0}
<1>1. Gap[mode] \in [0 .. (Period - 1) -> Nat \ {0}]
  BY VdpPortAssumption, Zenon DEF VdpPortAssumption, TypeOK
<1> QED BY <1>1

LEMMA SlotAhead ==
  ASSUME TypeOK, NEW after \in Nat
  PROVE  SlotAfter(after) \in Nat /\ SlotAfter(after) > after
<1>1. Period \in Nat \ {0} /\ pos + after \in Nat
  BY VdpPortAssumption DEF VdpPortAssumption, TypeOK
<1>2. (pos + after) % Period \in 0 .. (Period - 1)
  BY <1>1, SMT
<1>3. Gap[mode][(pos + after) % Period] \in Nat \ {0}
  BY <1>2, GapPositive
<1> QED BY <1>3 DEF SlotAfter

(* NextAccess never answers with the present: no wait of zero clocks. *)
LEMMA AccessAhead ==
  ASSUME TypeOK, NEW after \in Nat, NEW slots
  PROVE  NextAccess(after, slots) \in Nat /\ NextAccess(after, slots) > after
<1>1. SlotAfter(after) \in Nat /\ SlotAfter(after) > after
  BY SlotAhead
<1>2. /\ SlotAfter(SlotAfter(after)) \in Nat
      /\ SlotAfter(SlotAfter(after)) > SlotAfter(after)
  BY <1>1, SlotAhead
<1>3. /\ SlotAfter(SlotAfter(SlotAfter(after))) \in Nat
      /\ SlotAfter(SlotAfter(SlotAfter(after))) > SlotAfter(SlotAfter(after))
  BY <1>2, SlotAhead
<1> HIDE DEF SlotAfter
<1> QED BY <1>1, <1>2, <1>3, SMT DEF NextAccess

-----------------------------------------------------------------------------
(* The inductive invariant. *)

(* A transfer in progress has a unit left: its count is never taken below 0. *)
TransferCounts == dma.type # 0 => dma.left > 0

(* A processor that waits to write holds a word, any other holds none. *)
WaitHoldsWord == \A c \in Client : at[c] = "write" => wait[c].word \in Value

Queue == TimesAhead /\ TransferAfterQueue /\ TransferCounts

Inv == TypeOK /\ Queue /\ WaitHoldsWord

LEMMA QueueEndAhead ==
  ASSUME Inv
  PROVE  /\ QueueEnd \in Nat
         /\ \A i \in 1 .. Len(fifo) : fifo[i].due <= QueueEnd
<1>1. fifo \in Seq(Entry) /\ TimesAhead
  BY DEF Inv, TypeOK, Queue, Entry
<1>2. CASE fifo = << >>
  BY <1>2 DEF QueueEnd
<1>3. CASE fifo # << >>
  <2>1. Len(fifo) \in Nat \ {0} /\ Len(fifo) \in 1 .. Len(fifo)
    BY <1>1, <1>3
  <2>2. \A i \in 1 .. Len(fifo) : fifo[i].due \in Nat
    <3>1. \A i \in 1 .. Len(fifo) : fifo[i] \in Entry
      BY <1>1
    <3> QED BY <3>1 DEF Entry
  <2>3. QueueEnd = fifo[Len(fifo)].due
    BY <1>3 DEF QueueEnd
  <2>4. ASSUME NEW i \in 1 .. Len(fifo) PROVE fifo[i].due <= fifo[Len(fifo)].due
    <3>1. CASE i = Len(fifo)
      BY <3>1, <2>1, <2>2
    <3>2. CASE i < Len(fifo)
      BY <3>2, <2>1, <2>2, <1>1 DEF TimesAhead
    <3> QED BY <3>1, <3>2, <2>1
  <2> QED BY <2>1, <2>2, <2>3, <2>4
<1> QED BY <1>2, <1>3

(* What a step does to the queue and the transfer. *)
Quiet == UNCHANGED <<fifo, dma, ahead>>
Starts == /\ UNCHANGED fifo
          /\ \E type \in 1 .. 3, space \in Space, slots \in 1 .. 3 : StartDma(type, space, slots)

LEMMA StepKinds ==
  ASSUME [Next]_vars
  PROVE  \/ Quiet
         \/ Starts
         \/ \E c \in Client : Push(c)
         \/ \E step \in Horizon : Pass(step)
         \/ ResetVdp
<1>1. CASE UNCHANGED vars
  BY <1>1 DEF vars, Quiet
<1>2. CASE VdpAdvance
  BY <1>2 DEF VdpAdvance
<1>3. ASSUME NEW c \in Client, Request(c) PROVE Quiet \/ Starts
  <2>1. CASE WriteRegister(c)
    BY <2>1 DEF WriteRegister, Quiet
  <2>2. CASE \E dir \in Dir, space \in Space, a \in 0 .. (Addr - 1) : WriteFirst(c, dir, space, a)
    BY <2>2 DEF WriteFirst, Quiet
  <2>3. ASSUME NEW dir \in Dir, NEW space \in Space, NEW a \in 0 .. (Addr - 1),
               NEW type \in 0 .. 3, WriteSecond(c, dir, space, a, type)
        PROVE  Quiet \/ Starts
    <3>1. UNCHANGED fifo
      BY <2>3 DEF WriteSecond
    <3>2. CASE type = 0 \/ type = 2
      <4>1. CASE type = 0
        BY <2>3, <3>1, <4>1 DEF WriteSecond, Quiet
      <4>2. CASE type = 2
        <5>1. dma' = dma /\ ahead' = ahead
          BY <2>3, <4>2 DEF WriteSecond
        <5> QED BY <3>1, <5>1 DEF Quiet
      <4> QED BY <3>2, <4>1, <4>2
    <3>3. CASE type = 1
      <4>1. StartDma(1, space, Cost(space))
        BY <2>3, <3>3 DEF WriteSecond
      <4>2. Cost(space) \in 1 .. 3
        BY DEF Cost
      <4> QED BY <3>1, <4>1, <4>2 DEF Starts
    <3>4. CASE type = 3
      <4>1. StartDma(3, "vram", 2)
        BY <2>3, <3>4 DEF WriteSecond
      <4> QED BY <3>1, <4>1 DEF Starts, Space
    <3> QED BY <3>2, <3>3, <3>4
  <2>4. CASE ReadStatus(c)
    BY <2>4 DEF ReadStatus, Quiet
  <2>5. ASSUME NEW v \in Value, WriteData(c, v) PROVE Quiet \/ Starts
    <3>1. UNCHANGED fifo
      BY <2>5 DEF WriteData
    <3>2. CASE fillPending
      <4>1. StartDma(2, "vram", 3)
        BY <2>5, <3>2 DEF WriteData
      <4> QED BY <3>1, <4>1 DEF Starts, Space
    <3>3. CASE ~fillPending
      BY <2>5, <3>1, <3>3 DEF WriteData, Quiet
    <3> QED BY <3>2, <3>3
  <2>6. CASE ReadData(c)
    BY <2>6 DEF ReadData, Quiet
  <2> QED BY <1>3, <2>1, <2>2, <2>3, <2>4, <2>5, <2>6, Zenon DEF Request
<1>4. ASSUME NEW c \in Client, Wait(c), ~Push(c) PROVE Quiet
  BY <1>4 DEF Wait, WaitForRoom, WaitForEmpty, FinishRead, Quiet
<1>5. CASE CpuLoop
  BY <1>5 DEF CpuLoop, Halted, BeginInstruction, Retire, Quiet
<1>6. CASE Z80Return
  BY <1>6 DEF Z80Return, Quiet
<1> QED BY <1>1, <1>2, <1>3, <1>4, <1>5, <1>6, Zenon DEF Next

-----------------------------------------------------------------------------
(* The queue and the transfer, one lemma for each kind of step. *)

QueueTyped ==
  /\ fifo \in Seq(Entry)
  /\ Len(fifo) <= Size
  /\ dma \in Transfer
  /\ ahead \in 0 .. Size

LEMMA InvQueueTyped == TypeOK => QueueTyped
  BY DEF TypeOK, QueueTyped, Entry, Transfer

LEMMA QuietStep ==
  ASSUME Inv, Quiet
  PROVE  QueueTyped' /\ Queue'
<1>1. QueueTyped'
  BY InvQueueTyped DEF Inv, Quiet, QueueTyped
<1> QED BY <1>1 DEF Inv, Quiet, Queue, TimesAhead, TransferAfterQueue, TransferCounts

LEMMA StartStep ==
  ASSUME Inv, Starts
  PROVE  QueueTyped' /\ Queue'
<1>1. QueueTyped /\ TypeOK /\ TimesAhead /\ UNCHANGED fifo
  BY InvQueueTyped DEF Inv, Queue, Starts
<1>2. PICK type \in 1 .. 3, space \in Space, slots \in 1 .. 3 : StartDma(type, space, slots)
  BY DEF Starts
<1> DEFINE start == NextAccess(QueueEnd, slots)
<1>3. /\ QueueEnd \in Nat
      /\ \A i \in 1 .. Len(fifo) : fifo[i].due <= QueueEnd
  BY QueueEndAhead
<1>4. start \in Nat /\ start > QueueEnd
  BY <1>1, <1>3, AccessAhead
<1>5. PICK n \in 1 .. MaxLength :
        dma' = [type |-> type, left |-> n, due |-> start, space |-> space]
  BY <1>2 DEF StartDma
<1>6. ahead' = Len(fifo)
  BY <1>2 DEF StartDma
<1> HIDE DEF start
<1>7. Len(fifo) \in Nat /\ \A i \in 1 .. Len(fifo) : fifo[i].due \in Nat
  <2>1. \A i \in 1 .. Len(fifo) : fifo[i] \in Entry
    BY <1>1 DEF QueueTyped
  <2> QED BY <1>1, <2>1 DEF QueueTyped, Entry
<1>8. QueueTyped'
  <2>1. dma' \in Transfer
    BY <1>4, <1>5, VdpPortAssumption DEF Transfer, VdpPortAssumption
  <2>2. ahead' \in 0 .. Size
    BY <1>1, <1>6, <1>7, VdpPortAssumption DEF QueueTyped, VdpPortAssumption
  <2> QED BY <1>1, <2>1, <2>2 DEF QueueTyped
<1>9. TimesAhead'
  BY <1>1, <1>3, <1>4, <1>5 DEF TimesAhead
<1>10. TransferAfterQueue'
  BY <1>1, <1>3, <1>4, <1>5, <1>6, <1>7 DEF TransferAfterQueue
<1>11. TransferCounts'
  BY <1>5 DEF TransferCounts
<1> QED BY <1>8, <1>9, <1>10, <1>11 DEF Queue

LEMMA PushStep ==
  ASSUME Inv, NEW c \in Client, Push(c)
  PROVE  QueueTyped' /\ Queue'
<1> DEFINE ready == NextAccess(QueueEnd, Cost(wait[c].space))
           entry == [word |-> wait[c].word, space |-> wait[c].space, addr |-> cmd.addr,
                     due |-> ready]
<1>1. QueueTyped /\ TypeOK /\ Queue
  BY InvQueueTyped DEF Inv
<1>2. /\ QueueEnd \in Nat
      /\ \A i \in 1 .. Len(fifo) : fifo[i].due <= QueueEnd
  BY QueueEndAhead
<1>3. ready \in Nat /\ ready > QueueEnd
  BY <1>1, <1>2, AccessAhead
<1> HIDE DEF ready
<1>4. entry \in Entry
  <2>1. wait[c].word \in Value
    BY DEF Inv, WaitHoldsWord, Push
  <2>2. wait[c].space \in Space
    BY <1>1 DEF TypeOK
  <2>3. cmd.addr \in 0 .. (Addr - 1)
    BY <1>1 DEF TypeOK
  <2> QED BY <2>1, <2>2, <2>3, <1>3 DEF Entry
<1>5. fifo' = Append(fifo, entry) /\ Len(fifo) < Size /\ UNCHANGED <<dma, ahead>>
  BY DEF Push, ready
<1>6. entry.due = ready
  OBVIOUS
<1> HIDE DEF entry
<1>7. Len(fifo) \in Nat /\ \A i \in 1 .. Len(fifo) : fifo[i].due \in Nat
  <2>1. \A i \in 1 .. Len(fifo) : fifo[i] \in Entry
    BY <1>1 DEF QueueTyped
  <2> QED BY <1>1, <2>1 DEF QueueTyped, Entry
<1>8. /\ Len(fifo') = Len(fifo) + 1
      /\ \A i \in 1 .. Len(fifo) : fifo'[i] = fifo[i]
      /\ fifo'[Len(fifo) + 1] = entry
  BY <1>1, <1>4, <1>5 DEF QueueTyped
<1>9. QueueTyped'
  <2>1. fifo' \in Seq(Entry)
    BY <1>1, <1>4, <1>5 DEF QueueTyped
  <2> QED BY <1>1, <1>5, <1>7, <1>8, <2>1, VdpPortAssumption DEF QueueTyped, VdpPortAssumption
<1>10. TimesAhead'
  <2>1. \A i \in 1 .. Len(fifo') : i \in 1 .. Len(fifo) \/ i = Len(fifo) + 1
    BY <1>7, <1>8
  <2>2. \A i \in 1 .. Len(fifo') : fifo'[i].due > 0
    BY <1>1, <1>2, <1>3, <1>6, <1>8, <2>1 DEF Queue, TimesAhead
  <2>3. ASSUME NEW i \in 1 .. Len(fifo'), NEW j \in 1 .. Len(fifo'), i < j
        PROVE  fifo'[i].due < fifo'[j].due
    <3>1. i \in 1 .. Len(fifo)
      BY <2>3, <1>7, <1>8
    <3>2. CASE j \in 1 .. Len(fifo)
      BY <2>3, <3>1, <3>2, <1>1, <1>8 DEF Queue, TimesAhead
    <3>3. CASE j = Len(fifo) + 1
      BY <3>1, <3>3, <1>2, <1>3, <1>6, <1>7, <1>8
    <3> QED BY <3>2, <3>3, <2>1
  <2> QED BY <1>1, <1>5, <2>2, <2>3 DEF Queue, TimesAhead
<1>11. TransferAfterQueue'
  <2>1. ahead \in Nat
    BY <1>1, VdpPortAssumption DEF QueueTyped, VdpPortAssumption
  <2> QED BY <2>1, <1>1, <1>5, <1>7, <1>8 DEF Queue, TransferAfterQueue
<1>12. TransferCounts'
  BY <1>1, <1>5 DEF Queue, TransferCounts
<1> QED BY <1>9, <1>10, <1>11, <1>12 DEF Queue

LEMMA ResetStep ==
  ASSUME Inv, ResetVdp
  PROVE  QueueTyped' /\ Queue'
<1>1. fifo' = << >> /\ dma' = NoDma /\ ahead' = 0
  BY DEF ResetVdp
<1>2. QueueTyped'
  BY <1>1, VdpPortAssumption DEF QueueTyped, VdpPortAssumption, NoDma, Transfer, Space
<1> QED BY <1>1, <1>2 DEF Queue, TimesAhead, TransferAfterQueue, TransferCounts, NoDma

(* Time passes for the whole queue: its entries keep their order and words. *)
LEMMA ElapseFacts ==
  ASSUME NEW queue \in Seq(Entry), NEW n \in Nat,
         \A i \in 1 .. Len(queue) : queue[i].due >= n
  PROVE  /\ Elapse(queue, n) \in Seq(Entry)
         /\ Len(Elapse(queue, n)) = Len(queue)
         /\ \A i \in 1 .. Len(queue) :
              Elapse(queue, n)[i].due = queue[i].due - n
         /\ \A i \in 1 .. Len(queue) :
              Elapse(queue, n)[i].word = queue[i].word
<1>1. Len(queue) \in Nat /\ \A i \in 1 .. Len(queue) : queue[i] \in Entry
  OBVIOUS
<1>2. \A i \in 1 .. Len(queue) : [queue[i] EXCEPT !.due = @ - n] \in Entry
  BY <1>1 DEF Entry
<1>3. Elapse(queue, n) \in Seq(Entry)
  BY <1>1, <1>2 DEF Elapse
<1>4. Len(Elapse(queue, n)) = Len(queue)
  BY <1>1 DEF Elapse
<1>5. \A i \in 1 .. Len(queue) :
        Elapse(queue, n)[i] = [queue[i] EXCEPT !.due = @ - n]
  BY DEF Elapse
<1>6. \A i \in 1 .. Len(queue) : Elapse(queue, n)[i].due = queue[i].due - n
  BY <1>1, <1>5 DEF Entry
<1>7. \A i \in 1 .. Len(queue) : Elapse(queue, n)[i].word = queue[i].word
  BY <1>1, <1>5 DEF Entry
<1> QED BY <1>3, <1>4, <1>6, <1>7

(* The next thing that is due lies ahead, and nothing is due before it. *)
LEMMA StepFacts ==
  ASSUME Inv, NEW step \in Horizon, Pass(step)
  PROVE  /\ step \in Nat /\ step > 0 /\ step <= ticks
         /\ \A i \in 1 .. Len(fifo) : fifo[i].due \in Nat /\ fifo[i].due >= step
         /\ dma.type # 0 => dma.due \in Nat /\ dma.due >= step
<1>1. QueueTyped /\ TypeOK /\ TimesAhead
  BY InvQueueTyped DEF Inv, Queue
<1>2. Len(fifo) \in Nat /\ \A i \in 1 .. Len(fifo) : fifo[i].due \in Nat
  <2>1. \A i \in 1 .. Len(fifo) : fifo[i] \in Entry
    BY <1>1 DEF QueueTyped
  <2> QED BY <1>1, <2>1 DEF QueueTyped, Entry
<1>3. dma.due \in Nat /\ ticks \in Nat
  BY <1>1 DEF TypeOK
<1>4. fifo # << >> => 1 \in 1 .. Len(fifo)
  BY <1>1, <1>2 DEF QueueTyped
<1>5. \A t \in Horizon : t \in Nat /\ t > 0
  BY <1>1, <1>2, <1>3, <1>4 DEF Horizon, TimesAhead, Pass
<1>6. step <= ticks /\ (dma.type # 0 => dma.due >= step)
  BY DEF Pass, Horizon
<1>7. ASSUME NEW i \in 1 .. Len(fifo) PROVE fifo[i].due >= step
  <2>1. fifo[1].due >= step /\ 1 \in 1 .. Len(fifo)
    BY <1>7, <1>2, <1>4 DEF Pass, Horizon
  <2>2. CASE i = 1
    BY <2>1, <2>2
  <2>3. CASE 1 < i
    <3>1. fifo[1].due < fifo[i].due
      BY <2>1, <2>3, <1>1 DEF TimesAhead
    <3> QED BY <2>1, <3>1, <1>2, <1>5
  <2> QED BY <2>2, <2>3
<1> QED BY <1>2, <1>3, <1>5, <1>6, <1>7

(* The head of the queue is stored, or nothing is: in either case the queue is *)
(* in order and the transfer still behind what preceded it.                    *)
LEMMA PassQueue ==
  ASSUME Inv, NEW step \in Horizon, Pass(step)
  PROVE  /\ fifo' \in Seq(Entry)
         /\ Len(fifo') <= Len(fifo)
         /\ ahead' \in 0 .. Size
         /\ \A i \in 1 .. Len(fifo') : fifo'[i].due > 0
         /\ \A i, j \in 1 .. Len(fifo') : i < j => fifo'[i].due < fifo'[j].due
         /\ ahead' > 0 => /\ ahead > 0
                          /\ dma.due > step
                          /\ ahead' <= Len(fifo')
                          /\ dma.due - step > fifo'[ahead'].due
<1>1. QueueTyped /\ TimesAhead /\ TransferAfterQueue
  BY InvQueueTyped DEF Inv, Queue
<1>2. /\ step \in Nat /\ step > 0
      /\ \A i \in 1 .. Len(fifo) : fifo[i].due \in Nat /\ fifo[i].due >= step
  BY StepFacts
<1>3. fifo \in Seq(Entry) /\ Len(fifo) \in Nat /\ ahead \in Nat /\ dma.due \in Nat
  BY <1>1, VdpPortAssumption DEF QueueTyped, VdpPortAssumption, Transfer
<1>4. CASE fifo # << >> /\ fifo[1].due = step
  <2> DEFINE rest == Tail(fifo)
  <2>1. /\ rest \in Seq(Entry)
        /\ Len(rest) = Len(fifo) - 1
        /\ \A i \in 1 .. Len(rest) : rest[i] = fifo[i + 1] /\ i + 1 \in 1 .. Len(fifo)
    BY <1>3, <1>4
  <2>2. fifo' = Elapse(rest, step) /\ ahead' = IF ahead = 0 THEN 0 ELSE ahead - 1
    BY <1>4 DEF Pass
  <2> HIDE DEF rest
  <2>3. 1 \in 1 .. Len(fifo)
    BY <1>3, <1>4
  <2>4. \A i \in 1 .. Len(rest) : rest[i].due \in Nat /\ rest[i].due > step
    <3> TAKE i \in 1 .. Len(rest)
    <3>1. 1 < i + 1 /\ i + 1 \in 1 .. Len(fifo) /\ rest[i] = fifo[i + 1]
      BY <2>1, <1>3
    <3>2. fifo[1].due < fifo[i + 1].due
      BY <3>1, <2>3, <1>1 DEF TimesAhead
    <3> QED BY <3>1, <3>2, <1>2, <1>4
  <2>5. /\ fifo' \in Seq(Entry)
        /\ Len(fifo') = Len(rest)
        /\ \A i \in 1 .. Len(rest) : fifo'[i].due = rest[i].due - step
    BY <2>1, <2>2, <2>4, <1>2, ElapseFacts
  <2>6. \A i \in 1 .. Len(fifo') : fifo'[i].due > 0
    BY <2>4, <2>5, <1>2
  <2>7. ASSUME NEW i \in 1 .. Len(fifo'), NEW j \in 1 .. Len(fifo'), i < j
        PROVE  fifo'[i].due < fifo'[j].due
    <3>1. i + 1 \in 1 .. Len(fifo) /\ j + 1 \in 1 .. Len(fifo) /\ i + 1 < j + 1
      BY <2>7, <2>1, <2>5
    <3>2. fifo[i + 1].due < fifo[j + 1].due
      BY <3>1, <1>1, Zenon DEF TimesAhead
    <3>3. rest[i].due < rest[j].due
      BY <3>2, <2>1, <2>5
    <3> QED BY <3>3, <2>4, <2>5, <1>2
  <2>8. ASSUME ahead' > 0
        PROVE  /\ ahead > 0 /\ dma.due > step /\ ahead' <= Len(fifo')
               /\ dma.due - step > fifo'[ahead'].due
    <3>1. ahead > 0 /\ ahead' = ahead - 1 /\ ahead' \in Nat
      BY <2>8, <2>2, <1>3
    <3>2. ahead <= Len(fifo) /\ dma.due > fifo[ahead].due
      BY <3>1, <1>1 DEF TransferAfterQueue
    <3>3. ahead' \in 1 .. Len(rest) /\ ahead' + 1 = ahead
      BY <3>1, <3>2, <2>1, <2>8, <1>3
    <3>4. rest[ahead'] = fifo[ahead]
      BY <3>3, <2>1
    <3>5. rest[ahead'].due \in Nat /\ rest[ahead'].due > step
          /\ fifo'[ahead'].due = rest[ahead'].due - step
      BY <3>3, <2>4, <2>5
    <3>6. dma.due > rest[ahead'].due
      BY <3>2, <3>4
    <3>7. dma.due > step /\ dma.due - step > fifo'[ahead'].due
      BY <3>5, <3>6, <1>2, <1>3
    <3>8. ahead' <= Len(fifo')
      BY <3>3, <2>5, <2>1, <1>3
    <3> QED BY <3>1, <3>7, <3>8
  <2>9. ahead' \in 0 .. Size
    BY <2>2, <1>1, <1>3, VdpPortAssumption DEF QueueTyped, VdpPortAssumption
  <2> QED BY <2>1, <2>5, <2>6, <2>7, <2>8, <2>9, <1>3
<1>5. CASE ~(fifo # << >> /\ fifo[1].due = step)
  <2>1. fifo' = Elapse(fifo, step) /\ ahead' = ahead
    BY <1>5 DEF Pass
  <2>2. /\ fifo' \in Seq(Entry)
        /\ Len(fifo') = Len(fifo)
        /\ \A i \in 1 .. Len(fifo) : fifo'[i].due = fifo[i].due - step
    BY <2>1, <1>2, <1>3, ElapseFacts
  <2>3. \A i \in 1 .. Len(fifo) : fifo[i].due > step
    <3> TAKE i \in 1 .. Len(fifo)
    <3>1. 1 \in 1 .. Len(fifo) /\ fifo # << >>
      BY <1>3
    <3>2. fifo[1].due > step
      BY <3>1, <1>2, <1>5
    <3>3. CASE i = 1
      BY <3>2, <3>3
    <3>4. CASE 1 < i
      <4>1. fifo[1].due < fifo[i].due
        BY <3>1, <3>4, <1>1 DEF TimesAhead
      <4> QED BY <3>1, <3>2, <4>1, <1>2
    <3> QED BY <3>3, <3>4
  <2>4. \A i \in 1 .. Len(fifo') : fifo'[i].due > 0
    BY <2>2, <2>3, <1>2
  <2>5. ASSUME NEW i \in 1 .. Len(fifo'), NEW j \in 1 .. Len(fifo'), i < j
        PROVE  fifo'[i].due < fifo'[j].due
    <3>1. fifo[i].due < fifo[j].due
      BY <2>5, <2>2, <1>1 DEF TimesAhead
    <3> QED BY <3>1, <2>2, <1>2
  <2>6. ASSUME ahead' > 0
        PROVE  /\ ahead > 0 /\ dma.due > step /\ ahead' <= Len(fifo')
               /\ dma.due - step > fifo'[ahead'].due
    <3>1. ahead > 0 /\ ahead \in 1 .. Len(fifo) /\ dma.due > fifo[ahead].due
      BY <2>1, <2>6, <1>1, <1>3 DEF TransferAfterQueue
    <3> QED BY <3>1, <2>1, <2>2, <2>3, <1>2, <1>3
  <2> QED BY <1>1, <1>3, <2>1, <2>2, <2>4, <2>5, <2>6 DEF QueueTyped
<1> QED BY <1>4, <1>5

LEMMA PassStep ==
  ASSUME Inv, NEW step \in Horizon, Pass(step)
  PROVE  QueueTyped' /\ Queue'
<1>1. QueueTyped /\ Queue /\ TypeOK
  BY InvQueueTyped DEF Inv
<1>2. step \in Nat /\ step > 0 /\ (dma.type # 0 => dma.due >= step)
  BY StepFacts
<1>3. dma.due \in Nat /\ dma.left \in 0 .. MaxLength /\ dma.type \in 0 .. 3
      /\ dma.space \in Space
  BY <1>1 DEF TypeOK
<1>4. /\ dma' \in Transfer
      /\ dma'.type # 0 => dma'.due > 0 /\ dma'.left > 0
      /\ dma.type # 0 /\ dma.due > step =>
           dma'.type # 0 /\ dma'.due = dma.due - step
  <2>1. CASE dma.type # 0 /\ dma.due = step
    <3> DEFINE next == NextAccess(step, UnitCost)
    <3>1. next \in Nat /\ next > step
      BY <1>1, <1>2, AccessAhead
    <3>2. DmaUnit(step)
      BY <2>1 DEF Pass
    <3>3. dma' = IF dma.left = 1 THEN NoDma
                 ELSE [dma EXCEPT !.left = @ - 1, !.due = next - step]
      BY <3>2 DEF DmaUnit
    <3> HIDE DEF next
    <3>4. dma.left > 0 /\ MaxLength \in Nat
      BY <1>1, <2>1, VdpPortAssumption DEF Queue, TransferCounts, VdpPortAssumption
    <3>5. CASE dma.left = 1
      BY <3>3, <3>5, <2>1, <1>2, <1>3, VdpPortAssumption
         DEF NoDma, Transfer, Space, VdpPortAssumption
    <3>6. CASE dma.left # 1
      <4>1. dma' = [dma EXCEPT !.left = dma.left - 1, !.due = next - step]
        BY <3>3, <3>6
      <4>2. dma.left - 1 \in 1 .. MaxLength /\ next - step \in Nat /\ next - step > 0
        BY <3>1, <3>4, <3>6, <1>2, <1>3
      <4>3. dma \in Transfer
        BY <1>1 DEF QueueTyped
      <4>4. /\ dma'.type = dma.type /\ dma'.space = dma.space
            /\ dma'.left = dma.left - 1 /\ dma'.due = next - step
        BY <4>1, <4>3 DEF Transfer
      <4>5. dma' \in Transfer
        <5>1. dma' = [type |-> dma.type, left |-> dma.left - 1, due |-> next - step,
                      space |-> dma.space]
          BY <4>1, <4>3 DEF Transfer
        <5>2. dma.left - 1 \in 0 .. MaxLength
          BY <4>2, <3>4
        <5> QED BY <5>1, <5>2, <4>2, <1>3 DEF Transfer
      <4>6. dma'.due > 0 /\ dma'.left > 0
        BY <4>2, <4>4
      <4>7. ~(dma.due > step)
        BY <2>1, <1>2
      <4> QED BY <4>5, <4>6, <4>7, Zenon
    <3> QED BY <3>5, <3>6
  <2>2. CASE dma.type = 0
    <3>1. dma' = dma
      BY <2>2 DEF Pass
    <3> QED BY <3>1, <2>2, <1>1 DEF QueueTyped
  <2>3. CASE dma.type # 0 /\ dma.due # step
    <3>1. dma' = [dma EXCEPT !.due = dma.due - step]
      BY <2>3 DEF Pass
    <3>2. dma.due - step \in Nat /\ dma.due - step > 0
      BY <2>3, <1>2, <1>3
    <3>3. dma \in Transfer /\ dma.left > 0
      BY <2>3, <1>1 DEF QueueTyped, Queue, TransferCounts
    <3> QED BY <3>1, <3>2, <3>3 DEF Transfer
  <2> QED BY <2>1, <2>2, <2>3
<1>5. QueueTyped'
  <2>1. Len(fifo') \in Nat /\ Len(fifo) \in Nat /\ Len(fifo') <= Len(fifo)
    BY <1>1, PassQueue DEF QueueTyped
  <2>2. Len(fifo') <= Size
    BY <1>1, <2>1, VdpPortAssumption DEF QueueTyped, VdpPortAssumption
  <2> QED BY <1>4, <2>2, PassQueue DEF QueueTyped
<1>6. TimesAhead'
  BY <1>4, PassQueue DEF TimesAhead
<1>7. TransferCounts'
  BY <1>4 DEF TransferCounts
<1>8. TransferAfterQueue'
  <2> SUFFICES ASSUME ahead' > 0
               PROVE  ahead' <= Len(fifo') /\ dma'.type # 0 /\ dma'.due > fifo'[ahead'].due
    BY DEF TransferAfterQueue
  <2>1. /\ ahead > 0 /\ dma.due > step /\ ahead' <= Len(fifo')
        /\ dma.due - step > fifo'[ahead'].due
    BY PassQueue
  <2>2. dma.type # 0
    BY <1>1, <2>1 DEF Queue, TransferAfterQueue
  <2> QED BY <1>4, <2>1, <2>2
<1> QED BY <1>5, <1>6, <1>7, <1>8 DEF Queue

LEMMA QueueStep ==
  ASSUME Inv, [Next]_vars
  PROVE  QueueTyped' /\ Queue'
<1>1. CASE Quiet
  BY <1>1, QuietStep
<1>2. CASE Starts
  BY <1>2, StartStep
<1>3. ASSUME NEW c \in Client, Push(c) PROVE QueueTyped' /\ Queue'
  BY <1>3, PushStep
<1>4. ASSUME NEW step \in Horizon, Pass(step) PROVE QueueTyped' /\ Queue'
  BY <1>4, PassStep
<1>5. CASE ResetVdp
  BY <1>5, ResetStep
<1> QED BY <1>1, <1>2, <1>3, <1>4, <1>5, StepKinds

-----------------------------------------------------------------------------
(* The processors, the command and the beam. *)

Captured == [word : Value \cup {NoWord}, space : Space, addr : 0 .. (Addr - 1)]
Command  == [dir : Dir, space : Space, addr : 0 .. (Addr - 1)]

(* Where each processor stands and what it holds. *)
StackTyped ==
  /\ at \in [Client -> Place]
  /\ wait \in [Client -> Captured]
  /\ burst \in 0 .. Z80Burst
  /\ WaitHoldsWord

PortTyped ==
  /\ ticks \in Nat
  /\ pos \in 0 .. (Period - 1)
  /\ cmd \in Command

FlagsTyped ==
  /\ latched \in BOOLEAN
  /\ mode \in Mode
  /\ fillPending \in BOOLEAN

LEMMA InvParts ==
  /\ Inv => StackTyped /\ PortTyped /\ FlagsTyped
  /\ StackTyped /\ PortTyped /\ FlagsTyped /\ QueueTyped /\ Queue => Inv
  BY DEF Inv, TypeOK, StackTyped, PortTyped, FlagsTyped, QueueTyped, Captured, Command,
         Entry, Transfer

LEMMA CommandFacts ==
  ASSUME Inv
  PROVE  NextAddress \in Command
<1>1. Addr \in Nat \ {0} /\ cmd \in Command /\ cmd.addr \in Nat
  BY VdpPortAssumption DEF VdpPortAssumption, Inv, TypeOK, Command
<1>2. (cmd.addr + 1) % Addr \in 0 .. (Addr - 1)
  BY <1>1, SMT
<1> QED BY <1>1, <1>2 DEF NextAddress, Command

LEMMA FlagsStep ==
  ASSUME Inv, [Next]_vars
  PROVE  FlagsTyped'
<1>1. FlagsTyped
  BY InvParts
<1>2. CASE UNCHANGED vars
  BY <1>1, <1>2, Zenon DEF vars, FlagsTyped
<1>3. CASE VdpAdvance
  BY <1>1, <1>3, Zenon DEF VdpAdvance, Pass, FlagsTyped
<1>4. ASSUME NEW c \in Client, Request(c) PROVE FlagsTyped'
  <2>1. CASE WriteRegister(c)
    <3>1. UNCHANGED <<latched, fillPending>>
      BY <2>1, Zenon DEF WriteRegister
    <3>2. CASE c = "cpu"
      <4>1. mode' \in {m \in Mode : m.h40 = mode.h40 \/ m = [mode EXCEPT !.h40 = m.h40]}
        BY <2>1, <3>2, Zenon DEF WriteRegister
      <4> QED BY <1>1, <3>1, <4>1, Zenon DEF FlagsTyped
    <3>3. CASE c # "cpu"
      <4>1. mode' \in {BlankByte(mode), WideByte(mode)}
        BY <2>1, <3>3, Zenon DEF WriteRegister
      <4>2. BlankByte(mode) \in Mode /\ WideByte(mode) \in Mode
        BY <1>1, VdpPortAssumption, Zenon DEF FlagsTyped, VdpPortAssumption
      <4>3. mode' \in Mode
        BY <4>1, <4>2
      <4> QED BY <1>1, <3>1, <4>3, Zenon DEF FlagsTyped
    <3> QED BY <3>2, <3>3
  <2>2. CASE \E dir \in Dir, space \in Space, a \in 0 .. (Addr - 1) : WriteFirst(c, dir, space, a)
    BY <1>1, <2>2, Zenon DEF WriteFirst, FlagsTyped
  <2>3. ASSUME NEW dir \in Dir, NEW space \in Space, NEW a \in 0 .. (Addr - 1),
               NEW type \in 0 .. 3, WriteSecond(c, dir, space, a, type)
        PROVE  FlagsTyped'
    <3>1. latched' = FALSE /\ mode' = mode
      BY <2>3, Zenon DEF WriteSecond
    <3>2. type = 0 \/ type = 1 \/ type = 2 \/ type = 3
      OBVIOUS
    <3>3. fillPending' = fillPending \/ fillPending' = TRUE
      BY <2>3, <3>2 DEF WriteSecond
    <3> QED BY <1>1, <3>1, <3>3, Zenon DEF FlagsTyped
  <2>4. CASE ReadStatus(c)
    BY <1>1, <2>4, Zenon DEF ReadStatus, FlagsTyped
  <2>5. ASSUME NEW v \in Value, WriteData(c, v) PROVE FlagsTyped'
    <3>1. UNCHANGED <<latched, mode>> /\ (fillPending' = FALSE \/ UNCHANGED fillPending)
      BY <2>5, Zenon DEF WriteData
    <3> QED BY <1>1, <3>1, Zenon DEF FlagsTyped
  <2>6. CASE ReadData(c)
    BY <1>1, <2>6, Zenon DEF ReadData, port, FlagsTyped
  <2> QED BY <1>4, <2>1, <2>2, <2>3, <2>4, <2>5, <2>6, Zenon DEF Request
<1>5. ASSUME NEW c \in Client, Wait(c) PROVE FlagsTyped'
  <2>1. CASE WaitForRoom(c) \/ WaitForEmpty(c)
    BY <1>1, <2>1, Zenon DEF WaitForRoom, WaitForEmpty, port, FlagsTyped
  <2>2. CASE Push(c)
    BY <1>1, <2>2, Zenon DEF Push, FlagsTyped
  <2>3. CASE FinishRead(c)
    <3>1. UNCHANGED <<mode, fillPending>> /\ (latched' = FALSE \/ UNCHANGED latched)
      BY <2>3, Zenon DEF FinishRead
    <3> QED BY <1>1, <3>1, Zenon DEF FlagsTyped
  <2> QED BY <1>5, <2>1, <2>2, <2>3, Zenon DEF Wait
<1>6. CASE CpuLoop
  BY <1>1, <1>6, Zenon DEF CpuLoop, Halted, BeginInstruction, Retire, port, FlagsTyped
<1>7. CASE ResetVdp
  BY <1>7, VdpPortAssumption, Zenon DEF ResetVdp, FlagsTyped, VdpPortAssumption
<1>8. CASE Z80Return
  BY <1>1, <1>8, Zenon DEF Z80Return, port, FlagsTyped
<1> QED BY <1>2, <1>3, <1>4, <1>5, <1>6, <1>7, <1>8, Zenon DEF Next

(* What a step does to the processors' places and words. *)
Calm  == UNCHANGED <<at, wait>>
Moves == /\ UNCHANGED wait
         /\ \E c \in Client, place \in Place \ {"write"} :
              at[c] # "write" /\ at' = [at EXCEPT ![c] = place]
Asks(c, v) ==
  /\ at[c] # "write"
  /\ at' = [at EXCEPT ![c] = "write"]
  /\ wait' = [wait EXCEPT ![c] = [word |-> v, space |-> cmd.space, addr |-> cmd.addr]]
  /\ UNCHANGED fifo

LEMMA StackKinds ==
  ASSUME [Next]_vars
  PROVE  \/ Calm
         \/ Moves
         \/ \E c \in Client, v \in Value : Asks(c, v)
         \/ \E c \in Client : Push(c)
<1>1. CASE UNCHANGED vars
  BY <1>1 DEF vars, Calm
<1>2. CASE VdpAdvance
  <2>1. UNCHANGED wait /\ (GiveZ80Time \/ UNCHANGED at)
    BY <1>2 DEF VdpAdvance, Pass
  <2> QED BY <2>1 DEF GiveZ80Time, Calm, Moves, Client, Place
<1>3. ASSUME NEW c \in Client, Request(c)
      PROVE  Calm \/ Moves \/ \E v \in Value : Asks(c, v)
  <2>1. CASE WriteRegister(c) \/ ReadStatus(c)
    BY <2>1 DEF WriteRegister, ReadStatus, Calm
  <2>2. CASE \E dir \in Dir, space \in Space, a \in 0 .. (Addr - 1) : WriteFirst(c, dir, space, a)
    BY <2>2 DEF WriteFirst, Calm
  <2>3. CASE \E dir \in Dir, space \in Space, a \in 0 .. (Addr - 1), type \in 0 .. 3 :
               WriteSecond(c, dir, space, a, type)
    BY <2>3 DEF WriteSecond, Calm
  <2>4. ASSUME NEW v \in Value, WriteData(c, v) PROVE Calm \/ Asks(c, v)
    <3>1. at[c] = "run" /\ UNCHANGED fifo
      BY <2>4 DEF WriteData, Access
    <3>2. CASE fillPending
      BY <2>4, <3>2 DEF WriteData, Calm
    <3>3. CASE ~fillPending
      BY <2>4, <3>1, <3>3 DEF WriteData, Asks
    <3> QED BY <3>2, <3>3
  <2>5. CASE ReadData(c)
    BY <2>5 DEF ReadData, Access, Moves, Place
  <2> QED BY <1>3, <2>1, <2>2, <2>3, <2>4, <2>5, Zenon DEF Request
<1>4. ASSUME NEW c \in Client, Wait(c), ~Push(c) PROVE Calm \/ Moves
  BY <1>4 DEF Wait, WaitForRoom, WaitForEmpty, FinishRead, client, Calm, Moves, Place
<1>5. CASE CpuLoop
  BY <1>5 DEF CpuLoop, Halted, BeginInstruction, Retire, client, Calm, Moves, Client, Place
<1>6. CASE ResetVdp
  BY <1>6 DEF ResetVdp, client, Calm
<1>7. CASE Z80Return
  BY <1>7 DEF Z80Return, Moves, Client, Place
<1> QED BY <1>1, <1>2, <1>3, <1>4, <1>5, <1>6, <1>7, Zenon DEF Next

LEMMA BurstStep ==
  ASSUME Inv, [Next]_vars
  PROVE  burst' \in 0 .. Z80Burst
<1>1. burst \in 0 .. Z80Burst /\ Z80Burst \in Nat
  BY VdpPortAssumption DEF VdpPortAssumption, Inv, TypeOK
<1>2. ASSUME NEW c, Access(c) PROVE burst' \in 0 .. Z80Burst
  BY <1>1, <1>2 DEF Access
<1>3. CASE UNCHANGED vars
  BY <1>1, <1>3 DEF vars
<1>4. CASE VdpAdvance
  BY <1>1, <1>4 DEF VdpAdvance, Pass, GiveZ80Time
<1>5. ASSUME NEW c \in Client, Request(c) PROVE Access(c)
  BY <1>5, Zenon DEF Request, WriteRegister, WriteFirst, WriteSecond, ReadStatus, WriteData, ReadData
<1>6. ASSUME NEW c \in Client, Wait(c) PROVE UNCHANGED burst
  BY <1>6 DEF Wait, WaitForRoom, WaitForEmpty, FinishRead, Push, client
<1>7. CASE CpuLoop
  BY <1>1, <1>7 DEF CpuLoop, Halted, BeginInstruction, Retire, client
<1>8. CASE ResetVdp \/ Z80Return
  BY <1>1, <1>8 DEF ResetVdp, Z80Return, client
<1> QED BY <1>1, <1>2, <1>3, <1>4, <1>5, <1>6, <1>7, <1>8 DEF Next

LEMMA StackStep ==
  ASSUME Inv, [Next]_vars
  PROVE  StackTyped'
<1>1. StackTyped /\ PortTyped
  BY InvParts
<1>2. burst' \in 0 .. Z80Burst
  BY BurstStep
<1>3. CASE Calm
  BY <1>1, <1>2, <1>3 DEF Calm, StackTyped, WaitHoldsWord
<1>4. CASE Moves
  BY <1>1, <1>2, <1>4 DEF Moves, StackTyped, WaitHoldsWord
<1>5. ASSUME NEW c \in Client, NEW v \in Value, Asks(c, v) PROVE StackTyped'
  <2>1. [word |-> v, space |-> cmd.space, addr |-> cmd.addr] \in Captured
    BY <1>1 DEF PortTyped, Command, Captured
  <2> QED BY <1>1, <1>2, <1>5, <2>1 DEF Asks, StackTyped, WaitHoldsWord, Place
<1>6. ASSUME NEW c \in Client, Push(c) PROVE StackTyped'
  <2>1. NoWait \in Captured
    BY VdpPortAssumption DEF VdpPortAssumption, NoWait, Captured, Space
  <2> QED BY <1>1, <1>2, <1>6, <2>1 DEF Push, StackTyped, WaitHoldsWord, Place
<1> QED BY <1>3, <1>4, <1>5, <1>6, StackKinds

LEMMA PortStep ==
  ASSUME Inv, [Next]_vars
  PROVE  PortTyped'
<1>1. PortTyped /\ QueueTyped /\ NextAddress \in Command
  BY InvParts, InvQueueTyped, CommandFacts DEF Inv
<1>2. dma.due \in Nat /\ (fifo # << >> => fifo[1].due \in Nat)
  <2>1. fifo # << >> => fifo[1] \in Entry
    BY <1>1 DEF QueueTyped
  <2> QED BY <1>1, <2>1 DEF QueueTyped, Transfer, Entry
<1>3. CASE UNCHANGED vars
  BY <1>1, <1>3 DEF vars, PortTyped
<1>4. ASSUME NEW step \in Horizon, Pass(step) PROVE PortTyped'
  <2>1. step \in Nat /\ step <= ticks
    BY <1>4, StepFacts
  <2>2. ticks' \in Nat
    BY <1>1, <1>4, <2>1 DEF Pass, PortTyped
  <2>3. pos' \in 0 .. (Period - 1)
    <3>1. Period \in Nat \ {0} /\ pos + step \in Nat
      BY <1>1, <2>1, VdpPortAssumption DEF PortTyped, VdpPortAssumption
    <3>2. (pos + step) % Period \in 0 .. (Period - 1)
      BY <3>1, SMT
    <3> QED BY <1>4, <3>2 DEF Pass
  <2>4. cmd' = NextAddress \/ cmd' = cmd
    BY <1>4 DEF Pass, DmaUnit
  <2> QED BY <1>1, <2>2, <2>3, <2>4 DEF PortTyped
<1>5. ASSUME NEW c \in Client, Request(c) PROVE PortTyped'
  <2>1. UNCHANGED <<ticks, pos>>
    BY <1>5, Zenon DEF Request, WriteRegister, WriteFirst, WriteSecond, ReadStatus, WriteData, ReadData
  <2>2. cmd' \in Command
    <3>1. CASE WriteRegister(c) \/ ReadStatus(c) \/ ReadData(c) \/ \E v \in Value : WriteData(c, v)
      BY <1>1, <3>1 DEF WriteRegister, ReadStatus, ReadData, WriteData, port, PortTyped
    <3>2. CASE \E dir \in Dir, space \in Space, a \in 0 .. (Addr - 1) : WriteFirst(c, dir, space, a)
      BY <3>2 DEF WriteFirst, Command
    <3>3. CASE \E dir \in Dir, space \in Space, a \in 0 .. (Addr - 1), type \in 0 .. 3 :
                 WriteSecond(c, dir, space, a, type)
      BY <1>1, <3>3 DEF WriteSecond, PortTyped, Command
    <3> QED BY <1>5, <3>1, <3>2, <3>3, Zenon DEF Request
  <2> QED BY <1>1, <2>1, <2>2 DEF PortTyped
<1>6. ASSUME NEW c \in Client, Wait(c) PROVE PortTyped'
  <2>1. CASE WaitForRoom(c)
    <3>1. fifo # << >>
      BY <2>1, VdpPortAssumption DEF WaitForRoom, VdpPortAssumption
    <3> QED BY <1>1, <1>2, <2>1, <3>1 DEF WaitForRoom, port, PortTyped
  <2>2. CASE WaitForEmpty(c)
    BY <1>1, <1>2, <2>2 DEF WaitForEmpty, port, PortTyped
  <2>3. CASE Push(c)
    BY <1>1, <2>3 DEF Push, PortTyped
  <2>4. CASE FinishRead(c)
    <3>1. UNCHANGED <<ticks, pos>> /\ (cmd' = NextAddress \/ UNCHANGED cmd)
      BY <2>4, Zenon DEF FinishRead
    <3> QED BY <1>1, <3>1 DEF PortTyped
  <2> QED BY <1>6, <2>1, <2>2, <2>3, <2>4 DEF Wait
<1>7. CASE CpuLoop
  BY <1>1, <1>2, <1>7, VdpPortAssumption
     DEF CpuLoop, Halted, BeginInstruction, Retire, port, PortTyped, VdpPortAssumption
<1>8. CASE ResetVdp
  <2>1. pos' = 0 /\ cmd' = [dir |-> "read", space |-> "vram", addr |-> 0] /\ ticks' = ticks
    BY <1>8 DEF ResetVdp
  <2>2. 0 \in 0 .. (Period - 1) /\ 0 \in 0 .. (Addr - 1)
    BY VdpPortAssumption DEF VdpPortAssumption
  <2>3. cmd' \in Command
    BY <2>1, <2>2 DEF Command, Dir, Space
  <2> QED BY <1>1, <2>1, <2>2, <2>3 DEF PortTyped
<1>9. CASE Z80Return
  BY <1>1, <1>9 DEF Z80Return, port, PortTyped
<1> QED BY <1>3, <1>4, <1>5, <1>6, <1>7, <1>8, <1>9 DEF Next, VdpAdvance

-----------------------------------------------------------------------------
(* Theorems. *)

LEMMA InitInv == Init => Inv
<1> SUFFICES ASSUME Init PROVE Inv
  OBVIOUS
<1>1. 0 \in 0 .. (Period - 1) /\ 0 \in 0 .. (Addr - 1)
  BY VdpPortAssumption DEF VdpPortAssumption
<1>2. StackTyped
  <2>1. NoWait \in Captured
    BY <1>1 DEF NoWait, Captured, Space
  <2> QED BY <2>1, VdpPortAssumption
          DEF Init, StackTyped, WaitHoldsWord, Place, VdpPortAssumption
<1>3. PortTyped
  <2>1. cmd \in Command
    BY <1>1 DEF Init, Command, Dir, Space
  <2> QED BY <1>1, <2>1 DEF Init, PortTyped
<1>4. FlagsTyped
  BY VdpPortAssumption, Zenon DEF Init, FlagsTyped, VdpPortAssumption
<1>5. QueueTyped /\ Queue
  <2>1. fifo = << >> /\ dma = NoDma /\ ahead = 0
    BY DEF Init
  <2>2. QueueTyped
    BY <2>1, VdpPortAssumption DEF QueueTyped, VdpPortAssumption, NoDma, Transfer, Space
  <2> QED BY <2>1, <2>2
          DEF Queue, TimesAhead, TransferAfterQueue, TransferCounts, NoDma
<1> QED BY <1>2, <1>3, <1>4, <1>5, InvParts

(* The invariant holds throughout: every step keeps each of its parts. *)
THEOREM Invariance == Spec => []Inv
<1>1. Inv /\ [Next]_vars => Inv'
  <2> SUFFICES ASSUME Inv, [Next]_vars PROVE Inv'
    OBVIOUS
  <2>1. StackTyped' /\ PortTyped' /\ FlagsTyped' /\ QueueTyped' /\ Queue'
    BY StackStep, PortStep, FlagsStep, QueueStep
  <2> QED BY <2>1
          DEF Inv, TypeOK, StackTyped, PortTyped, FlagsTyped, QueueTyped, Captured, Command,
              Entry, Transfer
<1> QED BY <1>1, InitInv, PTL DEF Spec

(* Every variable of the ports keeps its range; the FIFO never overflows. *)
THEOREM TypeCorrect == Spec => []TypeOK
<1>1. Inv => TypeOK
  BY DEF Inv
<1> QED BY <1>1, Invariance, PTL

(* No wait of the data port is for a time that has passed, and the FIFO's    *)
(* entries are due in order, for every table of slots.                       *)
THEOREM WaitsLieAhead == Spec => []TimesAhead
<1>1. Inv => TimesAhead
  BY DEF Inv, Queue
<1> QED BY <1>1, Invariance, PTL

(* A transfer's first unit follows every write queued before it. *)
THEOREM TransferWaitsForQueue == Spec => []TransferAfterQueue
<1>1. Inv => TransferAfterQueue
  BY DEF Inv, Queue
<1> QED BY <1>1, Invariance, PTL

(* Every pass of the console's time brings a transfer forward: the units it *)
(* has left and the time to the next one fall, in that order, and nothing   *)
(* but an access of a processor can undo that (ym7101.cpp:368, 717).        *)
THEOREM StallsComeForward == Spec => TransferComesForward
<1>1. ASSUME Inv, NEW step \in Horizon, Pass(step), dma.type # 0
      PROVE  Forward
  <2>1. /\ step \in Nat /\ step > 0
        /\ dma.due \in Nat /\ dma.due >= step
    BY <1>1, StepFacts
  <2>2. dma.left \in Nat \ {0} /\ dma \in Transfer
    BY <1>1, VdpPortAssumption
       DEF Inv, TypeOK, Queue, TransferCounts, Transfer, VdpPortAssumption
  <2>3. CASE dma.due = step
    <3>1. DmaUnit(step)
      BY <1>1, <2>3 DEF Pass
    <3>2. dma' = NoDma \/ dma'.left = dma.left - 1
      BY <2>2, <3>1 DEF DmaUnit, Transfer
    <3> QED BY <2>2, <3>2 DEF Forward
  <2>4. CASE dma.due # step
    <3>1. dma' = [dma EXCEPT !.due = @ - step]
      BY <1>1, <2>4 DEF Pass
    <3>2. dma'.left = dma.left /\ dma'.due = dma.due - step
      BY <2>2, <3>1 DEF Transfer
    <3> QED BY <2>1, <3>2 DEF Forward
  <2> QED BY <2>3, <2>4
<1>2. ASSUME Inv, [Next]_vars, dma.type # 0
      PROVE  /\ VdpAdvance => Forward
             /\ dma' # dma => Forward \/ \E c \in Client : Request(c)
  <2>1. VdpAdvance => Forward
    BY <1>1, <1>2 DEF VdpAdvance
  <2>2. CASE UNCHANGED vars
    BY <2>1, <2>2 DEF vars
  <2>3. CASE VdpAdvance
    BY <2>1, <2>3
  <2>4. CASE \E c \in Client : Request(c) \/ Wait(c)
    <3>1. ASSUME NEW c \in Client, Wait(c) PROVE UNCHANGED dma
      BY <3>1 DEF Wait, WaitForRoom, Push, WaitForEmpty, FinishRead
    <3> QED BY <2>1, <2>4, <3>1
  <2>5. CASE CpuLoop \/ Z80Return
    <3>1. UNCHANGED dma
      BY <2>5 DEF CpuLoop, Halted, BeginInstruction, Retire, Z80Return
    <3> QED BY <2>1, <3>1
  <2>6. CASE ResetVdp
    BY <2>1, <2>6 DEF ResetVdp, Forward
  <2> QED BY <1>2, <2>2, <2>3, <2>4, <2>5, <2>6, Zenon DEF Next
<1>3. Inv /\ [Next]_vars =>
        [dma.type # 0 => /\ VdpAdvance => Forward
                         /\ dma' # dma => Forward \/ \E c \in Client : Request(c)]_vars
  BY <1>2
<1> QED BY <1>3, Invariance, PTL DEF Spec, TransferComesForward

-----------------------------------------------------------------------------
(* The ports implement DataPort. *)

LEMMA WordsSame ==
  ASSUME UNCHANGED fifo
  PROVE  Words(fifo)' = Words(fifo)
  BY DEF Words

LEMMA WordsFacts ==
  ASSUME NEW queue \in Seq(Entry)
  PROVE  /\ Words(queue) \in Seq(Value)
         /\ Len(Words(queue)) = Len(queue)
         /\ \A i \in 1 .. Len(queue) : Words(queue)[i] = queue[i].word
<1>1. Len(queue) \in Nat /\ \A i \in 1 .. Len(queue) : queue[i] \in Entry
  OBVIOUS
<1>2. \A i \in 1 .. Len(queue) : queue[i].word \in Value
  BY <1>1 DEF Entry
<1> QED BY <1>1, <1>2 DEF Words

(* Stored, taken or kept waiting: the words are those of the abstract buffer. *)
LEMMA PassWords ==
  ASSUME Inv, NEW step \in Horizon, Pass(step)
  PROVE  \/ Words(fifo') = Words(fifo)
         \/ Words(fifo) # << >> /\ Words(fifo') = Tail(Words(fifo))
<1>1. fifo \in Seq(Entry)
  BY InvQueueTyped DEF Inv, QueueTyped
<1>2. step \in Nat /\ \A i \in 1 .. Len(fifo) : fifo[i].due >= step
  BY StepFacts
<1>3. CASE fifo # << >> /\ fifo[1].due = step
  <2> DEFINE rest == Tail(fifo)
  <2>1. /\ rest \in Seq(Entry)
        /\ Len(fifo) \in Nat \ {0}
        /\ Len(rest) = Len(fifo) - 1
        /\ \A i \in 1 .. Len(rest) : rest[i] = fifo[i + 1] /\ i + 1 \in 1 .. Len(fifo)
    BY <1>1, <1>3
  <2>2. fifo' = Elapse(rest, step)
    BY <1>3 DEF Pass
  <2> HIDE DEF rest
  <2>3. \A i \in 1 .. Len(rest) : rest[i].due >= step /\ rest[i] \in Entry
    BY <2>1, <1>2
  <2>4. /\ fifo' \in Seq(Entry)
        /\ Len(fifo') = Len(rest)
        /\ \A i \in 1 .. Len(rest) : fifo'[i].word = rest[i].word
    BY <2>1, <2>2, <2>3, <1>2, ElapseFacts
  <2>5. \A i \in 1 .. Len(rest) : Words(fifo')[i] = fifo[i + 1].word
    BY <2>1, <2>4, WordsFacts
  <2>6. /\ Words(fifo) \in Seq(Value) /\ Words(fifo') \in Seq(Value)
        /\ Len(Words(fifo)) = Len(fifo) /\ Len(Words(fifo')) = Len(rest)
    BY <1>1, <2>4, WordsFacts
  <2>7. \A i \in 1 .. Len(fifo) : Words(fifo)[i] = fifo[i].word
    BY <1>1, WordsFacts
  <2>8. Words(fifo) # << >>
    BY <2>1, <2>6
  <2>9. /\ Tail(Words(fifo)) \in Seq(Value)
        /\ Len(Tail(Words(fifo))) = Len(rest)
        /\ \A i \in 1 .. Len(rest) : Tail(Words(fifo))[i] = Words(fifo)[i + 1]
    BY <2>1, <2>6, <2>8
  <2>10. \A i \in 1 .. Len(rest) : Words(fifo')[i] = Tail(Words(fifo))[i]
    BY <2>1, <2>5, <2>7, <2>9
  <2> HIDE DEF Words
  <2>11. Words(fifo') = Tail(Words(fifo))
    BY <2>6, <2>9, <2>10, SeqEqual
  <2> QED BY <2>8, <2>11
<1>4. CASE ~(fifo # << >> /\ fifo[1].due = step)
  <2>1. fifo' = Elapse(fifo, step)
    BY <1>4 DEF Pass
  <2>2. /\ Len(fifo') = Len(fifo)
        /\ \A i \in 1 .. Len(fifo) : fifo'[i].word = fifo[i].word
    BY <2>1, <1>1, <1>2, ElapseFacts
  <2> QED BY <2>2 DEF Words
<1> QED BY <1>3, <1>4

LEMMA PushWords ==
  ASSUME Inv, NEW c \in Client, Push(c)
  PROVE  Promise!Take(c)
<1>1. fifo \in Seq(Entry) /\ StackTyped /\ PortTyped
  BY InvQueueTyped, InvParts DEF Inv, QueueTyped
<1> DEFINE entry == [word |-> wait[c].word, space |-> wait[c].space, addr |-> cmd.addr,
                     due |-> NextAccess(QueueEnd, Cost(wait[c].space))]
<1>2. fifo' = Append(fifo, entry) /\ at[c] = "write" /\ Len(fifo) < Size
  BY DEF Push
<1>3. entry.word = wait[c].word /\ wait[c].word \in Value
  BY <1>1, <1>2 DEF StackTyped, WaitHoldsWord
<1> HIDE DEF entry
<1>4. Len(Words(fifo)) < Size
  BY <1>1, <1>2, WordsFacts
<1>5. Asked[c] = wait[c].word
  BY <1>2 DEF Asked
<1>6. Asked' = [Asked EXCEPT ![c] = NoWord]
  BY <1>1 DEF Push, Asked, StackTyped, NoWait
<1>7. Words(fifo') = Append(Words(fifo), wait[c].word)
  <2>1. /\ Words(fifo) \in Seq(Value) /\ Len(Words(fifo)) = Len(fifo) /\ Len(fifo) \in Nat
        /\ \A i \in 1 .. Len(fifo) : Words(fifo)[i] = fifo[i].word
    BY <1>1, WordsFacts
  <2>2. /\ Len(fifo') = Len(fifo) + 1
        /\ \A i \in 1 .. Len(fifo) : fifo'[i] = fifo[i]
        /\ fifo'[Len(fifo) + 1] = entry
        /\ fifo' \in Seq(Entry)
    BY <1>1, <1>2, PushStep DEF QueueTyped
  <2>3. /\ Words(fifo') \in Seq(Value)
        /\ Len(Words(fifo')) = Len(fifo) + 1
        /\ \A i \in 1 .. (Len(fifo) + 1) : Words(fifo')[i] = fifo'[i].word
    BY <2>2, WordsFacts
  <2> DEFINE longer == Append(Words(fifo), wait[c].word)
  <2>4. /\ longer \in Seq(Value)
        /\ Len(longer) = Len(fifo) + 1
        /\ \A i \in 1 .. Len(fifo) : longer[i] = Words(fifo)[i]
        /\ longer[Len(fifo) + 1] = wait[c].word
    BY <2>1, <1>3
  <2>5. \A i \in 1 .. (Len(fifo) + 1) : i \in 1 .. Len(fifo) \/ i = Len(fifo) + 1
    BY <2>1
  <2> HIDE DEF longer, Words
  <2>6. \A i \in 1 .. (Len(fifo) + 1) : Words(fifo')[i] = longer[i]
    BY <2>1, <2>2, <2>3, <2>4, <2>5, <1>3
  <2>7. Words(fifo') = longer
    BY <2>3, <2>4, <2>6, SeqEqual
  <2> QED BY <2>7 DEF longer
<1>8. Words(fifo)' = Words(fifo')
  BY DEF Words
<1> QED BY <1>3, <1>4, <1>5, <1>6, <1>7, <1>8 DEF Promise!Take

LEMMA PromiseStep ==
  ASSUME Inv, [Next]_vars
  PROVE  [Promise!Next]_<<Asked, Words(fifo)>>
<1>1. StackTyped
  BY InvParts
<1>2. Words(fifo)' = Words(fifo')
  BY DEF Words
<1>3. ASSUME NEW c \in Client, Push(c) PROVE Promise!Next
  BY <1>3, PushWords DEF Promise!Next
<1>4. ASSUME NEW c \in Client, NEW v \in Value, Asks(c, v) PROVE Promise!Next
  <2>1. Asked[c] = NoWord /\ Asked' = [Asked EXCEPT ![c] = v]
    BY <1>1, <1>4 DEF Asks, Asked, StackTyped
  <2>2. UNCHANGED Words(fifo)
    BY <1>4, WordsSame DEF Asks
  <2> QED BY <2>1, <2>2 DEF Promise!Next, Promise!Ask
<1>5. ASSUME Calm \/ Moves, \A c \in Client : ~Push(c)
      PROVE  Promise!Next \/ UNCHANGED <<Asked, Words(fifo)>>
  <2>1. UNCHANGED Asked
    <3>1. \A c \in Client : (at'[c] = "write" <=> at[c] = "write") /\ wait'[c] = wait[c]
      BY <1>1, <1>5 DEF Calm, Moves, StackTyped
    <3> QED BY <3>1 DEF Asked
  <2>2. CASE Quiet \/ Starts
    BY <2>1, <2>2, WordsSame DEF Quiet, Starts
  <2>3. ASSUME NEW step \in Horizon, Pass(step)
        PROVE  Promise!Next \/ UNCHANGED <<Asked, Words(fifo)>>
    BY <1>2, <2>1, <2>3, PassWords DEF Promise!Next, Promise!Store
  <2>4. CASE ResetVdp
    <3>1. at["cpu"] = "run" /\ at["z80"] = "fetch" /\ fifo' = << >>
      BY <2>4 DEF ResetVdp, Top
    <3>2. \A c \in Client : Asked[c] = NoWord
      BY <3>1 DEF Client, Asked
    <3>3. Words(fifo') = << >>
      BY <3>1 DEF Words
    <3> QED BY <1>2, <2>1, <3>2, <3>3 DEF Promise!Next, Promise!Clear
  <2> QED BY <1>5, <2>2, <2>3, <2>4, StepKinds
<1> QED BY <1>3, <1>4, <1>5, StackKinds

(* Whatever nests, each word is taken once and the words are stored in order:  *)
(* the ports implement DataPort.                                               *)
THEOREM KeepsThePromise == Spec => KeepsPromise
<1>1. Init => Promise!Init
  BY DEF Init, Promise!Init, Asked, Words
<1>2. Inv /\ [Next]_vars => [Promise!Next]_<<Asked, Words(fifo)>>
  BY PromiseStep
<1> QED BY <1>1, <1>2, Invariance, PTL DEF Spec, KeepsPromise, Promise!Spec

-----------------------------------------------------------------------------
(* The slots of a real line. *)

Line == INSTANCE AccessSlots

LEMMA FirstAfter ==
  ASSUME NEW end \in Nat, NEW table \in SUBSET (1 .. end), NEW p \in 0 .. (end - 1),
         NEW next,
         \/ next = end /\ \A s \in table : ~(s > p)
         \/ next \in table /\ next > p /\ \A s \in table : s > p => next <= s
  PROVE  /\ next \in (p + 1) .. end
         /\ \A slot \in table : slot <= p \/ slot >= next
<1>1. \A s \in table : s \in 1 .. end
  OBVIOUS
<1>2. CASE next = end /\ \A s \in table : ~(s > p)
  <2>1. \A s \in table : s <= p
    BY <1>1, <1>2
  <2> QED BY <1>2, <2>1
<1>3. CASE next \in table /\ next > p /\ \A s \in table : s > p => next <= s
  <2>1. next \in 1 .. end /\ next > p
    BY <1>1, <1>3
  <2>2. ASSUME NEW s \in table  PROVE s <= p \/ s >= next
    BY <1>1, <1>3, <2>1
  <2> QED BY <2>1, <2>2
<1> QED BY <1>2, <1>3

(* With the code's own tables the slots meet the assumption on Gap: on a   *)
(* line of any kind the next slot is later, no later than the line's end,  *)
(* and none is passed over (NextAccess, ym7101.cpp:309 to 318).            *)
THEOREM CodeSlotsLieAhead ==
  ASSUME NEW wide \in BOOLEAN, NEW p \in 0 .. (Line!LineLength - 1)
  PROVE  /\ Line!NextBlankSlot(p, wide) \in (p + 1) .. Line!LineLength
         /\ Line!NextActiveSlot(p, wide) \in (p + 1) .. Line!LineLength
         /\ \A k \in 1 .. Line!Count(wide) :
              LET slot == (k * Line!LineLength) \div Line!Count(wide) IN
                slot <= p \/ slot >= Line!NextBlankSlot(p, wide)
         /\ \A slot \in Line!Table(wide) :
              slot <= p \/ slot >= Line!NextActiveSlot(p, wide)
<1> DEFINE later == {s \in Line!Table(wide) : s > p}
<1>1. Line!NextBlankSlot(p, wide) \in (p + 1) .. Line!LineLength
  <2>1. CASE wide = TRUE
    BY <2>1, SMTT(30) DEF Line!NextBlankSlot, Line!Count, Line!LineLength
  <2>2. CASE wide = FALSE
    BY <2>2, SMTT(30) DEF Line!NextBlankSlot, Line!Count, Line!LineLength
  <2> QED BY <2>1, <2>2
<1>2. ASSUME NEW k \in 1 .. Line!Count(wide)
      PROVE  \/ (k * Line!LineLength) \div Line!Count(wide) <= p
             \/ (k * Line!LineLength) \div Line!Count(wide) >= Line!NextBlankSlot(p, wide)
  <2>1. CASE wide = TRUE
    BY <2>1, SMTT(30) DEF Line!NextBlankSlot, Line!Count, Line!LineLength
  <2>2. CASE wide = FALSE
    BY <2>2, SMTT(30) DEF Line!NextBlankSlot, Line!Count, Line!LineLength
  <2> QED BY <2>1, <2>2
<1>3. Line!Table(wide) \subseteq 1 .. Line!LineLength
  BY SMT DEF Line!Table, Line!H32, Line!H40, Line!LineLength
<1>4. \/ /\ Line!NextActiveSlot(p, wide) = Line!LineLength
         /\ \A s \in Line!Table(wide) : ~(s > p)
      \/ /\ Line!NextActiveSlot(p, wide) \in Line!Table(wide)
         /\ Line!NextActiveSlot(p, wide) > p
         /\ \A s \in Line!Table(wide) : s > p => Line!NextActiveSlot(p, wide) <= s
  <2>1. CASE later = {}
    BY <2>1 DEF Line!NextActiveSlot
  <2>2. CASE later # {}
    <3>1. \E s \in later : \A t \in later : s <= t
      <4>1. CASE wide = TRUE
        BY <2>2, <4>1, SMTT(30) DEF Line!Table, Line!H40, Line!LineLength
      <4>2. CASE wide = FALSE
        BY <2>2, <4>2, SMTT(30) DEF Line!Table, Line!H32, Line!LineLength
      <4> QED BY <4>1, <4>2
    <3>2. Line!NextActiveSlot(p, wide) \in later
          /\ \A t \in later : Line!NextActiveSlot(p, wide) <= t
      BY <2>2, <3>1 DEF Line!NextActiveSlot
    <3> QED BY <3>2
  <2> QED BY <2>1, <2>2
<1>5. /\ Line!NextActiveSlot(p, wide) \in (p + 1) .. Line!LineLength
      /\ \A slot \in Line!Table(wide) :
           slot <= p \/ slot >= Line!NextActiveSlot(p, wide)
  <2>1. Line!LineLength \in Nat /\ p \in 0 .. (Line!LineLength - 1)
    BY DEF Line!LineLength
  <2> HIDE DEF later
  <2> QED BY <1>3, <1>4, <2>1, FirstAfter, Zenon
<1> QED BY <1>1, <1>2, <1>5
=============================================================================
