------------------------------- MODULE VdpPort -------------------------------
(***************************************************************************)
(* The VDP's control and data ports, its four-word write FIFO and its DMA  *)
(* unit (src/ym7101/ym7101.cpp), with the two processors that use them and *)
(* the console loop that gives each of them time (src/genesis/genesis.cpp).*)
(*                                                                         *)
(* Nothing here runs concurrently, but calls nest.  A processor that finds *)
(* the FIFO full (or, to read, not empty) advances the whole console until *)
(* the next entry is due; that gives the Z80 time, and the Z80 may use the *)
(* same ports, change the command under the waiting 68000, start a DMA, or *)
(* wait in its turn.  "at" holds where each processor stands and "ticks"   *)
(* what YM7101::Advance has left to do, so together they are the stack:    *)
(*                                                                         *)
(*   68000 instruction > wait > Genesis::Advance > Z80 instruction > wait  *)
(*                                                > Genesis::Advance       *)
(*                                                                         *)
(* Times are relative: "due" is the code's ready (or dmaReady) less        *)
(* totalCycles.  The tables of access slots are a constant, Gap: from each *)
(* position of the beam, the distance to the next slot.  Video memory      *)
(* itself is left out; a word is one of a small set of values.  Of the     *)
(* registers only what moves the slots is state: the display's enable bit, *)
(* its width and its height.  The DMA registers may hold anything when a   *)
(* transfer starts.                                                        *)
(***************************************************************************)
EXTENDS Naturals, Sequences, FiniteSets

CONSTANTS
  Value,      \* words a processor may write
  NoWord,     \* no word is being written
  Addr,       \* number of video addresses
  Size,       \* capacity of the FIFO: 4 in the code
  Period,     \* positions of the beam
  Mode,       \* the display: on or off, 40 or 32 cells, 240 or 224 lines
  Gap,        \* Gap[mode][p]: from position p to the next access slot
  MaxLength,  \* the longest transfer: 2^16 in the code
  CpuCycles,  \* the durations, in VDP ticks, of the 68000's instructions
  Z80Burst    \* accesses the Z80 can make in the time of one advance

PowerOn == [on |-> FALSE, h40 |-> FALSE, tall |-> FALSE]

(* The Z80 writes bytes, which the port doubles.  Those that name registers 1 *)
(* and 12 are $81 and $8C: they switch the display off and its height to 224  *)
(* lines, or its width to 40 cells.                                           *)
BlankByte(m) == [m EXCEPT !.on = FALSE, !.tall = FALSE]
WideByte(m)  == [m EXCEPT !.h40 = TRUE]

ASSUME VdpPortAssumption ==
  /\ NoWord \notin Value
  /\ Addr \in Nat \ {0}
  /\ Size \in Nat \ {0}
  /\ Period \in Nat \ {0}
  /\ Mode \subseteq [on : BOOLEAN, h40 : BOOLEAN, tall : BOOLEAN]
  /\ PowerOn \in Mode
  /\ \A m \in Mode : BlankByte(m) \in Mode /\ WideByte(m) \in Mode
  /\ Gap \in [Mode -> [0 .. (Period - 1) -> Nat \ {0}]]
  /\ MaxLength \in Nat \ {0}
  /\ CpuCycles \subseteq Nat \ {0}
  /\ Z80Burst \in Nat

VARIABLES
  at,         \* where each processor stands
  wait,       \* the word, and the code, a waiting data write has captured
  burst,      \* accesses the Z80 may still make in its present slice
  ticks,      \* what YM7101::Advance has left to do
  pos,        \* position of the beam
  fifo,       \* the queued writes
  cmd,        \* controlPortData: direction, memory and address
  latched,    \* controlPortPending: the first of two command words is in
  mode,       \* registers 1 and 12: the display's mode
  fillPending,\* a fill command waits for its data word
  dma,        \* the transfer in progress
  ahead       \* history: queued writes that preceded the transfer's start

client == <<at, wait, burst>>
port   == <<cmd, latched, mode, fillPending>>
vars   == <<at, wait, burst, ticks, pos, fifo, cmd, latched, mode, fillPending, dma,
            ahead>>

Client == {"cpu", "z80"}
(* "vram" if the low three bits of the command's code are those of WRITE_VRAM, *)
(* which is all a transfer keeps of it; otherwise the colour or scroll memory. *)
Space  == {"vram", "small"}
Dir    == {"read", "write"}

(* at["cpu"]: "fetch" at the head of RunFrame's loop, "run" inside an          *)
(* instruction; at["z80"]: "fetch" when Z80::Advance is not on the stack.      *)
Place == {"fetch", "run", "write", "read"}

NoDma == [type |-> 0, left |-> 0, due |-> 0, space |-> "vram"]

TypeOK ==
  /\ at \in [Client -> Place]
  /\ wait \in [Client -> [word : Value \cup {NoWord}, space : Space, addr : 0 .. (Addr - 1)]]
  /\ burst \in 0 .. Z80Burst
  /\ ticks \in Nat
  /\ pos \in 0 .. (Period - 1)
  /\ fifo \in Seq([word : Value, space : Space, addr : 0 .. (Addr - 1), due : Nat])
  /\ Len(fifo) <= Size
  /\ cmd \in [dir : Dir, space : Space, addr : 0 .. (Addr - 1)]
  /\ latched \in BOOLEAN
  /\ mode \in Mode
  /\ fillPending \in BOOLEAN
  /\ dma \in [type : 0 .. 3, left : 0 .. MaxLength, due : Nat, space : Space]
  /\ ahead \in 0 .. Size

NoWait == [word |-> NoWord, space |-> "vram", addr |-> 0]

(* YM7101::Init, as it is after power-on and after the 68000's RESET. *)
Init ==
  /\ at = [c \in Client |-> "fetch"]
  /\ wait = [c \in Client |-> NoWait]
  /\ burst = 0
  /\ ticks = 0
  /\ pos = 0
  /\ fifo = << >>
  /\ cmd = [dir |-> "read", space |-> "vram", addr |-> 0]
  /\ latched = FALSE
  /\ mode = PowerOn
  /\ fillPending = FALSE
  /\ dma = NoDma
  /\ ahead = 0

-----------------------------------------------------------------------------
(* Access slots. *)

(* The first slot strictly later than "after". *)
SlotAfter(after) == after + Gap[mode][(pos + after) % Period]

(* NextAccess(after, slots), for the one, two or three slots the code asks for. *)
NextAccess(after, slots) ==
  IF slots = 1 THEN SlotAfter(after)
  ELSE IF slots = 2 THEN SlotAfter(SlotAfter(after))
  ELSE SlotAfter(SlotAfter(SlotAfter(after)))

(* Slots one written word takes. *)
Cost(space) == IF space = "vram" THEN 2 ELSE 1

(* A variant: the queue is not looked at. *)
QueueEndNow == 0

(* The time of the last queued write, or now. *)
QueueEnd == IF fifo = << >> THEN 0 ELSE fifo[Len(fifo)].due

NextAddress == [cmd EXCEPT !.addr = (@ + 1) % Addr]

-----------------------------------------------------------------------------
(* The DMA unit. *)

(* A variant: the transfer starts beside the queue. *)
StartDmaNow(type, space, slots) ==
  /\ \E n \in 1 .. MaxLength :
       dma' = [type |-> type, left |-> n, due |-> NextAccess(0, slots), space |-> space]
  /\ ahead' = Len(fifo)

(* DMAFromM68KToVRAM (1), DMAVRAMFill (2) and DMAVRAMCopy (3).  A transfer that *)
(* is already running is replaced.  Length registers of 0 mean MaxLength units. *)
StartDma(type, space, slots) ==
  /\ \E n \in 1 .. MaxLength :
       dma' = [type |-> type, left |-> n, due |-> NextAccess(QueueEnd, slots),
               space |-> space]
  /\ ahead' = Len(fifo)

(* Slots the next unit of the transfer takes. *)
UnitCost == IF dma.type = 3 \/ (dma.type = 1 /\ dma.space = "vram") THEN 2 ELSE 1

(* A variant: the unit is not counted. *)
DmaUnitUncounted(now) ==
  /\ cmd' = NextAddress
  /\ dma' = IF dma.left = 0 THEN NoDma
            ELSE [dma EXCEPT !.due = NextAccess(now, UnitCost) - now]

(* DmaStep, "now" ticks after the present: one unit. *)
DmaUnit(now) ==
  /\ cmd' = NextAddress
  /\ dma' = IF dma.left = 1 THEN NoDma
            ELSE [dma EXCEPT !.left = @ - 1, !.due = NextAccess(now, UnitCost) - now]

-----------------------------------------------------------------------------
(* YM7101::Advance: one pass of its loop, up to the next thing that is due. *)

Horizon == {ticks} \cup (IF fifo = << >> THEN {} ELSE {fifo[1].due})
                   \cup (IF dma.type = 0 THEN {} ELSE {dma.due})

Elapse(queue, n) == [i \in 1 .. Len(queue) |-> [queue[i] EXCEPT !.due = @ - n]]

(* Genesis::Advance goes on to Z80::Advance, which runs the Z80 unless the  *)
(* call came from inside it.                                               *)
GiveZ80Time ==
  IF at["z80"] = "fetch" THEN /\ at' = [at EXCEPT !["z80"] = "run"]
                              /\ burst' = Z80Burst
                         ELSE UNCHANGED <<at, burst>>

Pass(step) ==
  /\ ticks > 0
  /\ step \in Horizon
  /\ \A t \in Horizon : step <= t
  /\ ticks' = ticks - step
  /\ pos' = (pos + step) % Period
  /\ IF fifo # << >> /\ fifo[1].due = step
     THEN /\ fifo' = Elapse(Tail(fifo), step)
          /\ ahead' = IF ahead = 0 THEN 0 ELSE ahead - 1
     ELSE /\ fifo' = Elapse(fifo, step)
          /\ UNCHANGED ahead
  /\ IF dma.type # 0 /\ dma.due = step
     THEN DmaUnit(step)
     ELSE /\ dma' = IF dma.type = 0 THEN dma ELSE [dma EXCEPT !.due = @ - step]
          /\ UNCHANGED cmd
  /\ IF ticks = step THEN GiveZ80Time ELSE UNCHANGED <<at, burst>>
  /\ UNCHANGED <<wait, latched, mode, fillPending>>

VdpAdvance == \E step \in Horizon : Pass(step)

-----------------------------------------------------------------------------
(* A processor at the ports. *)

(* c is the innermost caller: the 68000 waits for a Z80 that has the time. *)
Top(c) == ticks = 0 /\ (c = "z80" \/ at["z80"] = "fetch")

(* c is inside an instruction and may make an access. *)
Access(c) ==
  /\ Top(c)
  /\ at[c] = "run"
  /\ c = "z80" => burst > 0
  /\ burst' = IF c = "z80" THEN burst - 1 ELSE burst

(* WriteControlPortWORD, a register: UpdateRegister.  Registers 1 and 12 move *)
(* the slots.                                                                *)
WriteRegister(c) ==
  /\ Access(c)
  /\ ~latched
  /\ mode' \in IF c = "cpu" THEN {m \in Mode : \/ m.h40 = mode.h40
                                                \/ m = [mode EXCEPT !.h40 = m.h40]}
                           ELSE {BlankByte(mode), WideByte(mode)}
  /\ UNCHANGED <<at, wait, ticks, pos, fifo, cmd, latched, fillPending, dma, ahead>>

(* WriteControlPortWORD, the first word of a command: two bits of the code,   *)
(* which count with the last command's others, and all but two bits of the    *)
(* address.  It is in force at once.  A code that names no memory leaves      *)
(* writes out and reads nothing; like a read it is no "write".                *)
WriteFirst(c, dir, space, addr) ==
  /\ Access(c)
  /\ ~latched
  /\ cmd' = [dir |-> dir, space |-> space, addr |-> addr]
  /\ latched' = TRUE
  /\ UNCHANGED <<at, wait, ticks, pos, fifo, mode, fillPending, dma, ahead>>

(* WriteControlPortWORD, the second word, which has the rest of the code and *)
(* the address's top bits: it may make a write of a read, and the reverse.   *)
(* "type" is the transfer it starts: 0 unless its DMA bit and register 1's   *)
(* DMA enable are both set.                                                  *)
WriteSecond(c, dir, space, addr, type) ==
  /\ Access(c)
  /\ latched
  /\ latched' = FALSE
  /\ cmd' = [dir |-> dir, space |-> space, addr |-> addr]
  /\ CASE type = 0 -> UNCHANGED <<fillPending, dma, ahead>>
       [] type = 1 -> StartDma(1, space, Cost(space)) /\ UNCHANGED fillPending
       [] type = 2 -> fillPending' = TRUE /\ UNCHANGED <<dma, ahead>>
       [] type = 3 -> StartDma(3, "vram", 2) /\ UNCHANGED fillPending
  /\ UNCHANGED <<at, wait, ticks, pos, fifo, mode>>

(* ReadControlPortWORD: among the rest, forgets a half-written command. *)
ReadStatus(c) ==
  /\ Access(c)
  /\ latched' = FALSE
  /\ UNCHANGED <<at, wait, ticks, pos, fifo, cmd, mode, fillPending, dma, ahead>>

(* WriteDataPortWORD up to its wait.  The seed of a fill bypasses the FIFO. *)
WriteData(c, v) ==
  /\ Access(c)
  /\ IF fillPending
     THEN /\ fillPending' = FALSE
          /\ StartDma(2, "vram", 3)
          /\ UNCHANGED <<at, wait>>
     ELSE /\ cmd.dir = "write"
          /\ at' = [at EXCEPT ![c] = "write"]
          /\ wait' = [wait EXCEPT ![c] = [word |-> v, space |-> cmd.space, addr |-> cmd.addr]]
          /\ UNCHANGED <<fillPending, dma, ahead>>
  /\ UNCHANGED <<ticks, pos, fifo, cmd, latched, mode>>

(* A variant: the wait stops one clock short of the entry. *)
WaitForRoomShort(c) ==
  /\ Top(c)
  /\ at[c] = "write"
  /\ Len(fifo) = Size
  /\ ticks' = fifo[1].due - 1
  /\ UNCHANGED <<client, pos, fifo, port, dma, ahead>>

(* Its loop while fifoCount == 4: StallMasterCycles until the head is due. *)
WaitForRoom(c) ==
  /\ Top(c)
  /\ at[c] = "write"
  /\ Len(fifo) = Size
  /\ ticks' = fifo[1].due
  /\ UNCHANGED <<client, pos, fifo, port, dma, ahead>>

(* A variant: the word is queued although the FIFO is full. *)
PushUnchecked(c) ==
  /\ Top(c)
  /\ at[c] = "write"
  /\ fifo' = Append(fifo, [word |-> wait[c].word, space |-> wait[c].space, addr |-> cmd.addr,
                           due |-> NextAccess(QueueEnd, Cost(wait[c].space))])
  /\ cmd' = NextAddress
  /\ latched' = FALSE
  /\ at' = [at EXCEPT ![c] = "run"]
  /\ wait' = [wait EXCEPT ![c] = NoWait]
  /\ UNCHANGED <<burst, ticks, pos, mode, fillPending, dma, ahead>>

(* The rest of it.  The code was captured before the wait, the address is  *)
(* read after it.                                                          *)
Push(c) ==
  /\ Top(c)
  /\ at[c] = "write"
  /\ Len(fifo) < Size
  /\ fifo' = Append(fifo, [word |-> wait[c].word, space |-> wait[c].space, addr |-> cmd.addr,
                           due |-> NextAccess(QueueEnd, Cost(wait[c].space))])
  /\ cmd' = NextAddress
  /\ latched' = FALSE
  /\ at' = [at EXCEPT ![c] = "run"]
  /\ wait' = [wait EXCEPT ![c] = NoWait]
  /\ UNCHANGED <<burst, ticks, pos, mode, fillPending, dma, ahead>>

(* ReadDataPortWORD up to its wait. *)
ReadData(c) ==
  /\ Access(c)
  /\ at' = [at EXCEPT ![c] = "read"]
  /\ UNCHANGED <<wait, ticks, pos, fifo, port, dma, ahead>>

(* A variant: the wait stops one clock short of the entry. *)
WaitForEmptyShort(c) ==
  /\ Top(c)
  /\ at[c] = "read"
  /\ fifo # << >>
  /\ ticks' = fifo[1].due - 1
  /\ UNCHANGED <<client, pos, fifo, port, dma, ahead>>

(* Its loop while the FIFO holds anything. *)
WaitForEmpty(c) ==
  /\ Top(c)
  /\ at[c] = "read"
  /\ fifo # << >>
  /\ ticks' = fifo[1].due
  /\ UNCHANGED <<client, pos, fifo, port, dma, ahead>>

(* The rest of it: a write command in force makes the read return at once. *)
FinishRead(c) ==
  /\ Top(c)
  /\ at[c] = "read"
  /\ fifo = << >>
  /\ at' = [at EXCEPT ![c] = "run"]
  /\ IF cmd.dir = "read" THEN cmd' = NextAddress /\ latched' = FALSE
                         ELSE UNCHANGED <<cmd, latched>>
  /\ UNCHANGED <<wait, burst, ticks, pos, fifo, mode, fillPending, dma, ahead>>

-----------------------------------------------------------------------------
(* The 68000, in RunFrame's loop, and the Z80's return. *)

(* TakeStallCycles: a transfer from the 68000's bus holds the 68000. *)
Halted ==
  /\ Top("cpu")
  /\ at["cpu"] = "fetch"
  /\ dma.type = 1
  /\ ticks' = dma.due
  /\ UNCHANGED <<client, pos, fifo, port, dma, ahead>>

BeginInstruction ==
  /\ Top("cpu")
  /\ at["cpu"] = "fetch"
  /\ dma.type # 1
  /\ at' = [at EXCEPT !["cpu"] = "run"]
  /\ UNCHANGED <<wait, burst, ticks, pos, fifo, port, dma, ahead>>

(* M68k::Update returns and its cycles pass. *)
Retire(cycles) ==
  /\ Top("cpu")
  /\ at["cpu"] = "run"
  /\ at' = [at EXCEPT !["cpu"] = "fetch"]
  /\ ticks' = cycles
  /\ UNCHANGED <<wait, burst, pos, fifo, port, dma, ahead>>

(* The RESET instruction: Genesis::ResetDevices calls YM7101::Init. *)
ResetVdp ==
  /\ Top("cpu")
  /\ at["cpu"] = "run"
  /\ pos' = 0
  /\ fifo' = << >>
  /\ cmd' = [dir |-> "read", space |-> "vram", addr |-> 0]
  /\ latched' = FALSE
  /\ mode' = PowerOn
  /\ fillPending' = FALSE
  /\ dma' = NoDma
  /\ ahead' = 0
  /\ UNCHANGED <<client, ticks>>

(* Z80::Advance has used up its time. *)
Z80Return ==
  /\ ticks = 0
  /\ at["z80"] = "run"
  /\ at' = [at EXCEPT !["z80"] = "fetch"]
  /\ burst' = 0
  /\ UNCHANGED <<wait, ticks, pos, fifo, port, dma, ahead>>

(* An access of c to the ports; Wait(c) is what it does once it has begun. *)
Request(c) ==
  \/ WriteRegister(c)
  \/ \E dir \in Dir, space \in Space, a \in 0 .. (Addr - 1) : WriteFirst(c, dir, space, a)
  \/ \E dir \in Dir, space \in Space, a \in 0 .. (Addr - 1), type \in 0 .. 3 :
       WriteSecond(c, dir, space, a, type)
  \/ ReadStatus(c)
  \/ \E v \in Value : WriteData(c, v)
  \/ ReadData(c)

Wait(c) == WaitForRoom(c) \/ Push(c) \/ WaitForEmpty(c) \/ FinishRead(c)

CpuLoop == Halted \/ BeginInstruction \/ (\E n \in CpuCycles : Retire(n))

Next ==
  \/ VdpAdvance
  \/ \E c \in Client : Request(c) \/ Wait(c)
  \/ CpuLoop
  \/ ResetVdp
  \/ Z80Return

(* A loop of the code that can go on does, and an instruction makes finitely *)
(* many accesses, so it ends.  No processor has to use a port.               *)
Fairness ==
  /\ WF_vars(VdpAdvance)
  /\ \A c \in Client : WF_vars(Wait(c))
  /\ SF_vars(CpuLoop)
  /\ WF_vars(Z80Return)

Spec == Init /\ [][Next]_vars
FairSpec == Spec /\ Fairness

-----------------------------------------------------------------------------
(* Properties. *)

(* The waits are unsigned subtractions, ready - totalCycles: they are right    *)
(* only if every queued write and the transfer's next unit lie strictly in the *)
(* future.  One that lay in the past would be a wait of 2^32 clocks, one that  *)
(* lay in the present a loop that makes no progress.  And only the head of the *)
(* FIFO is ever looked at, so the entries must be due in order, no two of them *)
(* in the same slot.                                                           *)
TimesAhead ==
  /\ \A i \in 1 .. Len(fifo) : fifo[i].due > 0
  /\ \A i, j \in 1 .. Len(fifo) : i < j => fifo[i].due < fifo[j].due
  /\ dma.type # 0 => dma.due > 0

(* A transfer touches video memory only when the writes queued before it have  *)
(* been stored, however many are queued behind it while it waits.              *)
TransferAfterQueue ==
  ahead > 0 => /\ ahead <= Len(fifo)
               /\ dma.type # 0
               /\ dma.due > fifo[ahead].due

(* "A VDP FIFO write wait lost or duplicated a Z80 write" (z80bustests.cpp):   *)
(* whatever nests, each word is taken once and the words are stored in order.  *)
Words(queue) == [i \in 1 .. Len(queue) |-> queue[i].word]
Asked == [c \in Client |-> IF at[c] = "write" THEN wait[c].word ELSE NoWord]
Promise == INSTANCE DataPort WITH asked <- Asked, buffer <- Words(fifo)
KeepsPromise == Promise!Spec

(* "FIFO writes capture both address and destination before later control      *)
(* writes" (consoletests.cpp): the word goes where one command said, be it the *)
(* one in force before the processor waited or the one in force after.         *)
DestinationCaptured ==
  [][\A c \in Client : Push(c) =>
       LET entry == fifo'[Len(fifo')]
       IN  \E command \in {wait[c], cmd} :
             entry.space = command.space /\ entry.addr = command.addr]_vars

(* The Z80's wait inside its instruction always ends: nothing else can queue a *)
(* write meanwhile.                                                            *)
Waits(c) == at[c] \in {"write", "read"}
Z80WaitEnds == []<>~Waits("z80")

(* The 68000's wait ends unless the Z80 never stops using the ports: each      *)
(* advance the wait makes gives the Z80 time to fill the slot it freed.        *)
CpuWaitEnds ==
  \/ []<><<Request("z80")>>_vars
  \/ []<>~Waits("cpu")

(* A transfer ends, and with it the 68000's halt, unless it is started anew    *)
(* again and again.  (RESET ends it, too.)                                     *)
TransferEnds ==
  \/ []<><<dma' # dma /\ \E c \in Client : Access(c)>>_vars
  \/ []<>(dma.type = 0)

(* Why it ends: every pass of the console's time brings the transfer forward.  *)
(* Its units left fall, or the time to the next one does; only an access of a  *)
(* processor can undo that.                                                    *)
Forward ==
  \/ dma' = NoDma
  \/ dma'.left < dma.left
  \/ dma'.left = dma.left /\ dma'.due < dma.due

TransferComesForward ==
  [][dma.type # 0 => /\ VdpAdvance => Forward
                     /\ dma' # dma => Forward \/ \E c \in Client : Request(c)]_vars
=============================================================================
