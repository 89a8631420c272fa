------------------------------- MODULE Eeprom -------------------------------
(***************************************************************************)
(* The serial memory of a cartridge (src/genesis/cartridge/eeprom.cpp).    *)
(* The console's program drives the two lines SCL and SDA as it likes, any *)
(* sequence of levels; the chip answers by pulling SDA low.  Saving the    *)
(* memory is Cartridge::Save, here in one step (its own are in SaveFile);  *)
(* the wiring of SCL and SDA to addresses and bits is left out.            *)
(***************************************************************************)
EXTENDS Integers, Sequences

CONSTANTS
  Width,    \* bits of a byte, 8
  Weight,   \* of a bit: the powers of two up to 2^Width
  Select,   \* 8: a control byte names the device, one of so many banks, and
  DeviceId, \* 10:  reading or writing
  Profile,  \* the chips of the boards: [short, address, size, page]
  WriteTime,\* clocks of a write cycle
  MaxSent   \* bound: data bytes written, for each chip

Values == Weight[Width]

ASSUME EepromAssumption ==
  /\ Width \in Nat \ {0} /\ Weight \in [0 .. Width -> Nat \ {0}]
  /\ Weight[0] = 1 /\ \A n \in 1 .. Width : Weight[n] = 2 * Weight[n - 1]
  /\ Select \in Nat \ {0} /\ DeviceId \in Nat
  /\ \A p \in Profile : /\ p.short \in BOOLEAN  \* the address is in the control byte
                        /\ p.address \in {1, 2} \* bytes of an address
                        /\ p.size \in Nat \ {0} /\ p.page \in Nat \ {0}
                        /\ p.size % p.page = 0
                        /\ ~p.short => p.size % Values = 0
  /\ WriteTime \in Nat \ {0} /\ MaxSent \in [Profile -> Nat]

VARIABLES
  profile, cells, dirty, busy, \* bytes, busyClocks
  scl, sda,                    \* what the program drives
  driveLow,                    \* the chip pulls SDA
  pending,                     \* received bytes, written at the stop condition
  mode, afterAck, ack, ackStage,
  pointer, bank, addressRemaining, addressValue,
  bits, received,
  saved,    \* what the save file holds
  heard,    \* history: bits the program has read of this byte, and whether it left SDA high
  sent      \* data bytes received so far

chip    == <<profile, cells, dirty, busy>>
answer  == <<mode, afterAck, ack, ackStage>>
address == <<pointer, bank, addressRemaining, addressValue>>
shift   == <<bits, received>>
others  == <<saved, sent>>
vars == <<chip, scl, sda, driveLow, pending, answer, address, shift, others, heard>>

Mode == {"Idle", "Control", "Address", "Receive", "Send", "MasterAck"}
Byte == 0 .. (Values - 1)
Silence == [value |-> 0, open |-> TRUE]
Blank(p) == [c \in 0 .. (p.size - 1) |-> Values - 1]

Fresh ==
  /\ scl = TRUE /\ sda = TRUE /\ driveLow = FALSE
  /\ busy = 0 /\ dirty = FALSE /\ pending = <<>>
  /\ mode = "Idle" /\ afterAck = "Idle" /\ ack = FALSE /\ ackStage = 0
  /\ pointer = 0 /\ bank = 0 /\ addressRemaining = 0 /\ addressValue = 0
  /\ bits = 0 /\ received = 0 /\ heard = Silence

Init ==
  /\ Fresh /\ sent = 0
  /\ profile \in Profile
  /\ cells = Blank(profile) /\ saved = cells

-----------------------------------------------------------------------------
(* Start and stop conditions: SDA changes while SCL is high.               *)

Begin ==
  /\ mode' = "Control" /\ ackStage' = 0 /\ driveLow' = FALSE
  /\ bits' = 0 /\ received' = 0
  /\ UNCHANGED <<chip, pending, afterAck, ack, address, others, heard>>

Written ==
  [c \in DOMAIN cells |->
     LET writes == {i \in DOMAIN pending : pending[i].cell = c} IN
       IF writes = {} THEN cells[c]
       ELSE pending[CHOOSE i \in writes : \A j \in writes : j <= i].value]

(* Fault: only the last byte is compared to mark the memory as changed *)
StopLast ==
  /\ cells' = Written
  /\ dirty' = (dirty \/ (pending # <<>> /\
                         cells[pending[Len(pending)].cell] # pending[Len(pending)].value))
  /\ busy' = IF pending = <<>> THEN busy ELSE WriteTime
  /\ pending' = <<>>
  /\ mode' = "Idle" /\ ackStage' = 0 /\ driveLow' = FALSE
  /\ UNCHANGED <<profile, afterAck, ack, address, shift, others, heard>>

(* The pending bytes are written one after the other; the first that differs *)
(* marks the memory.                                                         *)
Stop ==
  /\ cells' = Written
  /\ dirty' = (dirty \/ \E i \in DOMAIN pending : pending[i].value # cells[pending[i].cell])
  /\ busy' = IF pending = <<>> THEN busy ELSE WriteTime
  /\ pending' = <<>>
  /\ mode' = "Idle" /\ ackStage' = 0 /\ driveLow' = FALSE
  /\ UNCHANGED <<profile, afterAck, ack, address, shift, others, heard>>

-----------------------------------------------------------------------------
(* Received: a whole byte.  The acknowledgement occupies the next clock.   *)

Answer(ok, next) ==
  /\ ack' = ok /\ afterAck' = next
  /\ ackStage' = 1 /\ bits' = 0 /\ mode' = mode

BankMask == IF profile.address = 1 THEN (profile.size - 1) \div Values ELSE 0

(* The mask is one less than a power of two: a selection has no bit outside *)
(* it if it is not greater.                                                 *)
Selected(value) ==
  /\ value \div (2 * Select) = DeviceId
  /\ (value \div 2) % Select <= BankMask

ControlByte(value) ==
  LET reads == value % 2 = 1
      selection == (value \div 2) % Select IN
  /\ mode = "Control" /\ busy = 0
  /\ \/ /\ profile.short
        /\ pointer' = (value \div 2) % profile.size
        /\ Answer(TRUE, IF reads THEN "Send" ELSE "Receive")
        /\ UNCHANGED <<bank, addressRemaining, addressValue, received>>
     \/ /\ ~profile.short
        /\ Selected(value)
        /\ bank' = selection * Values
        /\ pointer' = IF profile.address = 1 THEN (pointer % Values) + selection * Values
                      ELSE pointer
        /\ addressRemaining' = profile.address /\ addressValue' = 0
        /\ Answer(TRUE, IF reads THEN "Send" ELSE "Address")
        /\ received' = 0
     \/ /\ ~profile.short
        /\ ~Selected(value)
        /\ Answer(FALSE, "Idle")
        /\ UNCHANGED <<address, received>>
  /\ UNCHANGED <<pending, sent>>

(* Fault: during its write cycle the chip ignores the byte, but acknowledges it *)
BusyByteAcknowledged(value) ==
  /\ mode = "Control" /\ busy > 0
  /\ Answer(TRUE, "Idle") /\ received' = value
  /\ UNCHANGED <<address, pending, sent>>

BusyByte(value) ==
  /\ mode = "Control" /\ busy > 0
  /\ Answer(FALSE, "Idle") /\ received' = value
  /\ UNCHANGED <<address, pending, sent>>

AddressByte(value) ==
  /\ mode = "Address"
  /\ addressValue' = addressValue * Values + value
  /\ addressRemaining' = addressRemaining - 1
  /\ \/ /\ addressRemaining = 1
        /\ pointer' = (bank + addressValue') % profile.size
        /\ Answer(TRUE, "Receive")
     \/ /\ addressRemaining # 1 /\ UNCHANGED pointer
        /\ Answer(TRUE, "Address")
  /\ received' = value
  /\ UNCHANGED <<bank, pending, sent>>

NextInPage == ((pointer \div profile.page) * profile.page) + ((pointer + 1) % profile.page)

DataByte(value) ==
  /\ mode = "Receive"
  /\ sent < MaxSent[profile] /\ sent' = sent + 1
  /\ pending' = Append(pending, [cell |-> pointer, value |-> value])
  /\ pointer' = NextInPage
  /\ Answer(TRUE, "Receive") /\ received' = value
  /\ UNCHANGED <<bank, addressRemaining, addressValue>>

Received(value) ==
  \/ ControlByte(value) \/ BusyByte(value) \/ AddressByte(value) \/ DataByte(value)

-----------------------------------------------------------------------------
(* SCL falls: the chip puts its bit or its acknowledgement on SDA.         *)

BitLow(n) == (cells[pointer] \div Weight[Width - 1 - n]) % 2 = 0

(* Fault: the first bit waits for another clock *)
FallingLate ==
  \/ /\ ackStage = 1
     /\ driveLow' = ack /\ ackStage' = 2
     /\ UNCHANGED <<mode, shift, heard>>
  \/ /\ ackStage = 3
     /\ ackStage' = 0 /\ mode' = afterAck /\ bits' = 0 /\ received' = 0
     /\ driveLow' = FALSE /\ heard' = Silence
  \/ /\ ackStage \notin {1, 3}
     /\ driveLow' = (mode = "Send" /\ BitLow(bits))
     /\ UNCHANGED <<mode, ackStage, shift, heard>>

Falling ==
  \/ /\ ackStage = 1
     /\ driveLow' = ack /\ ackStage' = 2
     /\ UNCHANGED <<mode, shift, heard>>
  \/ /\ ackStage = 3
     /\ ackStage' = 0 /\ mode' = afterAck /\ bits' = 0 /\ received' = 0
     /\ driveLow' = (afterAck = "Send" /\ BitLow(0))
     /\ heard' = Silence
  \/ /\ ackStage \notin {1, 3}
     /\ driveLow' = (mode = "Send" /\ BitLow(bits))
     /\ UNCHANGED <<mode, ackStage, shift, heard>>

-----------------------------------------------------------------------------
(* SCL rises: a bit is taken, by the chip or by the program.               *)

AckTaken ==
  /\ ackStage # 0
  /\ ackStage' = IF ackStage = 2 THEN 3 ELSE ackStage
  /\ UNCHANGED <<mode, afterAck, ack, address, shift, pending, sent, heard>>

SendBit(d) ==
  /\ ackStage = 0 /\ mode = "Send"
  /\ heard' = [value |-> 2 * heard.value + (IF d /\ ~driveLow THEN 1 ELSE 0),
               open  |-> heard.open /\ d]
  /\ IF bits + 1 = Width THEN mode' = "MasterAck" /\ bits' = 0
                         ELSE bits' = bits + 1 /\ UNCHANGED mode
  /\ UNCHANGED <<afterAck, ack, ackStage, address, received, pending, sent>>

MasterAnswers(d) ==
  /\ ackStage = 0 /\ mode = "MasterAck"
  /\ IF d THEN mode' = "Idle" /\ UNCHANGED <<pointer, bits, heard>>
          ELSE /\ pointer' = (pointer + 1) % profile.size
               /\ mode' = "Send" /\ bits' = 0 /\ heard' = Silence
  /\ UNCHANGED <<afterAck, ack, ackStage, bank, addressRemaining, addressValue,
                 received, pending, sent>>

Ignored ==
  /\ ackStage = 0 /\ mode = "Idle"
  /\ UNCHANGED <<answer, address, shift, pending, sent, heard>>

TakeBit(d) ==
  LET value == 2 * received + (IF d THEN 1 ELSE 0) IN
  /\ ackStage = 0 /\ mode \in {"Control", "Address", "Receive"}
  /\ IF bits + 1 = Width
       THEN Received(value % Values)
       ELSE /\ received' = value /\ bits' = bits + 1
            /\ UNCHANGED <<answer, address, pending, sent>>
  /\ UNCHANGED heard

Rising(d) ==
  /\ AckTaken \/ SendBit(d) \/ MasterAnswers(d) \/ Ignored \/ TakeBit(d)
  /\ UNCHANGED <<chip, driveLow, saved>>

-----------------------------------------------------------------------------
WriteLines(c, d) ==
  /\ scl' = c /\ sda' = d
  /\ \/ scl /\ c /\ ~sda /\ d /\ Stop
     \/ scl /\ c /\ sda /\ ~d /\ Begin
     \/ scl /\ ~c /\ Falling
          /\ UNCHANGED <<chip, pending, afterAck, ack, address, others>>
     \/ ~scl /\ c /\ Rising(d)
     \/ scl = c /\ (c => sda = d)
          /\ UNCHANGED <<chip, driveLow, pending, answer, address, shift, others, heard>>

Advance(clocks) ==
  /\ busy' = IF clocks >= busy THEN 0 ELSE busy - clocks
  /\ UNCHANGED <<profile, cells, dirty, scl, sda, driveLow, pending, answer,
                 address, shift, others, heard>>

(* Cartridge::Save *)
Save ==
  /\ dirty
  /\ saved' = cells /\ dirty' = FALSE
  /\ UNCHANGED <<profile, cells, busy, scl, sda, driveLow, pending, answer,
                 address, shift, sent, heard>>

(* Prepare and Commit, of the same game or of another: its file's contents. *)
Load(p) ==
  /\ ~dirty
  /\ profile' = p
  /\ cells' = (IF p = profile THEN saved ELSE Blank(p)) /\ saved' = cells'
  /\ scl' = TRUE /\ sda' = TRUE /\ driveLow' = FALSE
  /\ busy' = 0 /\ dirty' = FALSE /\ pending' = <<>>
  /\ mode' = "Idle" /\ afterAck' = "Idle" /\ ack' = FALSE /\ ackStage' = 0
  /\ pointer' = 0 /\ bank' = 0 /\ addressRemaining' = 0 /\ addressValue' = 0
  /\ bits' = 0 /\ received' = 0 /\ heard' = Silence
  /\ UNCHANGED sent

Next ==
  \/ \E c, d \in BOOLEAN : WriteLines(c, d)
  \/ Advance(1) \/ Save
  \/ \E p \in Profile : Load(p)

Spec == Init /\ [][Next]_vars

-----------------------------------------------------------------------------
(* Every index the code uses without a test is within the memory: the      *)
(* pointer and the cells of the bytes to be written.                       *)
MemoryOK ==
  /\ profile \in Profile
  /\ cells \in [0 .. (profile.size - 1) -> Byte]
  /\ pointer \in 0 .. (profile.size - 1)
  /\ pending \in Seq([cell : 0 .. (profile.size - 1), value : Byte])
  /\ saved \in [0 .. (profile.size - 1) -> Byte]

ProtocolOK ==
  /\ mode \in Mode /\ afterAck \in Mode /\ ackStage \in 0 .. 3
  /\ bits \in 0 .. (Width - 1) /\ received \in Nat /\ busy \in 0 .. WriteTime
  /\ bank \in Nat /\ addressValue \in Nat /\ bank < profile.size

TypeOK == MemoryOK /\ ProtocolOK

(* During a write cycle the chip never pulls SDA, whatever is clocked into *)
(* it: it acknowledges nothing, sends nothing and takes nothing to be      *)
(* written, so that a program can poll for the end (eeprom.cpp:63;         *)
(* eeprom.txt, "a 5 ms write-cycle busy interval").                        *)
WriteCycleQuiet ==
  busy > 0 => ~driveLow /\ pending = <<>> /\ mode \in {"Idle", "Control"}

(* What a program has read of a byte are the leading bits of the cell the  *)
(* pointer names, provided it left SDA high, after whatever incomplete     *)
(* bytes, repeated starts and acknowledgements (eeprom.cpp:117 to 156).    *)
ReadsMemory ==
  heard.open =>
    /\ mode = "Send" /\ ackStage = 0 => heard.value = cells[pointer] \div Weight[Width - bits]
    /\ mode = "MasterAck" => heard.value = cells[pointer]

(* A memory that differs from its file is marked: a save will write it,    *)
(* however its bytes were sent and however often the cells were rewritten  *)
(* (eeprom.cpp:48; cartridge.cpp:128).                                     *)
DirtyKept == ~dirty => cells = saved
=============================================================================
