------------------------------ MODULE SaveFile ------------------------------
(***************************************************************************)
(* The battery memory of the cartridge in the machine and its save file:   *)
(* Cartridge::Save, one action for each system call that may fail or after *)
(* which the process may be killed or the power lost. The calls are those  *)
(* of the POSIX branch.                                                    *)
(*                                                                         *)
(* Memory is named by the number of the write that left it so; 0 is the    *)
(* memory of a game that has no file. The serial EEPROM's memory and flag  *)
(* take the same way as the parallel RAM's: ram and dirty are either's.    *)
(***************************************************************************)
EXTENDS Naturals

CONSTANTS
  Game,      \* save identities of games
  NoCart,    \* no cartridge, or the BIOS, which has no battery memory
  Torn,      \* contents of a file that was not written to its end
  MaxWrites  \* bound on the writes of the games' programs

ASSUME SaveFileAssumption ==
  /\ NoCart \notin Game
  /\ Torn \notin Nat
  /\ MaxWrites \in Nat

VARIABLES
  cart,     \* the game whose image, ram and savePath Cartridge holds
  ram,      \* its battery memory
  dirty,    \* the memory was written since it was loaded or saved
  step,     \* what Save does next; "saved" or "failed": it has returned
  temp,     \* the temporary file
  file,     \* file[g]: the file under g's savePath
  stable,   \* stable[g]: its contents after a loss of power
  writes,   \* history: number of writes so far
  promised  \* history: promised[g]: the memory last reported as saved

memory == <<cart, ram, dirty, writes>>
disk   == <<temp, file, stable, promised>>

Contents == Nat \union {Torn}
File     == [data : Contents, synced : BOOLEAN]
Empty    == [data |-> Torn, synced |-> FALSE]
Saving   == {"create", "write", "sync", "rename", "flush"}

SaveTypeOK ==
  /\ cart \in Game \union {NoCart}
  /\ ram \in Nat
  /\ dirty \in BOOLEAN
  /\ step \in Saving \union {"idle", "saved", "failed"}
  /\ temp \in File
  /\ file \in [Game -> File]
  /\ stable \in [Game -> Contents]
  /\ writes \in Nat
  /\ promised \in [Game -> Nat]

SaveInit ==
  /\ cart = NoCart
  /\ ram = 0
  /\ dirty = FALSE
  /\ step = "idle"
  /\ temp = Empty
  /\ file = [g \in Game |-> [data |-> 0, synced |-> TRUE]]
  /\ stable = [g \in Game |-> 0]
  /\ writes = 0
  /\ promised = [g \in Game |-> 0]

(* Cartridge::Write and the EEPROM's write cycle, with a value that is new. *)
Write ==
  /\ cart \in Game
  /\ writes < MaxWrites
  /\ writes' = writes + 1
  /\ ram' = writes'
  /\ dirty' = TRUE
  /\ UNCHANGED <<cart, step, disk>>

(* Cartridge::Prepare and Commit. ReadSave throws if the size is wrong. *)
Readable(g) == file[g].data # Torn

Commit(g, data) ==
  /\ cart' = g
  /\ ram' = data
  /\ dirty' = FALSE

(* The call of Save: it returns at once if there is nothing to save. *)
Save == step' = IF dirty THEN "create" ELSE "saved"

Create ==
  /\ step = "create"
  /\ temp' = Empty
  /\ step' = "write"
  /\ UNCHANGED <<memory, file, stable, promised>>

WriteTemporary ==
  /\ step = "write"
  /\ temp' = [temp EXCEPT !.data = ram]
  /\ step' = "sync"
  /\ UNCHANGED <<memory, file, stable, promised>>

(* fsync and close. *)
SyncForgotten ==
  /\ step = "sync"
  /\ step' = "rename"
  /\ UNCHANGED <<memory, disk>>

Sync ==
  /\ step = "sync"
  /\ temp' = [temp EXCEPT !.synced = TRUE]
  /\ step' = "rename"
  /\ UNCHANGED <<memory, file, stable, promised>>

Rename ==
  /\ step = "rename"
  /\ file' = [file EXCEPT ![cart] = temp]
  /\ temp' = Empty
  /\ step' = "flush"
  /\ UNCHANGED <<memory, stable, promised>>

(* What the medium may hold of a file. *)
OnMedium(f) == IF f.synced THEN {f.data} ELSE {f.data, Torn}

(* fsync of the directory, after which the memory counts as saved. *)
Flush ==
  /\ step = "flush"
  /\ \E data \in OnMedium(file[cart]) : stable' = [stable EXCEPT ![cart] = data]
  /\ promised' = [promised EXCEPT ![cart] = ram]
  /\ dirty' = FALSE
  /\ step' = "saved"
  /\ UNCHANGED <<cart, ram, writes, temp, file>>

FlushErrorIgnored ==
  /\ step \in Saving
  /\ temp' = Empty
  /\ step' = IF step = "flush" THEN "saved" ELSE "failed"
  /\ dirty' = (step # "flush")
  /\ UNCHANGED <<cart, ram, writes, file, stable, promised>>

(* Any of the calls may fail: Save removes its temporary file and throws. *)
Fail ==
  /\ step \in Saving
  /\ temp' = Empty
  /\ step' = "failed"
  /\ UNCHANGED <<memory, file, stable, promised>>

SaveStep == Create \/ WriteTemporary \/ Sync \/ Rename \/ Flush \/ Fail

(* The system makes a name and its file's contents permanent when it likes. *)
Writeback(g) ==
  /\ \E data \in OnMedium(file[g]) : stable' = [stable EXCEPT ![g] = data]
  /\ UNCHANGED <<memory, step, temp, file, promised>>

(* The process ends; the files stay, or become what the medium holds. *)
Forget ==
  /\ cart' = NoCart
  /\ ram' = 0
  /\ dirty' = FALSE
  /\ step' = "idle"
  /\ temp' = Empty
  /\ UNCHANGED <<writes, stable, promised>>

Exit == Forget /\ UNCHANGED file

PowerLoss ==
  /\ Forget
  /\ file' = [g \in Game |-> [data |-> stable[g], synced |-> TRUE]]
=============================================================================
