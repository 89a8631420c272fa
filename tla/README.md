# A verification project for DrivOnix

DrivOnix is a Mega Drive / Genesis emulator in C++: a console (68000, Z80, video
processor, sound, pads, cartridge) and a desktop frontend (library, settings,
metadata, input, sessions). This directory holds TLA+ models of its parts, the TLC
configurations that check them on small instances, and proofs for every instance.

Every definition is translated from the source; `PROJECT.json` ("map") names the
lines. Run `tlc -config X.cfg M` and `tlapm M.tla` in this directory.

## 1. The system

### Components

| component | state | operations | made correct by |
|---|---|---|---|
| console scheduler and bus (`genesis/genesis.cpp`) | master clock, frame deadline, work RAM, bus latches | `RunFrame`, `Advance`, `StallMasterCycles`, memory accesses, `ResetDevices` | every device is given every clock once, also when an access waits |
| video processor (`ym7101/ym7101.cpp`) | beam, registers, command latch, FIFO, DMA unit, interrupt latches, memories | port reads and writes, `Advance`, `GetIntType`, `TakeStallCycles`, rendering | words stored once and in order; waits end; interrupts neither lost nor repeated |
| Z80 and bus arbitration (`z80/z80.cpp`) | core, divider, BUSREQ, RESET, grant, bank | `Advance`, `SetBusRequest`, `SetReset`, window accesses | ownership changes between instructions; no clock is lost |
| 68000 (`m68k/m68k.cpp`) | registers, requested levels, STOP | `Update`, `RequestAutoVectorInt`, `CheckInt`, 112,000 lines of opcodes | conformance vectors of the repository; interrupts modelled here |
| sound (`audio/audio.cpp`) | FM and PSG state, sample queue | `Advance`, register writes, `DrainSamples` | hears every clock once |
| pads (`genesis/gamepad/gamepad.cpp`) | lines, TH phase, idle counter | `Write`, `ReadData`, `Advance` | the six-button handshake and its time-out |
| cartridge, EEPROM (`genesis/cartridge/`) | banks, save RAM, dirty; serial protocol state | accesses, `Prepare`, `Commit`, `Save` | a save survives crashes; protocol state |
| ROM loader, library, archives | image; SQLite index, worker | load, scan, query | only a complete scan marks games missing |
| session, application, input (`frontend/`) | prepared and running game, page, router | start, pause, restart, BIOS hand-over, routing | saves before it replaces; held buttons do not leak |
| metadata service (`metadata/service.cpp`) | options, viewport, event queue, worker, cache | `Configure`, `RefreshCatalog`, `RequestCovers`, `PollEvents`, `ClearCache`, destructor | no lost call, no stale picture, shutdown |
| settings, storage, process, host I/O (`platform/`) | documents, files, subprocesses, sound queue | load, save, run, cancel | atomic replacement, cancellation |

### How they interact

The console is one thread, but calls nest. `RunFrame` runs one 68000 instruction and
gives its duration to `Advance`, which advances the video processor, then the Z80
(and with it the sound), the pads and the EEPROM, and then polls the video processor
for an interrupt. An access to a full FIFO calls `StallMasterCycles`, that is,
`Advance` again, from inside an instruction; that gives the Z80 time, which may access
the same ports, wait in turn and so nest `Advance` once more. `Z80::Advance` refuses
to run the Z80 inside itself but keeps sound and phase going. The frontend's worker
threads (metadata, library, game loading) talk to the main thread through a mutex, a
condition variable and atomics.

### What is hard here

Nesting (who may change what during a wait), unsigned differences of times, one-off
events at a clock edge, priorities between pending events, lost wake-ups, stale
results of cancelled work, crashes in the middle of a save. `PROJECT.json`
("hazards") lists each at its line with the properties aimed at it.

## 2. Modules

| module | models | extends / uses |
|---|---|---|
| `Z80Bus` | `Z80::Advance`, BUSREQ, RESET, nested waits, sound clocks | |
| `Z80Bus_proofs` | theorems about `Z80Bus` | `Z80Bus` |
| `DataPort` | abstract: what the data port promises | |
| `VdpPort` | ports, FIFO, DMA, both processors' accesses and waits, console loop | refines `DataPort` |
| `VdpPort_proofs` | theorems about `VdpPort` and the code's slots | `VdpPort`, `DataPort`, `AccessSlots` |
| `AccessSlots` | `NextAccess` with the code's own numbers, as functions of a position | |
| `VdpSlots` | a line walked from slot to slot | extends `AccessSlots` |
| `VideoInterrupts` | line counter, interrupt latches, poll, 68000 levels, STOP, RESET | |
| `VideoInterrupts_proofs` | theorems about `VideoInterrupts` | `VideoInterrupts` |
| `MetadataService` | metadata worker, calls, destructor | |
| `MetadataService_proofs` | theorems about `MetadataService` | `MetadataService` |
| `BatteryMemory` | abstract: what a player is promised of battery memory | |
| `SaveFile` | `Cartridge::Save` call by call, the file system, kill, loss of power | |
| `Session` | `Session` and the application's pages around it, preparation worker | extends `SaveFile`, refines `BatteryMemory` |
| `Session_proofs` | theorems about `Session` and `SaveFile` | `Session` |
| `LibraryIndex` | the index of games: commands, worker, scans, the files on the disk | |
| `LibraryIndex_proofs` | theorems about `LibraryIndex` | `LibraryIndex` |
| `GamePad` | a six-button pad at its port | |
| `Controls` | one pass of the main loop, router, pause, sound queue, a game that polls its pad | extends `GamePad` |
| `Controls_proofs` | theorems about `Controls` and `GamePad` | `Controls` |
| `Eeprom` | the serial memory of a cartridge | |
| `Eeprom_proofs` | theorems about `Eeprom` | `Eeprom` |
| `MC...` | constants for TLC | the module of that name |

**Z80Bus.** State: the divider's remainder (`clock`), the three lines, the length
left of the Z80's instruction (`opTicks`), whether `Advance` is on the stack
(`advancing`), what its loop has left (`left`) and whether the Z80 is inside a bus
access (`access`). History variables relate the console's clocks to the sound's: `owed`
is their difference, `phase` the sound's modulo the divider. Each branch of the loop is an action (`PassHeld`, `PassShort`,
`ReachEdge`, `PassGrant`, `PassTick`), as is the nested call (`NestedAdvance`).

**VdpPort.** `at` says where each processor stands (fetching, inside an instruction,
waiting to write, waiting to read) and `ticks` what `YM7101::Advance` has left; these
are the call stack. `Pass` is one iteration of `Advance`'s loop. Times are relative
(`due` = ready - totalCycles), so states recur. Slots are a constant `Gap`, which depends on
`mode`: the display's enable bit, its width and its height, all that registers 1 and 12 do to
the slots. The Z80 writes bytes, which the port doubles, so that it can only switch the
display off, its height to 224 lines or its width to 40 cells. Memory contents and the values
of DMA registers are left out or chosen freely; the second word of a command may change
the code to any other, also to one that names no memory. `wait` is the
captured half of a waiting write: the code captures the command's code before the wait
and reads its address after it.

**DataPort** is what a programmer relies on: a word handed over is taken once, words
are stored in order. `VdpPort!KeepsPromise` is the refinement: the FIFO's words are the
buffer, a processor waiting in `WriteDataPortWORD` is one whose word is outstanding.

**AccessSlots** and **VdpSlots** use the literal tables, since here the numbers are the
subject. `CodeSlotsLieAhead` proves that they are a table as `VdpPort` assumes it.

**VideoInterrupts.** `turn` orders `CheckInt`, the instruction, and the passes of
`Advance` followed by the poll. A pass ends at the end of the time, of the line, or at
the vertical interrupt's edge. `levels` is the 68000's map of requested interrupts. The
68000 writes the registers in an instruction (`SetRegister`); the Z80 writes them in its slice,
after the passes and before the poll, whatever the 68000 does (`SetRegisterByte`), with the one
value a doubled byte can give each register: 128 + r. That clears an enable bit, so an
interrupt that was enabled at STOP need not come, and `StopWakes` excepts it. `Halted` is the
time a transfer holds the 68000. The waits of an instruction at the FIFO belong to its duration
here, with one poll at the end; their inside is `VdpPort`.
`steady`, `even` and `vints` are history for the properties.

**MetadataService.** A worker step is what lies between two points at which a call can
intervene. A wait on the condition variable is two steps, test and sleep, with the mutex
held in between: calls, which take the mutex, cannot come in, the destructor, which does
not, can. `wanted` and `served` are history. `PurgeCovers` describes what is left of the
queue by the map of its new places to the old ones, in order, and not by the loop that
erases; `PurgeIsExact` proves that every queue has exactly one such outcome, so that the
description neither keeps a call back nor leaves it a choice.

**SaveFile.** Each call of `Cartridge::Save` that may fail, or after which the process may
be killed or the power lost, is an action: create, write, fsync and close, rename, flush
the directory. They are the POSIX branch's. A memory is the number of the write that left
it so; the parallel RAM's and the serial EEPROM's take the same way and are one variable.
The medium (external) makes a name and its contents permanent when it likes; contents that
were not synced may then be torn. A temporary file left by a crash is not looked at again:
each save makes a new name. Memory that fails its size check cannot be loaded. `writes`
and `promised` are history.

**Session.** The application's thread runs one operation at a time: `call` says which one
is inside `Cartridge::Save`, and only the worker, the file system and a kill or a loss of
power take steps meanwhile. Pages that treat the session alike are one page. The worker's
preparation ends well or not at any moment; the main loop polls it. `Start` prepares the
game a second time, after the save, as the code does. Left out: `noDialogs` (no pages, the
program ends on an error), the pages of the settings and `SaveSettings`, which suspends
and resumes a session around itself. An error leads back to the pause menu or, without a
session, to the library. The library's records of sessions are only queued there and
cannot fail. The BIOS's header names no battery memory (`src/bios/main.c`'s image has no
"RA" at 0x1b0), so nothing is dirty while it runs.

**LibraryIndex.** A command is a record in the queue; those `Enqueue` marks as scans carry
the state of their token. `pc` is where the worker stands: in `Run`'s wait (`test`,
`tested` with the mutex held, `asleep`), running a command, or inside `Scan` between two
directories (`roots`), two files (`visit`), in `Pulse`, before or after reading a file
(`inspect`, `commit`). A file is a version that each write raises, so a fingerprint and the
contents read later can be compared. `External` is a short command with the same inspection
inside. Environment actions are the interface's calls, writes and removals of files, the
three steps of the destructor, and `Restart`, the end of the process anywhere and its next
start on the database left behind. A failure of SQLite is left out except at opening, so are
`Barrier`, which only tests use, the catalog and the edits of a single game. `asked`,
`accepted` and `gone` are history.

**GamePad** has the data and control bits of TH, the phase counter and the time since its
last edge, in units of `Advance`. `LowLines` is `ReadData`. **Controls** composes it with a
pass of the main loop (`pc` is the step of the pass: events, sample, fullscreen, resume,
menu, skip, step, frame, interface), with the session's pause and with the sound queue,
which the stream's thread empties at any moment. Preparing, saving and starting a game
succeed or fail here in one step; `Session` has their inside. A control is held or not; dead
zones and names are left out. The game may write and read its port in any order while a
frame runs; `poll` is what a program has decoded by the published protocol (`Meaning`,
external) if it began when the counter had fallen back. `stale` is history: what has been
held since the last change of page, focus or machine. The BIOS is skipped by a control
(`SkipBios`) or by the button on the screen (`SkipButton`); the 68000's RESET makes the pads
new within a frame (`GameReset`) and ends the poll it falls into.

**Eeprom** takes any sequence of levels on SCL and SDA. Bytes have `Width` bits, so that TLC
can send all of them; a control byte has the same three parts. `pending` are the bytes of a
page, written at the stop condition. Saving is one step here (`SaveFile` has its own), and
`Load` exchanges the cartridge. `Weight` are the powers of two, written as a table so that
what a shift does can be proved for every width. `heard` is what a program has read of the current byte.

**BatteryMemory** is the promise: memory appears in its file whole, counts as saved only
when it is permanent, is replaced in the machine only when saved, and a game gets what its
file holds. A temporary file, a rename and a flush are how the code keeps it.

## 3. Runs

| run | instance | shows |
|---|---|---|
| `z80bus` | divider 15, slices to 31 clocks, instructions to 4 ticks | clocks, ownership, grant |
| `vdpport` | FIFO of 2, one word, transfers of 1 and 2 units | times, order, refinement; waits and transfers end |
| `vdpport_destination` | FIFO of 1, two addresses | **violated**, see 5 |
| `interrupts` | 4 lines of 3 clocks, 2 heights, instructions and halts of 2 and 5 clocks | interrupts |
| `vdpslots_count` | the code's numbers, every position | **violated** |
| `metadata` | queue of 1, 2 sources, 3 calls | calls, covers, refresh, no call slept through |
| `metadata_join` | queue of 1, 1 source, no calls | **violated** |
| `session` | 2 games, 2 writes | saves, starts, restarts and exits, whatever fails; preparations end |
| `library` | 2 roots, 1 file in one of them, 1 opened file, 1 change, 3 calls | scans, queries, sessions, wake-ups, what is shown at rest, shutdown |
| `library_external` | the same | **violated** |
| `controls` | keys for the menu, F11 and a button, a pad's control for another button and the BIOS; sound queue of 2, time-out 2 | held controls, pause, pad port |
| `eeprom` | bytes of 2 bits; chips of 2, 8 and 4 bytes (short, banked and two-byte addresses) | protocol, write cycle, saves |

Why the bounds are enough. `z80bus` uses the real divider; slices of up to two periods
and a clock reach every phase with every number of edges. The FIFO of two has a head, a
tail, a full and an empty state, and makes a word wait behind another; with one position
in two a slot (display on) or both (off), a wait lasts one or several slots and a display
switch moves the slots under queued entries. Off, the display is 32 or 40 cells wide, on it is
40, of one height: what counts is that a write of either processor may move the slots or not.
A transfer of two units schedules its second one after the first, beside queued writes,
displays that are switched and transfers that replace it; `StallsComeForward` has every
length. The run has one value, so that its liveness
can be checked: that words keep their order when they differ is not this run's evidence
but the theorem `KeepsThePromise` of VdpPort_proofs, which holds for any values. A frame of four lines has two heights, so
display, the line below it, blank lines and the wrap; instructions of 2 and 5 clocks
against lines of 3 reach every alignment with an edge, and the slowest spans two line
ends. A queue of one event is full after the first, so the worker waits for room. Three
calls are enough for one to overtake the work that another asked for while a third
waits. Two games are the one that runs and the one that replaces it, or the same twice;
two writes tell apart a memory that is saved, one in the file but not reported, and one
only in the machine. Failures, kills and losses of power are not bounded.
The library's three calls are a scan, what interferes with it, and a third that waits; a
second root makes a scan have something left when a walk fails or ends, and one change is
enough for a file to be away, or newer, at any point of an inspection. Calls and changes
bound the length of a behaviour, not its interleavings. In `controls` one direction is on
the device and the opposite one on a key, so that they meet; the time-out is longer than
one wait and the saturation is at the time-out. The chips of `eeprom` cover each addressing
form, a page smaller than the memory, and two banks; the bytes written are bounded.

The real widths matter in one place, the 64-bit clock, which does not wrap within the
life of a session; relative times replace it.

Deadlock is checked everywhere except in the metadata and library runs, where the system
ends when the destructor has joined, and the calls are used up.

Types are proved (section 6) for every module with a next-state relation but the abstract
ones, so the runs do not repeat them.

## 4. Fairness

`Z80Bus`, `VdpPort`: a loop of the code that can go on does (weak fairness of each of
its steps); the 68000's loop has strong fairness, since the Z80's accesses disable and
enable it and an instruction makes finitely many accesses. No processor has to use a
port, so `CpuWaitEnds` allows a Z80 that writes for ever, and `TransferEnds` a program
that starts transfers for ever. `VideoInterrupts`: the loop of `RunFrame` goes on, and
the 68000 gets its turn again and again although transfers hold it (strong fairness of
`CheckInt`), since every transfer ends (`TransferEnds`); a Z80 that starts transfers from the
68000's bus for ever is assumed away here. `StopWakes` does not assume that the Z80 leaves
the interrupt enabled.
`MetadataService`: the worker is scheduled, downloads end (they have a time limit), the
interface polls, a destructor that has begun goes on. The interface does not poll while
a game runs; the liveness properties speak of the time when it does.
`LibraryIndex`: the worker is scheduled and a destructor that has begun goes on; reading a
file or a directory ends, well or not. Nothing is assumed of the interface or the files.
`Controls` and `Eeprom` state safety only.
`Session`: a preparation's reads and a save's calls end, and what the application does
after a save goes on (weak fairness); the poll of the worker has strong fairness, because
each turn of the main loop polls before it dispatches one operation, so operations that
keep coming disable the poll for a while but not for ever.

## 5. Findings

* `vdpport_destination`: the 68000 writes a word, waits for room, and meanwhile the Z80
  writes a command word; the waiting word then goes to the old command's memory at the
  new command's address, which no command named (`ym7101.cpp:208` and `212`).
* `vdpslots_count`: `NextAccess` gives out nearly every slot of a blank line twice
  (`ym7101.cpp:312`), so transfers in blanking run almost twice as fast as the count in
  the line above says.
* `metadata_join`: a lost wake-up in the destructor (`service.cpp:152`).
* `library_external`: `External` inspects a file with the token of the last scan
  (`library.cpp:307`, `153`, `159`). `BeginLoad` cancels scans before every game
  (`application.cpp:248`), so the token is a cancelled one when a game that was opened
  directly and is not in the index yet is to be recorded: the command is taken for a
  cancelled scan and the game never appears in Recents.

Observations, met while modelling, that no run states:

* The console's poll clears the VDP's pending latch and status bit although the 68000 masks
  the level; the interrupt is then held by the 68000, where neither disabling it in the VDP
  nor RESET takes it back (`ym7101.cpp:428`; `ym7101/readme.txt:32` says that the CPU's
  acknowledgement clears it).
* The player resumes, closes the window before the controls are released, and the save
  fails: `neutralResume_` is still set, so releasing them resumes the session behind the page
  that says it remains paused (`application.cpp:166`, `279`, `586`). The sound runs; the
  machine is not stepped.
* One directory entry whose `Stat` fails, a socket or a file that has just vanished, makes
  `List` throw and its root fail as a whole; `library/readme.txt:21` says special files are
  skipped. A command that throws inside `Pulse` marks the root being walked as failed
  (`library.cpp:206`).
* `External` on an archive of which other members are recorded refreshes the fingerprint of
  all of them while it stores one (`library.cpp:307`).
* A repeated start does not clear the bytes pending from before: one stop may write bytes
  of two pages (`eeprom.cpp:39`).
* The BIOS is skipped by keys the router does not filter (`application.cpp:168`). Without a
  settings document F11 recreates the window in the middle of a pass and the buttons already
  sampled still reach one frame. A game that waits for released controls may run a frame
  when the focus goes before its event arrives.

## 6. Proofs

Eight modules of proofs, each with an inductive invariant, one lemma or step per
action, and one theorem per property. The assumptions are those the modules name for
their constants (`Z80BusAssumption`, `VdpPortAssumption`, `VideoInterruptsAssumption`,
`SaveFileAssumption`, `LibraryAssumption`, `MetadataServiceAssumption`, `PadAssumption`,
`ControlsAssumption`, `EepromAssumption`). Besides types, sizes and what
the code's tables satisfy they say that
the files of a library are finitely many, without which the number of a scan (the greatest
of the rows' and one) might not exist, and the weights of a byte's bits are powers of two.
Every safety property that a passing run checks, invariant or action property, and both refinements
are theorems.

* `Z80Bus_proofs`, for every divider, slice and instruction length: types, exactness of
  the sound's clocks and of the phase, safety of a grant, and that the Z80 stands still
  while the 68000 owns the bus. `Inv` adds that calls nest as the C++ stack does
  (`CallsNest`: an access happens only inside `Advance`); without it a nested wait could
  be counted against a loop that is not there.
* `VdpPort_proofs`, for every size of the FIFO, table of slots, length of a transfer and
  duration of an instruction, and for the code's own table of slots: types, times that lie ahead in order, transfers behind the
  queue, and the refinement of `DataPort`. The heart is `AccessAhead`: a slot is later
  than the time it is asked for, in whatever position and mode. `Inv` adds that a
  transfer in progress has a unit left (`TransferCounts`), or its count would go below
  zero, and that a waiting processor holds a word (`WaitHoldsWord`), which the refinement
  needs. `StepKinds` and `StackKinds` sort the steps by what they do to the queue and to
  the processors; each kind has its lemma, and `PromiseStep` puts them together. `StallsComeForward` is the
  part of `TransferEnds` that is safety, for every length: each pass of time lowers a
  transfer's units left or, with the same number left, the time to its next one, and nothing
  but an access of a processor raises either. It needs that both are above zero (`TimesAhead`)
  and that a unit's successor is counted when it is scheduled.
* `VideoInterrupts_proofs`, for every length of line and frame, every edge, reload and
  duration: types, agreement of `requestInt` with the latches and enables, one vertical
  interrupt per undisturbed frame, and the counter's period. The properties are inductive
  together. `PassFacts` is why an interrupt is never jumped over: a pass stops at the edge.
* `Session_proofs`, for every set of games and number of writes: types, `SavedIsKept`,
  `MachineMatches`, `UnsavedIsKept` and the refinement of `BatteryMemory`. `Inv` says that
  write numbers never fall on their way from memory to file to medium (`SafeDisk`), what
  `Save` has achieved before each of its calls (`InSave`: what is renamed is whole, synced
  and the machine's memory), and what a session holds (`InSession`). Without `InSave` a
  rename might put anything under the save's name; without `SafeDisk`'s order a later
  writeback might take a reported save back.

* `MetadataService_proofs`, for every capacity of the event queue, number of sources and
  calls. `TypeCorrect` contains that the queue never exceeds its capacity. `CoversStayCurrent`
  needs `Carried`: what Emit holds is of the worker's present job, and a cover can still be
  dropped; otherwise the version compared when an event is queued would not be the event's.
  `SleepIsServed` rests on `RestInv`: a version that is not the job's has a round of covers
  pending (`Versioned`), a round that ended has recorded its versions wherever the worker
  is before it takes the next (`Recorded`), and between a test and its sleep nobody but the
  destructor can come in (`Held`); and a refresh that is owed an answer is still to be taken,
  or being done for the present generation (`Remembered`). It says only what holds while the service is up: that the
  destructor's own notification can be lost is the finding of `metadata_join`. `PurgeIsExact`
  takes two orders of the same events and the least place at which they differ (`LeastOf`,
  from the naturals being well-founded), so that no induction theorem with an operator
  parameter is needed.
* `LibraryIndex_proofs`, for every set of roots, files, opened files and calls. `IndexInv`
  carries `FingerprintNamesContents` and `OnlyGoneIsMissing`. It says that versions on
  the disk only grow and bound every fingerprint that was read (`Disk`, `Listed`, `Probed`),
  that a probe's contents are at least as new as its fingerprint, that a command in progress
  fits the worker's position (`Commanded`), and that every file of the root being walked is
  still to be visited, seen in this generation, or was away at some moment (`Walked`). That
  last one is what a walk is for: without it `MarkMissing` proves nothing. `KeptInv` is the
  account of sessions (`Counted`: those handed over are stored, in the queue, or the one
  that runs), with which the queue being empty at the end is enough for `SessionsKept`, and
  with `NoWakeupLost` the queue being empty whenever the worker sleeps;
  cancelling a queue changes no count (`CountCancelled`). `NoWakeupIsLost` needs `Awake`, what
  was tested is still so when the worker sleeps. `RestSettles` puts them together with
  `Latest` (the last query handed over is the last in the queue, or runs, or has run) and
  `Told` (what each way out of a command or a scan has published).
* `Controls_proofs`, for every set of controls, every binding and every time-out: types and
  the four properties of the run. `HeldControlsStayOut` needs that a router that is not
  suppressed has seen everything released (`stale = {}`), and that buttons sampled in this
  pass are dropped by whatever changes the page later in it; `PollIsExact` that the phase
  counts the edges of a poll begun after the time-out.
* `Eeprom_proofs`, for every chip, bank and width: types, that is, every index lies within
  the memory; `WriteCycleQuiet`; `DirtyKept`; and `ReadsMemory`, that a read gives the bits
  of its cell. `ReadInv` adds that the line is driven low exactly for a zero bit while the
  clock is low; `OneBitMore` is the arithmetic, one more bit of a quotient by a smaller
  power of two.

Only model-checked: liveness under fairness, which the prover does not reach
(`RequestIsGranted`, `Z80WaitEnds`, `CpuWaitEnds`, `TransferEnds`, `StopWakes`,
`HintSurvives`, `ViewportSettles`, `RefreshAnswered`, `PreparationEnds`, `ScanSettles`,
`QueryAnswered`, `Joins`). What makes a transfer end is proved in `StallsComeForward`, that
its passes go on is TLC's. `SleepsServed`, `NoWakeupLost` and `RestsSettled` are the part of
the workers' properties that is safety: they say what holds when a worker has stopped, and the runs
that it stops. The numbers of `VdpSlots` are left to TLC, too.

## 7. Not modelled, and the plan

Not modelled: rendering, mixing and instruction sets (arithmetic on data, checked by the
repository with vectors and images), the ROM loader and the merge of settings (functions of
their inputs), the BIOS program, generators, vendored code, drawing and layout. Together
they are nearly all of the repository's lines: the vendored database alone is two thirds of
them and the generated opcodes a third of the rest, so the share of lines the models name is
small and stays so.

Subprocesses (`platform/process.cpp`) are a step of `Inspect`. Their own order is the
operating system's; read closely, two subprocesses started at once inherit each other's ends
of the pipes (no close-on-exec), so that one may not see the end of its input before the
other has ended, and `Stop` may signal a child that has been reaped.

Next, in this order, each with its theorems:

1. The repeat of held directions in menus and the capture of a binding (`Controls`).
2. A subprocess with its pipes, its time limit and its cancellation.
3. The edits of one game and the catalog in `LibraryIndex`; the wiring of `Eeprom`.
