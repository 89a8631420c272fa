--------------------------- MODULE Session_proofs ---------------------------
(***************************************************************************)
(* Proofs of Session's safety properties and of the promise it keeps, for  *)
(* every set of games and every number of writes.                          *)
(***************************************************************************)
EXTENDS Session, TLAPS

-----------------------------------------------------------------------------
(* The inductive invariant. *)

(* Writes are numbered upwards, and the numbers never fall on their way     *)
(* from the memory to the file and to the medium.                           *)
SafeDisk ==
  /\ ram <= writes
  /\ \A g \in Game :
       /\ file[g].synced = TRUE
       /\ file[g].data \in Nat
       /\ stable[g] \in Nat
       /\ file[g].data <= writes
       /\ stable[g] <= writes
       /\ promised[g] <= file[g].data
       /\ promised[g] <= stable[g]
  /\ dirty => cart \in Game
  /\ cart \in Game => file[cart].data <= ram
  /\ cart \in Game /\ ~dirty => ram = file[cart].data

(* What Save has done when it reaches each of its calls. *)
InSave ==
  /\ step \in Saving => dirty
  /\ step = "saved" => ~dirty
  /\ step \in {"sync", "rename"} => temp.data = ram
  /\ step = "rename" => temp.synced = TRUE
  /\ step = "flush" => file[cart].data = ram
  /\ step = "idle" <=> call \in {"none"} \union Ended

InSession ==
  /\ MachineMatches
  /\ active => current \in Game
  /\ call \in {"start", "restarted"} => next \in Prepared
  /\ call = "restart" => active

Inv == TypeOK /\ SafeDisk /\ InSave /\ InSession

LEMMA InitInv == Init => Inv
<1> SUFFICES ASSUME Init PROVE Inv
  OBVIOUS
<1> USE SaveFileAssumption
<1>1. SaveTypeOK
  BY DEF Init, SaveInit, SaveTypeOK, Contents, File, Empty
<1>2. TypeOK
  BY <1>1 DEF Init, TypeOK, SessionTypeOK, Moved, NoGame, Loading, Ended
<1>3. SafeDisk
  <2>1. ram = 0 /\ writes = 0 /\ dirty = FALSE /\ cart \notin Game
    BY DEF Init, SaveInit
  <2>2. ASSUME NEW g \in Game
        PROVE  /\ file[g] = [data |-> 0, synced |-> TRUE]
               /\ stable[g] = 0 /\ promised[g] = 0
    BY DEF Init, SaveInit
  <2> QED BY <2>1, <2>2 DEF SafeDisk
<1>4. InSave
  BY DEF Init, SaveInit, InSave, Saving
<1>5. InSession
  BY DEF Init, SaveInit, InSession, MachineMatches
<1> QED BY <1>2, <1>3, <1>4, <1>5 DEF Inv

-----------------------------------------------------------------------------
(* The save's side of the invariant, by what a step does to it. *)

SaveSide == SaveTypeOK /\ SafeDisk /\ InSave

LEMMA EmptyIsFile == Empty \in File
BY DEF Empty, File, Contents

LEMMA InvSave == Inv => SaveSide
BY DEF Inv, TypeOK, SaveSide

(* A step that leaves the memory, the files and Save alone. *)
LEMMA QuietStep ==
  ASSUME SaveSide, UNCHANGED <<memory, step, disk>>,
         call' = call \/ {call, call'} \subseteq {"none"} \union Ended
  PROVE  SaveSide'
<1>1. SaveTypeOK' /\ SafeDisk'
  BY DEF SaveSide, SaveTypeOK, SafeDisk, memory, disk
<1>2. InSave'
  BY DEF SaveSide, InSave, memory, disk
<1> QED BY <1>1, <1>2 DEF SaveSide

LEMMA CallsSave ==
  ASSUME SaveSide, Save, UNCHANGED <<memory, disk>>,
         call' \in {"start", "restart", "restarted", "library", "quit"}
  PROVE  SaveSide'
<1>1. SaveTypeOK' /\ SafeDisk'
  BY DEF SaveSide, SaveTypeOK, SafeDisk, memory, disk, Save, Saving
<1>2. InSave'
  BY DEF SaveSide, SaveTypeOK, InSave, memory, disk, Save, Saving, Ended
<1> QED BY <1>1, <1>2 DEF SaveSide

LEMMA SaveReturns ==
  ASSUME SaveSide, NEW result, Returned(result), UNCHANGED <<memory, disk>>
  PROVE  SaveSide'
<1>1. SaveTypeOK' /\ SafeDisk'
  BY DEF SaveSide, SaveTypeOK, SafeDisk, memory, disk, Returned
<1>2. InSave'
  BY DEF SaveSide, InSave, memory, disk, Returned, Saving
<1> QED BY <1>1, <1>2 DEF SaveSide

(* A cartridge is committed when none is dirty. *)
LEMMA CommitsLatest ==
  ASSUME SaveSide, step' = "idle", call' = "none", UNCHANGED <<writes, disk>>,
         NEW g \in Game \union {NoCart}, NEW data, Commit(g, data),
         g \in Game => data = file[g].data,
         g = NoCart => data = 0
  PROVE  SaveSide'
<1> USE SaveFileAssumption
<1>1. SaveTypeOK'
  <2>1. ram' \in Nat
    <3>1. CASE g = NoCart
      BY <3>1 DEF Commit
    <3>2. CASE g \in Game
      BY <3>2 DEF SaveSide, SafeDisk, Commit
    <3> QED BY <3>1, <3>2
  <2>2. /\ cart' \in Game \union {NoCart} /\ dirty' = FALSE
        /\ UNCHANGED <<writes, temp, file, stable, promised>>
    BY DEF Commit, disk
  <2> QED BY <2>1, <2>2 DEF SaveSide, SaveTypeOK
<1>2. SafeDisk'
  <2>1. CASE g = NoCart
    BY <2>1 DEF SaveSide, SaveTypeOK, SafeDisk, disk, Commit
  <2>2. CASE g \in Game
    <3>1. ram' = file[g].data /\ cart' = g /\ dirty' = FALSE
      BY <2>2 DEF Commit
    <3> QED BY <2>2, <3>1 DEF SaveSide, SaveTypeOK, SafeDisk, disk
  <2> QED BY <2>1, <2>2
<1>3. InSave'
  BY DEF InSave, Saving
<1> QED BY <1>1, <1>2, <1>3 DEF SaveSide

LEMMA GameWrites ==
  ASSUME SaveSide, Write, call = "none", UNCHANGED call
  PROVE  SaveSide'
<1>1. SaveTypeOK'
  BY DEF SaveSide, SaveTypeOK, disk, Write
<1>2. SafeDisk'
  BY DEF SaveSide, SaveTypeOK, SafeDisk, disk, Write
<1>3. InSave'
  BY DEF SaveSide, InSave, Saving, Write
<1> QED BY <1>1, <1>2, <1>3 DEF SaveSide

(* The calls of Save. *)
LEMMA SaveAdvances ==
  ASSUME SaveSide, SaveStep, UNCHANGED call
  PROVE  SaveSide'
<1> USE SaveFileAssumption DEF memory, Saving
<1>0. step \in Saving /\ dirty /\ cart \in Game /\ step # "idle"
  BY DEF SaveSide, InSave, SafeDisk, SaveStep, Create, WriteTemporary, Sync, Rename, Flush, Fail
<1>1. CASE Create \/ WriteTemporary \/ Sync \/ Fail
  <2>1. UNCHANGED <<memory, file, stable, promised>> /\ step' # "idle" /\ step' # "saved"
    BY <1>1 DEF Create, WriteTemporary, Sync, Fail
  <2>2. SafeDisk'
    BY <2>1 DEF SaveSide, SafeDisk
  <2>3. SaveTypeOK'
    <3>1. temp' \in {Empty, [temp EXCEPT !.data = ram], [temp EXCEPT !.synced = TRUE]}
      BY <1>1 DEF Create, WriteTemporary, Sync, Fail
    <3>2. temp' \in File
      <4>1. temp \in File /\ ram \in Nat
        BY DEF SaveSide, SaveTypeOK
      <4>2. CASE temp' = [temp EXCEPT !.data = ram]
        BY <4>1, <4>2 DEF File, Contents
      <4>3. CASE temp' = [temp EXCEPT !.synced = TRUE]
        BY <4>1, <4>3 DEF File
      <4> QED BY <3>1, <4>2, <4>3, EmptyIsFile
    <3>3. step' \in {"write", "sync", "rename", "failed"}
      BY <1>1 DEF Create, WriteTemporary, Sync, Fail
    <3> QED BY <2>1, <3>2, <3>3 DEF SaveSide, SaveTypeOK
  <2>4. InSave'
    BY <1>0, <1>1, <2>1 DEF SaveSide, SaveTypeOK, InSave, File, Create, WriteTemporary, Sync, Fail
  <2> QED BY <2>2, <2>3, <2>4 DEF SaveSide
<1>2. CASE Rename
  <2>1. temp = [data |-> ram, synced |-> TRUE]
    BY <1>2 DEF Rename, SaveSide, SaveTypeOK, InSave, File
  <2>2. /\ file' = [file EXCEPT ![cart] = [data |-> ram, synced |-> TRUE]]
        /\ temp' = Empty /\ step' = "flush"
        /\ UNCHANGED <<memory, stable, promised>>
    BY <1>2, <2>1 DEF Rename
  <2>3. SaveTypeOK'
    BY <2>2 DEF SaveSide, SaveTypeOK, File, Empty, Contents
  <2>4. SafeDisk'
    BY <1>0, <2>2 DEF SaveSide, SaveTypeOK, SafeDisk
  <2>5. InSave'
    BY <1>0, <2>2 DEF SaveSide, SaveTypeOK, InSave
  <2> QED BY <2>3, <2>4, <2>5 DEF SaveSide
<1>3. CASE Flush
  <2>1. file[cart].data = ram /\ file[cart].synced = TRUE
    BY <1>0, <1>3 DEF Flush, SaveSide, InSave, SafeDisk
  <2>2. /\ stable' = [stable EXCEPT ![cart] = ram]
        /\ promised' = [promised EXCEPT ![cart] = ram]
        /\ dirty' = FALSE /\ step' = "saved"
        /\ UNCHANGED <<cart, ram, writes, temp, file>>
    BY <1>3, <2>1 DEF Flush, OnMedium
  <2>3. SaveTypeOK'
    BY <2>2 DEF SaveSide, SaveTypeOK, Contents
  <2>4. SafeDisk'
    BY <1>0, <2>1, <2>2 DEF SaveSide, SaveTypeOK, SafeDisk
  <2>5. InSave'
    BY <1>0, <2>2 DEF SaveSide, InSave
  <2> QED BY <2>3, <2>4, <2>5 DEF SaveSide
<1> QED BY <1>1, <1>2, <1>3 DEF SaveStep

(* A file becomes permanent. *)
LEMMA BecomesStable ==
  ASSUME SaveSide, NEW g \in Game, Writeback(g)
  PROVE  /\ stable' = [stable EXCEPT ![g] = file[g].data]
         /\ UNCHANGED <<memory, step, temp, file, promised>>
BY DEF Writeback, OnMedium, SaveSide, SafeDisk

LEMMA SystemPreserves ==
  ASSUME SaveSide, NEW g \in Game, Writeback(g), UNCHANGED call
  PROVE  SaveSide'
<1>1. /\ stable' = [stable EXCEPT ![g] = file[g].data]
      /\ UNCHANGED <<memory, step, temp, file, promised>>
  BY BecomesStable
<1>2. SaveTypeOK'
  BY <1>1 DEF SaveSide, SaveTypeOK, SafeDisk, Contents, memory
<1>3. SafeDisk'
  BY <1>1 DEF SaveSide, SaveTypeOK, SafeDisk, memory
<1>4. InSave'
  BY <1>1 DEF SaveSide, InSave, memory
<1> QED BY <1>2, <1>3, <1>4 DEF SaveSide

(* The program ends. *)
LEMMA EndPreserves ==
  ASSUME SaveSide, Exit \/ PowerLoss, call' \in Ended
  PROVE  SaveSide'
<1> USE SaveFileAssumption
<1>1. /\ Forget
      /\ file' = file \/ file' = [g \in Game |-> [data |-> stable[g], synced |-> TRUE]]
  BY DEF Exit, PowerLoss
<1>2. SaveTypeOK'
  <2>1. file' \in [Game -> File]
    <3>1. CASE file' = file
      BY <3>1 DEF SaveSide, SaveTypeOK
    <3>2. CASE file' = [g \in Game |-> [data |-> stable[g], synced |-> TRUE]]
      BY <3>2 DEF SaveSide, SafeDisk, File, Contents
    <3> QED BY <1>1, <3>1, <3>2
  <2> QED BY <1>1, <2>1, EmptyIsFile DEF SaveSide, SaveTypeOK, Forget
<1>3. SafeDisk'
  <2>1. /\ cart' = NoCart /\ ram' = 0 /\ dirty' = FALSE
        /\ UNCHANGED <<writes, stable, promised>> /\ writes \in Nat
    BY <1>1 DEF SaveSide, SaveTypeOK, Forget
  <2>2. CASE file' = file
    BY <2>1, <2>2 DEF SaveSide, SaveTypeOK, SafeDisk
  <2>3. CASE file' = [g \in Game |-> [data |-> stable[g], synced |-> TRUE]]
    BY <2>1, <2>3 DEF SaveSide, SaveTypeOK, SafeDisk
  <2> QED BY <1>1, <2>2, <2>3
<1>4. InSave'
  BY <1>1 DEF InSave, Forget, Saving
<1> QED BY <1>2, <1>3, <1>4 DEF SaveSide

LEMMA SavePreserves ==
  ASSUME Inv, Next
  PROVE  SaveSide'
<1>1. SaveSide
  BY InvSave
<1>2. CASE Play
  BY <1>1, <1>2, GameWrites DEF Play, Playing
<1>3. CASE CommitGame
  <2>1. active /\ bios /\ current \in Game /\ staged = file[current].data /\ step = "idle"
    BY <1>3 DEF CommitGame, Playing, Inv, InSession, MachineMatches, InSave
  <2>2. Commit(current, staged) /\ step' = step /\ call' = "none" /\ UNCHANGED <<writes, disk>>
    BY <1>3 DEF CommitGame, Playing
  <2>3. current # NoCart
    BY <2>1, SaveFileAssumption
  <2> QED BY <1>1, <2>1, <2>2, <2>3, CommitsLatest
<1>4. CASE Start
  <2>1. next \in Prepared /\ step' = "idle" /\ call' = "none" /\ UNCHANGED <<writes, disk>>
    BY <1>4 DEF Start, Started, Returned, Inv, InSession
  <2>2. next.game \in Game /\ next.game # NoCart
    BY <2>1, SaveFileAssumption DEF Prepared
  <2>3. Commit(NoCart, 0) \/ Commit(next.game, file[next.game].data)
    BY <1>4 DEF Start, Started
  <2>4. CASE Commit(NoCart, 0)
    BY <1>1, <2>1, <2>4, CommitsLatest, SaveFileAssumption
  <2>5. CASE Commit(next.game, file[next.game].data)
    BY <1>1, <2>1, <2>2, <2>5, CommitsLatest
  <2> QED BY <2>3, <2>4, <2>5
<1>5. CASE Menu /\ ~Restart /\ ~ReturnLibrary /\ ~RequestQuit
  <2>1. UNCHANGED <<memory, step, disk>> /\ call' = call
    BY <1>5 DEF Menu, Pause, LoseFocus, ResumeGame, Released, OtherError, LeaveError,
                BeginLoad, LoadRefused, CancelLoad, KeepSession, Discard
  <2> QED BY <1>1, <2>1, QuietStep
<1>6. CASE Prepare \/ LoadCancelled \/ LoadFailed \/ Launch
  <2>1. /\ UNCHANGED <<memory, step, disk>>
        /\ call' = call \/ {call, call'} \subseteq {"none"} \union Ended
    BY <1>6 DEF Prepare, LoadCancelled, LoadFailed, Launch
  <2> QED BY <1>1, <2>1, QuietStep
<1>7. CASE Restart \/ ReturnLibrary \/ RequestQuit \/ StartLoaded \/ RestartPrepares
  <2>1. /\ Save /\ UNCHANGED <<memory, disk>>
        /\ call' \in {"start", "restart", "restarted", "library", "quit"}
    BY <1>7 DEF Restart, ReturnLibrary, RequestQuit, StartLoaded, RestartPrepares
  <2> QED BY <1>1, <2>1, CallsSave
<1>8. CASE StartFails \/ StopForLibrary \/ StopFails
  <2>1. (\E result : Returned(result)) /\ UNCHANGED <<memory, disk>>
    BY <1>8 DEF StartFails, StopForLibrary, StopFails
  <2> QED BY <1>1, <2>1, SaveReturns
<1>9. CASE SaveRuns
  BY <1>1, <1>9, SaveAdvances DEF SaveRuns
<1>10. CASE SystemWrites
  BY <1>1, <1>10, SystemPreserves DEF SystemWrites
<1>11. CASE Quit \/ DiscardConfirmed \/ Kill \/ LosePower
  <2>1. (Exit \/ PowerLoss) /\ call' \in Ended
    BY <1>11 DEF Quit, DiscardConfirmed, Kill, LosePower, End, Ended
  <2> QED BY <1>1, <2>1, EndPreserves
<1> QED BY <1>2, <1>3, <1>4, <1>5, <1>6, <1>7, <1>8, <1>9, <1>10, <1>11
        DEF Next, Polled, Continue, Menu

-----------------------------------------------------------------------------
(* The session's side. *)

SessionSide == SessionTypeOK /\ InSession

LEMMA CancelledType == \A load \in Loading : Cancelled(load) \in Loading
<1> SUFFICES ASSUME NEW load \in Loading, load # NoLoad
             PROVE  [load EXCEPT !.cancelled = TRUE] \in Loading
  BY DEF Cancelled
<1> QED BY DEF Loading

LEMMA SameTypes ==
  ASSUME SessionTypeOK,
         UNCHANGED <<active, paused, bios, current, staged, next>>,
         UNCHANGED <<page, pendingStop, neutral, call>>,
         loading' \in Loading
  PROVE  SessionTypeOK'
<1>1. /\ active' \in BOOLEAN /\ paused' \in BOOLEAN
      /\ bios' \in BOOLEAN /\ neutral' \in BOOLEAN
  <2>1. active' = active /\ paused' = paused /\ bios' = bios /\ neutral' = neutral
    BY Zenon
  <2>2. active \in BOOLEAN /\ paused \in BOOLEAN /\ bios \in BOOLEAN /\ neutral \in BOOLEAN
    BY Zenon DEF SessionTypeOK
  <2> QED BY <2>1, <2>2, Zenon
<1>2. /\ current' = current /\ staged' = staged /\ next' = next
      /\ page' = page /\ pendingStop' = pendingStop /\ call' = call
  BY Zenon
<1> QED BY <1>1, <1>2, Zenon DEF SessionTypeOK

LEMMA LoadParts ==
  \A load \in Loading : load.state # "none" =>
    load \in [state : {"running", "ready", "failed"}, cancelled : BOOLEAN,
              prepared : Prepared]
BY DEF Loading, NoLoad

LEMMA ReadyLoad ==
  ASSUME NEW load \in [state : {"running", "ready", "failed"}, cancelled : BOOLEAN,
                       prepared : Prepared],
         NEW data \in Contents
  PROVE  [load EXCEPT !.state = "ready", !.prepared.data = data] \in Loading
<1>1. [load.prepared EXCEPT !.data = data] \in Prepared
  BY DEF Prepared
<1>2. ASSUME NEW ready \in Prepared
      PROVE  [load EXCEPT !.state = "ready", !.prepared = ready] \in Loading
  BY DEF Loading
<1>3. [load EXCEPT !.state = "ready", !.prepared.data = data]
        = [load EXCEPT !.state = "ready",
                       !.prepared = [load.prepared EXCEPT !.data = data]]
  OBVIOUS
<1> QED BY <1>1, <1>2, <1>3

(* A step of the pages, or the call of an operation. *)
LEMMA ScreenStep ==
  ASSUME Inv, UNCHANGED <<memory, disk, active, bios, current, staged, next>>,
         \/ call' = call
         \/ call' \in {"none", "library", "quit"}
         \/ call' = "restart" /\ active
  PROVE  InSession'
BY DEF Inv, InSession, MachineMatches, memory, disk

LEMMA MenuPreserves ==
  ASSUME Inv, Menu
  PROVE  SessionSide'
<1>1. InSession'
  <2>1. /\ UNCHANGED <<memory, disk, active, bios, current, staged, next>>
        /\ \/ call' = call
           \/ call' \in {"none", "library", "quit"}
           \/ call' = "restart" /\ active
    BY DEF Menu, Pause, LoseFocus, ResumeGame, Released, OtherError, Error, LeaveError,
           BeginLoad, LoadRefused, CancelLoad, Restart, ReturnLibrary, RequestQuit,
           KeepSession, Discard, session
  <2> QED BY <2>1, ScreenStep
<1>2. SessionTypeOK /\ UNCHANGED <<active, bios, current, staged, next>>
  BY DEF Inv, TypeOK, Menu, Pause, LoseFocus, ResumeGame, Released, OtherError, Error, LeaveError,
         BeginLoad, LoadRefused, CancelLoad, Restart, ReturnLibrary, RequestQuit,
         KeepSession, Discard, session
<1>3. loading' \in Loading
  <2>1. loading \in Loading
    BY <1>2 DEF SessionTypeOK
  <2>2. ASSUME NEW g \in Game, NEW showBios \in BOOLEAN, BeginLoad(g, showBios)
        PROVE  loading' \in Loading
    BY <2>2 DEF BeginLoad, Loading, Prepared, Contents
  <2>3. CASE CancelLoad \/ RequestQuit
    BY <2>1, <2>3, CancelledType DEF CancelLoad, RequestQuit
  <2>4. loading' = loading \/ CancelLoad \/ RequestQuit
          \/ \E g \in Game, showBios \in BOOLEAN : BeginLoad(g, showBios)
    BY DEF Menu, Pause, LoseFocus, ResumeGame, Released, OtherError, LeaveError,
           LoadRefused, Restart, ReturnLibrary, KeepSession, Discard
  <2> QED BY <2>1, <2>2, <2>3, <2>4
<1>4. /\ paused' \in BOOLEAN /\ neutral' \in BOOLEAN
      /\ page' \in {"library", "paused", "loading", "error", "savefailure", "confirm"}
      /\ pendingStop' = pendingStop
      /\ call' \in {call, "restart", "library", "quit"}
  <2>1. /\ paused \in BOOLEAN /\ neutral \in BOOLEAN
        /\ page \in {"library", "paused", "loading", "error", "savefailure", "confirm"}
    BY <1>2 DEF SessionTypeOK
  <2> QED BY <2>1
          DEF Menu, Pause, LoseFocus, ResumeGame, Released, OtherError, Error, LeaveError,
              BeginLoad, LoadRefused, CancelLoad, Restart, ReturnLibrary, RequestQuit,
              KeepSession, Discard, session, screen, Home
<1> QED BY <1>1, <1>2, <1>3, <1>4 DEF SessionSide, SessionTypeOK

(* The preparation and its result. *)
LEMMA LoadPreserves ==
  ASSUME Inv, Prepare \/ Polled
  PROVE  SessionSide'
<1> SessionTypeOK /\ SaveTypeOK /\ InSession
  BY DEF Inv, TypeOK
<1>1. CASE Prepare
  <2>1. InSession'
    BY <1>1, ScreenStep DEF Prepare, session
  <2>2. loading \in [state : {"running", "ready", "failed"}, cancelled : BOOLEAN,
                     prepared : Prepared]
    <3>1. loading \in Loading
      BY DEF SessionTypeOK
    <3>2. loading.state = "running"
      BY <1>1 DEF Prepare
    <3> QED BY <3>1, <3>2, LoadParts
  <2>3. loading.prepared \in Prepared /\ loading.prepared.game \in Game
    BY <2>2 DEF Prepared
  <2>4. file[loading.prepared.game].data \in Contents
    BY <2>3 DEF SaveTypeOK, File
  <2>5. loading' \in Loading
    <3>1. CASE loading' = [loading EXCEPT !.state = "failed"]
      BY <2>2, <3>1 DEF Loading
    <3>2. CASE loading' = [loading EXCEPT !.state = "ready",
                             !.prepared.data = file[loading.prepared.game].data]
      BY <2>2, <2>4, <3>2, ReadyLoad
    <3> QED BY <1>1, <3>1, <3>2 DEF Prepare
  <2>6. /\ UNCHANGED <<active, paused, bios, current, staged, next>>
        /\ UNCHANGED <<page, pendingStop, neutral, call>>
    BY <1>1 DEF Prepare, session, screen
  <2>7. SessionTypeOK'
    BY <2>5, <2>6, SameTypes
  <2> QED BY <2>1, <2>7 DEF SessionSide
<1>2. CASE LoadCancelled \/ LoadFailed
  <2>1. InSession'
    BY <1>2, ScreenStep DEF LoadCancelled, LoadFailed, Error, session
  <2> QED BY <1>2, <2>1
          DEF LoadCancelled, LoadFailed, Error, SessionSide, SessionTypeOK, session, Loading, Home
<1>3. CASE StartLoaded
  <2>1. loading.prepared \in Prepared
    <3>1. loading \in Loading
      BY DEF SessionTypeOK
    <3>2. loading.state = "ready"
      BY <1>3 DEF StartLoaded
    <3> QED BY <3>1, <3>2, LoadParts
  <2>2. /\ next' = loading.prepared /\ call' = "start" /\ paused' = TRUE /\ loading' = NoLoad
        /\ UNCHANGED <<memory, disk, active, bios, current, staged, screen>>
    BY <1>3 DEF StartLoaded
  <2>3. InSession'
    BY <2>1, <2>2 DEF InSession, MachineMatches, memory, disk
  <2> QED BY <2>1, <2>2, <2>3 DEF SessionSide, SessionTypeOK, screen, Loading
<1> QED BY <1>1, <1>2, <1>3 DEF Polled

(* A start, restart or stop goes on after Save has returned, or the program *)
(* ends.                                                                    *)
LEMMA ContinuePreserves ==
  ASSUME Inv, SaveSide', Continue
  PROVE  SessionSide'
<1> SessionTypeOK /\ SaveSide /\ InSession
  BY InvSave DEF Inv, TypeOK
<1>1. CASE Start
  <2>1. next \in Prepared
    BY <1>1 DEF Start, InSession
  <2>2. /\ next.game \in Game /\ next.bios \in BOOLEAN /\ next.game # NoCart
        /\ file[next.game].data \in Nat
    BY <2>1, SaveFileAssumption DEF Prepared, SaveSide, SafeDisk
  <2>3. /\ current' = next.game /\ bios' = next.bios /\ active' = TRUE
        /\ page' = "library" /\ next' = NoGame /\ call' = "none"
        /\ paused' \in BOOLEAN /\ neutral' \in BOOLEAN
        /\ UNCHANGED <<file, pendingStop, loading>>
    BY <1>1 DEF Start, Started, Returned, disk
  <2>4. /\ next.bios => cart' = NoCart /\ dirty' = FALSE /\ staged' = file[next.game].data
        /\ ~next.bios => /\ cart' = next.game /\ dirty' = FALSE
                         /\ ram' = file[next.game].data /\ staged' = Moved
    BY <1>1 DEF Start, Started, Commit
  <2>5. InSession'
    BY <2>2, <2>3, <2>4 DEF InSession, MachineMatches
  <2>6. staged' \in Contents \union {Moved}
    BY <2>2, <2>4 DEF Contents
  <2>7. SessionTypeOK'
    BY <2>2, <2>3, <2>6 DEF SessionTypeOK
  <2> QED BY <2>5, <2>7 DEF SessionSide
<1>2. CASE RestartPrepares
  <2>1. current \in Game /\ file[current].data \in Nat
    BY <1>2 DEF RestartPrepares, InSession, SaveSide, SafeDisk
  <2>2. next' \in Prepared /\ call' = "restarted"
    BY <1>2, <2>1 DEF RestartPrepares, Prepared, Contents
  <2>3. /\ UNCHANGED <<memory, disk, active, paused, bios, current, staged, loading>>
        /\ UNCHANGED <<page, pendingStop, neutral>>
    BY <1>2 DEF RestartPrepares, screen
  <2>4. InSession'
    BY <2>2, <2>3 DEF InSession, MachineMatches, memory, disk
  <2>5. SessionTypeOK'
    BY <2>2, <2>3 DEF SessionTypeOK
  <2> QED BY <2>4, <2>5 DEF SessionSide
<1>3. CASE StartFails
  <2>1. /\ UNCHANGED <<memory, disk, active, bios, current, staged, loading>>
        /\ next' = NoGame /\ call' = "none" /\ paused' = TRUE /\ page' = "error"
        /\ UNCHANGED <<pendingStop, neutral>>
    BY <1>3 DEF StartFails, Returned, Error
  <2>2. InSession'
    BY <2>1 DEF InSession, MachineMatches, memory, disk
  <2>3. SessionTypeOK'
    BY <2>1 DEF SessionTypeOK
  <2> QED BY <2>2, <2>3 DEF SessionSide
<1>4. CASE StopForLibrary
  <2>1. /\ UNCHANGED <<memory, disk, paused, current, staged, next, pendingStop, loading>>
        /\ active' = FALSE /\ bios' = FALSE /\ neutral' = FALSE
        /\ page' = "library" /\ call' = "none" /\ step = "saved"
    BY <1>4 DEF StopForLibrary, Returned
  <2>2. ~dirty
    BY <2>1 DEF SaveSide, InSave
  <2>3. InSession'
    BY <2>1, <2>2 DEF InSession, MachineMatches, memory, disk
  <2>4. SessionTypeOK'
    BY <2>1 DEF SessionTypeOK
  <2> QED BY <2>3, <2>4 DEF SessionSide
<1>5. CASE StopFails
  <2>1. /\ UNCHANGED <<memory, disk, active, bios, current, staged, next>>
        /\ UNCHANGED <<paused, neutral, loading>>
        /\ call' = "none" /\ page' = "savefailure" /\ pendingStop' \in {"library", "quit"}
    BY <1>5 DEF StopFails, Returned, session
  <2>2. InSession'
    BY <2>1, ScreenStep
  <2>3. SessionTypeOK'
    BY <2>1 DEF SessionTypeOK
  <2> QED BY <2>2, <2>3 DEF SessionSide
<1> QED BY <1>1, <1>2, <1>3, <1>4, <1>5 DEF Continue

LEMMA EndPreservesSession ==
  ASSUME Inv, SaveSide',
         Quit \/ DiscardConfirmed \/ Kill \/ LosePower \/ Launch
  PROVE  SessionSide'
<1> SessionTypeOK /\ InSession
  BY DEF Inv, TypeOK
<1>1. CASE Launch
  <2>1. /\ UNCHANGED <<memory, disk, active, bios, current, staged, next>>
        /\ UNCHANGED <<paused, page, pendingStop, neutral, loading>>
        /\ call' = "none"
    BY <1>1 DEF Launch, session, screen
  <2>2. InSession'
    BY <2>1, ScreenStep
  <2>3. SessionTypeOK'
    BY <2>1 DEF SessionTypeOK
  <2> QED BY <2>2, <2>3 DEF SessionSide
<1>2. CASE Quit \/ DiscardConfirmed \/ Kill \/ LosePower
  <2>1. /\ cart' = NoCart /\ dirty' = FALSE /\ active' = FALSE /\ paused' = TRUE
        /\ bios' = FALSE /\ current' = NoCart /\ staged' = Moved /\ next' = NoGame
        /\ call' \in Ended /\ loading' = NoLoad /\ page' = "library"
        /\ pendingStop' = "" /\ neutral' = FALSE
    BY <1>2 DEF Quit, DiscardConfirmed, Kill, LosePower, Exit, PowerLoss, Forget, End, Ended
  <2>2. InSession'
    BY <2>1, SaveFileAssumption DEF InSession, MachineMatches, Ended
  <2>3. SessionTypeOK'
    BY <2>1 DEF SessionTypeOK, Loading, Ended
  <2> QED BY <2>2, <2>3 DEF SessionSide
<1> QED BY <1>1, <1>2

(* The game runs, Save runs, or the system writes. *)
LEMMA MachinePreserves ==
  ASSUME Inv, SaveSide', Play \/ CommitGame \/ SaveRuns \/ SystemWrites
  PROVE  SessionSide'
<1> SessionTypeOK /\ SaveSide /\ InSession
  BY InvSave DEF Inv, TypeOK
<1> USE SaveFileAssumption
<1>1. cart' # NoCart /\ ~dirty' => ram' = file'[cart'].data
  BY DEF SaveSide, SafeDisk, SaveTypeOK
<1>2. CASE Play
  <2>1. /\ UNCHANGED <<cart, file, active, bios, current, staged, next>>
        /\ UNCHANGED <<paused, page, pendingStop, neutral, loading, call>>
        /\ active /\ ~bios
    BY <1>2 DEF Play, Playing, Write, session, screen, disk
  <2>2. InSession'
    BY <1>1, <2>1 DEF InSession, MachineMatches
  <2>3. SessionTypeOK'
    BY <2>1 DEF SessionTypeOK
  <2> QED BY <2>2, <2>3 DEF SessionSide
<1>3. CASE CommitGame
  <2>1. /\ UNCHANGED <<file, active, current, next>>
        /\ UNCHANGED <<paused, page, pendingStop, neutral, loading, call>>
        /\ cart' = current /\ bios' = FALSE /\ staged' = Moved /\ active
    BY <1>3 DEF CommitGame, Playing, Commit, screen, disk
  <2>2. InSession'
    BY <1>1, <2>1 DEF InSession, MachineMatches
  <2>3. SessionTypeOK'
    BY <2>1 DEF SessionTypeOK
  <2> QED BY <2>2, <2>3 DEF SessionSide
<1>4. CASE SaveRuns
  <2>1. /\ UNCHANGED <<cart, active, bios, current, staged, next>>
        /\ UNCHANGED <<paused, page, pendingStop, neutral, loading, call>>
    BY <1>4 DEF SaveRuns, SaveStep, Create, WriteTemporary, Sync, Rename, Flush, Fail,
                memory, session, screen
  <2>2. cart \in Game /\ dirty
    BY <1>4 DEF SaveRuns, SaveStep, Create, WriteTemporary, Sync, Rename, Flush, Fail,
                SaveSide, InSave, SafeDisk, Saving
  <2>3. InSession'
    BY <1>1, <2>1, <2>2 DEF InSession, MachineMatches
  <2>4. SessionTypeOK'
    <3>1. loading' \in Loading
      BY <2>1 DEF SessionTypeOK
    <3> QED BY <2>1, <3>1, SameTypes
  <2> QED BY <2>3, <2>4 DEF SessionSide
<1>5. CASE SystemWrites
  <2>1. /\ UNCHANGED <<memory, active, bios, current, staged, next, file>>
        /\ UNCHANGED <<paused, page, pendingStop, neutral, loading, call>>
    BY <1>5 DEF SystemWrites, Writeback, session, screen
  <2>2. InSession'
    BY <2>1 DEF InSession, MachineMatches, memory
  <2>3. SessionTypeOK'
    <3>1. loading' \in Loading
      BY <2>1 DEF SessionTypeOK
    <3> QED BY <2>1, <3>1, SameTypes
  <2> QED BY <2>2, <2>3 DEF SessionSide
<1> QED BY <1>2, <1>3, <1>4, <1>5

LEMMA NextInv == Inv /\ [Next]_vars => Inv'
<1> SUFFICES ASSUME Inv, [Next]_vars PROVE Inv'
  OBVIOUS
<1>1. CASE Next
  <2>1. SaveSide'
    BY <1>1, SavePreserves
  <2>2. SessionSide'
    BY <1>1, <2>1, MachinePreserves, MenuPreserves, LoadPreserves, ContinuePreserves,
       EndPreservesSession DEF Next
  <2> QED BY <2>1, <2>2 DEF Inv, TypeOK, SaveSide, SessionSide
<1>2. CASE UNCHANGED vars
  <2>1. /\ UNCHANGED <<memory, step, disk, call>>
        /\ UNCHANGED <<active, paused, bios, current, staged, next>>
        /\ UNCHANGED <<page, pendingStop, neutral, loading>>
    BY <1>2 DEF vars, session, screen
  <2>2. SaveSide'
    BY <2>1, InvSave, QuietStep
  <2>3. InSession'
    BY <2>1, ScreenStep
  <2>4. SessionTypeOK'
    <3>1. SessionTypeOK /\ loading' \in Loading
      BY <2>1 DEF Inv, TypeOK, SessionTypeOK
    <3> QED BY <2>1, <3>1, SameTypes
  <2> QED BY <2>2, <2>3, <2>4 DEF Inv, TypeOK, SaveSide
<1> QED BY <1>1, <1>2

THEOREM Invariance == Spec => []Inv
  BY InitInv, NextInv, PTL DEF Spec

-----------------------------------------------------------------------------
(* The properties. *)

(* Every variable keeps its type; in particular Cartridge::Save never       *)
(* reports a memory as saved that was not written to its end.               *)
THEOREM TypeCorrect == Spec => []TypeOK
<1>1. Inv => TypeOK
  BY DEF Inv
<1> QED BY <1>1, Invariance, PTL

(* A save that was reported as done survives every later failure, kill and  *)
(* loss of power.                                                           *)
THEOREM SavedSurvives == Spec => []SavedIsKept
<1>1. Inv => SavedIsKept
  BY DEF Inv, SafeDisk, SavedIsKept
<1> QED BY <1>1, Invariance, PTL

(* The machine holds the session's game with its latest memory, whatever    *)
(* fails in the middle of an operation.                                     *)
THEOREM SessionConsistent == Spec => []MachineMatches
<1>1. Inv => MachineMatches
  BY DEF Inv, InSession
<1> QED BY <1>1, Invariance, PTL

(* Unsaved memory leaves the machine only with the whole program.           *)
THEOREM UnsavedSurvives == Spec => UnsavedIsKept
<1> DEFINE Kept == dirty /\ ~(dirty' /\ cart' = cart) =>
                     stable'[cart] = ram \/ call' \in {"killed", "discarded"}
<1>1. ASSUME Inv, Next PROVE Kept
  <2> SUFFICES ASSUME dirty, ~(dirty' /\ cart' = cart)
               PROVE  stable'[cart] = ram \/ call' \in {"killed", "discarded"}
    OBVIOUS
  <2>1. cart \in Game /\ step # "saved" /\ active
    BY <1>1 DEF Inv, SafeDisk, InSave, InSession, MachineMatches
  <2>2. ~Start /\ ~Quit
    BY <1>1, <2>1 DEF Start, Returned, Quit
  <2>3. ~CommitGame
    BY <1>1, <2>1, SaveFileAssumption DEF CommitGame, Inv, InSession, MachineMatches
  <2>4. (dirty' = dirty /\ cart' = cart) \/ CommitGame \/ Start \/ Quit \/ Flush
          \/ DiscardConfirmed \/ Kill \/ LosePower
    BY <1>1 DEF Next, Play, Write, Menu, Pause, LoseFocus, ResumeGame, Released, OtherError,
                LeaveError, BeginLoad, LoadRefused, CancelLoad, Restart, ReturnLibrary,
                RequestQuit, KeepSession, Discard, Prepare, Polled, LoadCancelled, LoadFailed,
                StartLoaded, SaveRuns, SaveStep, Create, WriteTemporary, Sync, Rename, Fail,
                Continue, RestartPrepares, StartFails, StopForLibrary, StopFails, SystemWrites,
                Writeback, Launch, memory
  <2>5. CASE Flush
    <3>1. file[cart].data = ram /\ file[cart].synced = TRUE
      BY <1>1, <2>1, <2>5 DEF Flush, Inv, InSave, SafeDisk
    <3>2. stable' = [stable EXCEPT ![cart] = ram]
      BY <2>5, <3>1 DEF Flush, OnMedium
    <3> QED BY <1>1, <2>1, <3>2 DEF Inv, TypeOK, SaveTypeOK
  <2>6. CASE DiscardConfirmed \/ Kill \/ LosePower
    BY <2>6 DEF DiscardConfirmed, Kill, LosePower, End
  <2> QED BY <2>2, <2>3, <2>4, <2>5, <2>6
<1>2. ASSUME UNCHANGED vars PROVE Kept
  BY <1>2 DEF vars, memory
<1>3. Inv /\ [Next]_vars => [Kept]_vars
  BY <1>1, <1>2
<1> QED BY <1>3, Invariance, PTL DEF Spec, UnsavedIsKept

-----------------------------------------------------------------------------
(* The session implements BatteryMemory. *)

LEMMA PromiseInit == Init => Battery!Init
<1> SUFFICES ASSUME Init PROVE Battery!Init
  OBVIOUS
<1>1. Shown = [g \in Game |-> 0]
  BY DEF Init, SaveInit, Shown
<1> QED BY <1>1 DEF Init, SaveInit, Battery!Init

(* The steps that touch neither memory nor files. *)
LEMMA PromiseStutters ==
  ASSUME UNCHANGED <<cart, ram, dirty, file, stable>>
  PROVE  UNCHANGED Battery!vars
BY DEF Battery!vars, Shown

LEMMA PromiseEnds ==
  ASSUME Inv, Exit \/ PowerLoss
  PROVE  Battery!Lose
<1>1. cart' = NoCart /\ ram' = 0 /\ dirty' = FALSE /\ UNCHANGED stable
  BY DEF Exit, PowerLoss, Forget
<1>2. CASE Exit
  <2>1. Shown' = Shown
    BY <1>2 DEF Exit, Shown
  <2> QED BY <1>1, <2>1 DEF Battery!Lose
<1>3. CASE PowerLoss
  <2>1. Shown' = [g \in Game |-> stable[g]]
    BY <1>3 DEF PowerLoss, Shown
  <2>2. stable = [g \in Game |-> stable[g]]
    BY DEF Inv, TypeOK, SaveTypeOK
  <2> QED BY <1>1, <2>1, <2>2 DEF Battery!Lose
<1> QED BY <1>2, <1>3

LEMMA PromiseSaves ==
  ASSUME Inv, SaveStep
  PROVE  Battery!Next \/ UNCHANGED Battery!vars
<1>0. cart \in Game /\ dirty
  BY DEF Inv, InSave, SafeDisk, SaveStep, Create, WriteTemporary, Sync, Rename, Flush, Fail, Saving
<1>1. CASE Create \/ WriteTemporary \/ Sync \/ Fail
  <2>1. UNCHANGED <<cart, ram, dirty, file, stable>>
    BY <1>1 DEF Create, WriteTemporary, Sync, Fail, memory
  <2> QED BY <2>1, PromiseStutters
<1>2. CASE Rename
  <2>1. file' = [file EXCEPT ![cart] = temp] /\ temp.data = ram
        /\ UNCHANGED <<cart, ram, dirty, stable>>
    BY <1>2 DEF Rename, Inv, InSave, memory
  <2>2. Shown' = [Shown EXCEPT ![cart] = ram]
    BY <1>0, <2>1 DEF Shown, Inv, TypeOK, SaveTypeOK
  <2> QED BY <1>0, <2>1, <2>2 DEF Battery!Next, Battery!Publish
<1>3. CASE Flush
  <2>1. file[cart].data = ram /\ file[cart].synced = TRUE
    BY <1>0, <1>3 DEF Flush, Inv, InSave, SafeDisk
  <2>2. /\ stable' = [stable EXCEPT ![cart] = ram]
        /\ dirty' = FALSE
        /\ UNCHANGED <<cart, ram, file>>
    BY <1>3, <2>1 DEF Flush, OnMedium
  <2>3. Shown[cart] = ram /\ Shown' = Shown
    BY <1>0, <2>1, <2>2 DEF Shown
  <2> QED BY <1>0, <2>2, <2>3 DEF Battery!Next, Battery!Acknowledge
<1> QED BY <1>1, <1>2, <1>3 DEF SaveStep

LEMMA PromiseStep ==
  ASSUME Inv, [Next]_vars
  PROVE  Battery!Next \/ UNCHANGED Battery!vars
<1> USE SaveFileAssumption
<1>1. CASE Play
  <2>1. /\ cart \in Game /\ ram' = writes + 1 /\ dirty' = TRUE
        /\ UNCHANGED <<cart, file, stable>>
    BY <1>1 DEF Play, Write, disk
  <2>2. Shown' = Shown
    BY <2>1 DEF Shown
  <2>3. \A g \in Game : Shown[g] < ram' /\ stable[g] < ram'
    BY <2>1 DEF Inv, TypeOK, SaveTypeOK, SafeDisk, Shown
  <2>4. ram' \in Nat
    BY <2>1 DEF Inv, TypeOK, SaveTypeOK
  <2> QED BY <2>1, <2>2, <2>3, <2>4 DEF Battery!Next, Battery!Write
<1>2. ASSUME NEW g \in Game \union {NoCart}, NEW data, Commit(g, data), ~dirty,
             UNCHANGED <<file, stable>>,
             g \in Game => data = file[g].data,
             g = NoCart => data = 0
      PROVE  Battery!Next
  <2>1. Shown' = Shown
    BY <1>2 DEF Shown
  <2>2. cart' = g /\ dirty' = FALSE /\ ram' = IF g = NoCart THEN 0 ELSE Shown[g]
    BY <1>2 DEF Commit, Shown
  <2>3. dirty = FALSE
    BY <1>2 DEF Inv, TypeOK, SaveTypeOK
  <2> QED BY <1>2, <2>1, <2>2, <2>3 DEF Battery!Next, Battery!Replace
<1>3. CASE CommitGame
  <2>1. current \in Game /\ staged = file[current].data /\ ~dirty
    BY <1>3 DEF CommitGame, Playing, Inv, InSession, MachineMatches, SafeDisk
  <2>2. Commit(current, staged) /\ UNCHANGED <<file, stable>> /\ current # NoCart
    BY <1>3, <2>1 DEF CommitGame, disk
  <2> QED BY <1>2, <2>1, <2>2
<1>4. CASE Start
  <2>1. next \in Prepared /\ ~dirty /\ UNCHANGED <<file, stable>>
    BY <1>4 DEF Start, Started, Returned, Inv, InSession, InSave, disk
  <2>2. next.game \in Game /\ next.game # NoCart
    BY <2>1 DEF Prepared
  <2>3. Commit(NoCart, 0) \/ Commit(next.game, file[next.game].data)
    BY <1>4 DEF Start, Started
  <2>4. CASE Commit(NoCart, 0)
    BY <1>2, <2>1, <2>4
  <2>5. CASE Commit(next.game, file[next.game].data)
    BY <1>2, <2>1, <2>2, <2>5
  <2> QED BY <2>3, <2>4, <2>5
<1>5. CASE SaveRuns
  BY <1>5, PromiseSaves DEF SaveRuns
<1>6. CASE SystemWrites
  <2>1. PICK g \in Game : Writeback(g)
    BY <1>6 DEF SystemWrites
  <2>2. /\ stable' = [stable EXCEPT ![g] = file[g].data]
        /\ UNCHANGED <<cart, ram, dirty, file>>
    BY <2>1, BecomesStable, InvSave DEF memory
  <2>3. Shown[g] = file[g].data /\ Shown' = Shown
    BY <2>2 DEF Shown
  <2> QED BY <2>2, <2>3 DEF Battery!Next, Battery!Settle
<1>7. CASE Quit \/ DiscardConfirmed \/ Kill \/ LosePower
  BY <1>7, PromiseEnds DEF Quit, DiscardConfirmed, Kill, LosePower, Battery!Next
<1>8. CASE Menu \/ Prepare \/ Polled \/ Launch \/ RestartPrepares \/ StartFails
             \/ StopForLibrary \/ StopFails \/ UNCHANGED vars
  <2>1. UNCHANGED <<cart, ram, dirty, file, stable>>
    BY <1>8 DEF Menu, Pause, LoseFocus, ResumeGame, Released, OtherError,
                LeaveError, BeginLoad, LoadRefused, CancelLoad, Restart, ReturnLibrary,
                RequestQuit, KeepSession, Discard, Prepare, Polled, LoadCancelled, LoadFailed,
                StartLoaded, RestartPrepares, StartFails, StopForLibrary, StopFails, Launch,
                vars, memory, disk
  <2> QED BY <2>1, PromiseStutters
<1> QED BY <1>1, <1>3, <1>4, <1>5, <1>6, <1>7, <1>8 DEF Next, Continue

(* Battery memory is published whole, acknowledged when it is permanent,    *)
(* replaced only when it is saved and loaded as its file holds it: the      *)
(* session implements BatteryMemory.                                        *)
THEOREM KeepsThePromise == Spec => KeepsBattery
<1>1. Inv /\ [Next]_vars => [Battery!Next]_(Battery!vars)
  BY PromiseStep
<1> QED BY <1>1, PromiseInit, Invariance, PTL DEF Spec, KeepsBattery, Battery!Spec
=============================================================================
