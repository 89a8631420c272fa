------------------------------ MODULE Session ------------------------------
(***************************************************************************)
(* The session around a game: how the application (src/frontend/           *)
(* application.cpp) prepares a game on a worker thread and starts,         *)
(* restarts, stops and abandons it through Session (session.cpp), which    *)
(* calls Cartridge::Save each time before it lets go of a cartridge.       *)
(*                                                                         *)
(* The application has one thread: from a call of Save to its return only  *)
(* the worker, the system and the player's power supply take steps. Pages  *)
(* that treat the session alike are one page here: "library" is the        *)
(* library and, with a session, the running game; "paused" the pause menu  *)
(* and the pages opened from it.                                           *)
(***************************************************************************)
EXTENDS SaveFile

VARIABLES
  active, paused, bios, \* Session's flags
  current,    \* current_: the session's game
  staged,     \* current_.cartridge: the memory that CommitGame will load,
              \* Moved when it has done so
  next,       \* the prepared game in Start and Restart
  call,       \* what runs on the application's thread; "none": its loop;
              \* one of Ended: there is no process, and how the last one ended
  loading,    \* the worker's preparation, loadCancel_ with it
  page,
  pendingStop,\* pendingStop_: what to retry when a save has failed
  neutral     \* neutralResume_: resume when the controls are released

session == <<active, paused, bios, current, staged, next>>
screen  == <<page, pendingStop, neutral>>
vars    == <<memory, step, disk, session, screen, call, loading>>

NoLoad == [state |-> "none"]
Prepared == [game : Game, bios : BOOLEAN, data : Contents]
Loading ==
  {NoLoad} \union [state : {"running", "ready", "failed"}, cancelled : BOOLEAN,
                   prepared : Prepared]
Ended == {"exited", "discarded", "killed"}
Moved == NoCart
NoGame == [game |-> NoCart, bios |-> FALSE, data |-> 0]

SessionTypeOK ==
  /\ active \in BOOLEAN
  /\ paused \in BOOLEAN
  /\ bios \in BOOLEAN
  /\ current \in Game \union {NoCart}
  /\ staged \in Contents \union {Moved}
  /\ next \in Prepared \union {NoGame}
  /\ call \in {"none", "start", "restart", "restarted", "library", "quit"} \union
              Ended
  /\ loading \in Loading
  /\ page \in {"library", "paused", "loading", "error", "savefailure", "confirm"}
  /\ pendingStop \in {"", "library", "quit"}
  /\ neutral \in BOOLEAN

TypeOK == SaveTypeOK /\ SessionTypeOK

Init ==
  /\ SaveInit
  /\ active = FALSE
  /\ paused = TRUE
  /\ bios = FALSE
  /\ current = NoCart
  /\ staged = Moved
  /\ next = NoGame
  /\ call = "none"
  /\ loading = NoLoad
  /\ page = "library"
  /\ pendingStop = ""
  /\ neutral = FALSE

Cancelled(load) ==
  IF load = NoLoad THEN NoLoad ELSE [load EXCEPT !.cancelled = TRUE]

Home == IF active THEN "paused" ELSE "library"

(* Application::Error: the session is paused, neutralResume_ is left alone. *)
(* The page's errorBack_ is Home in every call that concerns the session.   *)
Error ==
  /\ paused' = TRUE
  /\ page' = "error"
  /\ UNCHANGED <<pendingStop, neutral>>

-----------------------------------------------------------------------------
(* The game and its menu. *)

(* Session::Step in a frame in which the game writes its battery memory. *)
Playing == call = "none" /\ active /\ ~paused /\ page = "library"

Play ==
  /\ Playing
  /\ ~bios
  /\ Write
  /\ UNCHANGED <<session, screen, call, loading>>

(* Session::CommitGame: the BIOS has ended or is skipped. *)
CommitGame ==
  /\ Playing
  /\ bios
  /\ Commit(current, staged)
  /\ bios' = FALSE
  /\ staged' = Moved
  /\ UNCHANGED <<writes, step, disk, active, paused, current, next, screen,
                 call, loading>>

(* The menu key, or the window loses the focus. *)
Pause ==
  /\ Playing
  /\ paused' = TRUE
  /\ page' = "paused"
  /\ neutral' = FALSE
  /\ UNCHANGED <<memory, step, disk, active, bios, current, staged, next,
                 pendingStop, call, loading>>

(* The window loses the focus on any page. *)
LoseFocus ==
  /\ call = "none"
  /\ neutral' = FALSE
  /\ IF active /\ ~paused
       THEN paused' = TRUE /\ page' = "paused"
       ELSE UNCHANGED <<paused, page>>
  /\ UNCHANGED <<memory, step, disk, active, bios, current, staged, next,
                 pendingStop, call, loading>>

ResumeGame ==
  /\ call = "none"
  /\ active
  /\ page = "paused" \/ (page = "library" /\ paused)
  /\ page' = "library"
  /\ paused' = TRUE
  /\ neutral' = TRUE
  /\ UNCHANGED <<memory, step, disk, active, bios, current, staged, next,
                 pendingStop, call, loading>>

(* The main loop finds the controls released, on whatever page. *)
Released ==
  /\ call = "none"
  /\ neutral
  /\ neutral' = FALSE
  /\ paused' = (paused /\ ~active)
  /\ UNCHANGED <<memory, step, disk, active, bios, current, staged, next,
                 page, pendingStop, call, loading>>

(* An operation of these pages that does not concern the session fails. *)
OtherError ==
  /\ call = "none"
  /\ page \in {"library", "paused"}
  /\ Error
  /\ UNCHANGED <<memory, step, disk, active, bios, current, staged, next,
                 call, loading>>

LeaveError ==
  /\ call = "none"
  /\ page = "error"
  /\ page' = Home
  /\ UNCHANGED <<memory, step, disk, session, pendingStop, neutral,
                 call, loading>>

-----------------------------------------------------------------------------
(* Preparing a game on the worker. *)

(* Pages from which a game can be opened: the library too, unless a game   *)
(* runs there or waits for released controls; a paused one stays there when *)
(* the focus is lost during that wait.                                      *)
Choosing ==
  \/ page \in {"paused", "error"}
  \/ page = "library" /\ (~active \/ (paused /\ ~neutral))

BeginLoad(g, showBios) ==
  /\ call = "none"
  /\ Choosing
  /\ loading = NoLoad
  /\ loading' = [state |-> "running", cancelled |-> FALSE,
                 prepared |-> [game |-> g, bios |-> showBios, data |-> 0]]
  /\ paused' = TRUE
  /\ neutral' = FALSE
  /\ page' = "loading"
  /\ UNCHANGED <<memory, step, disk, active, bios, current, staged, next,
                 pendingStop, call>>

(* "Another game is still being prepared" *)
LoadRefused ==
  /\ call = "none"
  /\ Choosing
  /\ loading # NoLoad
  /\ page' = "error"
  /\ paused' = TRUE
  /\ neutral' = FALSE
  /\ UNCHANGED <<memory, step, disk, active, bios, current, staged, next,
                 pendingStop, call, loading>>

(* Back on the page of the preparation. *)
CancelLoad ==
  /\ call = "none"
  /\ page = "loading"
  /\ loading' = Cancelled(loading)
  /\ page' = Home
  /\ UNCHANGED <<memory, step, disk, session, pendingStop, neutral,
                 call>>

(* Session::Prepare on the worker: the file is opened at some moment and    *)
(* its contents of that moment are read; anything may be wrong with a game. *)
Prepare ==
  /\ loading.state = "running"
  /\ LET game == loading.prepared.game IN
     \/ /\ Readable(game)
        /\ loading' = [loading EXCEPT !.state = "ready",
                                      !.prepared.data = file[game].data]
     \/ loading' = [loading EXCEPT !.state = "failed"]
  /\ UNCHANGED <<memory, step, disk, session, screen, call>>

(* Application::Update takes the worker's result. *)
Finished == call = "none" /\ loading.state \in {"ready", "failed"}

LoadCancelledOnItsPage ==
  /\ Finished
  /\ loading.cancelled
  /\ page = "loading"
  /\ loading' = NoLoad
  /\ page' = Home
  /\ UNCHANGED <<memory, step, disk, session, pendingStop, neutral, call>>

LoadCancelled ==
  /\ Finished
  /\ loading.cancelled
  /\ loading' = NoLoad
  /\ page' = IF page = "loading" THEN Home ELSE page
  /\ UNCHANGED <<memory, step, disk, session, pendingStop, neutral,
                 call>>

LoadFailed ==
  /\ Finished
  /\ loading.state = "failed"
  /\ ~loading.cancelled
  /\ loading' = NoLoad
  /\ Error
  /\ UNCHANGED <<memory, step, disk, active, bios, current, staged, next, call>>

(* Session::Start up to the return of its call of Save. *)
StartLoaded ==
  /\ Finished
  /\ loading.state = "ready"
  /\ ~loading.cancelled
  /\ loading' = NoLoad
  /\ next' = loading.prepared
  /\ paused' = TRUE
  /\ Save
  /\ call' = "start"
  /\ UNCHANGED <<memory, disk, active, bios, current, staged, screen>>

-----------------------------------------------------------------------------
(* The session's operations after Save has returned. *)

Returned(result) == step = result /\ step' = "idle" /\ call' = "none"

(* Start and the application's code after it: a restart leaves the game *)
(* paused until the controls are released.                              *)
Started(data) ==
  /\ current' = next.game
  /\ bios' = next.bios
  /\ IF next.bios THEN Commit(NoCart, 0) /\ staged' = data
                  ELSE Commit(next.game, data) /\ staged' = Moved
  /\ active' = TRUE
  /\ page' = "library"
  /\ paused' = (call = "restarted")
  /\ neutral' = (call = "restarted")
  /\ next' = NoGame
  /\ UNCHANGED <<writes, disk, pendingStop, loading>>

StartDespiteFailure ==
  /\ call \in {"start", "restarted"}
  /\ \E result \in {"saved", "failed"} : Returned(result)
  /\ Readable(next.game)
  /\ Started(file[next.game].data)

StartStaged ==
  /\ call \in {"start", "restarted"}
  /\ Returned("saved")
  /\ Started(next.data)

(* The new game is prepared again, after the save. *)
Start ==
  /\ call \in {"start", "restarted"}
  /\ Returned("saved")
  /\ Readable(next.game)
  /\ Started(file[next.game].data)

(* Session::Restart, from the pause menu. *)
Restart ==
  /\ call = "none"
  /\ active
  /\ page = "paused"
  /\ paused' = TRUE
  /\ Save
  /\ call' = "restart"
  /\ UNCHANGED <<memory, disk, active, bios, current, staged, next, screen,
                 loading>>

(* It prepares its own game and calls Start, which calls Save again. *)
RestartPrepares ==
  /\ call = "restart"
  /\ step = "saved"
  /\ Readable(current)
  /\ next' = [game |-> current, bios |-> FALSE, data |-> file[current].data]
  /\ Save
  /\ call' = "restarted"
  /\ UNCHANGED <<memory, disk, active, paused, bios, current, staged, screen,
                 loading>>

(* Save, or a preparation after it, throws in Start or Restart. *)
StartFails ==
  /\ call \in {"start", "restart", "restarted"}
  /\ \E result \in {"saved", "failed"} : Returned(result)
  /\ next' = NoGame
  /\ Error
  /\ UNCHANGED <<memory, disk, active, bios, current, staged, loading>>

-----------------------------------------------------------------------------
(* Leaving a game. *)

(* Application::ReturnLibrary, also as a retry. *)
ReturnLibrary ==
  /\ call = "none"
  /\ \/ page = "paused" /\ active
     \/ page = "savefailure" /\ pendingStop = "library"
  /\ paused' = TRUE
  /\ Save
  /\ call' = "library"
  /\ UNCHANGED <<memory, disk, active, bios, current, staged, next, screen,
                 loading>>

(* Application::RequestQuit with a session; the window may be closed on any *)
(* page.                                                                    *)
RequestQuit ==
  /\ call = "none"
  /\ active
  /\ loading' = Cancelled(loading)
  /\ paused' = TRUE
  /\ Save
  /\ call' = "quit"
  /\ UNCHANGED <<memory, disk, active, bios, current, staged, next, screen>>

(* The rest of Session::Stop and of its callers. *)
StopForLibrary ==
  /\ call = "library"
  /\ Returned("saved")
  /\ active' = FALSE
  /\ bios' = FALSE
  /\ neutral' = FALSE
  /\ page' = "library"
  /\ UNCHANGED <<memory, disk, paused, current, staged, next, pendingStop,
                 loading>>

StopFails ==
  /\ call \in {"library", "quit"}
  /\ Returned("failed")
  /\ pendingStop' = call
  /\ page' = "savefailure"
  /\ UNCHANGED <<memory, disk, session, neutral, loading>>

(* KEEP PLAYING, or back. *)
KeepSession ==
  /\ call = "none"
  /\ page \in {"savefailure", "confirm"}
  /\ page' = "paused"
  /\ UNCHANGED <<memory, step, disk, session, pendingStop, neutral,
                 call, loading>>

(* QUIT WITHOUT SAVING asks for a confirmation. *)
Discard ==
  /\ call = "none"
  /\ page \in {"savefailure", "confirm"}
  /\ page' = IF page = "confirm" THEN "savefailure" ELSE "confirm"
  /\ UNCHANGED <<memory, step, disk, session, pendingStop, neutral,
                 call, loading>>

-----------------------------------------------------------------------------
(* The program ends and is started again. *)

End(how) ==
  /\ active' = FALSE
  /\ paused' = TRUE
  /\ bios' = FALSE
  /\ current' = NoCart
  /\ staged' = Moved
  /\ next' = NoGame
  /\ call' = how
  /\ loading' = NoLoad
  /\ page' = "library"
  /\ pendingStop' = ""
  /\ neutral' = FALSE

Quit ==
  /\ \/ call = "none" /\ ~active
     \/ call = "quit" /\ step = "saved"
  /\ Exit
  /\ End("exited")

DiscardConfirmed ==
  /\ call = "none"
  /\ page = "confirm"
  /\ Exit
  /\ End("discarded")

Kill ==
  /\ call \notin Ended
  /\ Exit
  /\ End("killed")

LosePower ==
  /\ PowerLoss
  /\ End("killed")

Launch ==
  /\ call \in Ended
  /\ call' = "none"
  /\ UNCHANGED <<memory, step, disk, session, screen, loading>>

-----------------------------------------------------------------------------
SaveRuns ==
  /\ SaveStep
  /\ UNCHANGED <<session, screen, call, loading>>

SystemWrites ==
  /\ \E g \in Game : Writeback(g)
  /\ UNCHANGED <<session, screen, call, loading>>

Polled == LoadCancelled \/ LoadFailed \/ StartLoaded

Continue == Start \/ RestartPrepares \/ StartFails \/ StopForLibrary \/ StopFails

Menu ==
  \/ Pause
  \/ LoseFocus
  \/ ResumeGame
  \/ Released
  \/ OtherError
  \/ LeaveError
  \/ \E g \in Game, showBios \in BOOLEAN : BeginLoad(g, showBios)
  \/ LoadRefused
  \/ CancelLoad
  \/ Restart
  \/ ReturnLibrary
  \/ RequestQuit
  \/ KeepSession
  \/ Discard

Next ==
  \/ Play
  \/ CommitGame
  \/ Menu
  \/ Prepare
  \/ Polled
  \/ SaveRuns
  \/ Continue
  \/ SystemWrites
  \/ Quit
  \/ DiscardConfirmed
  \/ Kill
  \/ LosePower
  \/ Launch

Spec == Init /\ [][Next]_vars

(* The worker's reads end and so do the calls of Save; the main loop polls *)
(* the worker in every turn, before it dispatches one operation: operations *)
(* cannot keep it from doing so for ever.                                   *)
FairSpec ==
  /\ Spec
  /\ WF_vars(Prepare)
  /\ WF_vars(SaveRuns)
  /\ WF_vars(Continue \/ (call = "quit" /\ Quit))
  /\ SF_vars(Polled)

-----------------------------------------------------------------------------
(* A save that Cartridge::Save has reported as done is never lost or        *)
(* damaged: whenever the power fails, the file holds that memory or a newer *)
(* one, complete.                                                           *)
SavedIsKept ==
  \A g \in Game : stable[g] \in Nat /\ promised[g] <= stable[g]

(* Memory that is not saved leaves the machine only if the program is       *)
(* killed or the player has confirmed it, whatever fails in a start, a      *)
(* restart or a stop.                                                       *)
UnsavedIsKept ==
  [][dirty /\ ~(dirty' /\ cart' = cart) =>
       stable'[cart] = ram \/ call' \in {"killed", "discarded"}]_vars

(* The cartridge in the machine is the session's game, before and after     *)
(* every operation that fails in its middle; its memory, and the memory     *)
(* staged while the BIOS runs, is the latest its file holds, unless dirty;  *)
(* without a session nothing is left to save.                               *)
MachineMatches ==
  /\ active => cart = IF bios THEN NoCart ELSE current
  /\ active /\ bios => staged = file[current].data
  /\ cart # NoCart /\ ~dirty => ram = file[cart].data
  /\ ~active => ~dirty

(* A preparation ends, also when it is cancelled or its page is left, so    *)
(* that another one can begin.                                              *)
PreparationEnds == loading # NoLoad ~> loading = NoLoad

(* The session keeps the promise of BatteryMemory.                          *)
Shown == [g \in Game |-> file[g].data]
Battery == INSTANCE BatteryMemory WITH shown <- Shown, safe <- stable
KeepsBattery == Battery!Spec
=============================================================================
