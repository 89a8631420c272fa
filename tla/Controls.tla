------------------------------ MODULE Controls ------------------------------
(***************************************************************************)
(* From the keyboard and the controllers to the game: the main loop of     *)
(* src/frontend/application.cpp with the router of input.cpp, the pause of *)
(* session.cpp and the sound queue of audiooutput.cpp, which the stream's  *)
(* thread empties.  The game reads its pad during a frame.                 *)
(*                                                                         *)
(* Of the pages, "other" stands for those that change neither pause nor    *)
(* controls; preparing, saving and starting a game are those of Session    *)
(* and always succeed here.  One player; sound is counted in frames.       *)
(***************************************************************************)
EXTENDS GamePad

CONSTANTS
  Key,          \* keys, known from events
  Pad,          \* controls of the devices, read in each pass
  Menu, Fullscreen, Skip, \* controls for the menu, F11, and skipping the BIOS
  Bound,        \* [Button -> SUBSET Control], the bindings
  MaxQueue      \* 24000 samples, in frames

Control == Key \union Pad

ASSUME ControlsAssumption ==
  /\ Key \intersect Pad = {}
  /\ Menu \subseteq Control /\ Fullscreen \subseteq Key /\ Skip \subseteq Control
  /\ Bound \in [Button -> SUBSET Control]
  /\ MaxQueue \in Nat

VARIABLES
  focus,      \* the window has the focus
  lost,       \* a LostFocus event is not delivered yet
  keys, pads, \* frame_.keys, the devices' controls
  stale,      \* history: held since the last change of page or focus
  pc,         \* the step of the main loop
  page,
  loading,    \* a game is being prepared
  active, paused, booting, \* of the session
  neutral,    \* neutralResume_
  suppressed, previous,    \* of the router
  focused, playing, routed, \* locals of the loop
  stream, queued, \* of the sound: the stream's state, samples
  poll        \* history: what a program that polls the pad has decoded

input  == <<focus, lost, keys, pads>>
app    == <<page, loading, active, paused, booting, neutral>>
router == <<suppressed, previous>>
locals == <<focused, playing, routed>>
sound  == <<stream, queued>>
vars   == <<padVars, input, stale, pc, app, router, locals, sound, poll>>

Page == {"library", "paused", "loading", "other"}
Held == keys \union pads
Nothing == [menu |-> FALSE, fullscreen |-> FALSE, game |-> {}]
NoPoll == [edges |-> 4, known |-> {}, held |-> {}]

Init ==
  /\ PadInit
  /\ focus = TRUE /\ lost = FALSE /\ keys = {} /\ pads = {} /\ stale = {}
  /\ pc = "events" /\ page = "library" /\ loading = FALSE
  /\ active = FALSE /\ paused = TRUE /\ booting = FALSE /\ neutral = FALSE
  /\ suppressed = FALSE /\ previous = {}
  /\ focused = TRUE /\ playing = FALSE /\ routed = Nothing
  /\ stream = "none" /\ queued = 0 /\ poll = NoPoll

-----------------------------------------------------------------------------
(* AudioOutput: Submit and the stream's Fetch share the queue; Suspend     *)
(* stops the stream, which waits for a Fetch, and empties the queue.       *)

Fetch ==
  /\ stream = "playing" /\ queued > 0
  /\ queued' = queued - 1
  /\ UNCHANGED <<padVars, input, stale, pc, app, router, locals, stream, poll>>

Submit ==
  /\ queued' = IF stream = "none" THEN queued
               ELSE IF queued < MaxQueue THEN queued + 1 ELSE MaxQueue
  /\ UNCHANGED stream

Stopped(s) == IF s = "none" THEN s ELSE "stopped"
Suspend == stream' = Stopped(stream) /\ queued' = 0
ResumeSound == stream' = (IF stream = "none" THEN stream ELSE "playing") /\ UNCHANGED queued

-----------------------------------------------------------------------------
(* Session and page.                                                       *)

PauseSession == paused' = TRUE /\ SetInputState({}) /\ Suspend
               /\ UNCHANGED <<latch, output, phase, idle>>

(* Fault: the router is not held back at a change of page *)
SuppressForgotten == UNCHANGED suppressed /\ previous' = {} /\ stale' = Held

(* SetPage holds back the router, with all controls held at that moment.   *)
Suppress == suppressed' = TRUE /\ previous' = {} /\ stale' = Held
SetPage(p) == page' = p /\ Suppress

-----------------------------------------------------------------------------
(* Events.                                                                 *)

SetFocus(f) ==
  /\ focus # f
  /\ focus' = f /\ lost' = (lost \/ ~f)
  /\ UNCHANGED <<padVars, keys, pads, stale, pc, app, router, locals, sound, poll>>

KeyPressed(k) ==
  /\ pc = "events" /\ focus /\ k \notin keys
  /\ keys' = keys \union {k}
  /\ UNCHANGED <<padVars, focus, lost, pads, stale, pc, app, router, locals, sound, poll>>

KeyReleased(k) ==
  /\ pc = "events" /\ focus /\ k \in keys
  /\ keys' = keys \ {k} /\ stale' = stale \ {k}
  /\ UNCHANGED <<padVars, focus, lost, pads, pc, app, router, locals, sound, poll>>

LostFocus ==
  /\ pc = "events" /\ lost
  /\ lost' = FALSE /\ keys' = {}
  /\ neutral' = FALSE
  /\ suppressed' = TRUE /\ previous' = {} /\ stale' = pads
  /\ IF active /\ ~paused
       THEN PauseSession /\ page' = "paused"
       ELSE UNCHANGED <<padVars, paused, page, sound>>
  /\ UNCHANGED <<focus, pads, pc, loading, active, booting, locals, poll>>

(* Update: the result of a preparation.                                    *)
Update ==
  /\ pc = "events"
  /\ pc' = "sample"
  /\ UNCHANGED <<padVars, input, stale, app, router, locals, sound, poll>>

LoadReady(enabled) ==
  /\ pc = "events" /\ loading
  /\ pc' = "sample" /\ loading' = FALSE
  /\ PadReset /\ active' = TRUE /\ paused' = FALSE /\ booting' \in BOOLEAN
  /\ stream' = (IF enabled THEN "playing" ELSE "none") /\ queued' = 0
  /\ SetPage("library") /\ neutral' = FALSE
  /\ UNCHANGED <<input, locals, poll>>

LoadFails ==
  /\ pc = "events" /\ loading
  /\ pc' = "sample" /\ loading' = FALSE
  /\ PauseSession /\ SetPage("other")
  /\ UNCHANGED <<input, active, booting, neutral, locals, poll>>

-----------------------------------------------------------------------------
(* The pass over the controls.                                             *)

(* Fault: opposite directions both reach the game *)
MapGameOpposed(held) == {b \in Button : Bound[b] \intersect held # {}}

(* MapGame: the buttons bound to what is held; opposite directions cancel. *)
MapGame(held) ==
  LET hit == {b \in Button : Bound[b] \intersect held # {}}
      both(a, b) == IF {a, b} \subseteq hit THEN {a, b} ELSE {} IN
    (hit \ both("up", "down")) \ both("left", "right")

MenuNames(held) ==
  (IF Menu \intersect held # {} THEN {"menu"} ELSE {})
    \union (IF Fullscreen \intersect held # {} THEN {"fullscreen"} ELSE {})

(* The pass reads the devices and the focus: without it the game pauses    *)
(* and the router is held back; otherwise Router::Update waits for neutral *)
(* controls, or finds the edges and, while playing, the game's buttons.    *)
Sample(p) ==
  /\ pc = "sample" /\ pc' = "fullscreen"
  /\ pads' = p /\ focused' = focus
  /\ LET held == keys \union p
         play == active /\ ~paused /\ page = "library"
         names == MenuNames(held)
         menu == "menu" \in names \ previous IN
       IF ~focus
         THEN /\ suppressed' = TRUE /\ previous' = {} /\ stale' = held
              /\ routed' = Nothing /\ playing' = FALSE
              /\ IF active /\ ~paused
                   THEN PauseSession /\ page' = "paused" /\ neutral' = FALSE
                   ELSE UNCHANGED <<padVars, paused, page, neutral, sound>>
         ELSE /\ stale' = stale \intersect held
              /\ playing' = play
              /\ IF suppressed
                   THEN /\ suppressed' = (held # {}) /\ previous' = {}
                        /\ routed' = Nothing
                   ELSE /\ UNCHANGED suppressed /\ previous' = names
                        /\ routed' = [menu |-> menu,
                                      fullscreen |-> "fullscreen" \in names \ previous,
                                      game |-> IF play /\ ~menu THEN MapGame(held) ELSE {}]
              /\ UNCHANGED <<padVars, paused, page, neutral, sound>>
  /\ UNCHANGED <<focus, lost, keys, loading, active, booting, poll>>

(* Fault: the settings open the stream and leave it *)
SaveAudioLeft(enabled) ==
  LET s == IF enabled THEN "playing" ELSE "none" IN stream' = s /\ queued' = 0

(* SaveSettings: the session pauses, the sound's settings apply to a       *)
(* stream that is then stopped.                                            *)
SaveAudio(enabled) ==
  LET s == IF enabled THEN "playing" ELSE "none" IN stream' = Stopped(s) /\ queued' = 0

SettingsSaved(enabled) ==
  /\ paused' = TRUE /\ SetInputState({}) /\ UNCHANGED <<latch, output, phase, idle>>
  /\ SaveAudio(enabled)

(* F11 saves the settings with a new window; a game that was running waits *)
(* for released controls (ResumeGame).                                     *)
FullscreenKey ==
  /\ pc = "fullscreen" /\ pc' = "resume"
  /\ \/ /\ ~routed.fullscreen
        /\ UNCHANGED <<padVars, stale, page, paused, neutral, router, sound>>
     \/ /\ routed.fullscreen
        /\ \/ /\ \E enabled \in BOOLEAN : SettingsSaved(enabled)
              /\ SetPage(IF active /\ ~paused THEN "library" ELSE page)
              /\ neutral' = (neutral \/ (active /\ ~paused))
           \/ /\ PauseSession /\ SetPage("other") /\ UNCHANGED neutral
           \/ /\ suppressed' = TRUE /\ previous' = {} \* without a settings file
              /\ UNCHANGED <<padVars, stale, page, paused, neutral, sound>>
  /\ UNCHANGED <<input, loading, active, booting, locals, poll>>

ResumeNeutral ==
  /\ pc = "resume" /\ pc' = "menu"
  /\ IF neutral /\ Held = {}
       THEN neutral' = FALSE /\ paused' = (paused /\ ~active)
            /\ IF active THEN ResumeSound ELSE UNCHANGED sound
       ELSE UNCHANGED <<neutral, paused, sound>>
  /\ UNCHANGED <<padVars, input, stale, page, loading, active, booting, router,
                 locals, poll>>

MenuKey ==
  /\ pc = "menu" /\ pc' = "skip"
  /\ IF playing /\ routed.menu
       THEN PauseSession /\ neutral' = FALSE /\ SetPage("paused")
       ELSE UNCHANGED <<padVars, stale, page, paused, neutral, router, sound>>
  /\ UNCHANGED <<input, loading, active, booting, locals, poll>>

(* The BIOS ends at a control that the router does not filter.             *)
SkipBios ==
  /\ pc = "skip" /\ pc' = "step"
  /\ IF booting /\ playing /\ Skip \intersect Held # {}
       THEN /\ booting' = FALSE /\ PadReset
            /\ Suppress /\ routed' = Nothing
       ELSE UNCHANGED <<padVars, stale, booting, router, routed>>
  /\ UNCHANGED <<input, page, loading, active, paused, neutral, focused, playing, sound, poll>>

(* Step, when a frame is due.                                              *)
Runs == active /\ ~paused /\ page = "library"
Step ==
  /\ pc = "step" /\ Runs
  /\ pc' = "frame"
  /\ SetInputState(routed.game) /\ UNCHANGED <<latch, output, phase, idle>>
  /\ UNCHANGED <<input, stale, app, router, locals, sound, poll>>

NoStep ==
  /\ pc = "step" /\ pc' = "ui"
  /\ UNCHANGED <<padVars, input, stale, app, router, locals, sound, poll>>

-----------------------------------------------------------------------------
(* The game, during a frame.  A poll reads levels of TH within a frame,    *)
(* from a time when the counter had fallen back.                           *)

GameWrite(l, o) ==
  /\ pc = "frame"
  /\ Write(l, o) /\ UNCHANGED buttons
  /\ poll' = IF ~TH /\ Level(l, o) /\ poll.edges < 4
               THEN IF poll.edges = 3 THEN NoPoll ELSE [poll EXCEPT !.edges = @ + 1]
               ELSE poll
  /\ UNCHANGED <<input, stale, pc, app, router, locals, sound>>

PollStart ==
  /\ pc = "frame" /\ TH /\ idle >= Timeout
  /\ poll' = [NoPoll EXCEPT !.edges = 0]
  /\ UNCHANGED <<padVars, input, stale, pc, app, router, locals, sound>>

(* What each line tells a program after so many edges; "low" is a line at 0 *)
(* and "high" one at 1, whatever is held.                                   *)
Meaning(edges, th) ==
  CASE th /\ edges < 3  -> Plain
    [] th /\ edges = 3  -> Extra
    [] ~th /\ edges < 2 -> <<"up", "down", "low", "low", "a", "start">>
    [] ~th /\ edges = 2 -> <<"low", "low", "low", "low", "a", "start">>
    [] OTHER            -> <<"high", "high", "high", "high", "a", "start">>

GameRead ==
  /\ pc = "frame" /\ poll.edges < 4
  /\ LET table == Meaning(poll.edges, TH) IN
       poll' = [poll EXCEPT !.known = @ \union {table[i + 1] : i \in Line},
                            !.held  = @ \union {table[i + 1] : i \in LowLines}]
  /\ UNCHANGED <<padVars, input, stale, pc, app, router, locals, sound>>

GameWait ==
  /\ pc = "frame"
  /\ PadAdvance(1) /\ UNCHANGED <<buttons, latch, output>>
  /\ poll' = IF idle' >= Timeout THEN NoPoll ELSE poll
  /\ UNCHANGED <<input, stale, pc, app, router, locals, sound>>

(* The 68000's RESET makes the pads new in the middle of a frame, with     *)
(* nothing held before the next one.                                       *)
GameReset ==
  /\ pc = "frame"
  /\ PadReset /\ poll' = NoPoll
  /\ UNCHANGED <<input, stale, pc, app, router, locals, sound>>

EndFrame ==
  /\ pc = "frame" /\ pc' = "ui"
  /\ Submit /\ poll' = NoPoll
  /\ \/ UNCHANGED <<padVars, booting>>
     \/ booting /\ booting' = FALSE /\ PadReset
  /\ UNCHANGED <<input, stale, page, loading, active, paused, neutral, router, locals>>

FrameFails ==
  /\ pc = "frame" /\ pc' = "ui"
  /\ PauseSession /\ SetPage("other") /\ poll' = NoPoll
  /\ UNCHANGED <<input, loading, active, booting, neutral, locals>>

-----------------------------------------------------------------------------
(* The interface (Draw and Dispatch): nothing to act on while a game runs  *)
(* or waits for released controls, but the button that skips the BIOS.     *)

Pass ==
  /\ pc = "ui" /\ pc' = "events"
  /\ focused' = TRUE /\ playing' = FALSE /\ routed' = Nothing
Shown == ~(page = "library" /\ active /\ (~paused \/ neutral))

NoAction ==
  /\ Pass /\ UNCHANGED <<padVars, input, stale, app, router, sound, poll>>

SkipButton ==
  /\ Pass /\ Runs /\ booting
  /\ booting' = FALSE /\ PadReset /\ Suppress
  /\ UNCHANGED <<input, page, loading, active, paused, neutral, sound, poll>>

Resume ==
  /\ Pass /\ Shown
  /\ page = "paused" \/ (page = "library" /\ active)
  /\ SetPage("library") /\ PauseSession /\ neutral' = TRUE
  /\ UNCHANGED <<input, loading, active, booting, poll>>

(* To another page; leaving the page of a preparation cancels it. *)
Go(p) ==
  /\ Pass /\ Shown
  /\ p = "paused" => active
  /\ p # "loading" /\ SetPage(p)
  /\ loading' = FALSE
  /\ IF p = "other" THEN PauseSession ELSE UNCHANGED <<padVars, paused, sound>>
  /\ UNCHANGED <<input, active, booting, neutral, poll>>

BeginLoad ==
  /\ Pass /\ Shown /\ page # "loading"
  /\ PauseSession /\ neutral' = FALSE /\ loading' = TRUE /\ SetPage("loading")
  /\ UNCHANGED <<input, active, booting, poll>>

Return ==
  /\ Pass /\ page = "paused"
  /\ PauseSession /\ active' = FALSE /\ booting' = FALSE /\ neutral' = FALSE
  /\ SetPage("library")
  /\ UNCHANGED <<input, loading, poll>>

Restart ==
  /\ Pass /\ page = "paused" /\ active
  /\ PadReset /\ booting' = FALSE
  /\ paused' = TRUE /\ Suspend
  /\ SetPage("library") /\ neutral' = TRUE
  /\ UNCHANGED <<input, loading, active, poll>>

SaveSettings(enabled) ==
  /\ Pass /\ page = "other"
  /\ SettingsSaved(enabled) /\ SetPage("other")
  /\ UNCHANGED <<input, loading, active, booting, neutral, poll>>

-----------------------------------------------------------------------------
Interface ==
  \/ NoAction \/ SkipButton \/ Resume \/ BeginLoad \/ Return \/ Restart
  \/ \E p \in Page : Go(p)
  \/ \E enabled \in BOOLEAN : SaveSettings(enabled)

Game ==
  \/ \E l, o \in BOOLEAN : GameWrite(l, o)
  \/ PollStart \/ GameRead \/ GameWait \/ GameReset \/ EndFrame \/ FrameFails

Loop ==
  \/ LostFocus \/ Update \/ LoadFails
  \/ \E enabled \in BOOLEAN : LoadReady(enabled)
  \/ \E p \in SUBSET Pad : Sample(p)
  \/ FullscreenKey \/ ResumeNeutral \/ MenuKey \/ SkipBios \/ Step \/ NoStep

Next ==
  \/ Fetch \/ Loop \/ Game \/ Interface
  \/ \E f \in BOOLEAN : SetFocus(f)
  \/ \E k \in Key : KeyPressed(k) \/ KeyReleased(k)

Spec == Init /\ [][Next]_vars

-----------------------------------------------------------------------------
(* The values of the state. *)
TypeOK ==
  /\ buttons \subseteq Button /\ phase \in 0 .. 3 /\ idle \in 0 .. MaxIdle
  /\ keys \subseteq Key /\ pads \subseteq Pad /\ stale \subseteq Held
  /\ page \in Page
  /\ stream \in {"none", "playing", "stopped"} /\ queued \in 0 .. MaxQueue

(* A game never sees a control that was already held when the page, the    *)
(* focus or the machine last changed: what it reads in a frame was pressed *)
(* since (input.cpp:145 and 149, every SetPage; "Held transition *)
(* confirm reached the game", inputtests.cpp:65).                          *)
NothingHeldLeaks ==
  pc = "frame" => \A b \in buttons : Bound[b] \intersect (Held \ stale) # {}

(* Without a running game the pads are released and the sound is stopped   *)
(* with nothing left to play, whoever paused it and whatever opened the    *)
(* stream meanwhile ("Pause releases both gamepad masks, stops and clears  *)
(* host audio", frontend/readme.txt:26; session.cpp:50, application.cpp:303).*)
PausedIsSilent ==
  ~active \/ paused => buttons = {} /\ stream # "playing" /\ queued = 0

(* The four low lines by which a program knows a six-button pad appear in  *)
(* its phase 2 only: no combination of held directions imitates them on    *)
(* the lines that TH pulls low (gamepad.cpp:279, input.cpp:139).           *)
SignatureUnique == ~TH /\ 0 .. 3 \subseteq LowLines => phase = 2

(* A poll decodes exactly the buttons held and the signature of a          *)
(* six-button pad, whatever earlier or abandoned polls left in the counter *)
(* and however the program drives TH, provided it began after the time-out *)
(* and did not pause that long (gamepad.cpp:254 to 286).                   *)
PollReadsPad == poll.held = poll.known \intersect (buttons \union {"low"})
=============================================================================
