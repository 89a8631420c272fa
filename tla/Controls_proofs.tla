--------------------------- MODULE Controls_proofs ---------------------------
(***************************************************************************)
(* Proofs about Controls, for all sets of controls and bindings.           *)
(***************************************************************************)
EXTENDS Controls, TLAPS

LEMMA Groups ==
  ASSUME UNCHANGED vars
  PROVE  UNCHANGED <<buttons, latch, output, phase, idle, focus, lost, keys, pads,
                     stale, pc, page, loading, active, paused, booting, neutral,
                     suppressed, previous, focused, playing, routed, stream, queued,
                     poll>>
  BY DEF vars, padVars, input, app, router, locals, sound

-----------------------------------------------------------------------------
(* Types.                                                                  *)

Sounding == stream \in {"none", "playing", "stopped"} /\ queued \in 0 .. MaxQueue
Holding == keys \subseteq Key /\ pads \subseteq Pad /\ stale \subseteq Held
TypeInv == Sounding /\ Holding /\ page \in Page

LEMMA SoundTypes ==
  ASSUME Sounding, [Next]_vars
  PROVE  Sounding'
<1> USE ControlsAssumption
<1>1. ASSUME PauseSession \/ Suspend \/ UNCHANGED sound \/ Submit \/ ResumeSound
                \/ \E enabled \in BOOLEAN : SettingsSaved(enabled)
      PROVE  Sounding'
  BY <1>1 DEF PauseSession, Suspend, Stopped, SettingsSaved, SaveAudio, Submit, ResumeSound,
     sound, Sounding
<1>2. CASE Loop
  <2>1. CASE ResumeNeutral
    <3>1. ResumeSound \/ UNCHANGED sound
      BY <2>1 DEF ResumeNeutral
    <3> QED BY <1>1, <3>1
  <2>2. CASE LostFocus \/ LoadFails \/ (\E p \in SUBSET Pad : Sample(p)) \/ FullscreenKey \/ MenuKey
    <3>1. \/ PauseSession \/ UNCHANGED sound
          \/ \E enabled \in BOOLEAN : SettingsSaved(enabled)
      BY <2>2 DEF LostFocus, LoadFails, Sample, FullscreenKey, MenuKey
    <3> QED BY <1>1, <3>1
  <2>3. CASE \E enabled \in BOOLEAN : LoadReady(enabled)
    BY <2>3 DEF LoadReady, Sounding
  <2>4. CASE Update \/ SkipBios \/ Step \/ NoStep
    BY <1>1, <2>4 DEF Update, SkipBios, Step, NoStep
  <2> QED BY <1>2, <2>1, <2>2, <2>3, <2>4 DEF Loop
<1>3. CASE Game
  BY <1>1, <1>3 DEF Game, GameWrite, PollStart, GameRead, GameWait, GameReset, EndFrame, FrameFails
<1>4. CASE Interface
  BY <1>1, <1>4 DEF Interface, NoAction, SkipButton, Resume, BeginLoad, Return, Restart, Go,
     SaveSettings
<1>5. CASE Fetch
  BY <1>5 DEF Fetch, Sounding
<1>6. CASE (\E f \in BOOLEAN : SetFocus(f)) \/ (\E k \in Key : KeyPressed(k) \/ KeyReleased(k))
           \/ UNCHANGED vars
  BY <1>1, <1>6, Groups DEF SetFocus, KeyPressed, KeyReleased, sound
<1> QED BY <1>2, <1>3, <1>4, <1>5, <1>6 DEF Next

LEMMA HeldTypes ==
  ASSUME Holding, [Next]_vars
  PROVE  Holding'
<1>1. ASSUME UNCHANGED <<keys, pads>>, stale' \in {stale, Held}  PROVE Holding'
  BY <1>1 DEF Holding, Held
<1>2. ASSUME NEW p \in SUBSET Pad, Sample(p)  PROVE Holding'
  BY <1>2 DEF Sample, Holding, Held
<1>3. CASE LostFocus
  BY <1>3 DEF LostFocus, Holding, Held
<1>4. CASE Loop
  BY <1>1, <1>2, <1>3, <1>4 DEF Loop, Update, LoadFails, LoadReady, FullscreenKey,
     ResumeNeutral, MenuKey, SkipBios, Step, NoStep, SetPage, Suppress, input
<1>5. CASE Game
  BY <1>1, <1>5 DEF Game, GameWrite, PollStart, GameRead, GameWait, GameReset, EndFrame, FrameFails,
     SetPage, Suppress, input
<1>6. CASE Interface
  BY <1>1, <1>6 DEF Interface, NoAction, SkipButton, Resume, BeginLoad, Return, Restart, Go,
     SaveSettings, SetPage, Suppress, input
<1>7. CASE Fetch \/ (\E f \in BOOLEAN : SetFocus(f)) \/ UNCHANGED vars
  BY <1>1, <1>7, Groups DEF Fetch, SetFocus, input
<1>8. ASSUME NEW k \in Key, KeyPressed(k) \/ KeyReleased(k)  PROVE Holding'
  <2>1. k \notin Pad
    BY ControlsAssumption
  <2> QED BY <1>8, <2>1 DEF KeyPressed, KeyReleased, Holding, Held
<1> QED BY <1>4, <1>5, <1>6, <1>7, <1>8 DEF Next

LEMMA PageTypes ==
  ASSUME page \in Page, [Next]_vars
  PROVE  page' \in Page
<1>1. CASE Loop
  BY <1>1 DEF Loop, LostFocus, Update, LoadFails, LoadReady, Sample, FullscreenKey,
     ResumeNeutral, MenuKey, SkipBios, Step, NoStep, SetPage, app, Page
<1>2. CASE Game
  BY <1>2 DEF Game, GameWrite, PollStart, GameRead, GameWait, GameReset, EndFrame, FrameFails,
     SetPage, app, Page
<1>3. CASE Interface
  BY <1>3 DEF Interface, NoAction, SkipButton, Resume, BeginLoad, Return, Restart, Go, SaveSettings,
     SetPage, app, Page
<1>4. CASE Fetch \/ (\E f \in BOOLEAN : SetFocus(f))
             \/ (\E k \in Key : KeyPressed(k) \/ KeyReleased(k)) \/ UNCHANGED vars
  BY <1>4, Groups DEF Fetch, SetFocus, KeyPressed, KeyReleased, app
<1> QED BY <1>1, <1>2, <1>3, <1>4 DEF Next

-----------------------------------------------------------------------------
(* Silence.  A frame runs only for a session that is not paused, and       *)
(* nothing pauses it before the frame's end: so Step and Submit, the only  *)
(* sources of buttons and sound, keep silent otherwise.                    *)

Silent == buttons = {} /\ stream # "playing" /\ queued = 0
FrameRuns == pc = "frame" => active = TRUE /\ paused = FALSE
SilenceInv == (active # TRUE \/ paused # FALSE => Silent) /\ FrameRuns

LEMMA Pausing ==
  ASSUME PauseSession
  PROVE  Silent' /\ paused' = TRUE
  BY DEF PauseSession, SetInputState, Suspend, Stopped, Silent

LEMMA Saving ==
  ASSUME NEW enabled \in BOOLEAN, SettingsSaved(enabled)
  PROVE  Silent' /\ paused' = TRUE
  BY DEF SettingsSaved, SetInputState, SaveAudio, Stopped, Silent

LEMMA SilentLoop ==
  ASSUME SilenceInv, Loop
  PROVE  SilenceInv'
<1>1. CASE LostFocus
  <2>1. active' = active /\ pc' = "events"
    BY <1>1 DEF LostFocus
  <2>2. CASE PauseSession
    BY <2>1, <2>2, Pausing DEF SilenceInv, FrameRuns
  <2>3. CASE UNCHANGED <<padVars, paused, page, sound>>
    BY <2>1, <2>3 DEF SilenceInv, FrameRuns, Silent, padVars, sound
  <2> QED BY <1>1, <2>2, <2>3 DEF LostFocus
<1>2. CASE Update \/ NoStep
  BY <1>2 DEF Update, NoStep, SilenceInv, FrameRuns, Silent, padVars, app, sound
<1>3. CASE LoadFails
  BY <1>3, Pausing DEF LoadFails, SilenceInv, FrameRuns
<1>4. ASSUME NEW enabled \in BOOLEAN, LoadReady(enabled)  PROVE SilenceInv'
  BY <1>4 DEF LoadReady, SilenceInv, FrameRuns
<1>5. ASSUME NEW p \in SUBSET Pad, Sample(p)  PROVE SilenceInv'
  <2>1. active' = active /\ pc' = "fullscreen"
    BY <1>5 DEF Sample
  <2>2. PauseSession \/ UNCHANGED <<padVars, paused, page, neutral, sound>>
    BY <1>5 DEF Sample
  <2>3. CASE PauseSession
    BY <2>1, <2>3, Pausing DEF SilenceInv, FrameRuns
  <2>4. CASE UNCHANGED <<padVars, paused, page, neutral, sound>>
    BY <2>1, <2>4 DEF SilenceInv, FrameRuns, Silent, padVars, sound
  <2> QED BY <2>2, <2>3, <2>4
<1>6. CASE FullscreenKey
  <2>1. active' = active /\ pc' = "resume"
    BY <1>6 DEF FullscreenKey
  <2>2. \/ \E enabled \in BOOLEAN : SettingsSaved(enabled)
        \/ PauseSession
        \/ UNCHANGED <<padVars, paused, sound>>
    BY <1>6 DEF FullscreenKey
  <2>3. CASE PauseSession
    BY <2>1, <2>3, Pausing DEF SilenceInv, FrameRuns
  <2>4. CASE UNCHANGED <<padVars, paused, sound>>
    BY <2>1, <2>4 DEF SilenceInv, FrameRuns, Silent, padVars, sound
  <2>5. CASE \E enabled \in BOOLEAN : SettingsSaved(enabled)
    BY <2>1, <2>5, Saving DEF SilenceInv, FrameRuns
  <2> QED BY <2>2, <2>3, <2>4, <2>5
<1>7. CASE ResumeNeutral
  <2>1. active' = active /\ pc' = "menu" /\ buttons' = buttons
    BY <1>7 DEF ResumeNeutral, padVars
  <2>2. CASE active = TRUE
    <3>1. \/ paused' = FALSE
          \/ UNCHANGED <<paused, sound>>
      BY <1>7, <2>2 DEF ResumeNeutral
    <3> QED BY <2>1, <2>2, <3>1 DEF SilenceInv, FrameRuns, Silent, sound
  <2>3. CASE active # TRUE
    <3>1. UNCHANGED sound
      BY <1>7, <2>3 DEF ResumeNeutral
    <3> QED BY <2>1, <2>3, <3>1 DEF SilenceInv, FrameRuns, Silent, sound
  <2> QED BY <2>2, <2>3
<1>8. CASE MenuKey
  <2>1. active' = active /\ pc' = "skip"
    BY <1>8 DEF MenuKey
  <2>2. PauseSession \/ UNCHANGED <<padVars, paused, sound>>
    BY <1>8 DEF MenuKey
  <2>3. CASE PauseSession
    BY <2>1, <2>3, Pausing DEF SilenceInv, FrameRuns
  <2>4. CASE UNCHANGED <<padVars, paused, sound>>
    BY <2>1, <2>4 DEF SilenceInv, FrameRuns, Silent, padVars, sound
  <2> QED BY <2>2, <2>3, <2>4
<1>9. CASE SkipBios
  <2>1. pc' = "step" /\ UNCHANGED <<active, paused, sound>>
    BY <1>9 DEF SkipBios
  <2>2. buttons' = {} \/ buttons' = buttons
    BY <1>9 DEF SkipBios, PadReset, padVars
  <2> QED BY <2>1, <2>2 DEF SilenceInv, FrameRuns, Silent, sound
<1>10. CASE Step
  <2>1. active = TRUE /\ paused = FALSE
    BY <1>10 DEF Step, Runs
  <2> QED BY <1>10, <2>1 DEF Step, SilenceInv, FrameRuns, app
<1> QED BY <1>1, <1>2, <1>3, <1>4, <1>5, <1>6, <1>7, <1>8, <1>9, <1>10 DEF Loop

LEMMA SilentGame ==
  ASSUME SilenceInv, Game
  PROVE  SilenceInv'
<1>1. pc = "frame"
  BY DEF Game, GameWrite, PollStart, GameRead, GameWait, GameReset, EndFrame, FrameFails
<1>2. active = TRUE /\ paused = FALSE
  BY <1>1 DEF SilenceInv, FrameRuns
<1>3. CASE FrameFails
  BY <1>3, Pausing DEF FrameFails, SilenceInv, FrameRuns
<1>4. CASE EndFrame
  BY <1>2, <1>4 DEF EndFrame, SilenceInv, FrameRuns
<1>5. CASE PollStart \/ GameRead \/ GameWait \/ GameReset
           \/ \E l, o \in BOOLEAN : GameWrite(l, o)
  BY <1>2, <1>5 DEF PollStart, GameRead, GameWait, GameReset, GameWrite, SilenceInv,
     FrameRuns, app
<1> QED BY <1>3, <1>4, <1>5 DEF Game

LEMMA SilentInterface ==
  ASSUME SilenceInv, Interface
  PROVE  SilenceInv'
<1>1. pc' = "events"
  BY DEF Interface, Pass, NoAction, SkipButton, Resume, BeginLoad, Return, Restart, Go, SaveSettings
<1>2. CASE Resume \/ BeginLoad \/ Return
  BY <1>1, <1>2, Pausing DEF Resume, BeginLoad, Return, SilenceInv, FrameRuns
<1>3. CASE NoAction
  BY <1>1, <1>3 DEF NoAction, SilenceInv, FrameRuns, Silent, padVars, app, sound
<1>4. CASE Restart
  BY <1>1, <1>4 DEF Restart, PadReset, Suspend, Stopped, SilenceInv, FrameRuns, Silent
<1>5. ASSUME NEW p \in Page, Go(p)  PROVE SilenceInv'
  <2>1. active' = active
    BY <1>5 DEF Go
  <2>2. PauseSession \/ UNCHANGED <<padVars, paused, sound>>
    BY <1>5 DEF Go
  <2>3. CASE PauseSession
    BY <1>1, <2>3, Pausing DEF SilenceInv, FrameRuns
  <2>4. CASE UNCHANGED <<padVars, paused, sound>>
    BY <1>1, <2>1, <2>4 DEF SilenceInv, FrameRuns, Silent, padVars, sound
  <2> QED BY <2>2, <2>3, <2>4
<1>6. ASSUME NEW enabled \in BOOLEAN, SaveSettings(enabled)  PROVE SilenceInv'
  BY <1>1, <1>6, Saving DEF SaveSettings, SilenceInv, FrameRuns
<1>7. CASE SkipButton
  <2>1. buttons' = {} /\ UNCHANGED <<active, paused, sound>>
    BY <1>7 DEF SkipButton, PadReset
  <2> QED BY <1>1, <2>1 DEF SilenceInv, FrameRuns, Silent, sound
<1> QED BY <1>2, <1>3, <1>4, <1>5, <1>6, <1>7 DEF Interface

LEMMA SilentStep ==
  ASSUME SilenceInv, [Next]_vars
  PROVE  SilenceInv'
<1>1. CASE Fetch
  <2>1. ~Silent /\ UNCHANGED <<active, paused, pc>>
    BY <1>1 DEF Fetch, Silent, app
  <2> QED BY <2>1 DEF SilenceInv, FrameRuns
<1>2. ASSUME NEW f \in BOOLEAN, SetFocus(f)  PROVE SilenceInv'
  BY <1>2 DEF SetFocus, SilenceInv, FrameRuns, Silent, padVars, app, sound
<1>3. ASSUME NEW k \in Key, KeyPressed(k) \/ KeyReleased(k)  PROVE SilenceInv'
  BY <1>3 DEF KeyPressed, KeyReleased, SilenceInv, FrameRuns, Silent, padVars, app, sound
<1>4. CASE UNCHANGED vars
  BY <1>4, Groups DEF SilenceInv, FrameRuns, Silent
<1> QED
  BY <1>1, <1>2, <1>3, <1>4, SilentLoop, SilentGame, SilentInterface DEF Next

(* Whatever pauses a session, and whatever the stream's thread, the        *)
(* settings or a failing frame do meanwhile, a paused machine's pads are   *)
(* released and its sound is stopped and emptied: for all bindings, all    *)
(* devices and every length of the queue.                                  *)
THEOREM PausedMachineIsSilent == Spec => []PausedIsSilent
<1>1. Init => SilenceInv
  BY DEF Init, PadInit, SilenceInv, FrameRuns, Silent
<1>2. SilenceInv => PausedIsSilent
  BY DEF SilenceInv, Silent, PausedIsSilent
<1> QED BY <1>1, <1>2, SilentStep, PTL DEF Spec

-----------------------------------------------------------------------------
(* Signature.  What the game receives comes from MapGame, in which         *)
(* opposite directions have cancelled.                                     *)

NoOpposites(pressed) == ~({"up", "down"} \subseteq pressed)
SignatureInv == NoOpposites(buttons) /\ NoOpposites(routed.game)

LEMMA MapCancels ==
  ASSUME NEW held
  PROVE  NoOpposites(MapGame(held))
<1> DEFINE hit == {b \in Button : Bound[b] \intersect held # {}}
           both(a, b) == IF {a, b} \subseteq hit THEN {a, b} ELSE {}
<1>1. MapGame(held) = (hit \ both("up", "down")) \ both("left", "right")
  BY DEF MapGame
<1>2. CASE {"up", "down"} \subseteq hit
  <2>1. both("up", "down") = {"up", "down"}
    BY <1>2
  <2> QED BY <1>1, <2>1 DEF NoOpposites
<1>3. CASE ~({"up", "down"} \subseteq hit)
  BY <1>1, <1>3 DEF NoOpposites
<1> QED BY <1>2, <1>3

(* Where the pad's buttons and the routed ones come from. *)
LEMMA PadSource ==
  ASSUME [Next]_vars
  PROVE  buttons' \in {buttons, {}, routed.game}
<1>1. ASSUME PauseSession \/ PadReset \/ UNCHANGED padVars
                \/ \E enabled \in BOOLEAN : SettingsSaved(enabled)
      PROVE  buttons' \in {buttons, {}}
  BY <1>1 DEF PauseSession, PadReset, padVars, SettingsSaved, SetInputState
<1>2. CASE Loop
  BY <1>1, <1>2 DEF Loop, LostFocus, Update, LoadFails, LoadReady, Sample, FullscreenKey,
     ResumeNeutral, MenuKey, SkipBios, Step, NoStep, SetInputState
<1>3. CASE Game
  BY <1>1, <1>3 DEF Game, GameWrite, PollStart, GameRead, GameWait, GameReset, EndFrame, FrameFails
<1>4. CASE Interface
  BY <1>1, <1>4 DEF Interface, NoAction, SkipButton, Resume, BeginLoad, Return, Restart, Go,
     SaveSettings
<1>5. CASE Fetch \/ (\E f \in BOOLEAN : SetFocus(f))
             \/ (\E k \in Key : KeyPressed(k) \/ KeyReleased(k))
  BY <1>1, <1>5 DEF Fetch, SetFocus, KeyPressed, KeyReleased
<1>6. CASE UNCHANGED vars
  BY <1>6, Groups
<1> QED BY <1>2, <1>3, <1>4, <1>5, <1>6 DEF Next

LEMMA RoutedSource ==
  ASSUME [Next]_vars
  PROVE  \/ routed'.game \in {routed.game, {}}
         \/ \E held : routed'.game = MapGame(held)
<1>0. Nothing.game = {}
  BY DEF Nothing
<1>1. ASSUME NEW p \in SUBSET Pad, Sample(p)
      PROVE  routed'.game = {} \/ \E held : routed'.game = MapGame(held)
  <2> DEFINE held == keys \union p
             names == MenuNames(held)
             menu == "menu" \in names \ previous
             play == active /\ ~paused /\ page = "library"
             game == IF play /\ ~menu THEN MapGame(held) ELSE {}
  <2>1. \/ routed' = Nothing
        \/ routed' = [menu |-> menu, fullscreen |-> "fullscreen" \in names \ previous,
                      game |-> game]
    BY <1>1 DEF Sample
  <2>2. game = {} \/ game = MapGame(held)
    OBVIOUS
  <2> HIDE DEF game, menu, names
  <2>3. CASE routed' = Nothing
    BY <1>0, <2>3
  <2>4. CASE routed' = [menu |-> menu, fullscreen |-> "fullscreen" \in names \ previous,
                        game |-> game]
    <3>1. routed'.game = game
      BY <2>4
    <3> QED BY <2>2, <3>1
  <2> QED BY <2>1, <2>3, <2>4
<1>2. CASE Loop
  BY <1>0, <1>1, <1>2 DEF Loop, LostFocus, Update, LoadFails, LoadReady, FullscreenKey,
     ResumeNeutral, MenuKey, SkipBios, Step, NoStep, locals
<1>3. CASE Game
  BY <1>3 DEF Game, GameWrite, PollStart, GameRead, GameWait, GameReset, EndFrame, FrameFails,
     locals
<1>4. CASE Interface
  BY <1>0, <1>4 DEF Interface, Pass, NoAction, SkipButton, Resume, BeginLoad, Return, Restart, Go,
     SaveSettings
<1>5. CASE Fetch \/ (\E f \in BOOLEAN : SetFocus(f))
             \/ (\E k \in Key : KeyPressed(k) \/ KeyReleased(k))
  BY <1>5 DEF Fetch, SetFocus, KeyPressed, KeyReleased, locals
<1>6. CASE UNCHANGED vars
  BY <1>6, Groups
<1> QED BY <1>2, <1>3, <1>4, <1>5, <1>6 DEF Next

(* No directions a player can hold imitate the six-button pad's signature: *)
(* for all bindings, also those that put opposite directions on one key.   *)
THEOREM SignatureIsUnique == Spec => []SignatureUnique
<1>1. Init => SignatureInv
  BY DEF Init, PadInit, Nothing, SignatureInv, NoOpposites
<1>2. SignatureInv /\ [Next]_vars => SignatureInv'
  BY PadSource, RoutedSource, MapCancels DEF SignatureInv, NoOpposites
<1>3. SignatureInv => SignatureUnique
  <2> SUFFICES ASSUME NoOpposites(buttons), ~TH, 0 .. 3 \subseteq LowLines, phase # 2
               PROVE  FALSE
    BY DEF SignatureInv, SignatureUnique
  <2>1. 0 \in LowLines /\ 1 \in LowLines
    OBVIOUS
  <2>2. CASE phase = 3
    BY <2>1, <2>2 DEF LowLines
  <2>3. CASE phase # 3
    <3>1. 0 \in PressedOn(LowByte) /\ 1 \in PressedOn(LowByte)
      BY <2>1, <2>3 DEF LowLines
    <3>2. "up" \in buttons /\ "down" \in buttons
      BY <3>1 DEF PressedOn, LowByte, Line
    <3> QED BY <3>2 DEF NoOpposites
  <2> QED BY <2>2, <2>3
<1> QED BY <1>1, <1>2, <1>3, PTL DEF Spec

-----------------------------------------------------------------------------
(* Held controls.  Stale ones are held back by the router, and between     *)
(* Sample and Step what was routed is either free of them or cannot run:   *)
(* the steps in between that make controls stale also pause the session.   *)

PassSteps == {"fullscreen", "resume", "menu", "skip", "step"}

HeldBack == suppressed = TRUE \/ stale = {}
RoutedHeld == pc \in PassSteps => \A b \in routed.game : Bound[b] \intersect Held # {}
RoutedWaits == pc \in PassSteps =>
                 routed.game = {} \/ stale = {} \/ paused = TRUE \/ page # "library"
LeakInv == HeldBack /\ RoutedHeld /\ RoutedWaits /\ NothingHeldLeaks

(* No step holds stale controls without the router. *)
LEMMA StaleIsHeldBack ==
  ASSUME HeldBack, [Next]_vars
  PROVE  HeldBack'
<1>1. ASSUME NEW p \in SUBSET Pad, Sample(p)  PROVE HeldBack'
  <2> DEFINE held == keys \union p
  <2>1. \/ suppressed' = TRUE
        \/ stale' = stale \intersect held /\ suppressed' = suppressed /\ suppressed # TRUE
        \/ stale' = stale \intersect held /\ suppressed' = (held # {})
    BY <1>1 DEF Sample
  <2>2. CASE suppressed' = TRUE
    BY <2>2 DEF HeldBack
  <2>3. CASE stale' = stale \intersect held /\ suppressed' = suppressed /\ suppressed # TRUE
    BY <2>3 DEF HeldBack
  <2>4. CASE stale' = stale \intersect held /\ suppressed' = (held # {})
    <3>1. held = {} => stale' = {}
      BY <2>4
    <3>2. held # {} => suppressed' = TRUE
      BY <2>4
    <3> QED BY <3>1, <3>2 DEF HeldBack
  <2> QED BY <2>1, <2>2, <2>3, <2>4
<1>2. CASE Loop
  BY <1>1, <1>2 DEF HeldBack, Loop, LostFocus, Update, LoadFails, LoadReady, FullscreenKey,
     ResumeNeutral, MenuKey, SkipBios, Step, NoStep, SetPage, Suppress, router
<1>3. CASE Game
  BY <1>3 DEF HeldBack, Game, GameWrite, PollStart, GameRead, GameWait, GameReset, EndFrame,
     FrameFails, SetPage, Suppress, router
<1>4. CASE Interface
  BY <1>4 DEF HeldBack, Interface, NoAction, SkipButton, Resume, BeginLoad, Return, Restart, Go,
     SaveSettings, SetPage, Suppress, router
<1>5. CASE Fetch \/ \E f \in BOOLEAN : SetFocus(f)
  BY <1>5 DEF HeldBack, Fetch, SetFocus, router
<1>6. ASSUME NEW k \in Key, KeyPressed(k) \/ KeyReleased(k)  PROVE HeldBack'
  BY <1>6 DEF HeldBack, KeyPressed, KeyReleased, router
<1>7. CASE UNCHANGED vars
  BY <1>7, Groups DEF HeldBack
<1> QED BY <1>2, <1>3, <1>4, <1>5, <1>6, <1>7 DEF Next

LEMMA RoutedAreHeld ==
  ASSUME NEW p \in SUBSET Pad, HeldBack, Sample(p)
  PROVE  /\ \A b \in routed'.game : Bound[b] \intersect Held' # {}
         /\ routed'.game = {} \/ stale' = {}
<1> DEFINE held == keys \union p
           names == MenuNames(held)
           menu == "menu" \in names \ previous
           play == active /\ ~paused /\ page = "library"
           game == IF play /\ ~menu THEN MapGame(held) ELSE {}
<1>1. \/ routed' = Nothing
      \/ /\ routed' = [menu |-> menu, fullscreen |-> "fullscreen" \in names \ previous,
                       game |-> game]
         /\ suppressed # TRUE /\ stale' = stale \intersect held
  BY DEF Sample
<1>2. Held' = held
  BY DEF Sample, Held
<1>3. \A b \in game : Bound[b] \intersect held # {}
  BY DEF MapGame
<1>4. Nothing.game = {}
  BY DEF Nothing
<1> HIDE DEF game, menu, names
<1>5. CASE routed' = Nothing
  BY <1>4, <1>5
<1>6. CASE /\ routed' = [menu |-> menu, fullscreen |-> "fullscreen" \in names \ previous,
                         game |-> game]
           /\ suppressed # TRUE /\ stale' = stale \intersect held
  <2>1. routed'.game = game
    BY <1>6
  <2>2. stale' = {}
    BY <1>6 DEF HeldBack
  <2> QED BY <1>2, <1>3, <2>1, <2>2
<1> QED BY <1>1, <1>5, <1>6

LEMMA LeakPass ==
  ASSUME LeakInv, FullscreenKey \/ ResumeNeutral \/ MenuKey \/ SkipBios \/ NoStep \/ Step
  PROVE  RoutedHeld' /\ RoutedWaits' /\ NothingHeldLeaks'
<1>1. pc \in PassSteps /\ UNCHANGED <<keys, pads>> /\ Held' = Held
  BY DEF FullscreenKey, ResumeNeutral, MenuKey, SkipBios, NoStep, Step, PassSteps, input, Held
<1>2. \A b \in routed.game : Bound[b] \intersect Held # {}
  BY <1>1 DEF LeakInv, RoutedHeld
<1>3. routed.game = {} \/ stale = {} \/ paused = TRUE \/ page # "library"
  BY <1>1 DEF LeakInv, RoutedWaits
<1>4. CASE FullscreenKey
  <2>1. pc' # "frame" /\ routed' = routed
    BY <1>4 DEF FullscreenKey, locals
  <2>2. paused' = TRUE \/ UNCHANGED <<stale, page, paused>>
    BY <1>4, Pausing, Saving DEF FullscreenKey
  <2> QED BY <1>1, <1>2, <1>3, <2>1, <2>2 DEF RoutedHeld, RoutedWaits, NothingHeldLeaks
<1>5. CASE ResumeNeutral
  <2>1. pc' # "frame" /\ UNCHANGED <<routed, stale, page>>
    BY <1>5 DEF ResumeNeutral, locals
  <2>2. paused' = paused \/ Held = {}
    BY <1>5 DEF ResumeNeutral
  <2>3. Held = {} => routed.game = {}
    BY <1>2
  <2> QED BY <1>1, <1>2, <1>3, <2>1, <2>2, <2>3 DEF RoutedHeld, RoutedWaits, NothingHeldLeaks
<1>6. CASE MenuKey
  <2>1. pc' # "frame" /\ routed' = routed
    BY <1>6 DEF MenuKey, locals
  <2>2. paused' = TRUE \/ UNCHANGED <<stale, page, paused>>
    BY <1>6, Pausing DEF MenuKey
  <2> QED BY <1>1, <1>2, <1>3, <2>1, <2>2 DEF RoutedHeld, RoutedWaits, NothingHeldLeaks
<1>7. CASE SkipBios
  <2>1. pc' # "frame" /\ UNCHANGED <<page, paused>>
    BY <1>7 DEF SkipBios
  <2>2. routed'.game = {} \/ (routed' = routed /\ stale' = stale)
    BY <1>7 DEF SkipBios, Nothing
  <2> QED BY <1>1, <1>2, <1>3, <2>1, <2>2 DEF RoutedHeld, RoutedWaits, NothingHeldLeaks
<1>8. CASE NoStep
  BY <1>8 DEF NoStep, RoutedHeld, RoutedWaits, NothingHeldLeaks, PassSteps
<1>9. CASE Step
  <2>1. page = "library" /\ paused # TRUE
    BY <1>9 DEF Step, Runs
  <2>2. routed.game = {} \/ stale = {}
    BY <1>3, <2>1
  <2>3. pc' = "frame" /\ buttons' = routed.game /\ stale' = stale
    BY <1>9 DEF Step, SetInputState
  <2> QED BY <1>1, <1>2, <2>2, <2>3 DEF RoutedHeld, RoutedWaits, NothingHeldLeaks, PassSteps
<1> QED BY <1>4, <1>5, <1>6, <1>7, <1>8, <1>9

LEMMA LeakStep ==
  ASSUME LeakInv, [Next]_vars
  PROVE  LeakInv'
<1>1. HeldBack'
  BY StaleIsHeldBack DEF LeakInv
<1> SUFFICES RoutedHeld' /\ RoutedWaits' /\ NothingHeldLeaks'
  BY <1>1 DEF LeakInv
<1>2. ASSUME NEW p \in SUBSET Pad, Sample(p)
      PROVE  RoutedHeld' /\ RoutedWaits' /\ NothingHeldLeaks'
  BY <1>2, RoutedAreHeld DEF LeakInv, RoutedHeld, RoutedWaits, NothingHeldLeaks, Sample
<1>3. ASSUME pc' \in {"events", "sample", "ui"}
      PROVE  RoutedHeld' /\ RoutedWaits' /\ NothingHeldLeaks'
  BY <1>3 DEF RoutedHeld, RoutedWaits, NothingHeldLeaks, PassSteps
<1>4. CASE Loop
  <2>1. CASE LostFocus \/ Update \/ LoadFails \/ \E enabled \in BOOLEAN : LoadReady(enabled)
    <3>1. pc' \in {"events", "sample", "ui"}
      BY <2>1 DEF LostFocus, Update, LoadFails, LoadReady
    <3> QED BY <3>1, <1>3
  <2> QED BY <1>2, <1>4, <2>1, LeakPass DEF Loop
<1>5. CASE EndFrame \/ FrameFails \/ Interface
  <2>1. pc' \in {"events", "sample", "ui"}
    BY <1>5 DEF EndFrame, FrameFails, Interface, Pass, NoAction, SkipButton, Resume, BeginLoad,
       Return, Restart, Go, SaveSettings
  <2> QED BY <2>1, <1>3
<1>6. CASE PollStart \/ GameRead \/ GameWait \/ \E l, o \in BOOLEAN : GameWrite(l, o)
  <2>1. pc = "frame" /\ UNCHANGED <<pc, buttons, stale, keys, pads>>
    BY <1>6 DEF PollStart, GameRead, GameWait, GameWrite, padVars, input
  <2>2. Held' = Held /\ pc \notin PassSteps
    BY <2>1 DEF Held, PassSteps
  <2>3. RoutedHeld' /\ RoutedWaits'
    BY <2>1, <2>2 DEF RoutedHeld, RoutedWaits
  <2>4. NothingHeldLeaks'
    BY <2>1, <2>2 DEF LeakInv, NothingHeldLeaks
  <2> QED BY <2>3, <2>4
<1>7. ASSUME NEW k \in Key, KeyPressed(k) \/ KeyReleased(k)
      PROVE  RoutedHeld' /\ RoutedWaits' /\ NothingHeldLeaks'
  BY <1>3, <1>7 DEF KeyPressed, KeyReleased
<1>8. CASE Fetch \/ (\E f \in BOOLEAN : SetFocus(f)) \/ UNCHANGED vars
  <2>1. UNCHANGED <<pc, buttons, stale, keys, pads, routed, paused, page>>
    BY <1>8, Groups DEF Fetch, SetFocus, padVars, input, app, locals
  <2>2. Held' = Held
    BY <2>1 DEF Held
  <2>3. RoutedHeld' /\ RoutedWaits'
    BY <2>1, <2>2 DEF LeakInv, RoutedHeld, RoutedWaits
  <2>4. NothingHeldLeaks'
    BY <2>1, <2>2 DEF LeakInv, NothingHeldLeaks
  <2> QED BY <2>3, <2>4
<1>9. CASE GameReset
  <2>1. pc' = "frame" /\ buttons' = {}
    BY <1>9 DEF GameReset, PadReset
  <2> QED BY <2>1 DEF RoutedHeld, RoutedWaits, NothingHeldLeaks, PassSteps
<1> QED BY <1>4, <1>5, <1>6, <1>7, <1>8, <1>9 DEF Next, Game

(* Whatever is held when the page, the focus, the window or the machine    *)
(* changes stays unseen by the game until it has been released: for all    *)
(* sets of controls, bindings and menus.                                   *)
THEOREM HeldControlsStayOut == Spec => []NothingHeldLeaks
<1>1. Init => LeakInv
  BY DEF Init, LeakInv, HeldBack, RoutedHeld, RoutedWaits, NothingHeldLeaks, PassSteps
<1>2. LeakInv => NothingHeldLeaks
  BY DEF LeakInv
<1> QED BY <1>1, <1>2, LeakStep, PTL DEF Spec

-----------------------------------------------------------------------------
(* The poll.  A poll in progress has seen as many edges as the pad has     *)
(* counted, since it began when the counter had fallen back; and then each *)
(* line says what a program takes it to say.                               *)

Symbol == Button \union {"low", "high"}
Polls == [edges : 0 .. 4, known : SUBSET Symbol, held : SUBSET Symbol]
PollInv ==
  /\ buttons \subseteq Button /\ routed.game \subseteq Button
  /\ phase \in 0 .. 3 /\ idle \in Nat /\ (idle >= Timeout => phase = 0)
  /\ poll \in Polls
  /\ poll.edges < 4 => poll.edges = phase
  /\ pc # "frame" => poll = NoPoll
  /\ PollReadsPad

LEMMA LinesMean ==
  ASSUME buttons \subseteq Button, phase \in 0 .. 3, NEW i \in Line
  PROVE  /\ Meaning(phase, TH)[i + 1] \in Symbol
         /\ i \in LowLines <=> Meaning(phase, TH)[i + 1] \in buttons \union {"low"}
<1>0. i = 0 \/ i = 1 \/ i = 2 \/ i = 3 \/ i = 4 \/ i = 5
  BY DEF Line
<1>1. "low" \notin Button /\ "high" \notin Button
  BY DEF Button
<1>2. CASE TH /\ phase < 3
  <2>1. Meaning(phase, TH) = Plain /\ LowLines = PressedOn(Plain)
    BY <1>2 DEF Meaning, LowLines
  <2>2. Plain[i + 1] \in Button
    BY <1>0 DEF Plain, Button
  <2> QED BY <1>1, <2>1, <2>2 DEF PressedOn, Symbol
<1>3. CASE TH /\ phase = 3
  <2>1. Meaning(phase, TH) = Extra /\ LowLines = PressedOn(Extra)
    BY <1>3 DEF Meaning, LowLines
  <2>2. Extra[i + 1] \in Button
    BY <1>0 DEF Extra, Button
  <2> QED BY <1>1, <2>1, <2>2 DEF PressedOn, Symbol
<1>4. CASE ~TH /\ phase < 2
  <2> DEFINE T == <<"up", "down", "low", "low", "a", "start">>
  <2>1. Meaning(phase, TH) = T /\ LowLines = {2, 3} \union PressedOn(LowByte)
    BY <1>4 DEF Meaning, LowLines
  <2>2. CASE i \in {2, 3}
    BY <2>1, <2>2 DEF Symbol
  <2>3. CASE i \in {0, 1, 4, 5}
    <3>1. LowByte[i + 1] = T[i + 1] /\ T[i + 1] \in Button
      BY <2>3 DEF LowByte, Button
    <3> QED BY <1>1, <2>1, <2>3, <3>1 DEF PressedOn, Symbol
  <2> QED BY <1>0, <2>2, <2>3
<1>5. CASE ~TH /\ phase = 2
  <2> DEFINE T == <<"low", "low", "low", "low", "a", "start">>
  <2>1. Meaning(phase, TH) = T /\ LowLines = (0 .. 3) \union PressedOn(LowByte)
    BY <1>5 DEF Meaning, LowLines
  <2>2. CASE i \in {0, 1, 2, 3}
    BY <2>1, <2>2 DEF Symbol
  <2>3. CASE i \in {4, 5}
    <3>1. LowByte[i + 1] = T[i + 1] /\ T[i + 1] \in Button
      BY <2>3 DEF LowByte, Button
    <3> QED BY <1>1, <2>1, <2>3, <3>1 DEF PressedOn, Symbol
  <2> QED BY <1>0, <2>2, <2>3
<1>6. CASE ~TH /\ phase = 3
  <2> DEFINE T == <<"high", "high", "high", "high", "a", "start">>
  <2>1. Meaning(phase, TH) = T /\ LowLines = PressedOn(LowByte) \ (0 .. 3)
    BY <1>6 DEF Meaning, LowLines
  <2>2. CASE i \in {0, 1, 2, 3}
    BY <1>1, <2>1, <2>2 DEF Symbol
  <2>3. CASE i \in {4, 5}
    <3>1. LowByte[i + 1] = T[i + 1] /\ T[i + 1] \in Button
      BY <2>3 DEF LowByte, Button
    <3> QED BY <1>1, <2>1, <2>3, <3>1 DEF PressedOn, Symbol
  <2> QED BY <1>0, <2>2, <2>3
<1> QED BY <1>2, <1>3, <1>4, <1>5, <1>6

LEMMA PollGame ==
  ASSUME PollInv, Game
  PROVE  /\ phase' \in 0 .. 3 /\ idle' \in Nat /\ (idle' >= Timeout => phase' = 0)
         /\ poll' \in Polls
         /\ poll'.edges < 4 => poll'.edges = phase'
         /\ pc' # "frame" => poll' = NoPoll
         /\ PollReadsPad'
<1> USE PadAssumption
<1>0. /\ NoPoll \in Polls /\ NoPoll.edges = 4
      /\ NoPoll.known = {} /\ NoPoll.held = {}
  BY DEF NoPoll, Polls
<1>1. /\ buttons \subseteq Button
      /\ phase \in 0 .. 3 /\ idle \in Nat /\ (idle >= Timeout => phase = 0)
      /\ poll \in Polls /\ (poll.edges < 4 => poll.edges = phase)
      /\ poll.held = poll.known \intersect (buttons \union {"low"})
  BY DEF PollInv, PollReadsPad
<1>2. ASSUME NEW l \in BOOLEAN, NEW o \in BOOLEAN, GameWrite(l, o)
      PROVE  /\ phase' \in 0 .. 3 /\ idle' \in Nat /\ (idle' >= Timeout => phase' = 0)
             /\ poll' \in Polls
             /\ poll'.edges < 4 => poll'.edges = phase'
             /\ pc' # "frame" => poll' = NoPoll
             /\ PollReadsPad'
  <2>1. pc' = "frame" /\ buttons' = buttons
    BY <1>2 DEF GameWrite
  <2>2. CASE ~TH /\ Level(l, o)
    <3>1. phase' = (phase + 1) % 4 /\ idle' = 0
      BY <1>2, <2>2 DEF GameWrite, Write
    <3>2. phase' \in 0 .. 3 /\ (phase < 3 => phase' = phase + 1)
      BY <1>1, <3>1
    <3>3. CASE poll.edges < 3
      <4>1. poll' = [poll EXCEPT !.edges = @ + 1]
        BY <1>1, <1>2, <2>2, <3>3 DEF GameWrite, Polls
      <4>2. /\ poll' \in Polls /\ poll'.edges = poll.edges + 1
            /\ poll'.known = poll.known /\ poll'.held = poll.held
        BY <1>1, <3>3, <4>1 DEF Polls
      <4> QED BY <1>1, <2>1, <3>1, <3>2, <3>3, <4>2 DEF PollReadsPad, Polls
    <3>4. CASE poll.edges = 3
      <4>1. poll' = NoPoll
        BY <1>2, <2>2, <3>4 DEF GameWrite
      <4> QED BY <1>0, <3>1, <3>2, <4>1 DEF PollReadsPad
    <3>5. CASE poll.edges = 4
      <4>1. poll' = poll
        BY <1>2, <2>2, <3>5 DEF GameWrite
      <4> QED BY <1>1, <2>1, <3>1, <3>2, <3>5, <4>1 DEF PollReadsPad
    <3> QED BY <1>1, <3>3, <3>4, <3>5 DEF Polls
  <2>3. CASE ~(~TH /\ Level(l, o))
    <3>1. UNCHANGED <<phase, idle, poll>>
      BY <1>2, <2>3 DEF GameWrite, Write
    <3> QED BY <1>1, <2>1, <3>1 DEF PollReadsPad
  <2> QED BY <2>2, <2>3
<1>3. CASE PollStart
  <2>1. /\ poll' = [NoPoll EXCEPT !.edges = 0] /\ idle >= Timeout
        /\ UNCHANGED <<buttons, phase, idle, pc>> /\ pc = "frame"
    BY <1>3 DEF PollStart, padVars
  <2>2. poll' \in Polls /\ poll'.edges = 0 /\ poll'.known = {} /\ poll'.held = {}
    BY <2>1 DEF NoPoll, Polls
  <2> QED BY <1>1, <2>1, <2>2 DEF PollReadsPad
<1>4. CASE GameRead
  <2> DEFINE table == Meaning(poll.edges, TH)
             seen == {table[i + 1] : i \in Line}
             low == {table[i + 1] : i \in LowLines}
  <2>1. /\ pc = "frame" /\ poll.edges < 4 /\ UNCHANGED <<buttons, phase, idle, pc>>
        /\ poll' = [poll EXCEPT !.known = @ \union seen, !.held = @ \union low]
    BY <1>4 DEF GameRead, padVars
  <2>2. poll.edges = phase
    BY <1>1, <2>1
  <2>3. \A i \in Line : /\ table[i + 1] \in Symbol
                        /\ i \in LowLines <=> table[i + 1] \in buttons \union {"low"}
    BY <1>1, <2>2, LinesMean
  <2>4. LowLines \subseteq Line
    BY DEF LowLines, PressedOn, Line
  <2> HIDE DEF table
  <2>5. low = seen \intersect (buttons \union {"low"}) /\ seen \subseteq Symbol
    BY <2>3, <2>4
  <2> HIDE DEF seen, low
  <2>6. /\ poll' \in Polls /\ poll'.edges = poll.edges
        /\ poll'.known = poll.known \union seen /\ poll'.held = poll.held \union low
    BY <1>1, <2>1, <2>5 DEF Polls
  <2> QED BY <1>1, <2>1, <2>5, <2>6 DEF PollReadsPad
<1>5. CASE GameWait
  <2>1. /\ pc' = "frame" /\ buttons' = buttons
        /\ idle' \in Nat /\ phase' = IF idle' >= Timeout THEN 0 ELSE phase
        /\ poll' = IF idle' >= Timeout THEN NoPoll ELSE poll
    BY <1>1, <1>5 DEF GameWait, PadAdvance
  <2> QED BY <1>0, <1>1, <2>1 DEF PollReadsPad
<1>6. CASE EndFrame \/ FrameFails
  <2>1. poll' = NoPoll
    BY <1>6 DEF EndFrame, FrameFails
  <2>2. (phase' = phase /\ idle' = idle) \/ (phase' = 0 /\ idle' = 0)
    BY <1>6 DEF EndFrame, FrameFails, PauseSession, PadReset, padVars
  <2> QED BY <1>0, <1>1, <2>1, <2>2 DEF PollReadsPad
<1>7. CASE GameReset
  <2>1. poll' = NoPoll /\ phase' = 0 /\ idle' = 0
    BY <1>7 DEF GameReset, PadReset
  <2> QED BY <1>0, <2>1 DEF PollReadsPad
<1> QED BY <1>2, <1>3, <1>4, <1>5, <1>6, <1>7 DEF Game

(* Outside the frames the pad's counter is left alone or the pad is new. *)
LEMMA PadRests ==
  ASSUME [Next]_vars, ~Game
  PROVE  /\ (phase' = phase /\ idle' = idle) \/ (phase' = 0 /\ idle' = 0)
         /\ poll' = poll
         /\ pc = "frame" => pc' = "frame" /\ UNCHANGED <<buttons, phase, idle>>
<1>1. ASSUME PauseSession \/ PadReset \/ UNCHANGED padVars
                \/ \E enabled \in BOOLEAN : SettingsSaved(enabled)
      PROVE  (phase' = phase /\ idle' = idle) \/ (phase' = 0 /\ idle' = 0)
  BY <1>1 DEF PauseSession, PadReset, padVars, SettingsSaved
<1>2. CASE Loop
  BY <1>1, <1>2 DEF Loop, LostFocus, Update, LoadFails, LoadReady, Sample, FullscreenKey,
     ResumeNeutral, MenuKey, SkipBios, Step, NoStep
<1>3. CASE Interface
  BY <1>1, <1>3 DEF Interface, Pass, NoAction, SkipButton, Resume, BeginLoad, Return, Restart, Go,
     SaveSettings
<1>4. CASE Fetch \/ (\E f \in BOOLEAN : SetFocus(f))
             \/ (\E k \in Key : KeyPressed(k) \/ KeyReleased(k)) \/ UNCHANGED vars
  BY <1>4, Groups DEF Fetch, SetFocus, KeyPressed, KeyReleased, padVars
<1> QED BY <1>2, <1>3, <1>4 DEF Next

LEMMA PollStep ==
  ASSUME PollInv, [Next]_vars
  PROVE  PollInv'
<1>1. buttons' \subseteq Button
  BY PadSource DEF PollInv
<1>2. routed'.game \subseteq Button
  <2>1. \A held : MapGame(held) \subseteq Button
    BY DEF MapGame
  <2> QED BY <2>1, RoutedSource DEF PollInv
<1>3. CASE Game
  BY <1>1, <1>2, <1>3, PollGame DEF PollInv
<1>4. CASE ~Game
  <2>1. /\ (phase' = phase /\ idle' = idle) \/ (phase' = 0 /\ idle' = 0)
        /\ poll' = poll
        /\ pc = "frame" => pc' = "frame" /\ UNCHANGED <<buttons, phase, idle>>
    BY <1>4, PadRests
  <2>2. /\ phase \in 0 .. 3 /\ idle \in Nat /\ (idle >= Timeout => phase = 0)
        /\ poll \in Polls /\ (poll.edges < 4 => poll.edges = phase)
        /\ (pc # "frame" => poll = NoPoll) /\ PollReadsPad
    BY DEF PollInv
  <2>3. CASE pc = "frame"
    <3>1. pc' = "frame" /\ UNCHANGED <<buttons, phase, idle, poll>>
      BY <2>1, <2>3
    <3> QED BY <1>1, <1>2, <2>1, <2>2, <3>1, PadAssumption DEF PollInv, PollReadsPad
  <2>4. CASE pc # "frame"
    <3>1. /\ NoPoll \in Polls /\ NoPoll.edges = 4
          /\ NoPoll.known = {} /\ NoPoll.held = {}
      BY DEF NoPoll, Polls
    <3>2. poll' = NoPoll
      BY <2>1, <2>2, <2>4
    <3> QED BY <1>1, <1>2, <2>1, <2>2, <3>1, <3>2, PadAssumption DEF PollInv, PollReadsPad
  <2> QED BY <2>3, <2>4
<1> QED BY <1>3, <1>4

(* Every poll of a program that keeps the time-out between its polls reads *)
(* the buttons as they are, for every time-out and saturation, whatever    *)
(* order it drives and reads the lines in, and whatever pauses, restarts   *)
(* or lost focus fell between its polls.                                   *)
THEOREM PollIsExact == Spec => []PollReadsPad
<1>1. Init => PollInv
  BY PadAssumption DEF Init, PadInit, PollInv, PollReadsPad, Polls, NoPoll, Nothing
<1>2. PollInv => PollReadsPad
  BY DEF PollInv
<1> QED BY <1>1, <1>2, PollStep, PTL DEF Spec

-----------------------------------------------------------------------------
LEMMA IdleSaturates ==
  ASSUME idle \in 0 .. MaxIdle, [Next]_vars
  PROVE  idle' \in 0 .. MaxIdle
<1> USE PadAssumption
<1>1. CASE ~Game
  BY <1>1, PadRests
<1>2. CASE Game
  BY <1>2 DEF Game, GameWrite, Write, PollStart, GameRead, GameWait, PadAdvance, GameReset,
     EndFrame, FrameFails, PauseSession, PadReset, padVars
<1> QED BY <1>1, <1>2

(* The values of the state, for any bindings and lengths; in particular    *)
(* the sound queue never exceeds its limit and the pad's time saturates.   *)
THEOREM TypeCorrect == Spec => []TypeOK
<1> DEFINE Inv == TypeInv /\ PollInv /\ idle \in 0 .. MaxIdle
<1>1. Init => Inv
  <2>1. Init => PollInv
    BY PadAssumption DEF Init, PadInit, PollInv, PollReadsPad, Polls, NoPoll, Nothing
  <2> QED BY <2>1, ControlsAssumption, PadAssumption
       DEF Init, PadInit, TypeInv, Sounding, Holding, Held, Page
<1>2. Inv /\ [Next]_vars => Inv'
  BY PollStep, SoundTypes, HeldTypes, PageTypes, IdleSaturates DEF TypeInv
<1>3. Inv => TypeOK
  BY DEF TypeInv, Sounding, Holding, PollInv, TypeOK
<1> QED BY <1>1, <1>2, <1>3, PTL DEF Spec

=============================================================================
