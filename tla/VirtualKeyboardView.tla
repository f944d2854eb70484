------------------------- MODULE VirtualKeyboardView -------------------------
(***************************************************************************)
(* The window of the virtual keyboard: the state machine of                *)
(* VirtualKeyboardView, the animator that drives it, the QQuickView it     *)
(* creates and destroys, and the part of VirtualKeyboardManager that shows,*)
(* hides and flips it and reserves the screen area below the applications. *)
(*                                                                         *)
(* Everything runs on the GUI thread: an action is one slot or event       *)
(* handler with all it calls synchronously (the signals of this program    *)
(* are direct connections).  With the disabled animator the "finished"     *)
(* signal is emitted inside play*Animation, so one action then runs        *)
(* through the transient state to the next stable one.                     *)
(***************************************************************************)
EXTENDS Naturals

CONSTANTS
  Configs,            \* screen layouts and scale factors, opaque
  AnimationSettings,  \* the values the GSettings key animationEnabled takes
  PreloadSettings,    \* the values of the key preloadViewEnabled
  Adjuster            \* which WorkspaceAdjuster this build and desktop use

ASSUME ConfigsAssumption == Configs # {}
ASSUME SettingsAssumption ==
  /\ AnimationSettings \subseteq BOOLEAN /\ AnimationSettings # {}
  /\ PreloadSettings \subseteq BOOLEAN /\ PreloadSettings # {}
ASSUME AdjusterAssumption == Adjuster \in {"x11kf5", "x11kf6", "wayland", "none"}

VARIABLES
  state,             \* currentState_ of the view
  float,             \* isFloatMode_ of PlacementModeManager
  animationEnabled,  \* the setting; also which Animator is installed
  preload,           \* the setting preloadViewEnabled
  config,            \* what geometry() is computed from right now
  refreshPending,    \* config changed, its signal has not been handled
  window,            \* the QQuickView view_ points to
  animation,         \* animation_ of the EnabledAnimator
  area               \* the workspace adjuster and what it reserved

settingVars == <<animationEnabled, preload, config, refreshPending>>
vars == <<state, float, settingVars, window, animation, area>>

-----------------------------------------------------------------------------
(* Geometry.  A place stands for the rectangle a geometry manager computes *)
(* for a mode from a configuration; "off" is the initial geometry below    *)
(* it, "moving" any coordinate an animation left behind.                   *)

States == {"Invisible", "Showing", "Visible", "Hiding", "Flipping"}
Places == [at : {"float", "docked", "off", "moving"}, config : Configs]

Place(spot) == [at |-> spot, config |-> config]

\* getCurrentGeometryManager().geometry() in placement mode f.
Geometry(f) == Place(IF f THEN "float" ELSE "docked")

\* isVirtualKeyboardVisible() of the current state.
IsVisible == state \in {"Showing", "Visible", "Flipping"}

-----------------------------------------------------------------------------
(* The window: frame is x, width and height, top is y.                     *)

Windows == {w \in [exists : BOOLEAN, shown : BOOLEAN, frame : Places, top : Places,
                   opacity : {"opaque", "clear", "fading"}] : w.shown => w.exists}

Moved(w, place) == [w EXCEPT !.frame = place, !.top = place]

\* Mutant of NewWindow: setViewOpacity does not ask whether animations are enabled.
NewWindowAlwaysFaded ==
  [exists |-> TRUE, shown |-> FALSE, frame |-> Geometry(float),
   top |-> Place("off"), opacity |-> IF float THEN "clear" ELSE "opaque"]

\* A new QQuickView as initView leaves it: initial geometry, then setViewOpacity.
NewWindow ==
  [exists |-> TRUE, shown |-> FALSE, frame |-> Geometry(float),
   top |-> Place("off"),
   opacity |-> IF animationEnabled /\ float THEN "clear" ELSE "opaque"]

\* initView returns at once when a preloaded window can be used again.
KeepsWindow == window.exists /\ preload

\* Mutant of InitView: the early return does not look at view_.
InitViewReusesNothing == window

InitView == IF KeepsWindow THEN window ELSE NewWindow

\* Mutant of DestroyView: the window is not hidden.
DestroyViewWithoutHide(w) == [w EXCEPT !.exists = preload]

\* destroyView: hide the window, and let it go unless views are preloaded.
DestroyView(w) == [w EXCEPT !.shown = FALSE, !.exists = preload]

-----------------------------------------------------------------------------
(* The workspace adjusters.  X11: a single-shot timer of 200 ms sets the   *)
(* strut of a dummy window to rect.  Wayland (UKUI and layer-shell): the   *)
(* zone is a property of the keyboard window, held as a plain pointer.     *)

Areas == [timer : BOOLEAN, rect : Places, reserved : BOOLEAN, strut : Places,
          held : {"null", "current", "gone"}]

\* Mutant of RaiseInputArea: an active timer keeps the rectangle it has.
RaiseInputAreaOnce(a, place) ==
  IF a.timer THEN a ELSE [a EXCEPT !.timer = TRUE, !.rect = place]

\* The adjusters of Wayland reserve by a property of the window and keep a pointer to it.
RaiseOnWindow(a, place) ==
  [a EXCEPT !.reserved = TRUE, !.strut = place, !.held = "current"]

RaiseInputArea(a, place) ==
  CASE Adjuster \in {"x11kf5", "x11kf6"} ->
         [a EXCEPT !.timer = TRUE, !.rect = place]
    [] Adjuster = "wayland" -> RaiseOnWindow(a, place)
    [] Adjuster = "none" -> a

\* Mutant of FallInputArea: the timer is not stopped.
FallInputAreaTimerRuns(a) == [a EXCEPT !.reserved = FALSE]

\* The property of the window the pointer is for, if that is still there.
FallOnWindow(a) == IF a.held = "current" THEN [a EXCEPT !.reserved = FALSE] ELSE a

FallInputArea(a) ==
  CASE Adjuster \in {"x11kf5", "x11kf6"} ->
         [a EXCEPT !.timer = FALSE, !.reserved = FALSE]
    [] Adjuster = "wayland" -> FallOnWindow(a)
    [] Adjuster = "none" -> a

\* The window the adjuster may still point to is deleted.
LoseWindow(a) == IF a.held = "current" THEN [a EXCEPT !.held = "gone"] ELSE a

\* The oneshotTimer_ of X11Kf5WorkspaceAdjuster fires.  X11Kf6's is connected
\* to nothing: its constructor does not call connectSignal.
AdjusterTimeout ==
  /\ Adjuster = "x11kf5"
  /\ area.timer
  /\ area' = [area EXCEPT !.timer = FALSE, !.reserved = TRUE, !.strut = area.rect]
  /\ UNCHANGED <<state, float, settingVars, window, animation>>

-----------------------------------------------------------------------------
(* The animator.  An animation moves y only; in float mode show and hide   *)
(* fade too.  fade is the opacity it ends with.                            *)

Animations == [running : BOOLEAN, to : Places,
               fade : {"keep", "opaque", "clear"}]

\* Mutant of Stopped: the animation outlives its animator.
StoppedNever == animation

Stopped == [animation EXCEPT !.running = FALSE]

\* Mutant of Play: the animation is over before its finished signal is connected.
PlayEndsAtOnce(place, fade) ==
  animation' = [running |-> FALSE, to |-> place, fade |-> fade]

\* EnabledAnimator::playAnimation towards y = place.
Play(place, fade) == animation' = [running |-> TRUE, to |-> place, fade |-> fade]

\* The window once an animation with this fade has started on it.
Animated(w, fade) ==
  [w EXCEPT !.top = Place("moving"),
            !.opacity = IF fade = "keep" THEN @ ELSE "fading"]

\* The window when the running animation has come to its end.
Landed ==
  [window EXCEPT !.top = animation.to,
                 !.opacity = IF animation.fade = "keep" THEN @ ELSE animation.fade]

-----------------------------------------------------------------------------
(* Entering a state.  w and a are the window and the area the handler has  *)
(* produced so far, f the placement mode.                                  *)

\* Mutant of EnterVisibleState: raiseAppRequested is not emitted.
EnterVisibleStateUnraised(w, a, f) ==
  /\ state' = "Visible"
  /\ window' = w
  /\ area' = a

EnterVisibleState(w, a, f) ==
  /\ state' = "Visible"
  /\ window' = w
  /\ area' = IF f THEN a ELSE RaiseInputArea(a, Geometry(f))

EnterInvisibleState(w, a, playing) ==
  /\ state' = "Invisible"
  /\ window' = DestroyView(w)
  /\ area' = IF preload THEN a ELSE LoseWindow(a)
  /\ animation' = [playing EXCEPT !.running = @ /\ preload]

EnterShowingState(w, a) ==
  LET onScreen == [w EXCEPT !.shown = TRUE]
      fade == IF float THEN "opaque" ELSE "keep"
  IN  \/ /\ animationEnabled
         /\ state' = "Showing"
         /\ Play(Geometry(float), fade)
         /\ window' = Animated(onScreen, fade)
         /\ area' = a
      \/ /\ ~animationEnabled
         /\ EnterVisibleState(Moved(onScreen, Geometry(float)), a, float)
         /\ UNCHANGED animation

EnterHidingState(a) ==
  LET fade == IF float THEN "clear" ELSE "keep"
  IN  \/ /\ animationEnabled
         /\ state' = "Hiding"
         /\ Play(Place("off"), fade)
         /\ window' = Animated(window, fade)
         /\ area' = a
      \/ /\ ~animationEnabled
         /\ EnterInvisibleState(window, a, animation)

\* flipPlacementMode of the PlacementModeManager
FlippedMode == ~float

\* updateExpansionFlippingStartGeometry: x, width and height, but not y.
FlippingStart == [window EXCEPT !.frame = Geometry(TRUE)]

\* The mode is flipped; to float mode, the window gets the size to flip with and
\* fallAppRequested is emitted; then the flip animation.
EnterFlippingState ==
  LET f == FlippedMode
      w == IF f THEN FlippingStart ELSE window
      a == IF f THEN FallInputArea(area) ELSE area
  IN  /\ float' = f
      /\ \/ /\ animationEnabled
            /\ state' = "Flipping"
            /\ Play(Geometry(f), "keep")
            /\ window' = Animated(w, "keep")
            /\ area' = a
         \/ /\ ~animationEnabled
            /\ EnterVisibleState(Moved(w, Geometry(f)), a, f)
            /\ UNCHANGED animation

-----------------------------------------------------------------------------
(* The handlers.                                                           *)

Init ==
  /\ state = "Invisible"
  /\ float \in BOOLEAN
  /\ animationEnabled \in AnimationSettings
  /\ preload \in PreloadSettings
  /\ config \in Configs
  /\ refreshPending = FALSE
  /\ window = [NewWindow EXCEPT !.exists = preload]
  /\ animation = [running |-> FALSE, to |-> Place("off"), fade |-> "keep"]
  /\ area = [timer |-> FALSE, rect |-> Place("off"), reserved |-> FALSE,
             strut |-> Place("off"), held |-> "null"]

\* VirtualKeyboardManager::showVirtualKeyboard
ShowVirtualKeyboard ==
  /\ ~IsVisible
  /\ \/ /\ state = "Invisible"
        /\ EnterShowingState(InitView, IF KeepsWindow THEN area ELSE LoseWindow(area))
     \/ /\ state = "Hiding"
        /\ EnterShowingState(window, area)
  /\ UNCHANGED <<float, settingVars>>

\* Mutant of AreaWhenHidden: the test of the placement mode is inverted.
AreaWhenHiddenInverted == IF float THEN FallInputArea(area) ELSE area

\* hideVirtualKeyboard gives the reserved area back before it hides the view.
AreaWhenHidden == IF float THEN area ELSE FallInputArea(area)

\* VirtualKeyboardManager::hideVirtualKeyboard
HideVirtualKeyboard ==
  /\ IsVisible
  /\ \/ /\ state \in {"Showing", "Visible"}
        /\ EnterHidingState(AreaWhenHidden)
     \/ /\ state = "Flipping"
        /\ EnterInvisibleState(window, AreaWhenHidden, animation)
  /\ UNCHANGED <<float, settingVars>>

\* VirtualKeyboardManager::flipPlacementMode, a no-op unless Visible
FlipPlacementMode ==
  /\ state = "Visible"
  /\ EnterFlippingState
  /\ UNCHANGED settingVars

\* Mutant of FlippedWindow: no updateGeometry after a flip.
FlippedWindowUnplaced == Landed

\* The window at the end of a flip: docked, it gets its full geometry only now.
FlippedWindow == IF float THEN Landed ELSE Moved(Landed, Geometry(float))

\* onAnimationFinished of the current state
AnimationFinished ==
  /\ animation.running
  /\ \/ /\ state = "Showing"
        /\ EnterVisibleState(Landed, area, float)
        /\ animation' = Stopped
     \/ /\ state = "Flipping"
        /\ EnterVisibleState(FlippedWindow, area, float)
        /\ animation' = Stopped
     \/ /\ state = "Hiding"
        /\ EnterInvisibleState(Landed, area, Stopped)
     \/ /\ state \in {"Visible", "Invisible"}
        /\ window' = Landed
        /\ animation' = Stopped
        /\ UNCHANGED <<state, area>>
  /\ UNCHANGED <<float, settingVars>>

-----------------------------------------------------------------------------
(* Settings and screens.                                                   *)

\* animationAvailabilityChanged: the view's handler, then setAnimator; the old
\* animator takes its animation along, whose finished signal never comes.
AnimationAvailabilityChanged ==
  /\ animationEnabled' \in AnimationSettings \ {animationEnabled}
  /\ window' = IF window.exists /\ ~animationEnabled'
               THEN [window EXCEPT !.opacity = "opaque"] ELSE window
  /\ animation' = Stopped
  /\ UNCHANGED <<state, float, preload, config, refreshPending, area>>

\* The key preloadViewEnabled is read when it is needed, nobody listens to it.
PreloadChanged ==
  /\ preload' \in PreloadSettings \ {preload}
  /\ UNCHANGED <<state, float, animationEnabled, config, refreshPending,
                 window, animation, area>>

\* A screen or the scale factor changes: geometry() sees it at once ...
ConfigChanged ==
  /\ config' \in Configs \ {config}
  /\ refreshPending' = TRUE
  /\ UNCHANGED <<state, float, animationEnabled, preload, window, animation, area>>

\* ... and the handler of screensChanged or scaleFactorChanged when it is called:
\* updateGeometry and raiseInputAreaIfNecessary.
GeometryRefreshed ==
  /\ refreshPending
  /\ refreshPending' = FALSE
  /\ window' = CASE ~IsVisible -> window
                 [] IsVisible /\ animation.running -> [window EXCEPT !.frame = Geometry(float)]
                 [] OTHER -> Moved(window, Geometry(float))
  /\ area' = IF IsVisible /\ ~float THEN RaiseInputArea(area, Geometry(float)) ELSE area
  /\ UNCHANGED <<state, float, animationEnabled, preload, config, animation>>

Next ==
  \/ ShowVirtualKeyboard
  \/ HideVirtualKeyboard
  \/ FlipPlacementMode
  \/ AnimationFinished
  \/ AdjusterTimeout
  \/ AnimationAvailabilityChanged
  \/ PreloadChanged
  \/ ConfigChanged
  \/ GeometryRefreshed

\* A running animation ends, an active timer fires, an emitted signal is handled.
Fairness ==
  /\ WF_vars(AnimationFinished)
  /\ WF_vars(AdjusterTimeout)
  /\ WF_vars(GeometryRefreshed)

Spec == Init /\ [][Next]_vars /\ Fairness

-----------------------------------------------------------------------------
(* What must hold.                                                         *)

\* Every variable has its type; a window that is shown exists.
TypeOK ==
  /\ state \in States
  /\ float \in BOOLEAN
  /\ animationEnabled \in BOOLEAN
  /\ preload \in BOOLEAN
  /\ refreshPending \in BOOLEAN
  /\ config \in Configs
  /\ window \in Windows
  /\ animation \in Animations
  /\ area \in Areas

\* The strut, and the timer that is going to set it, exist only while the keyboard
\* is visible and docked: no interleaving of hide, flip, screen changes and the
\* 200 ms timer leaves the applications squeezed above a keyboard that is gone.
InputAreaOnlyWhileDocked == area.timer \/ area.reserved => IsVisible /\ ~float

\* The window is on the screen in every state but Invisible, and in no other, also
\* after hiding during a flip, with views kept or not, and with animations swapped.
WindowShownUnlessInvisible == window.shown <=> state # "Invisible"

\* The keyboard never comes to rest transparent: whatever show, hide and setting
\* changes a fade was interrupted by, Visible means opaque.
VisibleIsOpaque == state = "Visible" => window.opacity = "opaque"

\* Once a change of the screens has been handled, what is reserved, or about to be,
\* is the area the docked keyboard covers now.
ReservedAreaIsCurrent ==
  ~refreshPending =>
    /\ area.timer => area.rect = Place("docked")
    /\ area.reserved /\ ~area.timer => area.strut = Place("docked")

\* An animation never outlives the animator that runs it or the window it moves.
AnimationHasTarget == animation.running => animationEnabled /\ window.exists

\* At rest the window is where its geometry manager puts it.  Not so once a view
\* hidden during a flip is kept, or a screen changes during an animation.
VisibleIsInPlace ==
  state = "Visible" => {window.frame, window.top} = {Geometry(float)}

\* The pointer an adjuster keeps is null or alive whenever hideVirtualKeyboard or
\* flipPlacementMode may dereference it.
HeldWindowIsAlive == IsVisible /\ ~float => area.held # "gone"

\* An animation whose animator is replaced never ends.
AnimationSettingLeftAlone == []animationEnabled \/ []~animationEnabled

\* A show, hide or flip animation ends, or something ends it.
TransientStatesEnd ==
  AnimationSettingLeftAlone =>
    \A s \in {"Showing", "Hiding", "Flipping"} : state = s ~> state # s

\* A docked keyboard that stays gets its space.
DockedGetsReserved ==
  AnimationSettingLeftAlone =>
    (IsVisible /\ ~float ~> area.reserved \/ ~IsVisible \/ float)

\* The keyboard keeps the promise to the desktop.
Panel == INSTANCE InputPanel
  WITH visible <- IsVisible, docked <- ~float, reserved <- area.reserved
ImplementsInputPanel == Panel!PanelSpec
=============================================================================
