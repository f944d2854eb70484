---------------------- MODULE VirtualKeyboardViewProofs ----------------------
(***************************************************************************)
(* Proofs about VirtualKeyboardView, for every set of configurations, every*)
(* choice of settings and every workspace adjuster.                        *)
(***************************************************************************)
EXTENDS VirtualKeyboardView, TLAPS

-----------------------------------------------------------------------------
(* The inductive invariant.                                                *)

\* What the adjusters that are not X11's cannot do.
AreaInv ==
  /\ Adjuster = "none" => ~area.timer /\ ~area.reserved
  /\ Adjuster = "wayland" => ~area.timer /\ (area.reserved => area.held = "current")

\* Why a keyboard at rest is opaque: only a floating window fades, and an animation
\* that may end in Visible ends opaque.
OpacityInv ==
  /\ window.exists /\ (~animationEnabled \/ ~float) => window.opacity = "opaque"
  /\ state \in {"Visible", "Flipping"} => window.opacity = "opaque"
  /\ animation.running /\ (~float \/ state \in {"Visible", "Flipping", "Invisible"})
       => animation.fade = "keep"
  /\ animation.running /\ state = "Showing" /\ float => animation.fade = "opaque"

IInv ==
  /\ TypeOK
  /\ InputAreaOnlyWhileDocked
  /\ AreaInv
  /\ ReservedAreaIsCurrent
  /\ WindowShownUnlessInvisible
  /\ AnimationHasTarget
  /\ OpacityInv

-----------------------------------------------------------------------------
(* The helpers.                                                            *)

\* Geometries of the current configuration are places.
LEMMA PlaceType ==
  ASSUME config \in Configs
  PROVE  /\ \A spot \in {"float", "docked", "off", "moving"} : Place(spot) \in Places
         /\ \A f \in BOOLEAN : Geometry(f) \in Places
  BY DEF Place, Geometry, Places

\* What raising leaves of an area: its type, and the new rectangle in the timer or in
\* the reserved strut, according to the adjuster.
LEMMA RaiseFacts ==
  ASSUME NEW a \in Areas, NEW place \in Places
  PROVE  LET b == RaiseInputArea(a, place) IN
         /\ b \in Areas
         /\ Adjuster = "none" => b = a
         /\ Adjuster = "wayland" => b.timer = a.timer /\ b.reserved /\ b.strut = place
                                      /\ b.held = "current"
         /\ Adjuster \in {"x11kf5", "x11kf6"} => b.timer /\ b.rect = place
                                      /\ b.reserved = a.reserved
  BY AdjusterAssumption DEF RaiseInputArea, RaiseOnWindow, Areas

\* After a fall nothing is reserved nor about to be, where the adjuster can do either.
LEMMA FallFacts ==
  ASSUME NEW a \in Areas,
         Adjuster = "none" => ~a.timer /\ ~a.reserved,
         Adjuster = "wayland" => ~a.timer /\ (a.reserved => a.held = "current")
  PROVE  LET b == FallInputArea(a) IN b \in Areas /\ ~b.timer /\ ~b.reserved
  BY AdjusterAssumption DEF FallInputArea, FallOnWindow, Areas

\* A deleted window changes nothing but the pointer to it.
LEMMA LoseFacts ==
  ASSUME NEW a \in Areas
  PROVE  LET b == LoseWindow(a) IN
         /\ b \in Areas
         /\ b.timer = a.timer /\ b.rect = a.rect
         /\ b.reserved = a.reserved /\ b.strut = a.strut
  BY DEF LoseWindow, Areas

-----------------------------------------------------------------------------
(* Entering a state.                                                       *)

\* Visible: the window is on screen and opaque, and nothing is animated.
LEMMA EnterVisibleKeepsIInv ==
  ASSUME TypeOK,
         NEW w \in Windows, w.exists, w.shown, w.opacity = "opaque",
         NEW a \in Areas,
         NEW f \in BOOLEAN, f => ~a.timer /\ ~a.reserved,
         Adjuster = "none" => ~a.timer /\ ~a.reserved,
         Adjuster = "wayland" => ~a.timer,
         EnterVisibleState(w, a, f),
         float' = f,
         UNCHANGED settingVars,
         animation' \in Animations, ~animation'.running
  PROVE  IInv'
<1> USE DEF EnterVisibleState, settingVars
<1>1. Geometry(f) \in Places /\ (~f => Geometry(f) = Place("docked"))
  BY PlaceType DEF TypeOK, Geometry
<1>2. /\ area' \in Areas
      /\ f => area' = a
      /\ ~f => /\ Adjuster = "none" => area' = a
               /\ Adjuster = "wayland" => /\ ~area'.timer
                                          /\ area'.strut = Place("docked")
                                          /\ area'.held = "current"
               /\ Adjuster \in {"x11kf5", "x11kf6"} => /\ area'.timer
                                                       /\ area'.rect = Place("docked")
  BY <1>1, RaiseFacts DEF Areas
<1>3. TypeOK'
  BY <1>2 DEF TypeOK, States
<1>4. InputAreaOnlyWhileDocked' /\ AreaInv'
  BY <1>2, AdjusterAssumption DEF InputAreaOnlyWhileDocked, AreaInv, IsVisible
<1>5. ReservedAreaIsCurrent'
  <2>1. Place("docked")' = Place("docked")
    BY DEF Place
  <2> QED
    BY <1>2, <2>1, AdjusterAssumption DEF ReservedAreaIsCurrent
<1>6. WindowShownUnlessInvisible' /\ AnimationHasTarget' /\ OpacityInv'
  BY DEF WindowShownUnlessInvisible, AnimationHasTarget, OpacityInv, Windows
<1> QED
  BY <1>3, <1>4, <1>5, <1>6 DEF IInv

\* Invisible: nothing is reserved, and what is still animated is a kept window.
LEMMA EnterInvisibleKeepsIInv ==
  ASSUME TypeOK,
         NEW w \in Windows, w.exists,
         ~animationEnabled \/ ~float => w.opacity = "opaque",
         NEW a \in Areas, ~a.timer, ~a.reserved,
         NEW playing \in Animations,
         playing.running => animationEnabled /\ playing.fade = "keep",
         EnterInvisibleState(w, a, playing),
         UNCHANGED <<float, settingVars>>
  PROVE  IInv'
<1> USE DEF EnterInvisibleState, settingVars
<1>1. /\ area' \in Areas
      /\ ~area'.timer
      /\ ~area'.reserved
  BY LoseFacts
<1>2. /\ window' \in Windows
      /\ ~window'.shown
      /\ window'.exists = preload
      /\ window'.opacity = w.opacity
  BY DEF DestroyView, Windows, TypeOK
<1>3. /\ animation' \in Animations
      /\ animation'.running => playing.running /\ preload
      /\ animation'.fade = playing.fade
  BY DEF Animations, TypeOK
<1>4. TypeOK'
  BY <1>1, <1>2, <1>3 DEF TypeOK, States
<1>5. InputAreaOnlyWhileDocked' /\ AreaInv' /\ ReservedAreaIsCurrent'
  BY <1>1 DEF InputAreaOnlyWhileDocked, AreaInv, ReservedAreaIsCurrent
<1>6. WindowShownUnlessInvisible' /\ AnimationHasTarget'
  BY <1>2, <1>3 DEF WindowShownUnlessInvisible, AnimationHasTarget
<1>7. OpacityInv'
  BY <1>2, <1>3 DEF OpacityInv
<1> QED
  BY <1>4, <1>5, <1>6, <1>7 DEF IInv

\* Showing, and with the disabled animator at once Visible, from where nothing is
\* reserved.
LEMMA EnterShowingKeepsIInv ==
  ASSUME TypeOK, AnimationHasTarget,
         NEW w \in Windows, w.exists,
         ~animationEnabled \/ ~float => w.opacity = "opaque",
         NEW a \in Areas, ~a.timer, ~a.reserved,
         EnterShowingState(w, a),
         UNCHANGED <<float, settingVars>>
  PROVE  IInv'
<1> DEFINE onScreen == [w EXCEPT !.shown = TRUE]
           fade == IF float THEN "opaque" ELSE "keep"
<1> USE DEF settingVars
<1>1. onScreen \in Windows /\ onScreen.exists /\ onScreen.shown
      /\ onScreen.opacity = w.opacity
  BY DEF Windows
<1>2. Geometry(float) \in Places /\ Place("moving") \in Places
  BY PlaceType DEF TypeOK
<1>3. ASSUME animationEnabled,
             state' = "Showing",
             Play(Geometry(float), fade),
             window' = Animated(onScreen, fade),
             area' = a
      PROVE  IInv'
  <2> USE <1>3
  <2>1. /\ animation' \in Animations
        /\ animation'.running
        /\ animation'.fade = fade
    BY <1>2 DEF Play, Animations
  <2>2. /\ window' \in Windows
        /\ window'.exists /\ window'.shown
        /\ ~float => window'.opacity = "opaque"
    BY <1>1, <1>2 DEF Animated, Windows, TypeOK
  <2>3. TypeOK'
    BY <2>1, <2>2 DEF TypeOK, States
  <2>4. InputAreaOnlyWhileDocked' /\ AreaInv' /\ ReservedAreaIsCurrent'
    BY DEF InputAreaOnlyWhileDocked, AreaInv, ReservedAreaIsCurrent
  <2>5. WindowShownUnlessInvisible' /\ AnimationHasTarget' /\ OpacityInv'
    BY <2>1, <2>2 DEF WindowShownUnlessInvisible, AnimationHasTarget, OpacityInv
  <2> QED
    BY <2>3, <2>4, <2>5 DEF IInv
<1>4. ASSUME ~animationEnabled,
             EnterVisibleState(Moved(onScreen, Geometry(float)), a, float),
             UNCHANGED animation
      PROVE  IInv'
  <2> DEFINE moved == Moved(onScreen, Geometry(float))
  <2>1. moved \in Windows /\ moved.exists /\ moved.shown /\ moved.opacity = "opaque"
    BY <1>1, <1>2, <1>4 DEF Moved, Windows
  <2>2. animation' \in Animations /\ ~animation'.running
    BY <1>4 DEF TypeOK, AnimationHasTarget
  <2>3. float \in BOOLEAN
    BY DEF TypeOK
  <2> HIDE DEF moved
  <2> QED
    BY <1>4, <2>1, <2>2, <2>3, EnterVisibleKeepsIInv DEF moved
<1> QED
  BY <1>3, <1>4 DEF EnterShowingState

\* Hiding, and with the disabled animator at once Invisible, after the area has been
\* given back.
LEMMA EnterHidingKeepsIInv ==
  ASSUME IInv, IsVisible,
         NEW a \in Areas, ~a.timer, ~a.reserved,
         EnterHidingState(a),
         UNCHANGED <<float, settingVars>>
  PROVE  IInv'
<1> DEFINE fade == IF float THEN "clear" ELSE "keep"
<1> USE DEF settingVars
<1>1. window \in Windows /\ window.shown /\ window.exists
  BY DEF IInv, TypeOK, WindowShownUnlessInvisible, Windows, IsVisible
<1>2. Place("off") \in Places /\ Place("moving") \in Places
  BY PlaceType DEF IInv, TypeOK
<1>3. ~animationEnabled \/ ~float => window.opacity = "opaque"
  BY <1>1 DEF IInv, OpacityInv
<1>4. ASSUME animationEnabled,
             state' = "Hiding",
             Play(Place("off"), fade),
             window' = Animated(window, fade),
             area' = a
      PROVE  IInv'
  <2> USE <1>4
  <2>1. /\ animation' \in Animations
        /\ animation'.running
        /\ animation'.fade = fade
    BY <1>2 DEF Play, Animations
  <2>2. /\ window' \in Windows
        /\ window'.exists /\ window'.shown
        /\ ~float => window'.opacity = "opaque"
    BY <1>1, <1>2, <1>3 DEF Animated, Windows, IInv, TypeOK
  <2>3. TypeOK'
    BY <2>1, <2>2 DEF IInv, TypeOK, States
  <2>4. InputAreaOnlyWhileDocked' /\ AreaInv' /\ ReservedAreaIsCurrent'
    BY DEF InputAreaOnlyWhileDocked, AreaInv, ReservedAreaIsCurrent
  <2>5. WindowShownUnlessInvisible' /\ AnimationHasTarget' /\ OpacityInv'
    BY <2>1, <2>2 DEF WindowShownUnlessInvisible, AnimationHasTarget, OpacityInv
  <2> QED
    BY <2>3, <2>4, <2>5 DEF IInv
<1>5. ASSUME ~animationEnabled,
             EnterInvisibleState(window, a, animation)
      PROVE  IInv'
  <2>1. animation \in Animations /\ ~animation.running
    BY <1>5 DEF IInv, TypeOK, AnimationHasTarget
  <2>2. TypeOK
    BY DEF IInv
  <2> QED
    BY <1>1, <1>3, <1>5, <2>1, <2>2, EnterInvisibleKeepsIInv
<1> QED
  BY <1>4, <1>5 DEF EnterHidingState

-----------------------------------------------------------------------------
(* One lemma per handler.                                                  *)

\* Initially the keyboard is invisible, and its preloaded window opaque or floating.
LEMMA InitKeepsIInv ==
  ASSUME Init
  PROVE  IInv
<1> USE DEF Init
<1>1. TypeOK
  <2>1. /\ window \in [exists : BOOLEAN, shown : BOOLEAN, frame : Places,
                       top : Places, opacity : {"opaque", "clear", "fading"}]
        /\ ~window.shown
    BY PlaceType, SettingsAssumption DEF NewWindow
  <2>2. animation \in Animations /\ area \in Areas
    BY PlaceType DEF Animations, Areas
  <2> QED
    BY <2>1, <2>2, SettingsAssumption DEF TypeOK, Windows, States
<1>2. InputAreaOnlyWhileDocked /\ AreaInv /\ ReservedAreaIsCurrent
  BY DEF InputAreaOnlyWhileDocked, AreaInv, ReservedAreaIsCurrent
<1>3. WindowShownUnlessInvisible /\ AnimationHasTarget /\ OpacityInv
  BY DEF WindowShownUnlessInvisible, AnimationHasTarget, OpacityInv, NewWindow
<1> QED
  BY <1>1, <1>2, <1>3 DEF IInv

\* The strut is set only where it was requested: visible, docked, and up to date.
LEMMA TimeoutKeepsIInv ==
  ASSUME IInv, AdjusterTimeout
  PROVE  IInv'
<1> USE DEF IInv, AdjusterTimeout, settingVars
<1>1. TypeOK'
  BY DEF TypeOK, Areas
<1>2. InputAreaOnlyWhileDocked' /\ AreaInv'
  BY DEF TypeOK, Areas, InputAreaOnlyWhileDocked, AreaInv, IsVisible
<1>3. ReservedAreaIsCurrent'
  BY DEF TypeOK, Areas, ReservedAreaIsCurrent, Place
<1>4. WindowShownUnlessInvisible' /\ AnimationHasTarget' /\ OpacityInv'
  BY DEF WindowShownUnlessInvisible, AnimationHasTarget, OpacityInv
<1> QED
  BY <1>1, <1>2, <1>3, <1>4

\* Without animations a window is made opaque at once, and no animation survives.
LEMMA AnimationAvailabilityKeepsIInv ==
  ASSUME IInv, AnimationAvailabilityChanged
  PROVE  IInv'
<1> USE DEF IInv, AnimationAvailabilityChanged
<1>1. TypeOK'
  BY SettingsAssumption DEF TypeOK, Windows, Animations, Stopped
<1>2. InputAreaOnlyWhileDocked' /\ AreaInv'
  BY DEF InputAreaOnlyWhileDocked, AreaInv, IsVisible
<1>3. ReservedAreaIsCurrent'
  BY DEF ReservedAreaIsCurrent, Place
<1>4. WindowShownUnlessInvisible' /\ AnimationHasTarget'
  BY DEF TypeOK, Windows, Animations, Stopped, WindowShownUnlessInvisible,
         AnimationHasTarget
<1>5. OpacityInv'
  BY SettingsAssumption DEF TypeOK, Windows, Animations, Stopped, OpacityInv
<1> QED
  BY <1>1, <1>2, <1>3, <1>4, <1>5

\* Showing starts from nothing reserved, with a new, a kept or a hiding window.
LEMMA ShowKeepsIInv ==
  ASSUME IInv, ShowVirtualKeyboard
  PROVE  IInv'
<1> USE DEF ShowVirtualKeyboard
<1>1. TypeOK /\ AnimationHasTarget
  BY DEF IInv
<1>2. ~area.timer /\ ~area.reserved /\ area \in Areas
  BY DEF IInv, TypeOK, InputAreaOnlyWhileDocked
<1>3. CASE state = "Invisible"
  <2> DEFINE w == InitView
             a == IF KeepsWindow THEN area ELSE LoseWindow(area)
  <2>1. a \in Areas /\ ~a.timer /\ ~a.reserved
    BY <1>2, LoseFacts
  <2>2. NewWindow \in Windows
    BY PlaceType DEF NewWindow, Windows, IInv, TypeOK
  <2>3. w \in Windows /\ w.exists
    BY <2>2 DEF InitView, KeepsWindow, NewWindow, IInv, TypeOK
  <2>4. ~animationEnabled \/ ~float => w.opacity = "opaque"
    BY DEF InitView, KeepsWindow, NewWindow, IInv, OpacityInv
  <2>5. EnterShowingState(w, a)
    BY <1>3
  <2> HIDE DEF w, a
  <2> QED
    BY <1>1, <2>1, <2>3, <2>4, <2>5, EnterShowingKeepsIInv
<1>4. CASE state = "Hiding"
  <2>1. window \in Windows /\ window.exists
    BY <1>4 DEF IInv, TypeOK, Windows, WindowShownUnlessInvisible
  <2>2. ~animationEnabled \/ ~float => window.opacity = "opaque"
    BY <2>1 DEF IInv, OpacityInv
  <2> QED
    BY <1>1, <1>2, <1>4, <2>1, <2>2, EnterShowingKeepsIInv
<1> QED
  BY <1>3, <1>4

\* Hiding gives the area back first; a flip ends with the window opaque.
LEMMA HideKeepsIInv ==
  ASSUME IInv, HideVirtualKeyboard
  PROVE  IInv'
<1> USE DEF HideVirtualKeyboard
<1> DEFINE a == AreaWhenHidden
<1>1. a \in Areas /\ ~a.timer /\ ~a.reserved
  BY FallFacts DEF AreaWhenHidden, IInv, TypeOK, AreaInv, InputAreaOnlyWhileDocked
<1>2. CASE state \in {"Showing", "Visible"} /\ EnterHidingState(a)
  <2> HIDE DEF a
  <2> QED
    BY <1>1, <1>2, EnterHidingKeepsIInv
<1>3. CASE state = "Flipping" /\ EnterInvisibleState(window, a, animation)
  <2>1. window \in Windows /\ window.exists /\ window.opacity = "opaque"
    BY <1>3 DEF IInv, TypeOK, Windows, WindowShownUnlessInvisible, OpacityInv
  <2>2. /\ animation \in Animations
        /\ animation.running => animationEnabled /\ animation.fade = "keep"
    BY <1>3 DEF IInv, TypeOK, AnimationHasTarget, OpacityInv
  <2>3. TypeOK
    BY DEF IInv
  <2> HIDE DEF a
  <2> QED
    BY <1>1, <1>3, <2>1, <2>2, <2>3, EnterInvisibleKeepsIInv
<1> QED
  BY <1>2, <1>3

\* A flip starts with nothing reserved, whichever way it goes.
LEMMA FlipKeepsIInv ==
  ASSUME IInv, FlipPlacementMode
  PROVE  IInv'
<1> DEFINE f == FlippedMode
           w == IF f THEN FlippingStart ELSE window
           a == IF f THEN FallInputArea(area) ELSE area
<1> USE DEF FlipPlacementMode, settingVars
<1>1. f \in BOOLEAN /\ float' = f /\ state = "Visible"
  BY DEF EnterFlippingState, FlippedMode, IInv, TypeOK
<1>2. Geometry(f) \in Places /\ Geometry(TRUE) \in Places /\ Place("moving") \in Places
  BY PlaceType DEF FlippedMode, IInv, TypeOK
<1>3. a \in Areas /\ ~a.timer /\ ~a.reserved
  BY FallFacts DEF FlippedMode, IInv, TypeOK, AreaInv, InputAreaOnlyWhileDocked
<1>4. w \in Windows /\ w.exists /\ w.shown /\ w.opacity = "opaque"
  BY <1>1, <1>2
  DEF FlippingStart, IInv, TypeOK, Windows, WindowShownUnlessInvisible, OpacityInv
<1>5. ASSUME animationEnabled,
             state' = "Flipping",
             Play(Geometry(f), "keep"),
             window' = Animated(w, "keep"),
             area' = a
      PROVE  IInv'
  <2> USE <1>5
  <2>1. animation' \in Animations /\ animation'.running /\ animation'.fade = "keep"
    BY <1>2 DEF Play, Animations
  <2>2. /\ window' \in Windows
        /\ window'.exists /\ window'.shown
        /\ window'.opacity = "opaque"
    <3> HIDE DEF w
    <3> QED
      BY <1>2, <1>4 DEF Animated, Windows
  <2>3. TypeOK'
    BY <1>1, <1>3, <2>1, <2>2 DEF IInv, TypeOK, States
  <2>4. InputAreaOnlyWhileDocked' /\ AreaInv' /\ ReservedAreaIsCurrent'
    BY <1>3 DEF InputAreaOnlyWhileDocked, AreaInv, ReservedAreaIsCurrent
  <2>5. WindowShownUnlessInvisible' /\ AnimationHasTarget' /\ OpacityInv'
    BY <2>1, <2>2 DEF WindowShownUnlessInvisible, AnimationHasTarget, OpacityInv
  <2> QED
    BY <2>3, <2>4, <2>5 DEF IInv
<1>6. ASSUME ~animationEnabled,
             EnterVisibleState(Moved(w, Geometry(f)), a, f),
             UNCHANGED animation
      PROVE  IInv'
  <2> DEFINE moved == Moved(w, Geometry(f))
  <2>1. moved \in Windows /\ moved.exists /\ moved.shown /\ moved.opacity = "opaque"
    <3> HIDE DEF w
    <3> QED
      BY <1>2, <1>4 DEF Moved, Windows
  <2>2. animation' \in Animations /\ ~animation'.running
    BY <1>6 DEF IInv, TypeOK, AnimationHasTarget
  <2>3. TypeOK
    BY DEF IInv
  <2>4. EnterVisibleState(moved, a, f)
    BY <1>6
  <2> HIDE DEF moved, a, f
  <2> QED
    BY <1>1, <1>3, <2>1, <2>2, <2>3, <2>4, EnterVisibleKeepsIInv
<1> QED
  BY <1>5, <1>6 DEF EnterFlippingState

\* An animation that ends leaves the opacity its state promises.
LEMMA AnimationFinishedKeepsIInv ==
  ASSUME IInv, AnimationFinished
  PROVE  IInv'
<1> USE DEF AnimationFinished, settingVars
<1>1. TypeOK /\ animation.running /\ animationEnabled /\ window.exists
  BY DEF IInv, TypeOK, AnimationHasTarget
<1>2. Stopped \in Animations /\ ~Stopped.running /\ Stopped.fade = animation.fade
  BY <1>1 DEF TypeOK, Animations, Stopped
<1>3. /\ Landed \in Windows
      /\ Landed.exists
      /\ Landed.shown = window.shown
      /\ Landed.opacity = IF animation.fade = "keep" THEN window.opacity
                          ELSE animation.fade
  BY <1>1 DEF TypeOK, Windows, Animations, Landed
<1>4. area \in Areas /\ (area.timer \/ area.reserved => IsVisible /\ ~float)
  BY DEF IInv, TypeOK, InputAreaOnlyWhileDocked
<1>5. AreaInv
  BY DEF IInv
<1>6. CASE /\ state = "Showing"
           /\ EnterVisibleState(Landed, area, float)
           /\ animation' = Stopped
  <2>1. Landed.shown /\ Landed.opacity = "opaque"
    BY <1>1, <1>3, <1>6 DEF IInv, TypeOK, WindowShownUnlessInvisible, OpacityInv
  <2>2. float \in BOOLEAN
    BY <1>1 DEF TypeOK
  <2> QED
    BY <1>1, <1>2, <1>3, <1>4, <1>5, <1>6, <2>1, <2>2, EnterVisibleKeepsIInv DEF AreaInv
<1>7. CASE /\ state = "Flipping"
           /\ EnterVisibleState(FlippedWindow, area, float)
           /\ animation' = Stopped
  <2>1. Landed.shown /\ Landed.opacity = "opaque"
    BY <1>1, <1>3, <1>7 DEF IInv, TypeOK, WindowShownUnlessInvisible, OpacityInv
  <2>2. float \in BOOLEAN /\ Geometry(float) \in Places
    BY <1>1, PlaceType DEF TypeOK
  <2>3. /\ FlippedWindow \in Windows
        /\ FlippedWindow.exists /\ FlippedWindow.shown
        /\ FlippedWindow.opacity = "opaque"
    BY <1>3, <2>1, <2>2 DEF FlippedWindow, Moved, Windows
  <2> QED
    BY <1>1, <1>2, <1>4, <1>5, <1>7, <2>2, <2>3, EnterVisibleKeepsIInv DEF AreaInv
<1>8. CASE state = "Hiding" /\ EnterInvisibleState(Landed, area, Stopped)
  <2>1. ~animationEnabled \/ ~float => Landed.opacity = "opaque"
    BY <1>1, <1>3 DEF IInv, OpacityInv
  <2>2. ~area.timer /\ ~area.reserved
    BY <1>4, <1>8 DEF IsVisible
  <2> QED
    BY <1>1, <1>2, <1>3, <1>4, <1>8, <2>1, <2>2, EnterInvisibleKeepsIInv
<1>9. CASE /\ state \in {"Visible", "Invisible"}
           /\ window' = Landed
           /\ animation' = Stopped
           /\ UNCHANGED <<state, area>>
  <2>1. Landed.opacity = window.opacity
    BY <1>1, <1>3, <1>9 DEF IInv, OpacityInv
  <2>2. TypeOK'
    BY <1>1, <1>2, <1>3, <1>9 DEF TypeOK
  <2>3. InputAreaOnlyWhileDocked' /\ AreaInv'
    BY <1>9 DEF IInv, InputAreaOnlyWhileDocked, AreaInv, IsVisible
  <2>4. ReservedAreaIsCurrent'
    BY <1>9 DEF IInv, ReservedAreaIsCurrent, Place
  <2>5. WindowShownUnlessInvisible' /\ AnimationHasTarget' /\ OpacityInv'
    BY <1>1, <1>2, <1>3, <1>9, <2>1
    DEF IInv, WindowShownUnlessInvisible, AnimationHasTarget, OpacityInv
  <2> QED
    BY <2>2, <2>3, <2>4, <2>5 DEF IInv
<1> QED
  BY <1>6, <1>7, <1>8, <1>9

\* Nothing that is decided depends on the preload setting.
LEMMA PreloadKeepsIInv ==
  ASSUME IInv, PreloadChanged
  PROVE  IInv'
<1> USE DEF IInv, PreloadChanged
<1>1. TypeOK'
  BY SettingsAssumption DEF TypeOK
<1>2. InputAreaOnlyWhileDocked' /\ AreaInv'
  BY DEF InputAreaOnlyWhileDocked, AreaInv, IsVisible
<1>3. ReservedAreaIsCurrent'
  BY DEF ReservedAreaIsCurrent, Place
<1>4. WindowShownUnlessInvisible' /\ AnimationHasTarget' /\ OpacityInv'
  BY DEF WindowShownUnlessInvisible, AnimationHasTarget, OpacityInv
<1> QED
  BY <1>1, <1>2, <1>3, <1>4

\* What is reserved need not be current while a change is still to be handled.
LEMMA ConfigKeepsIInv ==
  ASSUME IInv, ConfigChanged
  PROVE  IInv'
<1> USE DEF IInv, ConfigChanged
<1>1. TypeOK'
  BY DEF TypeOK
<1>2. InputAreaOnlyWhileDocked' /\ AreaInv'
  BY DEF InputAreaOnlyWhileDocked, AreaInv, IsVisible
<1>3. ReservedAreaIsCurrent'
  BY DEF ReservedAreaIsCurrent
<1>4. WindowShownUnlessInvisible' /\ AnimationHasTarget' /\ OpacityInv'
  BY DEF WindowShownUnlessInvisible, AnimationHasTarget, OpacityInv
<1> QED
  BY <1>1, <1>2, <1>3, <1>4

\* The handler of a change brings what is reserved up to date.
LEMMA GeometryRefreshedKeepsIInv ==
  ASSUME IInv, GeometryRefreshed
  PROVE  IInv'
<1> USE DEF GeometryRefreshed
<1>1. TypeOK
  BY DEF IInv
<1>2. Geometry(float) \in Places /\ (~float => Geometry(float) = Place("docked"))
  BY <1>1, PlaceType DEF TypeOK, Geometry
<1>3. /\ window' \in Windows
      /\ window'.exists = window.exists
      /\ window'.shown = window.shown
      /\ window'.opacity = window.opacity
  BY <1>1, <1>2 DEF TypeOK, Windows, Moved
<1>4. CASE IsVisible /\ ~float
  <2>1. area' = RaiseInputArea(area, Place("docked")) /\ Place("docked") \in Places
    BY <1>2, <1>4
  <2>2. /\ area' \in Areas
        /\ Adjuster = "none" => area' = area
        /\ Adjuster = "wayland" => /\ area'.timer = area.timer
                                   /\ area'.strut = Place("docked")
                                   /\ area'.held = "current"
        /\ Adjuster \in {"x11kf5", "x11kf6"} => /\ area'.timer
                                                /\ area'.rect = Place("docked")
    BY <1>1, <2>1, RaiseFacts DEF TypeOK
  <2>3. TypeOK'
    BY <1>1, <1>3, <2>2 DEF TypeOK
  <2>4. InputAreaOnlyWhileDocked' /\ AreaInv'
    BY <1>4, <2>2, AdjusterAssumption
    DEF IInv, InputAreaOnlyWhileDocked, AreaInv, IsVisible
  <2>5. ReservedAreaIsCurrent'
    BY <2>2, AdjusterAssumption DEF IInv, AreaInv, ReservedAreaIsCurrent, Place
  <2>6. WindowShownUnlessInvisible' /\ AnimationHasTarget' /\ OpacityInv'
    BY <1>3 DEF IInv, WindowShownUnlessInvisible, AnimationHasTarget, OpacityInv
  <2> QED
    BY <2>3, <2>4, <2>5, <2>6 DEF IInv
<1>5. CASE ~(IsVisible /\ ~float)
  <2>1. ~area'.timer /\ ~area'.reserved /\ area' = area
    BY <1>5 DEF IInv, InputAreaOnlyWhileDocked
  <2>2. TypeOK'
    BY <1>1, <1>3, <2>1 DEF TypeOK
  <2>3. InputAreaOnlyWhileDocked' /\ AreaInv' /\ ReservedAreaIsCurrent'
    BY <2>1 DEF InputAreaOnlyWhileDocked, AreaInv, ReservedAreaIsCurrent
  <2>4. WindowShownUnlessInvisible' /\ AnimationHasTarget' /\ OpacityInv'
    BY <1>3 DEF IInv, WindowShownUnlessInvisible, AnimationHasTarget, OpacityInv
  <2> QED
    BY <2>2, <2>3, <2>4 DEF IInv
<1> QED
  BY <1>4, <1>5

-----------------------------------------------------------------------------
(* The theorems.                                                           *)

\* What the view does in every composition: Spec without its fairness.
Behavior == Init /\ [][Next]_vars

\* The strengthened invariant holds in every state of every behavior.
LEMMA BehaviorIInv == Behavior => []IInv
<1>1. Init => IInv
  BY InitKeepsIInv
<1>2. IInv /\ [Next]_vars => IInv'
  <2> SUFFICES ASSUME IInv, [Next]_vars
               PROVE  IInv'
    OBVIOUS
  <2>1. CASE Next
    BY <2>1, ShowKeepsIInv, HideKeepsIInv, FlipKeepsIInv, AnimationFinishedKeepsIInv,
       TimeoutKeepsIInv, AnimationAvailabilityKeepsIInv, PreloadKeepsIInv,
       ConfigKeepsIInv, GeometryRefreshedKeepsIInv
    DEF Next
  <2>2. CASE UNCHANGED vars
    BY <2>2
    DEF vars, settingVars, IInv, TypeOK, InputAreaOnlyWhileDocked, AreaInv, IsVisible,
        ReservedAreaIsCurrent, Place, WindowShownUnlessInvisible, AnimationHasTarget,
        OpacityInv
  <2> QED
    BY <2>1, <2>2
<1> QED
  BY <1>1, <1>2, PTL DEF Behavior

\* The strengthened invariant holds in every state the program can reach.
THEOREM IInvInvariant == Spec => []IInv
  BY BehaviorIInv, PTL DEF Spec, Behavior

\* Type correctness of the view, its animator and the workspace adjuster.
THEOREM TypeCorrect == Spec => []TypeOK
  BY IInvInvariant, PTL DEF IInv

\* The applications never stay squeezed: with every adjuster, the reserved area and
\* the timer about to reserve it exist only for a visible docked keyboard.
THEOREM AreaReleased == Spec => []InputAreaOnlyWhileDocked
  BY IInvInvariant, PTL DEF IInv

\* What is reserved is the area the docked keyboard covers in the current layout.
THEOREM AreaCurrent == Spec => []ReservedAreaIsCurrent
  BY IInvInvariant, PTL DEF IInv

\* The window is shown in every state but Invisible, and in no other.
THEOREM WindowFollowsState == Spec => []WindowShownUnlessInvisible
  BY IInvInvariant, PTL DEF IInv

\* No animation runs without its animator or without a window to move.
THEOREM AnimationsAreOwned == Spec => []AnimationHasTarget
  BY IInvInvariant, PTL DEF IInv

\* A keyboard at rest on the screen is opaque, whatever fade was interrupted.
THEOREM RestIsOpaque == Spec => []VisibleIsOpaque
<1>1. IInv => VisibleIsOpaque
  BY DEF IInv, OpacityInv, VisibleIsOpaque
<1> QED
  BY <1>1, IInvInvariant, PTL

-----------------------------------------------------------------------------
(* The view implements InputPanel.                                         *)

\* The four ways a step may change what the desktop sees of the keyboard.
LEMMA PanelSteps ==
  ASSUME IInv, IInv',
         \/ /\ UNCHANGED <<IsVisible, float>>
            /\ area'.reserved \in {area.reserved, TRUE}
         \/ ~IsVisible /\ IsVisible' /\ float' = float
         \/ IsVisible /\ ~IsVisible' /\ float' = float
         \/ IsVisible /\ IsVisible' /\ float' = ~float
  PROVE  [Panel!PanelNext]_(Panel!panel)
<1> USE DEF Panel!PanelNext, Panel!panel, Panel!KeepOrReserve
<1>1. /\ area.reserved \in BOOLEAN /\ area'.reserved \in BOOLEAN
      /\ float \in BOOLEAN /\ float' \in BOOLEAN
      /\ area.reserved => IsVisible /\ ~float
      /\ area'.reserved => IsVisible' /\ ~float'
  BY DEF IInv, TypeOK, Areas, InputAreaOnlyWhileDocked
<1>2. CASE UNCHANGED <<IsVisible, float>> /\ area'.reserved \in {area.reserved, TRUE}
  BY <1>1, <1>2 DEF Panel!ReserveSpace
<1>3. CASE ~IsVisible /\ IsVisible' /\ float' = float
  BY <1>1, <1>3 DEF Panel!ShowPanel
<1>4. CASE IsVisible /\ ~IsVisible' /\ float' = float
  BY <1>1, <1>4 DEF Panel!HidePanel
<1>5. CASE IsVisible /\ IsVisible' /\ float' = ~float
  BY <1>1, <1>5 DEF Panel!FlipPanel
<1> QED
  BY <1>2, <1>3, <1>4, <1>5

\* Raising never gives reserved space back.
LEMMA RaiseKeepsReserved ==
  ASSUME NEW a \in Areas, NEW place
  PROVE  RaiseInputArea(a, place).reserved \in {a.reserved, TRUE}
  BY AdjusterAssumption DEF RaiseInputArea, RaiseOnWindow, Areas

\* Refinement: every behaviour of the view, with its windows, fades and timers, is one
\* the abstract panel allows; space is given back in the very step that hides or
\* undocks the keyboard.
LEMMA BehaviorImplementsPanel == Behavior => ImplementsInputPanel
<1>1. Init => Panel!PanelInit
  BY DEF Init, Panel!PanelInit, IsVisible
<1>2. IInv /\ IInv' /\ [Next]_vars => [Panel!PanelNext]_(Panel!panel)
  <2> SUFFICES ASSUME IInv, IInv', [Next]_vars
               PROVE  [Panel!PanelNext]_(Panel!panel)
    OBVIOUS
  <2> USE DEF settingVars
  <2>1. area \in Areas
    BY DEF IInv, TypeOK
  <2>2. CASE ShowVirtualKeyboard
    BY <2>2, PanelSteps
    DEF ShowVirtualKeyboard, EnterShowingState, EnterVisibleState, IsVisible
  <2>3. CASE HideVirtualKeyboard
    BY <2>3, PanelSteps
    DEF HideVirtualKeyboard, EnterHidingState, EnterInvisibleState, IsVisible
  <2>4. CASE FlipPlacementMode
    BY <2>4, PanelSteps
    DEF FlipPlacementMode, EnterFlippingState, FlippedMode, EnterVisibleState, IsVisible
  <2>5. CASE AnimationFinished
    <3>1. CASE state \in {"Showing", "Flipping"}
      <4>1. state' = "Visible" /\ float' = float
        BY <2>5, <3>1 DEF AnimationFinished, EnterVisibleState
      <4>2. area' = area \/ area' = RaiseInputArea(area, Geometry(float))
        BY <2>5, <3>1 DEF AnimationFinished, EnterVisibleState
      <4> QED
        BY <2>1, <3>1, <4>1, <4>2, RaiseKeepsReserved, PanelSteps DEF IsVisible
    <3>2. CASE state = "Hiding"
      <4>1. state' = "Invisible" /\ float' = float
        BY <2>5, <3>2 DEF AnimationFinished, EnterInvisibleState
      <4>2. area'.reserved = area.reserved
        BY <2>1, <2>5, <3>2, LoseFacts DEF AnimationFinished, EnterInvisibleState
      <4> QED
        BY <3>2, <4>1, <4>2, PanelSteps DEF IsVisible
    <3>3. CASE state \in {"Visible", "Invisible"}
      BY <2>5, <3>3, PanelSteps DEF AnimationFinished, IsVisible
    <3> QED
      BY <3>1, <3>2, <3>3, <2>5 DEF AnimationFinished
  <2>6. CASE AdjusterTimeout
    BY <2>1, <2>6, PanelSteps DEF AdjusterTimeout, IsVisible, Areas
  <2>7. CASE AnimationAvailabilityChanged \/ PreloadChanged \/ ConfigChanged
    BY <2>7, PanelSteps
    DEF AnimationAvailabilityChanged, PreloadChanged, ConfigChanged, IsVisible
  <2>8. CASE GeometryRefreshed
    <3>1. area' = area \/ area' = RaiseInputArea(area, Geometry(float))
      BY <2>8 DEF GeometryRefreshed
    <3> QED
      BY <2>1, <2>8, <3>1, RaiseKeepsReserved, PanelSteps
      DEF GeometryRefreshed, IsVisible
  <2>9. CASE UNCHANGED vars
    BY <2>9, PanelSteps DEF vars, IsVisible
  <2> QED
    BY <2>2, <2>3, <2>4, <2>5, <2>6, <2>7, <2>8, <2>9 DEF Next
<1> QED
  BY <1>1, <1>2, BehaviorIInv, PTL DEF Behavior, ImplementsInputPanel, Panel!PanelSpec

\* The view by itself does.
THEOREM ViewImplementsPanel == Spec => ImplementsInputPanel
  BY BehaviorImplementsPanel, PTL DEF Spec, Behavior

-----------------------------------------------------------------------------
(* Where the keyboard comes to rest.  Two things take it out of place: the *)
(* screens change, or a view that is hidden during a flip is kept.  Nothing*)
(* else does.                                                              *)

KeptInFlip == state = "Flipping" /\ state' = "Invisible" /\ preload

\* The step does neither.
Undisturbed == config' = config /\ ~KeptInFlip

\* A window has the width of its mode, except while it is flipped to docked mode; an
\* animation towards Visible goes to its place, and none runs at rest.
InPlaceInv ==
  /\ ~refreshPending
  /\ \/ state \in {"Showing", "Hiding", "Visible"}
     \/ state = "Invisible" /\ window.exists
     \/ state = "Flipping" /\ float
     => window.frame = Geometry(float)
  /\ animation.running /\ state \in {"Showing", "Flipping"} => animation.to = Geometry(float)
  /\ state \in {"Visible", "Invisible"} => ~animation.running
  /\ state = "Visible" => window.top = Geometry(float)

\* Entering Visible with a window in its place.
LEMMA EnterVisibleInPlace ==
  ASSUME TypeOK, UNCHANGED settingVars, ~refreshPending,
         NEW w \in Windows, w.frame = Geometry(float'), w.top = Geometry(float'),
         NEW a, NEW f, EnterVisibleState(w, a, f), ~animation'.running
  PROVE  InPlaceInv'
<1>1. Geometry(float)' = Geometry(float')
  BY DEF Geometry, Place, settingVars
<1> QED BY <1>1 DEF InPlaceInv, EnterVisibleState, settingVars

\* Entering Invisible with a window that keeps its width, if it is kept.
LEMMA EnterInvisibleInPlace ==
  ASSUME TypeOK, UNCHANGED settingVars, ~refreshPending, UNCHANGED float,
         NEW w \in Windows, preload => w.frame = Geometry(float),
         NEW a, NEW playing \in Animations, playing.running => ~preload,
         EnterInvisibleState(w, a, playing)
  PROVE  InPlaceInv'
<1>1. window'.frame = w.frame /\ window'.exists = preload /\ state' = "Invisible"
  BY DEF EnterInvisibleState, DestroyView, Windows
<1>2. ~animation'.running
  BY DEF EnterInvisibleState, Animations, TypeOK
<1>3. Geometry(float)' = Geometry(float)
  BY DEF Geometry, Place, settingVars
<1> QED BY <1>1, <1>2, <1>3 DEF InPlaceInv, settingVars

\* Entering Showing with a window of the right width.
LEMMA EnterShowingInPlace ==
  ASSUME TypeOK, AnimationHasTarget, UNCHANGED settingVars, ~refreshPending, UNCHANGED float,
         NEW w \in Windows, w.frame = Geometry(float),
         NEW a, EnterShowingState(w, a)
  PROVE  InPlaceInv'
<1> DEFINE onScreen == [w EXCEPT !.shown = TRUE]
           fade == IF float THEN "opaque" ELSE "keep"
<1>1. Geometry(float)' = Geometry(float) /\ Geometry(float) \in Places
  BY PlaceType DEF Geometry, Place, settingVars, TypeOK
<1>2. CASE animationEnabled
  <2>1. /\ state' = "Showing" /\ animation'.to = Geometry(float)
        /\ window' = Animated(onScreen, fade)
    BY <1>2 DEF EnterShowingState, Play
  <2>2. window'.frame = Geometry(float)
    BY <2>1 DEF Animated, Windows
  <2> QED BY <1>1, <2>1, <2>2 DEF InPlaceInv, settingVars
<1>3. CASE ~animationEnabled
  <2> DEFINE moved == Moved(onScreen, Geometry(float))
  <2>1. /\ state' = "Visible" /\ window' = moved /\ animation' = animation
    BY <1>3 DEF EnterShowingState, EnterVisibleState
  <2>2. window'.frame = Geometry(float) /\ window'.top = Geometry(float)
    BY <2>1 DEF Moved, Windows
  <2>3. ~animation'.running
    BY <1>3, <2>1 DEF AnimationHasTarget
  <2> QED BY <1>1, <2>1, <2>2, <2>3 DEF InPlaceInv, settingVars
<1> QED BY <1>2, <1>3 DEF TypeOK

\* A step that disturbs nothing keeps it.
LEMMA StepInPlace ==
  ASSUME IInv, InPlaceInv, Next, Undisturbed
  PROVE  InPlaceInv'
<1>1. /\ TypeOK /\ AnimationHasTarget /\ ~refreshPending /\ window \in Windows
      /\ animation \in Animations /\ float \in BOOLEAN /\ preload \in BOOLEAN
  BY DEF IInv, TypeOK, InPlaceInv
<1>2. \A f \in BOOLEAN : Geometry(f) \in Places
  BY <1>1, PlaceType DEF TypeOK
<1>3. CASE ShowVirtualKeyboard
  <2>1. UNCHANGED <<float, settingVars>>
    BY <1>3 DEF ShowVirtualKeyboard
  <2>2. CASE state = "Invisible"
    <3>1. InitView \in Windows /\ InitView.frame = Geometry(float)
      <4>1. NewWindow \in Windows /\ NewWindow.frame = Geometry(float)
        BY <1>1, PlaceType DEF NewWindow, Windows, TypeOK
      <4> QED BY <1>1, <2>2, <4>1 DEF InitView, KeepsWindow, InPlaceInv
    <3> QED BY <1>1, <1>3, <2>1, <2>2, <3>1, EnterShowingInPlace DEF ShowVirtualKeyboard
  <2>3. CASE state = "Hiding"
    <3>1. window.frame = Geometry(float)
      BY <2>3 DEF InPlaceInv
    <3> QED BY <1>1, <1>3, <2>1, <2>3, <3>1, EnterShowingInPlace DEF ShowVirtualKeyboard
  <2> QED BY <1>3, <2>2, <2>3 DEF ShowVirtualKeyboard
<1>4. CASE HideVirtualKeyboard
  <2>1. UNCHANGED <<float, settingVars>>
    BY <1>4 DEF HideVirtualKeyboard
  <2>2. CASE state \in {"Showing", "Visible"}
    <3>1. EnterHidingState(AreaWhenHidden) /\ window.frame = Geometry(float)
      BY <1>4, <2>2 DEF HideVirtualKeyboard, InPlaceInv
    <3>2. CASE animationEnabled
      <4>1. state' = "Hiding" /\ window'.frame = window.frame
        BY <1>1, <3>1, <3>2 DEF EnterHidingState, Animated, Windows
      <4>2. Geometry(float)' = Geometry(float)
        BY <2>1 DEF Geometry, Place, settingVars
      <4> QED BY <1>1, <2>1, <3>1, <4>1, <4>2 DEF InPlaceInv, settingVars
    <3>3. CASE ~animationEnabled
      <4>1. EnterInvisibleState(window, AreaWhenHidden, animation) /\ ~animation.running
        BY <1>1, <3>1, <3>3 DEF EnterHidingState, AnimationHasTarget
      <4> QED BY <1>1, <2>1, <3>1, <4>1, EnterInvisibleInPlace
    <3> QED BY <3>2, <3>3, <1>1 DEF TypeOK
  <2>3. CASE state = "Flipping"
    <3>1. EnterInvisibleState(window, AreaWhenHidden, animation)
      BY <1>4, <2>3 DEF HideVirtualKeyboard
    <3>2. ~preload
      BY <2>3, <3>1 DEF Undisturbed, KeptInFlip, EnterInvisibleState
    <3> QED BY <1>1, <2>1, <3>1, <3>2, EnterInvisibleInPlace
  <2> QED BY <1>4, <2>2, <2>3 DEF HideVirtualKeyboard
<1>5. CASE FlipPlacementMode
  <2> DEFINE f == FlippedMode
             w == IF f THEN FlippingStart ELSE window
             a == IF f THEN FallInputArea(area) ELSE area
  <2>1. /\ float' = f /\ f \in BOOLEAN /\ UNCHANGED settingVars /\ state = "Visible"
    BY <1>1, <1>5 DEF FlipPlacementMode, EnterFlippingState, FlippedMode
  <2>2. w \in Windows /\ (f => w.frame = Geometry(f))
    BY <1>1, <1>2 DEF FlippingStart, Windows, FlippedMode
  <2>3. Geometry(float)' = Geometry(f)
    BY <2>1 DEF Geometry, Place, settingVars
  <2>4. CASE animationEnabled
    <3>1. state' = "Flipping" /\ animation'.to = Geometry(f) /\ window' = Animated(w, "keep")
      BY <1>5, <2>4 DEF FlipPlacementMode, EnterFlippingState, Play
    <3>2. window'.frame = w.frame
      <4> HIDE DEF w
      <4> QED BY <2>2, <3>1 DEF Animated, Windows
    <3> HIDE DEF w, f
    <3> QED BY <1>1, <2>1, <2>2, <2>3, <3>1, <3>2 DEF InPlaceInv, settingVars
  <2>5. CASE ~animationEnabled
    <3> DEFINE moved == Moved(w, Geometry(f))
    <3>1. EnterVisibleState(moved, a, f) /\ animation' = animation
      BY <1>5, <2>5 DEF FlipPlacementMode, EnterFlippingState
    <3>2. moved \in Windows /\ moved.frame = Geometry(f) /\ moved.top = Geometry(f)
      <4> HIDE DEF w, f
      <4> QED BY <1>2, <2>1, <2>2 DEF Moved, Windows
    <3>3. ~animation'.running
      BY <2>5, <3>1, <1>1 DEF AnimationHasTarget
    <3> HIDE DEF moved, f, a
    <3> QED BY <1>1, <2>1, <3>1, <3>2, <3>3, EnterVisibleInPlace
  <2> QED BY <2>4, <2>5, <1>1 DEF TypeOK
<1>6. CASE AnimationFinished
  <2>1. /\ UNCHANGED <<float, settingVars>> /\ animation.running
        /\ state \notin {"Visible", "Invisible"}
    BY <1>6 DEF AnimationFinished, InPlaceInv
  <2>2. /\ Landed \in Windows /\ Landed.frame = window.frame /\ Landed.top = animation.to
        /\ Stopped \in Animations /\ ~Stopped.running
    BY <1>1 DEF Landed, Windows, Animations, Stopped
  <2>3. CASE state = "Showing"
    <3>1. EnterVisibleState(Landed, area, float) /\ animation' = Stopped
      BY <1>6, <2>3 DEF AnimationFinished
    <3>2. Landed.frame = Geometry(float) /\ Landed.top = Geometry(float)
      BY <2>1, <2>2, <2>3 DEF InPlaceInv
    <3> QED BY <1>1, <2>1, <2>2, <3>1, <3>2, EnterVisibleInPlace
  <2>4. CASE state = "Flipping"
    <3>1. EnterVisibleState(FlippedWindow, area, float) /\ animation' = Stopped
      BY <1>6, <2>4 DEF AnimationFinished
    <3>2. /\ FlippedWindow \in Windows
          /\ FlippedWindow.frame = Geometry(float) /\ FlippedWindow.top = Geometry(float)
      <4>1. float => Landed.frame = Geometry(float) /\ Landed.top = Geometry(float)
        BY <2>1, <2>2, <2>4 DEF InPlaceInv
      <4> QED BY <1>1, <1>2, <2>2, <4>1 DEF FlippedWindow, Moved, Windows
    <3> QED BY <1>1, <2>1, <2>2, <3>1, <3>2, EnterVisibleInPlace
  <2>5. CASE state = "Hiding"
    <3>1. EnterInvisibleState(Landed, area, Stopped)
      BY <1>6, <2>5 DEF AnimationFinished
    <3>2. Landed.frame = Geometry(float)
      BY <2>2, <2>5 DEF InPlaceInv
    <3> QED BY <1>1, <2>1, <2>2, <3>1, <3>2, EnterInvisibleInPlace
  <2> QED BY <1>1, <2>1, <2>3, <2>4, <2>5 DEF TypeOK, States
<1>7. CASE AdjusterTimeout \/ PreloadChanged
  <2>1. UNCHANGED <<state, float, refreshPending, window, animation>>
    BY <1>7 DEF AdjusterTimeout, PreloadChanged, settingVars
  <2>2. Geometry(float)' = Geometry(float)
    BY <2>1 DEF Undisturbed, Geometry, Place
  <2> QED BY <2>1, <2>2 DEF InPlaceInv
<1>8. CASE AnimationAvailabilityChanged
  <2>1. UNCHANGED <<state, float, refreshPending>>
    BY <1>8 DEF AnimationAvailabilityChanged
  <2>2. Geometry(float)' = Geometry(float)
    BY <2>1 DEF Undisturbed, Geometry, Place
  <2>3. /\ window'.frame = window.frame /\ window'.top = window.top
        /\ window'.exists = window.exists /\ ~animation'.running
    BY <1>1, <1>8 DEF AnimationAvailabilityChanged, Windows, Animations, Stopped
  <2> QED BY <2>1, <2>2, <2>3 DEF InPlaceInv
<1>9. ~ConfigChanged /\ ~GeometryRefreshed
  BY <1>1 DEF Undisturbed, ConfigChanged, GeometryRefreshed
<1> QED BY <1>3, <1>4, <1>5, <1>6, <1>7, <1>8, <1>9 DEF Next

\* At rest the keyboard is where its geometry manager puts it, whatever show, hide, flip
\* and setting changes came before: as long as the screens stay as they are and no view
\* hidden during a flip is kept (updateGeometry, destroyView).
LEMMA BehaviorIsInPlace == Behavior /\ [][Undisturbed]_vars => []VisibleIsInPlace
<1>1. Init => InPlaceInv
  BY DEF Init, InPlaceInv, NewWindow
<1>2. IInv /\ InPlaceInv /\ [Next]_vars /\ [Undisturbed]_vars => InPlaceInv'
  <2> SUFFICES ASSUME IInv, InPlaceInv, [Next]_vars, [Undisturbed]_vars PROVE InPlaceInv'
    OBVIOUS
  <2>1. CASE Next /\ Undisturbed
    BY <2>1, StepInPlace
  <2>2. CASE UNCHANGED vars
    BY <2>2 DEF vars, settingVars, InPlaceInv, Geometry, Place
  <2> QED BY <2>1, <2>2
<1>3. InPlaceInv => VisibleIsInPlace
  BY DEF InPlaceInv, VisibleIsInPlace
<1> QED BY <1>1, <1>2, <1>3, BehaviorIInv, PTL DEF Behavior

\* So it is in the view by itself.
THEOREM UndisturbedIsInPlace == Spec /\ [][Undisturbed]_vars => []VisibleIsInPlace
  BY BehaviorIsInPlace, PTL DEF Spec, Behavior
=============================================================================
