--------------------------- MODULE FloatButtonProofs ---------------------------
(***************************************************************************)
(* Proofs about FloatButton, for every threshold and every distance the    *)
(* pointer may move; and that with the button beside it the service keeps  *)
(* what KeyboardServiceProofs and VirtualKeyboardViewProofs say of it.     *)
(***************************************************************************)
EXTENDS FloatButton, KeyboardServiceProofs

-----------------------------------------------------------------------------
(* The inductive invariant.                                                *)

\* What the button remembers of earlier presses only adds to the press that goes on.
WalkInv == mouse.own <= mouse.walked

\* While a button is pressed: its manhattonLength counts at least this press.
PressInv == mouse.pressed => WalkInv

ButtonInv ==
  /\ ButtonTypeOK
  /\ ButtonStandsIn
  /\ OverlapOnlyAfterEnabling
  /\ PressInv

-----------------------------------------------------------------------------
(* Lemmas.                                                                 *)

\* Adding a distance stays within the counter and never counts backwards.
LEMMA FurtherIsMonotone ==
  ASSUME NEW v \in Walks, NEW w \in Walks, NEW d \in Nat
  PROVE  /\ Further(v, d) \in Walks
         /\ v <= w => Further(v, d) <= Further(w, d)
  BY ThresholdAssumption DEF Further, Walks

\* A button that has just been created satisfies everything about the mouse.
LEMMA NewMouseOK == NewMouse \in Mice /\ ~NewMouse.pressed
  BY ThresholdAssumption DEF NewMouse, Mice, Walks

\* Initially the keyboard is invisible and the button, if any, is shown.
LEMMA InitKeepsButtonInv ==
  ASSUME EntryInit
  PROVE  ButtonInv
  BY NewMouseOK
  DEF EntryInit, ServiceInit, Init, IsVisible, ButtonInv, ButtonTypeOK, ButtonStandsIn,
      OverlapOnlyAfterEnabling, PressInv

\* The manager follows each change of the visibility, and only those.
LEMMA FollowingKeepsButtonInv ==
  ASSUME ButtonInv, ButtonFollows
  PROVE  ButtonInv'
<1>1. CASE IsVisible' = IsVisible
  <2>1. UNCHANGED <<button, mouse, overlap>>
    BY <1>1 DEF ButtonFollows, buttonVars
  <2> QED
    BY <1>1, <2>1
    DEF ButtonInv, ButtonTypeOK, ButtonStandsIn, OverlapOnlyAfterEnabling, PressInv,
        WalkInv
<1>2. CASE IsVisible' # IsVisible
  <2>1. /\ mouse' \in Mice
        /\ mouse'.pressed => mouse.pressed /\ ~IsVisible'
        /\ mouse'.own = mouse.own /\ mouse'.walked = mouse.walked
    BY <1>2 DEF ButtonFollows, ButtonInv, ButtonTypeOK, Mice
  <2>2. /\ button' \in {"none", "hidden", "shown"}
        /\ button' = "none" <=> button = "none"
        /\ IsVisible' => button' # "shown"
        /\ ~IsVisible' /\ button # "none" => button' = "shown"
        /\ overlap' = FALSE
    BY <1>2 DEF ButtonFollows, ButtonInv, ButtonTypeOK
  <2> QED
    BY <2>1, <2>2
    DEF ButtonInv, ButtonTypeOK, ButtonStandsIn, OverlapOnlyAfterEnabling, PressInv,
        WalkInv
<1> QED
  BY <1>1, <1>2

\* Creating the button shows it; deleting it takes all that it remembers.
LEMMA ManagerKeepsButtonInv ==
  ASSUME ButtonInv, EnableFloatButton \/ DestroyFloatButton
  PROVE  ButtonInv'
<1>1. IsVisible' = IsVisible
  BY DEF EnableFloatButton, DestroyFloatButton, serviceVars, vars, IsVisible
<1>2. mouse' \in Mice /\ ~mouse'.pressed
  BY NewMouseOK DEF EnableFloatButton, DestroyFloatButton
<1>3. \/ button' = "shown" /\ (IsVisible => overlap')
      \/ button' = "none"
  <2>1. CASE EnableFloatButton
    <3>1. overlap' = IsVisible /\ button' = "shown"
      BY <2>1 DEF EnableFloatButton
    <3>2. IsVisible => overlap'
      BY <3>1, Zenon
    <3> QED
      BY <3>1, <3>2
  <2>2. CASE DestroyFloatButton
    BY <2>2 DEF DestroyFloatButton
  <2> QED
    BY <2>1, <2>2
<1>4. overlap' \in BOOLEAN
  <2>1. IsVisible \in BOOLEAN
    BY DEF IsVisible
  <2>2. overlap' = IsVisible \/ overlap' = FALSE
    BY DEF EnableFloatButton, DestroyFloatButton
  <2> QED
    BY <2>1, <2>2, Zenon
<1>5. ButtonTypeOK' /\ PressInv'
  BY <1>2, <1>3, <1>4 DEF ButtonTypeOK, PressInv
<1>6. ButtonStandsIn' /\ OverlapOnlyAfterEnabling'
  BY <1>1, <1>3 DEF ButtonStandsIn, OverlapOnlyAfterEnabling
<1> QED
  BY <1>5, <1>6 DEF ButtonInv

\* Moving, waiting and pressing change neither the button nor the keyboard.
LEMMA MouseKeepsButtonInv ==
  ASSUME ButtonInv,
         \/ UpdateGeometryTimeout
         \/ MousePress
         \/ \E d \in Steps : MouseMove(d)
         \/ ClickTimeout
  PROVE  ButtonInv'
<1>1. UNCHANGED <<IsVisible, button, overlap>>
  BY DEF UpdateGeometryTimeout, MousePress, MouseMove, ClickTimeout, serviceVars, vars,
         IsVisible
<1>2. CASE UpdateGeometryTimeout \/ ClickTimeout
  <2>1. \/ mouse' = [mouse EXCEPT !.displaced = TRUE]
        \/ mouse' = [mouse EXCEPT !.timer = FALSE]
    BY <1>2 DEF UpdateGeometryTimeout, ClickTimeout
  <2>2. mouse' \in Mice
    BY <2>1 DEF ButtonInv, ButtonTypeOK, Mice
  <2>3. UNCHANGED <<mouse.pressed, mouse.own, mouse.walked>>
    BY <2>1 DEF ButtonInv, ButtonTypeOK, Mice
  <2> QED
    BY <1>1, <2>2, <2>3
    DEF ButtonInv, ButtonTypeOK, ButtonStandsIn, OverlapOnlyAfterEnabling, PressInv,
        WalkInv
<1>4. CASE MousePress
  <2>1. 0 \in Walks
    BY ThresholdAssumption DEF Walks
  <2>2. mouse' \in Mice /\ mouse'.own = 0 /\ button = "shown"
    BY <1>4, <2>1 DEF MousePress, ButtonInv, ButtonTypeOK, Mice
  <2>3. 0 <= mouse'.walked
    BY <2>2, ThresholdAssumption DEF Mice, Walks
  <2> QED
    BY <1>1, <2>2, <2>3
    DEF ButtonInv, ButtonTypeOK, ButtonStandsIn, OverlapOnlyAfterEnabling, PressInv,
        WalkInv
<1>3. CASE \E d \in Steps : MouseMove(d)
  <2>1. PICK d \in Steps : MouseMove(d)
    BY <1>3
  <2>2. /\ Further(mouse.walked, d) \in Walks
        /\ Further(mouse.own, d) \in Walks
        /\ mouse.own <= mouse.walked => Further(mouse.own, d) <= Further(mouse.walked, d)
    BY FurtherIsMonotone, StepsAssumption DEF ButtonInv, ButtonTypeOK, Mice
  <2>3. mouse' \in Mice /\ PressInv' /\ mouse.pressed
    BY <2>1, <2>2 DEF MouseMove, ButtonInv, ButtonTypeOK, PressInv, WalkInv, Mice
  <2> QED
    BY <1>1, <2>3 DEF ButtonInv, ButtonTypeOK, ButtonStandsIn, OverlapOnlyAfterEnabling
<1> QED
  BY <1>2, <1>3, <1>4

\* A release is a click or not; a click that shows the keyboard hides the button.
LEMMA ReleaseKeepsButtonInv ==
  ASSUME ButtonInv, MouseRelease
  PROVE  ButtonInv'
<1>1. mouse' \in Mice /\ ~mouse'.pressed
  <2>1. PICK w \in {0, mouse.walked} :
           mouse' = [mouse EXCEPT !.pressed = FALSE, !.timer = FALSE, !.walked = w]
    BY DEF MouseRelease
  <2>2. w \in Walks
    BY ThresholdAssumption DEF ButtonInv, ButtonTypeOK, Mice, Walks
  <2> QED
    BY <2>1, <2>2 DEF ButtonInv, ButtonTypeOK, Mice
<1>2. mouse.pressed /\ button = "shown"
  BY DEF MouseRelease, ButtonInv, ButtonTypeOK
<1>3. \/ UNCHANGED <<IsVisible, button, overlap>>
      \/ IsVisible' /\ button' = "hidden" /\ overlap' = FALSE
  BY ShowMakesVisible
  DEF MouseRelease, Click, FloatButtonClicked, serviceVars, vars, IsVisible
<1>4. ButtonTypeOK' /\ PressInv'
  BY <1>1, <1>2, <1>3 DEF ButtonInv, ButtonTypeOK, PressInv
<1>5. ButtonStandsIn' /\ OverlapOnlyAfterEnabling'
  BY <1>2, <1>3 DEF ButtonInv, ButtonStandsIn, OverlapOnlyAfterEnabling
<1> QED
  BY <1>4, <1>5 DEF ButtonInv

\* Every step keeps the invariant.
LEMMA StepKeepsButtonInv ==
  ASSUME ButtonInv, [EntryNext]_entryVars
  PROVE  ButtonInv'
<1>1. CASE ServiceStep
  BY <1>1, FollowingKeepsButtonInv DEF ServiceStep
<1>2. CASE UNCHANGED entryVars
  BY <1>2
  DEF entryVars, buttonVars, serviceVars, vars, IsVisible, ButtonInv, ButtonTypeOK,
      ButtonStandsIn, OverlapOnlyAfterEnabling, PressInv, WalkInv
<1> QED
  BY <1>1, <1>2, ManagerKeepsButtonInv, MouseKeepsButtonInv, ReleaseKeepsButtonInv
  DEF EntryNext

\* A release after a drag is no click, so it leaves the view alone.
LEMMA DragLeavesKeyboard ==
  ASSUME ButtonInv, MouseRelease, mouse.own > Threshold
  PROVE  UNCHANGED state
<1>1. mouse.walked > Threshold
  BY ThresholdAssumption
  DEF MouseRelease, ButtonInv, ButtonTypeOK, PressInv, WalkInv, Mice, Walks
<1>2. ~IsClick
  BY <1>1 DEF IsClick, IsMoved
<1> QED
  BY <1>2 DEF MouseRelease, serviceVars, vars

-----------------------------------------------------------------------------
(* The button calls the service and does nothing to it by itself.          *)

\* A click is the call the service knows, everything else about the button leaves the
\* service alone, and the button only follows what the service does.
LEMMA EntryStepIsServiceStep ==
  ASSUME [EntryNext]_entryVars
  PROVE  [ServiceNext]_serviceVars
<1>1. CASE ServiceStep
  BY <1>1 DEF ServiceStep, ServiceNext
<1>2. CASE \/ EnableFloatButton
           \/ DestroyFloatButton
           \/ UpdateGeometryTimeout
           \/ MousePress
           \/ \E d \in Steps : MouseMove(d)
           \/ ClickTimeout
  BY <1>2
  DEF EnableFloatButton, DestroyFloatButton, UpdateGeometryTimeout, MousePress, MouseMove,
      ClickTimeout
<1>3. CASE MouseRelease
  BY <1>3 DEF MouseRelease, Click, ServiceNext
<1>4. CASE UNCHANGED entryVars
  BY <1>4 DEF entryVars
<1> QED
  BY <1>1, <1>2, <1>3, <1>4 DEF EntryNext

\* Hence the service beside the button behaves as the service by itself.
LEMMA EntryIsServiceBehavior == EntrySpec => ServiceBehavior
<1>1. EntryInit => ServiceInit
  BY DEF EntryInit
<1>2. [EntryNext]_entryVars => [ServiceNext]_serviceVars
  BY EntryStepIsServiceStep
<1> QED
  BY <1>1, <1>2, PTL DEF EntrySpec, ServiceBehavior

\* On one desktop that nothing changes, and with no view kept, nothing moves the keyboard
\* from its place.
LEMMA NothingDisturbs ==
  ASSUME PreloadSettings = {FALSE},
         \A c, d \in Configs : c = d,
         IInv, IInv', preload = FALSE, [Next]_vars
  PROVE  [Undisturbed]_vars /\ preload' = FALSE
<1>1. config' = config
  BY DEF IInv, TypeOK
<1>2. [Undisturbed]_vars
  BY <1>1 DEF Undisturbed, KeptInFlip
<1>3. preload' = FALSE
  <2>1. CASE PreloadChanged
    BY <2>1 DEF PreloadChanged
  <2>2. CASE UNCHANGED vars
    BY <2>2 DEF vars, settingVars
  <2> QED
    BY <2>1, <2>2
    DEF Next, ShowVirtualKeyboard, HideVirtualKeyboard, FlipPlacementMode,
        AnimationFinished, AdjusterTimeout, AnimationAvailabilityChanged, ConfigChanged,
        GeometryRefreshed, settingVars
<1> QED
  BY <1>2, <1>3

-----------------------------------------------------------------------------
(* The theorems.                                                           *)

\* The strengthened invariant holds in every reachable state.
THEOREM ButtonInvInvariant == EntrySpec => []ButtonInv
<1>1. EntryInit => ButtonInv
  BY InitKeepsButtonInv
<1>2. ButtonInv /\ [EntryNext]_entryVars => ButtonInv'
  BY StepKeepsButtonInv
<1> QED
  BY <1>1, <1>2, PTL DEF EntrySpec

\* Types of the button, its manager's mouse and the history.
THEOREM ButtonTypeCorrect == EntrySpec => []ButtonTypeOK
  BY ButtonInvInvariant, PTL DEF ButtonInv

\* However the keyboard disappears, an enabled button is there to call it up again.
THEOREM ButtonCallsUp == EntrySpec => []ButtonStandsIn
  BY ButtonInvInvariant, PTL DEF ButtonInv

\* Button and keyboard are shown together only after enabling the one under the other.
THEOREM OverlapIsFromEnabling == EntrySpec => []OverlapOnlyAfterEnabling
  BY ButtonInvInvariant, PTL DEF ButtonInv

\* A press that moves further than the threshold never shows the keyboard.
THEOREM DragsAreNoClicks == EntrySpec => DragIsNoClick
<1>1. ButtonInv /\ [EntryNext]_entryVars =>
        [MouseRelease /\ mouse.own > Threshold => UNCHANGED state]_entryVars
  BY DragLeavesKeyboard
<1> QED
  BY <1>1, ButtonInvInvariant, PTL DEF EntrySpec, DragIsNoClick

\* With the clicks of the button and the calls past the merger, the keyboard still is what
\* was asked for last as soon as nothing is pending.
THEOREM LastRequestStandsWithButton == EntrySpec => []LastRequestStands
<1>1. SInv => LastRequestStands
  BY DEF SInv
<1> QED
  BY <1>1, EntryIsServiceBehavior, BehaviorSInv, PTL

\* And the merger still never changes the visibility twice within one period.
THEOREM NoFlickerWithButton == EntrySpec => NoFlicker
  BY EntryIsServiceBehavior, BehaviorNoFlicker, PTL

\* The whole entry, with requests, merger, button and lost backends, implements the
\* abstract panel.
THEOREM EntryImplementsPanel == EntrySpec => ImplementsInputPanel
  BY EntryIsServiceBehavior, ServiceBehaviorIsBehavior, BehaviorImplementsPanel, PTL

\* Whatever requests, clicks, flips, animations and their setting do, the keyboard comes
\* to rest where its geometry manager puts it: on one desktop, with no view kept.
THEOREM EntryKeepsPlace ==
  ASSUME PreloadSettings = {FALSE},
         \A c, d \in Configs : c = d
  PROVE  EntrySpec => []VisibleIsInPlace
<1> DEFINE NotKept == preload = FALSE
<1>1. Init => NotKept
  BY DEF Init
<1>2. IInv /\ IInv' /\ NotKept /\ [Next]_vars => NotKept'
  BY NothingDisturbs
<1>3. IInv /\ IInv' /\ NotKept /\ [Next]_vars => [Undisturbed]_vars
  BY NothingDisturbs
<1> HIDE DEF NotKept
<1>4. Behavior => [][Undisturbed]_vars
  BY <1>1, <1>2, <1>3, BehaviorIInv, PTL DEF Behavior
<1> QED
  BY <1>4, EntryIsServiceBehavior, ServiceBehaviorIsBehavior, BehaviorIsInPlace, PTL
=============================================================================
