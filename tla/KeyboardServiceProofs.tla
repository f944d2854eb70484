------------------------- MODULE KeyboardServiceProofs -------------------------
(***************************************************************************)
(* Proofs about KeyboardService, for every period, set of configurations,  *)
(* choice of settings and workspace adjuster; what VirtualKeyboardViewProofs*)
(* says of the view carries over to the view behind the service.           *)
(***************************************************************************)
EXTENDS KeyboardService, VirtualKeyboardViewProofs

-----------------------------------------------------------------------------
(* The inductive invariant.                                                *)

\* A pending request has waited, or will have waited, a whole period since the merger
\* last changed the visibility.
WaitInv ==
  /\ MergerTypeOK
  /\ quiet \in 0 .. Period
  /\ current # "Idle" => quiet + remaining >= Period

SInv ==
  /\ WaitInv
  /\ PendingIsUseful
  /\ LastRequestStands

-----------------------------------------------------------------------------
(* What the steps of the view mean for the service.                        *)

\* Showing takes the keyboard to the screen in one step, hiding takes it away.
LEMMA ShowMakesVisible ==
  ASSUME ShowVirtualKeyboard
  PROVE  ~IsVisible /\ IsVisible'
  BY DEF ShowVirtualKeyboard, EnterShowingState, EnterVisibleState, IsVisible

\* Hiding takes the keyboard away in one step, during a flip too.
LEMMA HideMakesInvisible ==
  ASSUME HideVirtualKeyboard
  PROVE  IsVisible /\ ~IsVisible'
  BY DEF HideVirtualKeyboard, EnterHidingState, EnterInvisibleState, IsVisible

\* No other step of the view changes the visibility.
LEMMA ViewEventKeepsVisible ==
  ASSUME ViewEvent
  PROVE  IsVisible' = IsVisible
<1>1. CASE FlipPlacementMode
  BY <1>1 DEF FlipPlacementMode, EnterFlippingState, EnterVisibleState, IsVisible
<1>2. CASE AnimationFinished
  BY <1>2 DEF AnimationFinished, EnterVisibleState, EnterInvisibleState, IsVisible
<1>3. CASE \/ AdjusterTimeout
           \/ AnimationAvailabilityChanged
           \/ PreloadChanged
           \/ ConfigChanged
           \/ GeometryRefreshed
  BY <1>3
  DEF AdjusterTimeout, AnimationAvailabilityChanged, PreloadChanged, ConfigChanged,
      GeometryRefreshed, IsVisible
<1> QED
  BY <1>1, <1>2, <1>3 DEF ViewEvent

-----------------------------------------------------------------------------
(* The invariant is inductive.                                             *)

\* Initially nothing is asked for and nothing is pending.
LEMMA InitKeepsSInv ==
  ASSUME ServiceInit
  PROVE  SInv
  BY PeriodAssumption
  DEF ServiceInit, Init, MergerInit, SInv, WaitInv, MergerTypeOK, PendingIsUseful,
      LastRequestStands

\* A request that becomes pending is for a change; one that cancels asks for the present.
LEMMA RequestsKeepSInv ==
  ASSUME SInv, RequestShow \/ RequestHide
  PROVE  SInv'
<1>1. UNCHANGED <<IsVisible, bypassed, quiet>>
  BY DEF RequestShow, RequestHide, vars, IsVisible
<1>2. WaitInv'
  BY <1>1, PeriodAssumption
  DEF SInv, WaitInv, MergerTypeOK, RequestShow, RequestHide, Activate, Deactivate,
      EnterIdleState, EnterPendingState, RequestAgain, merger
<1>3. PendingIsUseful' /\ LastRequestStands'
  BY <1>1
  DEF SInv, WaitInv, MergerTypeOK, PendingIsUseful, LastRequestStands, RequestShow,
      RequestHide, Activate, Deactivate, EnterIdleState, EnterPendingState,
      RequestAgain, merger
<1> QED
  BY <1>2, <1>3 DEF SInv

\* Executing makes the keyboard what the pending request asked for.
LEMMA ExecuteKeepsSInv ==
  ASSUME SInv, ExecuteShow \/ ExecuteHide
  PROVE  SInv'
<1>1. /\ current' = "Idle" /\ remaining' = 0
      /\ quiet' \in {0, quiet}
  BY DEF ExecuteShow, ExecuteHide, Execute, EnterIdleState
<1>2. WaitInv'
  BY <1>1, PeriodAssumption DEF SInv, WaitInv, MergerTypeOK
<1>3. CASE ExecuteShow
  <2>1. IsVisible' /\ wish' = wish /\ (~bypassed' => ~bypassed \/ wish = "show")
    BY <1>3, ShowMakesVisible DEF ExecuteShow, vars, IsVisible
  <2>2. current = "Activation"
    BY <1>3 DEF ExecuteShow, Execute
  <2> QED
    BY <1>1, <1>2, <2>1, <2>2 DEF SInv, PendingIsUseful, LastRequestStands
<1>4. CASE ExecuteHide
  <2>1. ~IsVisible' /\ wish' = wish /\ (~bypassed' => ~bypassed \/ wish = "hide")
    BY <1>4, HideMakesInvisible DEF ExecuteHide, vars, IsVisible
  <2>2. current = "Deactivation"
    BY <1>4 DEF ExecuteHide, Execute
  <2> QED
    BY <1>1, <1>2, <2>1, <2>2 DEF SInv, PendingIsUseful, LastRequestStands
<1> QED
  BY <1>3, <1>4

\* A direct call is served at once.
LEMMA DirectCallsKeepSInv ==
  ASSUME SInv, FloatButtonClicked \/ BackendDisconnected
  PROVE  SInv'
<1>1. UNCHANGED <<current, remaining, quiet>>
  BY DEF FloatButtonClicked, BackendDisconnected, merger
<1>2. WaitInv'
  BY <1>1 DEF SInv, WaitInv, MergerTypeOK
<1>3. bypassed' = (bypassed \/ current # "Idle")
  BY DEF FloatButtonClicked, BackendDisconnected
<1>4. (wish' = "show" /\ IsVisible') \/ (wish' = "hide" /\ ~IsVisible')
  BY ShowMakesVisible, HideMakesInvisible DEF FloatButtonClicked, BackendDisconnected
<1>5. PendingIsUseful' /\ LastRequestStands'
  BY <1>1, <1>3, <1>4 DEF PendingIsUseful, LastRequestStands
<1> QED
  BY <1>2, <1>5 DEF SInv

\* What the timer has run down, time has been quiet.
LEMMA TimeKeepsSInv ==
  ASSUME SInv, TimePasses
  PROVE  SInv'
<1>1. UNCHANGED <<IsVisible, current, wish, bypassed>>
  BY DEF TimePasses, Tick, vars, IsVisible
<1>2. WaitInv'
  BY PeriodAssumption DEF SInv, WaitInv, MergerTypeOK, TimePasses, Tick
<1>3. PendingIsUseful' /\ LastRequestStands'
  BY <1>1 DEF SInv, PendingIsUseful, LastRequestStands
<1> QED
  BY <1>2, <1>3 DEF SInv

\* Steps that keep the visibility and the merger are harmless.
LEMMA QuietStepsKeepSInv ==
  ASSUME SInv, UNCHANGED <<IsVisible, merger, history>>
  PROVE  SInv'
  BY DEF SInv, WaitInv, MergerTypeOK, PendingIsUseful, LastRequestStands, merger, history

\* Every step of the service keeps the invariant.
LEMMA StepKeepsSInv ==
  ASSUME SInv, [ServiceNext]_serviceVars
  PROVE  SInv'
<1>1. CASE ViewEvent
  BY <1>1, ViewEventKeepsVisible, QuietStepsKeepSInv DEF ViewEvent
<1>2. CASE UNCHANGED serviceVars
  BY <1>2, QuietStepsKeepSInv DEF serviceVars, vars, IsVisible
<1> QED
  BY <1>1, <1>2, RequestsKeepSInv, ExecuteKeepsSInv, DirectCallsKeepSInv, TimeKeepsSInv
  DEF ServiceNext

\* What waiting buys: when the timer has run out, a whole period has been quiet.
LEMMA ExecutedAfterPeriod ==
  ASSUME SInv, ExecuteShow \/ ExecuteHide
  PROVE  quiet = Period
  BY PeriodAssumption DEF SInv, WaitInv, ExecuteShow, ExecuteHide, Execute

-----------------------------------------------------------------------------
(* The service calls the view and does nothing to it by itself.            *)

\* Requests and time leave the view alone; whatever is executed, clicked or lost is one
\* of the calls the view knows.
LEMMA ServiceStepIsViewStep ==
  ASSUME [ServiceNext]_serviceVars
  PROVE  [Next]_vars
<1>1. CASE RequestShow \/ RequestHide \/ TimePasses \/ UNCHANGED serviceVars
  BY <1>1 DEF RequestShow, RequestHide, TimePasses, serviceVars
<1>2. CASE ExecuteShow \/ FloatButtonClicked
  BY <1>2 DEF ExecuteShow, FloatButtonClicked, Next
<1>3. CASE ExecuteHide \/ BackendDisconnected
  BY <1>3 DEF ExecuteHide, BackendDisconnected, Next
<1>4. CASE ViewEvent
  BY <1>4 DEF ViewEvent, Next
<1> QED
  BY <1>1, <1>2, <1>3, <1>4 DEF ServiceNext

\* What the service does in every composition: ServiceSpec without its fairness.
ServiceBehavior == ServiceInit /\ [][ServiceNext]_serviceVars

\* Hence the view behind the service behaves as the view by itself.
LEMMA ServiceBehaviorIsBehavior == ServiceBehavior => Behavior
<1>1. ServiceInit => Init
  BY DEF ServiceInit
<1>2. [ServiceNext]_serviceVars => [Next]_vars
  BY ServiceStepIsViewStep
<1> QED
  BY <1>1, <1>2, PTL DEF ServiceBehavior, Behavior

-----------------------------------------------------------------------------
(* The theorems.                                                           *)

\* The strengthened invariant holds in every state of every behavior of the service.
LEMMA BehaviorSInv == ServiceBehavior => []SInv
<1>1. ServiceInit => SInv
  BY InitKeepsSInv
<1>2. SInv /\ [ServiceNext]_serviceVars => SInv'
  BY StepKeepsSInv
<1> QED
  BY <1>1, <1>2, PTL DEF ServiceBehavior

\* The strengthened invariant holds in every reachable state of the service.
THEOREM SInvInvariant == ServiceSpec => []SInv
  BY BehaviorSInv, PTL DEF ServiceSpec, ServiceBehavior

\* Merging never drops a request that mattered: with no direct call in the middle of a
\* pending request, the keyboard is what was asked for last as soon as none is pending.
THEOREM MergingIsHonest == ServiceSpec => []LastRequestStands
  BY SInvInvariant, PTL DEF SInv

\* The merger never changes the visibility twice within one period.
LEMMA BehaviorNoFlicker == ServiceBehavior => NoFlicker
<1>1. SInv /\ [ServiceNext]_serviceVars =>
        [(ExecuteShow \/ ExecuteHide) /\ IsVisible' # IsVisible => quiet = Period]_serviceVars
  BY ExecutedAfterPeriod
<1> QED
  BY <1>1, BehaviorSInv, PTL DEF ServiceBehavior, NoFlicker

\* So it is for the service by itself.
THEOREM MergingStopsFlicker == ServiceSpec => NoFlicker
  BY BehaviorNoFlicker, PTL DEF ServiceSpec, ServiceBehavior

\* Whatever fcitx asks for and however the merger delays, drops and repeats it, the
\* keyboard keeps the promise of InputPanel to the rest of the desktop.
THEOREM ServiceImplementsPanel == ServiceSpec => ImplementsInputPanel
  BY ServiceBehaviorIsBehavior, BehaviorImplementsPanel, PTL DEF ServiceSpec, ServiceBehavior
=============================================================================
