--------------------------- MODULE KeyboardService ---------------------------
(***************************************************************************)
(* The D-Bus service of the keyboard: fcitx asks to show and to hide it at *)
(* any moment, the requests go through the RequestMerger, and what is left *)
(* of them calls the manager of VirtualKeyboardView.  Two callers reach the*)
(* manager past the merger: a click on the float button shows the keyboard,*)
(* the loss of the fcitx backend hides it.                                 *)
(***************************************************************************)
EXTENDS VirtualKeyboardView, RequestMerger

VARIABLES
  wish,      \* history: what was asked for last, by a request or a direct call
  bypassed,  \* history: a direct call came while a request was pending, and no
             \* request that agrees with wish has been executed since
  quiet      \* history: ticks since the merger last changed the visibility

history == <<wish, bypassed, quiet>>
serviceVars == <<vars, merger, history>>

ServiceInit ==
  /\ Init
  /\ MergerInit
  /\ wish = "none"
  /\ bypassed = FALSE
  /\ quiet = Period

\* D-Bus slot ShowVirtualKeyboard
RequestShow ==
  /\ Activate(~IsVisible)
  /\ wish' = "show"
  /\ UNCHANGED <<vars, bypassed, quiet>>

\* D-Bus slot HideVirtualKeyboard
RequestHide ==
  /\ Deactivate(IsVisible)
  /\ wish' = "hide"
  /\ UNCHANGED <<vars, bypassed, quiet>>

\* The merger's callbacks; the manager ignores a call that changes nothing.
ExecuteShow ==
  /\ Execute("Activation")
  /\ \/ ShowVirtualKeyboard /\ quiet' = 0
     \/ IsVisible /\ UNCHANGED <<vars, quiet>>
  /\ bypassed' = (bypassed /\ wish # "show")
  /\ UNCHANGED wish

ExecuteHide ==
  /\ Execute("Deactivation")
  /\ \/ HideVirtualKeyboard /\ quiet' = 0
     \/ ~IsVisible /\ UNCHANGED <<vars, quiet>>
  /\ bypassed' = (bypassed /\ wish # "hide")
  /\ UNCHANGED wish

\* The click handler of FloatButtonManager
FloatButtonClicked ==
  /\ ShowVirtualKeyboard
  /\ wish' = "show"
  /\ bypassed' = (bypassed \/ current # "Idle")
  /\ UNCHANGED <<merger, quiet>>

\* backendConnectionDisconnected
BackendDisconnected ==
  /\ HideVirtualKeyboard
  /\ wish' = "hide"
  /\ bypassed' = (bypassed \/ current # "Idle")
  /\ UNCHANGED <<merger, quiet>>

TimePasses ==
  /\ Tick
  /\ quiet' = IF quiet < Period THEN quiet + 1 ELSE quiet
  /\ UNCHANGED <<vars, wish, bypassed>>

\* Every other event of the view leaves the merger alone.
ViewEvent ==
  /\ \/ FlipPlacementMode
     \/ AnimationFinished
     \/ AdjusterTimeout
     \/ AnimationAvailabilityChanged
     \/ PreloadChanged
     \/ ConfigChanged
     \/ GeometryRefreshed
  /\ UNCHANGED <<merger, history>>

ServiceNext ==
  \/ RequestShow
  \/ RequestHide
  \/ ExecuteShow
  \/ ExecuteHide
  \/ FloatButtonClicked
  \/ BackendDisconnected
  \/ TimePasses
  \/ ViewEvent

\* Time goes on and a timer that is due fires.
ServiceFairness ==
  /\ WF_serviceVars(TimePasses)
  /\ WF_serviceVars(ExecuteShow)
  /\ WF_serviceVars(ExecuteHide)

ServiceSpec == ServiceInit /\ [][ServiceNext]_serviceVars /\ ServiceFairness

-----------------------------------------------------------------------------
(* What must hold.                                                         *)

\* A pending request is for a change: nothing is scheduled that the manager ignores.
PendingIsUseful ==
  ~bypassed =>
    /\ current = "Activation" => ~IsVisible /\ wish = "show"
    /\ current = "Deactivation" => IsVisible /\ wish = "hide"

\* When nothing is pending the keyboard is as it was asked for last: merging never
\* drops a request that mattered, however show and hide requests interleave with
\* animations, flips, the timer, and direct calls while no request is pending.
LastRequestStands ==
  ~bypassed /\ current = "Idle" /\ wish # "none" => (IsVisible <=> wish = "show")

\* A request is served or overtaken by another; repeating it, even for ever, does
\* not put it off.
RequestsHonoured ==
  /\ wish = "show" ~> IsVisible \/ wish = "hide" \/ bypassed
  /\ wish = "hide" ~> ~IsVisible \/ wish = "show" \/ bypassed

\* No flicker: the merger never changes the visibility twice within one period.
NoFlicker ==
  [][(ExecuteShow \/ ExecuteHide) /\ IsVisible' # IsVisible => quiet = Period]_serviceVars
=============================================================================
