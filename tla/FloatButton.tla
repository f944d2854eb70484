----------------------------- MODULE FloatButton -----------------------------
(***************************************************************************)
(* The float button: FloatButtonManager, which creates it, shows it while  *)
(* the keyboard is not visible and deletes it, and the mouse handling of   *)
(* FloatButton, which tells a click from a drag.  Composed with the service*)
(* of the keyboard: virtualKeyboardVisibiltyChanged is emitted inside the  *)
(* calls that show and hide the keyboard.                                  *)
(***************************************************************************)
EXTENDS KeyboardService

CONSTANTS
  Threshold,  \* manhattonLengthThreshold
  Steps       \* distances of the pointer from where it was pressed

ASSUME ThresholdAssumption == Threshold \in Nat
ASSUME StepsAssumption == Steps \subseteq Nat

VARIABLES
  button,   \* floatButton_: none exists unless the button is enabled
  mouse,    \* the press that is going on and what the button remembers of others
  overlap   \* history: the button was enabled while the keyboard was visible,
            \* whose visibility has not changed since

buttonVars == <<button, mouse, overlap>>
entryVars == <<serviceVars, buttonVars>>

\* walked is manhattonLength, counted up to the first value above the threshold;
\* displaced: the window is not where it was pressed; timer: clickTimer_ is active;
\* own: history, what walked would be had it been 0 when the button was pressed.
Walks == 0 .. Threshold + 1
Mice == [pressed : BOOLEAN, walked : Walks, displaced : BOOLEAN, timer : BOOLEAN,
         own : Walks]
NewMouse == [pressed |-> FALSE, walked |-> 0, displaced |-> FALSE, timer |-> FALSE,
             own |-> 0]

Further(walk, d) == IF walk + d > Threshold THEN Threshold + 1 ELSE walk + d

\* Mutant of IsMoved: only the position of the window counts.
IsMovedByPosition == mouse.displaced

\* isFloatButtonMoved
IsMoved == mouse.walked > Threshold \/ mouse.displaced

EntryInit ==
  /\ ServiceInit
  /\ button \in {"none", "shown"}
  /\ mouse = NewMouse
  /\ overlap = FALSE

-----------------------------------------------------------------------------
(* The manager.                                                            *)

\* Mutant of ButtonFollows: the button is not shown again.
ButtonFollowsOnlyDown ==
  IF IsVisible' = IsVisible
  THEN UNCHANGED buttonVars
  ELSE /\ button' = IF button # "none" /\ IsVisible' THEN "hidden" ELSE button
       /\ mouse' = IF IsVisible' THEN [mouse EXCEPT !.pressed = FALSE] ELSE mouse
       /\ overlap' = FALSE

\* onVirtualKeyboardVisibilityChanged.  A button that is hidden while it is pressed
\* gets no release event.
ButtonFollows ==
  IF IsVisible' = IsVisible
  THEN UNCHANGED buttonVars
  ELSE /\ button' = CASE button = "none" -> "none"
                      [] button # "none" /\ IsVisible' -> "hidden"
                      [] OTHER -> "shown"
       /\ mouse' = IF IsVisible' THEN [mouse EXCEPT !.pressed = FALSE] ELSE mouse
       /\ overlap' = FALSE

\* initFloatButton: the keyboard is only asked to hide, through fcitx; the button
\* is shown at once.
EnableFloatButton ==
  /\ button = "none"
  /\ button' = "shown"
  /\ mouse' = NewMouse
  /\ overlap' = IsVisible
  /\ UNCHANGED serviceVars

\* Mutant of DestroyFloatButton: a press outlives the button.
DestroyFloatButtonKeepsMouse ==
  /\ button # "none"
  /\ button' = "none"
  /\ overlap' = FALSE
  /\ UNCHANGED <<serviceVars, mouse>>

DestroyFloatButton ==
  /\ button # "none"
  /\ button' = "none"
  /\ mouse' = NewMouse
  /\ overlap' = FALSE
  /\ UNCHANGED serviceVars

\* updateGeometryTimer_ fires after the screens have changed.
UpdateGeometryTimeout ==
  /\ mouse.pressed
  /\ mouse' = [mouse EXCEPT !.displaced = TRUE]
  /\ UNCHANGED <<serviceVars, button, overlap>>

-----------------------------------------------------------------------------
(* The mouse.                                                              *)

\* mousePressEvent; manhattonLength is not reset.
MousePress ==
  /\ button = "shown"
  /\ ~mouse.pressed
  /\ mouse' = [mouse EXCEPT !.pressed = TRUE, !.displaced = FALSE, !.timer = TRUE,
                            !.own = 0]
  /\ UNCHANGED <<serviceVars, button, overlap>>

\* mouseMoveEvent: a button that has moved follows the pointer, and may come back.
MouseMove(d) ==
  /\ mouse.pressed
  /\ \/ /\ ~IsMoved
        /\ mouse' = [mouse EXCEPT !.walked = Further(@, d), !.own = Further(@, d)]
     \/ /\ IsMoved
        /\ \E displaced \in BOOLEAN :
             mouse' = [mouse EXCEPT !.displaced = displaced]
  /\ UNCHANGED <<serviceVars, button, overlap>>

ClickTimeout ==
  /\ mouse.timer
  /\ mouse' = [mouse EXCEPT !.timer = FALSE]
  /\ UNCHANGED <<serviceVars, button, overlap>>

\* shouldPerformMouseClick
IsClick == ~IsMoved /\ mouse.timer

\* Mutant of Click: nobody listens to virtualKeyboardVisibiltyChanged.
ClickLeavesButton ==
  \/ /\ FloatButtonClicked
     /\ UNCHANGED <<button, overlap>>
  \/ /\ IsVisible
     /\ UNCHANGED <<serviceVars, button, overlap>>

\* The click handler of the manager; the button is hidden with the keyboard shown.
Click ==
  \/ /\ FloatButtonClicked
     /\ button' = "hidden"
     /\ overlap' = FALSE
  \/ /\ IsVisible
     /\ UNCHANGED <<serviceVars, button, overlap>>

\* mouseReleaseEvent: only a drag resets manhattonLength.
MouseRelease ==
  /\ mouse.pressed
  /\ mouse' = [mouse EXCEPT !.pressed = FALSE, !.timer = FALSE,
                            !.walked = IF ~IsClick /\ IsMoved THEN 0 ELSE @]
  /\ \/ IsClick /\ Click
     \/ ~IsClick /\ UNCHANGED <<serviceVars, button, overlap>>

-----------------------------------------------------------------------------

\* The service goes on; the click on the button is MouseRelease here.
ServiceStep ==
  /\ \/ RequestShow
     \/ RequestHide
     \/ ExecuteShow
     \/ ExecuteHide
     \/ BackendDisconnected
     \/ TimePasses
     \/ ViewEvent
  /\ ButtonFollows

EntryNext ==
  \/ ServiceStep
  \/ EnableFloatButton
  \/ DestroyFloatButton
  \/ UpdateGeometryTimeout
  \/ MousePress
  \/ \E d \in Steps : MouseMove(d)
  \/ ClickTimeout
  \/ MouseRelease

\* As for the service: time goes on and a timer that is due fires.
EntryFairness ==
  /\ WF_entryVars(TimePasses /\ ButtonFollows)
  /\ WF_entryVars(ExecuteShow /\ ButtonFollows)
  /\ WF_entryVars(ExecuteHide /\ ButtonFollows)

EntrySpec == EntryInit /\ [][EntryNext]_entryVars /\ EntryFairness

-----------------------------------------------------------------------------
(* What must hold.                                                         *)

\* Every variable of the button has its type; only a button that exists is pressed.
ButtonTypeOK ==
  /\ button \in {"none", "hidden", "shown"}
  /\ mouse \in Mice
  /\ overlap \in BOOLEAN
  /\ mouse.pressed => button = "shown"

\* While the keyboard is not visible an enabled button is on the screen: whichever
\* way the keyboard disappears, merged requests and a lost backend included, the
\* user can call it up again.
ButtonStandsIn == ~IsVisible /\ button # "none" => button = "shown"

\* Button and keyboard are on the screen together only when the button was enabled
\* while the keyboard was visible, and until the keyboard's visibility changes.
OverlapOnlyAfterEnabling == IsVisible /\ button = "shown" => overlap

\* A press that moves the pointer further than the threshold is no click, even when
\* the window cannot follow the pointer or comes back to where it was pressed.
DragIsNoClick ==
  [][MouseRelease /\ mouse.own > Threshold => UNCHANGED state]_entryVars

\* A press that is short and stays within the threshold is a click: the keyboard is
\* visible afterwards.
ClickShows ==
  [][MouseRelease /\ mouse.own <= Threshold /\ ~mouse.displaced /\ mouse.timer
       => IsVisible']_entryVars
=============================================================================
