---------------------------- MODULE RequestMerger ----------------------------
(***************************************************************************)
(* The merger behind the ShowVirtualKeyboard and HideVirtualKeyboard calls *)
(* of the D-Bus service: a request that asks for a change waits for one    *)
(* period; the opposite request cancels it; the same request again changes *)
(* nothing and, above all, does not start the timer anew.                  *)
(***************************************************************************)
EXTENDS Naturals

CONSTANT Period  \* VIRTUAL_KEYBOARD_VISIBILITY_PEROID, in ticks

ASSUME PeriodAssumption == Period \in Nat \ {0}

VARIABLES
  current,    \* currentState_
  remaining   \* ticks until the single-shot timer_ fires, if it is active

merger == <<current, remaining>>

MergerInit == current = "Idle" /\ remaining = 0

EnterIdleState == current' = "Idle" /\ remaining' = 0

\* Mutant of EnterPendingState: the timer is started without its period.
EnterPendingStateAtOnce(pending) == current' = pending /\ remaining' = 0

\* enterActivationState and enterDeactivationState
EnterPendingState(pending) == current' = pending /\ remaining' = Period

\* Mutant of RequestAgain: the same request again restarts the timer.
RequestAgainRestarts == remaining' = Period /\ UNCHANGED current

RequestAgain == UNCHANGED merger

\* Mutant of Activate: the opposite request is replaced, not cancelled.
ActivateReplaces(shouldActivate) ==
  \/ /\ current \in {"Idle", "Deactivation"}
     /\ IF shouldActivate THEN EnterPendingState("Activation") ELSE UNCHANGED merger
  \/ /\ current = "Activation"
     /\ RequestAgain

\* activate() of the current state; shouldActivate is the answer of its callback.
Activate(shouldActivate) ==
  \/ /\ current = "Idle"
     /\ IF shouldActivate THEN EnterPendingState("Activation") ELSE UNCHANGED merger
  \/ /\ current = "Activation"
     /\ RequestAgain
  \/ /\ current = "Deactivation"
     /\ EnterIdleState

\* deactivate() of the current state
Deactivate(shouldDeactivate) ==
  \/ /\ current = "Idle"
     /\ IF shouldDeactivate THEN EnterPendingState("Deactivation") ELSE UNCHANGED merger
  \/ /\ current = "Deactivation"
     /\ RequestAgain
  \/ /\ current = "Activation"
     /\ EnterIdleState

\* One tick of time; a timer that is due is served first.
Tick ==
  /\ current = "Idle" \/ remaining > 0
  /\ remaining' = IF remaining > 0 THEN remaining - 1 ELSE 0
  /\ UNCHANGED current

\* timeout: execute() goes back to Idle and stops the timer, then calls back.
Execute(pending) ==
  /\ current = pending
  /\ remaining = 0
  /\ EnterIdleState

\* The states of the merger; the timer runs only for a pending request.
MergerTypeOK ==
  /\ current \in {"Idle", "Activation", "Deactivation"}
  /\ remaining \in 0 .. Period
  /\ current = "Idle" => remaining = 0
=============================================================================
