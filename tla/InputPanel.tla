----------------------------- MODULE InputPanel -----------------------------
(***************************************************************************)
(* What the keyboard promises to the rest of the desktop, with windows,    *)
(* animations and timers left out: a panel that is visible or not, docked  *)
(* or floating, and that may reserve the bottom of the screen.             *)
(*                                                                         *)
(* The promise lies in what no step does: the panel changes its placement  *)
(* only while it is visible, space is reserved only for a visible docked   *)
(* panel, and it is given back in the very step that hides or undocks the  *)
(* panel, not before and not after.                                        *)
(***************************************************************************)
VARIABLES visible, docked, reserved

panel == <<visible, docked, reserved>>

PanelInit ==
  /\ visible = FALSE
  /\ docked \in BOOLEAN
  /\ reserved = FALSE

\* Space that is reserved stays so while the panel stays docked and visible.
KeepOrReserve == reserved' \in (IF docked' THEN {reserved, TRUE} ELSE {FALSE})

ShowPanel ==
  /\ ~visible
  /\ visible'
  /\ UNCHANGED docked
  /\ KeepOrReserve

HidePanel ==
  /\ visible
  /\ ~visible'
  /\ ~reserved'
  /\ UNCHANGED docked

FlipPanel ==
  /\ visible
  /\ docked' = ~docked
  /\ KeepOrReserve
  /\ UNCHANGED visible

ReserveSpace ==
  /\ visible
  /\ docked
  /\ reserved'
  /\ UNCHANGED <<visible, docked>>

PanelNext == ShowPanel \/ HidePanel \/ FlipPanel \/ ReserveSpace

PanelSpec == PanelInit /\ [][PanelNext]_panel
=============================================================================
