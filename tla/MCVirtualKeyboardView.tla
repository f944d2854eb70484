----------------------- MODULE MCVirtualKeyboardView -----------------------
(***************************************************************************)
(* Instances of VirtualKeyboardView for TLC: two configurations are enough *)
(* for "the one the window was placed for" and "the one that holds now".   *)
(***************************************************************************)
EXTENDS VirtualKeyboardView
=============================================================================
