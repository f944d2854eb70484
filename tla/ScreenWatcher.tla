---------------------------- MODULE ScreenWatcher ----------------------------
(***************************************************************************)
(* ScreenWatcher: which screens there are, which of them carries the mark  *)
(* of the keyboard's windows, and which one a position is taken to be on.  *)
(* One axis only, the horizontal one: the code does the same for both.     *)
(*                                                                         *)
(* The handlers of this module and of FloatGeometry call each other        *)
(* through direct signal connections.  Each is an operator that takes the  *)
(* state u of the program to the state it leaves; Screens makes actions of *)
(* them.                                                                   *)
(***************************************************************************)
EXTENDS Integers

CONSTANTS
  Screens,     \* the QScreen objects that may be plugged
  Geometries   \* the geometries a screen may have

ASSUME ScreensAssumption == Screens # {}
ASSUME GeometriesAssumption ==
  Geometries \subseteq [left : Nat, width : Nat \ {0}]

\* QRect::right
Right(area) == area.left + area.width - 1

Spans(area, x) == area.left <= x /\ x <= Right(area)

Disjoint(a, b) == Right(a) < b.left \/ Right(b) < a.left

\* The default argument of getOptimalScreenGeometry, a point of no screen.
Nowhere == -1

\* QGuiApplication::screenAt
ScreenAt(u, x) == {s \in u.connected : Spans(u.geometry[s], x)}

\* The screen of getOptimalScreenGeometry: at the position, else the marked one, else
\* the primary one.
OptimalScreen(u, x) ==
  LET candidates == IF ScreenAt(u, x) # {} THEN ScreenAt(u, x)
                    ELSE IF u.marked # {} THEN u.marked ELSE {u.primary}
  IN CHOOSE s \in candidates : TRUE

Area(u, x) == u.geometry[OptimalScreen(u, x)]

\* Mutant of MarkScreen: the old mark is not wiped off.
MarkScreenToo(u, x) ==
  IF ScreenAt(u, x) \subseteq u.marked THEN u
  ELSE [u EXCEPT !.marked = u.marked \cup ScreenAt(u, x), !.changed = TRUE]

\* markScreen: the mark moves to the screen of the window, unless that is nowhere.
MarkScreen(u, x) ==
  IF ScreenAt(u, x) \subseteq u.marked THEN u
  ELSE [u EXCEPT !.marked = ScreenAt(u, x), !.changed = TRUE]
=============================================================================
