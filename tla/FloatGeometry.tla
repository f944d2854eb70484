---------------------------- MODULE FloatGeometry ----------------------------
(***************************************************************************)
(* FloatGeometryManager, of which the floating keyboard and the float      *)
(* button have one each: a window is kept at a ratio of its margin, the    *)
(* space left of it when it is as far right as it goes.  The ratio is a    *)
(* float: storing a position and reading it may lose a pixel.  Both share  *)
(* the static currentPosition_, from which they tell on which screen they  *)
(* are (ExpansionGeometryManager, the docked keyboard, reads it too).      *)
(***************************************************************************)
EXTENDS ScreenWatcher, Floats

CONSTANTS
  ViewShare,      \* the share of the width of its screen a window takes, unscaled
  DefaultMargin   \* the share of that width the window is from the right at first

Windows == {"keyboard", "button"}

ASSUME ShareAssumption ==
  ViewShare \in [Windows -> Floats] /\ DefaultMargin \in [Windows -> Floats]

\* A float tells pixels apart as far as here, 4 million pixels, and no desktop is as wide.
Far == Significands \div 4

ASSUME DesktopAssumption ==
  \A g \in Geometries :
    /\ g.left + g.width <= Far
    /\ \E p \in Powers : p >= (Significands \div 2) * (g.left + g.width)

\* defaultCoordinate, which stands for "never dragged".
DefaultCoordinate == -99999999

-----------------------------------------------------------------------------
(* Rectangles.                                                             *)

\* Mutant of MoveInside: the left edge is not looked at.
MoveInsideRight(x, width, area) ==
  IF x + width - 1 > Right(area) THEN Right(area) - width + 1 ELSE x

\* adjustToScreenEdges on a screen: the left edge first, then the right one.
MoveInside(x, width, area) ==
  LET y == IF x < area.left THEN area.left ELSE x
  IN IF y + width - 1 > Right(area) THEN Right(area) - width + 1 ELSE y

Center(x, width) == Truncated(2 * x + width - 1, 2)

Distance(x, y) == IF x < y THEN y - x ELSE x - y

\* calculateOptimalScreenAtPosition: where a dragged window ends up on the screen its
\* center is on.
DragTarget(u, x, width) ==
  LET center == Center(x, width)
      area == Area(u, center)
  IN IF width <= area.width THEN MoveInside(x, width, area)
     ELSE IF Distance(center, area.left) < Distance(center, Right(area))
     THEN area.left ELSE Right(area) - width + 1

-----------------------------------------------------------------------------
(* A window w of state u.                                                  *)

\* What the strategies of the windows say: getUnitWidth with getViewWidthRatio, and
\* getDefaultRightMargin.
UnscaledWidth(w, area) == Product(area.width, ViewShare[w])
DefaultRightMargin(w, area) == Product(area.width, DefaultMargin[w])

\* Its share of the screen; only the keyboard is scaled.
WidthOn[w \in Windows, area \in Geometries, scale \in 1 .. 100] ==
  LET unscaled == UnscaledWidth(w, area)
  IN IF w = "keyboard" THEN Product(unscaled, Quotient(scale, 100)) ELSE unscaled

ViewWidth(u, w) == WidthOn[w, Area(u, u.at), u.scale]

\* calculateMarginSize
Margin(u, w) ==
  LET area == Area(u, u.at) IN area.left + area.width - WidthOn[w, area, u.scale]

\* calculatePositionFromRatio
RatioPosition(u, w) == Product(Margin(u, w), u.ratio[w])

\* calculateNormalizedPosition
Normalized(u, w, x) == MoveInside(x, ViewWidth(u, w), Area(u, x))

\* calculateCurrentPosition
CurrentPosition(u, w) ==
  IF u.at = DefaultCoordinate
  THEN Normalized(u, w, RatioPosition(u, w)) ELSE RatioPosition(u, w)

ViewPosition(u, w) == Normalized(u, w, CurrentPosition(u, w))

\* updateMarginRatio
SetRatio(u, w, x) == [u EXCEPT !.ratio[w] = Quotient(x, Margin(u, w))]

\* Where a window is put that was never moved: near the right edge of the marked screen.
DefaultPosition(u, w) ==
  LET area == Area(u, Nowhere)
  IN area.left + area.width - (ViewWidth(u, w) + DefaultRightMargin(w, area))

\* Mutant of UpdateViewMarginRatio: the window stays where it is.
UpdateViewMarginRatioNot(u, w) == u

UpdateViewMarginRatio(u, w) == SetRatio(u, w, DefaultPosition(u, w))
=============================================================================
