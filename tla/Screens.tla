------------------------------- MODULE Screens -------------------------------
(***************************************************************************)
(* The windows of the keyboard on screens that come, go and change: the    *)
(* floating or docked keyboard and the float button, dragged, flipped,     *)
(* shown and hidden, and the signals by which ScreenWatcher has them       *)
(* follow.  Animations are left out: they move windows vertically only.    *)
(***************************************************************************)
EXTENDS FloatGeometry

CONSTANTS
  Scales,    \* per cent, the setting virtual-keyboard-scale-factor
  Preload,   \* the setting preload-view-enabled
  Animated,  \* the setting animation-enabled
  Saved,     \* positions found in the settings at start
  Reach,     \* bound: positions a window is dragged to
  MaxEvents  \* bound: how often a screen or the scale changes or a drag begins

ASSUME ScalesAssumption == Scales \subseteq 1 .. 100 /\ Scales # {}
ASSUME FlagsAssumption == Preload \in BOOLEAN /\ Animated \in BOOLEAN
ASSUME PositionsAssumption == Saved \subseteq Int /\ Reach \subseteq -Far .. Far
\* No screen is so narrow that a window on it would have no width, and no window takes
\* all of its screen.
ASSUME WidthsAssumption ==
  \A g \in Geometries, w \in Windows, scale \in Scales :
    /\ WidthOn[w, g, scale] \in 1 .. g.width - 1
    /\ DefaultRightMargin(w, g) \in 0 .. g.width
ASSUME MaxEventsAssumption == MaxEvents \in Nat

VARIABLES
  ui,     \* the state of the program, a record
  events  \* what MaxEvents bounds

vars == <<ui, events>>

Event == events < MaxEvents /\ events' = events + 1

\* A window on the screen; NoFrame while there is none.
NoFrame == [left |-> 0, width |-> 0]
Frames == [left : Int, width : Nat]

\* connected, geometry, primary: what Qt says of the screens.
\* marked, changed: the mark of the watcher, and isScreenMarkChanged_.
\* at: currentPosition_.  ratio: the margin ratios.  scale: the setting.
\* visible, float, window, frame: the keyboard, whether it is in float mode, whether
\* its QQuickView exists and where that is.  button: floatButton_ and where it is.
\* timer: updateGeometryTimer_.  dragged: the window under the pressed mouse and
\* lastSize_ of its geometry manager.
UIs == [
  connected : SUBSET Screens, geometry : UNION {[S -> Geometries] : S \in SUBSET Screens},
  primary : Screens, marked : SUBSET Screens, changed : BOOLEAN,
  at : Int, ratio : [Windows -> Floats], scale : Scales,
  visible : BOOLEAN, float : BOOLEAN, window : BOOLEAN, frame : Frames,
  button : {"none", "hidden", "shown"}, buttonFrame : Frames, timer : BOOLEAN,
  dragged : [window : Windows \cup {"none"}, width : 0 .. Far]]

NoDrag == [window |-> "none", width |-> 0]

-----------------------------------------------------------------------------
(* Signals of the watcher.                                                 *)

\* handleMarkedScreenChanged of the manager
KeyboardMarkedScreenChanged(u) ==
  IF u.visible THEN u ELSE UpdateViewMarginRatio(u, "keyboard")

\* onMarkedScreenChanged of the float button
ButtonMarkedScreenChanged(u) ==
  IF u.button = "hidden" THEN UpdateViewMarginRatio(u, "button") ELSE u

\* notifyScreenMarkChanged
NotifyScreenMarkChanged(u) ==
  IF u.changed
  THEN ButtonMarkedScreenChanged(
         KeyboardMarkedScreenChanged([u EXCEPT !.changed = FALSE]))
  ELSE u

-----------------------------------------------------------------------------
(* Moving the windows.                                                     *)

\* geometry() of the keyboard in its placement mode
KeyboardGeometry(u) ==
  IF u.float
  THEN [left |-> ViewPosition(u, "keyboard"), width |-> ViewWidth(u, "keyboard")]
  ELSE [left |-> Area(u, u.at).left, width |-> Area(u, u.at).width]

\* VirtualKeyboardView::updateGeometry
UpdateKeyboard(u) ==
  LET frame == KeyboardGeometry(u)
  IN IF u.visible
     THEN NotifyScreenMarkChanged(
            MarkScreen([u EXCEPT !.frame = frame], frame.left))
     ELSE u

\* The signal viewMoved, as the view and the button take it.
ViewMoved(u, w, x) ==
  CASE w = "keyboard" /\ u.window -> MarkScreen([u EXCEPT !.frame.left = x], x)
    [] w = "button" /\ u.button # "none" ->
         MarkScreen([u EXCEPT !.buttonFrame.left = x], x)
    [] OTHER -> u

\* The signal viewResized.
ViewResized(u, w) ==
  CASE w = "keyboard" /\ u.window ->
         NotifyScreenMarkChanged([u EXCEPT !.frame.width = ViewWidth(u, w)])
    [] w = "button" /\ u.button # "none" ->
         NotifyScreenMarkChanged([u EXCEPT !.buttonFrame.width = ViewWidth(u, w)])
    [] OTHER -> u

\* updateGeometry of a geometry manager
UpdateGeometry(u, w) == ViewResized(ViewMoved(u, w, ViewPosition(u, w)), w)

\* moveView
MoveView(u, w, x) == ViewMoved(SetRatio(u, w, x), w, x)

\* The signal screensChanged: the keyboard at once, the button after 500 ms.
ScreensChanged(u) ==
  LET v == UpdateKeyboard(u) IN [v EXCEPT !.timer = v.timer \/ v.button # "none"]

-----------------------------------------------------------------------------
(* Start.                                                                  *)

\* The state of the program on a desktop and with settings it may find.  The watcher
\* has marked nothing; what a preloaded view does in its constructor marks nothing
\* either, the manager connects its signals later.
Started(connected, geometry, primary, at, scale, float) ==
  [connected |-> connected, geometry |-> geometry, primary |-> primary, marked |-> {},
   changed |-> FALSE, at |-> at, ratio |-> [w \in Windows |-> [part |-> 0, of |-> 1]],
   scale |-> scale, visible |-> FALSE, float |-> float, window |-> FALSE,
   frame |-> NoFrame, button |-> "none", buttonFrame |-> NoFrame, timer |-> FALSE,
   dragged |-> NoDrag]

\* loadMarginRatioMap: the place that was saved or the default one is read from its
\* ratio, and stored anew.
Loaded(u, w) ==
  LET default == RatioPosition(UpdateViewMarginRatio(u, w), w)
  IN {SetRatio(u, w, Normalized(u, w, x)) : x \in Saved \cup {default}}

Init ==
  /\ \E connected \in SUBSET Screens \ {{}}, at \in Saved \cup {DefaultCoordinate},
     scale \in Scales, float \in BOOLEAN :
    \E geometry \in [connected -> Geometries], primary \in connected :
      /\ \A s, t \in connected : s # t => Disjoint(geometry[s], geometry[t])
      /\ \E u \in Loaded(Started(connected, geometry, primary, at, scale, float),
                        "keyboard") :
           \E v \in Loaded(u, "button") :
             ui = [v EXCEPT !.window = Preload,
                            !.frame = IF Preload THEN KeyboardGeometry(v) ELSE NoFrame]
  /\ events = 0

-----------------------------------------------------------------------------
(* The screens.                                                            *)

\* onScreenAdded
ScreenAdded(s, g) ==
  /\ Event
  /\ s \notin ui.connected
  /\ \A t \in ui.connected : Disjoint(g, ui.geometry[t])
  /\ ui' = ScreensChanged(
             [ui EXCEPT !.connected = ui.connected \cup {s},
                        !.geometry = [t \in ui.connected \cup {s} |->
                                        IF t = s THEN g ELSE @[t]]])

\* onPrimaryScreenChanged
PrimaryScreenChanged(s) ==
  /\ Event
  /\ s \in ui.connected \ {ui.primary}
  /\ ui' = ScreensChanged([ui EXCEPT !.primary = s])

\* Mutant of ScreenRemoval: the marks are looked at before the screen is taken out.
ScreenRemovalMarked(u, s) ==
  LET v == [u EXCEPT !.marked = u.marked \ {s},
                     !.geometry = [t \in u.connected |-> u.geometry[t]]]
  IN IF u.marked = {} THEN ScreensChanged(v) ELSE v

\* onScreenRemoved
ScreenRemoval(u, s) ==
  LET v == [u EXCEPT !.marked = u.marked \ {s},
                     !.geometry = [t \in u.connected |-> u.geometry[t]]]
  IN IF v.marked = {} THEN ScreensChanged(v) ELSE v

\* Qt names a new primary screen before it tells of the removal.
ScreenRemoved(s, primary) ==
  /\ Event
  /\ s \in ui.connected
  /\ primary \in ui.connected \ {s}
  /\ LET u == [ui EXCEPT !.connected = ui.connected \ {s}]
     IN \/ /\ s # ui.primary
           /\ primary = ui.primary
           /\ ui' = ScreenRemoval(u, s)
        \/ /\ s = ui.primary
           /\ ui' = ScreenRemoval(ScreensChanged([u EXCEPT !.primary = primary]), s)

\* onScreenGeometryChanged: only the marked screen matters.
ScreenGeometryChanged(s, g) ==
  /\ Event
  /\ s \in ui.connected
  /\ g # ui.geometry[s]
  /\ \A t \in ui.connected \ {s} : Disjoint(g, ui.geometry[t])
  /\ LET u == [ui EXCEPT !.geometry[s] = g]
     IN ui' = IF s \in u.marked THEN ScreensChanged(u) ELSE u

\* updateGeometryTimer_ fires, whether the button is shown or not.
UpdateGeometryTimeout ==
  /\ ui.timer
  /\ ui' = UpdateGeometry([ui EXCEPT !.timer = FALSE], "button")
  /\ UNCHANGED events

\* scaleFactorChanged
ScaleFactorChanged(scale) ==
  /\ Event
  /\ scale # ui.scale
  /\ ui' = UpdateKeyboard([ui EXCEPT !.scale = scale])

-----------------------------------------------------------------------------
(* The keyboard and the button.                                            *)

\* initView: only a new window is put in its place, and only its position is announced.
InitView(u) ==
  IF u.window THEN u
  ELSE MarkScreen([u EXCEPT !.window = TRUE, !.frame = KeyboardGeometry(u)],
                  KeyboardGeometry(u).left)

\* The animator moves the window sideways only if animations are disabled.
Placed(u) == IF Animated THEN u ELSE [u EXCEPT !.frame = KeyboardGeometry(u)]

\* A button that is hidden gets no release of the mouse any more.
HideButton(u) ==
  IF u.button = "none" THEN u
  ELSE [u EXCEPT !.button = "hidden",
                 !.dragged = IF u.dragged.window = "button" THEN NoDrag ELSE @]

\* showFloatButton: in its place first, then on the screen.
ShowButton(u) ==
  IF u.button = "none" THEN u
  ELSE [UpdateGeometry(u, "button") EXCEPT !.button = "shown"]

ShowVirtualKeyboard ==
  /\ ~ui.visible
  /\ ui' = HideButton([Placed(InitView(ui)) EXCEPT !.visible = TRUE])
  /\ UNCHANGED events

HideVirtualKeyboard ==
  /\ ui.visible
  /\ ui' = ShowButton(
             [ui EXCEPT !.visible = FALSE, !.window = Preload,
                        !.frame = IF Preload THEN @ ELSE NoFrame,
                        !.dragged = IF @.window = "keyboard" THEN NoDrag ELSE @])
  /\ UNCHANGED events

\* flipPlacementMode.  A floating keyboard is put in its place without a word; a docked
\* one announces its geometry when the animation is over.  It has no drag bar, so a drag
\* is over, without a release.
FlipPlacementMode ==
  /\ ui.visible
  /\ LET u == [ui EXCEPT !.float = ~ui.float, !.dragged = NoDrag]
     IN ui' = IF u.float THEN [u EXCEPT !.frame = KeyboardGeometry(u)]
              ELSE UpdateKeyboard(u)
  /\ UNCHANGED events

\* initFloatButton
EnableFloatButton ==
  /\ ui.button = "none"
  /\ ~ui.visible
  /\ ui' = ShowButton(UpdateGeometry([ui EXCEPT !.button = "hidden"], "button"))
  /\ UNCHANGED events

DestroyFloatButton ==
  /\ ui.button # "none"
  /\ ui' = [HideButton(ui) EXCEPT !.button = "none", !.buttonFrame = NoFrame]
  /\ UNCHANGED events

-----------------------------------------------------------------------------
(* The mouse.                                                              *)

\* pressed
Pressed(w) ==
  /\ Event
  /\ ui.dragged = NoDrag
  /\ \/ w = "keyboard" /\ ui.visible /\ ui.float
     \/ w = "button" /\ ui.button = "shown"
  /\ ui' = [ui EXCEPT !.dragged = [window |-> w, width |-> ViewWidth(ui, w)]]

\* moveBy, by the offset that takes the window to x.
MoveBy(w, x) ==
  /\ ui.dragged.window = w
  /\ ui' = MoveView([ui EXCEPT !.at = CurrentPosition(ui, w)], w, x)
  /\ UNCHANGED events

Frame(w) == IF w = "keyboard" THEN ui.frame ELSE ui.buttonFrame

\* Mutant of EndDrag: the window is moved before currentPosition_ follows.
EndDragLate(w) ==
  /\ ui.dragged.window = w
  /\ LET u == [ui EXCEPT !.dragged = NoDrag]
         x == DragTarget(u, Frame(w).left, ui.dragged.width)
     IN ui' = UpdateGeometry([MoveView(u, w, x) EXCEPT !.at = x], w)
  /\ UNCHANGED events

\* endDrag
EndDrag(w) ==
  /\ ui.dragged.window = w
  /\ LET u == [ui EXCEPT !.at = Frame(w).left, !.dragged = NoDrag]
         x == DragTarget(u, Frame(w).left, ui.dragged.width)
     IN ui' = UpdateGeometry(MoveView([u EXCEPT !.at = x], w, x), w)
  /\ UNCHANGED events

-----------------------------------------------------------------------------

ScreenChange ==
  \/ \E s \in Screens, g \in Geometries : ScreenAdded(s, g)
  \/ \E s \in Screens : PrimaryScreenChanged(s)
  \/ \E s, t \in Screens : ScreenRemoved(s, t)
  \/ \E s \in Screens, g \in Geometries : ScreenGeometryChanged(s, g)

Next ==
  \/ ScreenChange
  \/ UpdateGeometryTimeout
  \/ \E scale \in Scales : ScaleFactorChanged(scale)
  \/ ShowVirtualKeyboard
  \/ HideVirtualKeyboard
  \/ FlipPlacementMode
  \/ EnableFloatButton
  \/ DestroyFloatButton
  \/ \E w \in Windows : Pressed(w)
  \/ \E w \in Windows, x \in Reach : MoveBy(w, x)
  \/ \E w \in Windows : EndDrag(w)

Spec == Init /\ [][Next]_vars

-----------------------------------------------------------------------------
(* What must hold.                                                         *)

\* Types; and of the plugged screens at most one is marked, and no other is.
TypeOK ==
  /\ ui \in UIs
  /\ DOMAIN ui.geometry = ui.connected
  /\ ui.primary \in ui.connected
  /\ ui.marked \subseteq ui.connected
  /\ \A s, t \in ui.marked : s = t

On(frame) == {s \in ui.connected : Spans(ui.geometry[s], frame.left)}

Inside(frame) ==
  \E s \in ui.connected : /\ ui.geometry[s].left <= frame.left
                          /\ Right(frame) <= Right(ui.geometry[s])

Reachable(frame) == \E s \in ui.connected : ~Disjoint(frame, ui.geometry[s])

\* The position stored is on another screen, or beyond the edge of its screen, than the
\* pixel before it, which may be what is read.
AtEdge(u) ==
  u.at # 0 /\ ScreenAt(u, u.at) # ScreenAt(u, u.at + (IF u.at > 0 THEN -1 ELSE 1))

\* floatgeometrymanager.cpp:311 (a window that is not wider than the screen is brought
\* inside) and screenwatcher.h:65 (the screen of the window is the marked one): however
\* far a window is dragged, and however different the screens it comes from and goes to,
\* once the mouse is released all of it is on one screen, and that screen is the marked
\* one, if the window was not put against the left edge of a screen.
DragSettles ==
  [][\A w \in Windows : EndDrag(w) /\ ~AtEdge(ui') =>
       Inside(Frame(w))' /\ ui'.marked = On(Frame(w))']_vars

\* A window that is dropped inside a screen, not at its left edge, and whose size is that
\* of the drag, stays where it was dropped: center, screen and margin ratio, the detours
\* its place takes, cost it one pixel at most.
DropStays ==
  [][\A w \in Windows :
       EndDrag(w) /\ Inside(Frame(w)) /\ ui.dragged.width = Frame(w).width
                  /\ Frame(w).width' = Frame(w).width /\ ~AtEdge(ui')
         => Frame(w).left' \in {Frame(w).left - 1, Frame(w).left}]_vars

\* screenwatcher.h:81: when a window is dropped on a screen that was not the marked one,
\* away from the edge, the one that is not shown learns of it, and will open there too.
OtherFollows ==
  [][\A w, v \in Windows :
       EndDrag(w) /\ (ui.changed \/ ui'.marked # ui.marked) /\ ~AtEdge(ui')
                  /\ (v = "button" => ui.button # "none")
         => ui'.marked = {OptimalScreen(ui', ViewPosition(ui', v))}]_vars

\* screenwatcher.h:72: while the mark is where the visible keyboard is, no screen that
\* is plugged, unplugged, moved, resized or made primary leaves the keyboard beyond
\* the edge of the desktop.
MarkedFollows ==
  [][ScreenChange /\ ui.visible /\ ui.dragged = NoDrag
                  /\ ui.marked # {} /\ ui.marked = On(ui.frame)
       => Reachable(ui.frame)']_vars

\* floatbuttonmanager.cpp:128: "when the float button is invisible, it is the view of the
\* virtual keyboard that makes the marked screen change", so only then is the button
\* taken from the place its user dragged it to.
ButtonKeepsPlace ==
  [][ui'.ratio["button"] # ui.ratio["button"] /\ ui.dragged.window # "button"
       => ui.visible \/ ui'.visible]_vars
=============================================================================
