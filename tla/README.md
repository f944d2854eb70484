# Kylin virtual keyboard in TLA+

A verification development kept beside the Kylin virtual keyboard, the on-screen
keyboard of the UKUI desktop. The program is a Qt application that talks to the
input method framework fcitx5 over D-Bus, shows a QML keyboard in a window of its
own, and offers a floating button and a tray icon to call it up.

Paths below are relative to the repository, i.e. `src/virtualkeyboard/...` there is
`src/src/virtualkeyboard/...` in `PROJECT.json`.

## 1. Inventory

Almost everything runs on the GUI thread; the signals between the program's objects
are direct connections, so a slot runs through, with all it calls, before the next
event is handled. What makes the program hard is what happens *between* those slots:
timers, animations that end later, D-Bus calls and answers, screens and settings
changing, a thread pool that writes the settings file.

| Component | State it keeps | Operations and events | Hard behaviours | What makes it correct |
|---|---|---|---|---|
| View (`virtualkeyboard/virtualkeyboardview*.cpp`) | current state (Invisible, Showing, Visible, Hiding, Flipping), the QQuickView it creates and deletes, pressed | show, hide, flip, move, animation finished, update of the geometry | requests in the middle of an animation; a setting changing in the middle of one; views kept or deleted | the window is on the screen exactly when the state says so, opaque and in its place at rest |
| Manager (`virtualkeyboardmanager.cpp`) | owns view, model, animator, adjuster, placement mode | show, hide, flip, screens changed, animation setting changed, backend lost | order of giving back the screen area and hiding | screen area is reserved only under a visible docked keyboard |
| Placement mode (`placementmodemanager.cpp`) | float or docked, stored in the view settings | flip | set in the destructor | changes only while the keyboard is visible |
| Animators (`animation/`) | the running animation and what it moves | play (with animations) or jump (without) | replaced in the middle of an animation | an animation never outlives its animator or its window |
| Workspace adjusters (`workspaceadjuster/`) | X11: a 200 ms timer, a dummy window with a strut; Wayland: a pointer to the keyboard window | raise and fall of the input area | timer firing after hide or flip; deleted window | the area is current, and given back in time |
| Request merger, D-Bus service (`ipc/`) | Idle, Activation, Deactivation, a timer of 300 ms | show and hide requests, timeout | requests against the timer; callers past the merger | the last request stands; none is starved |
| View settings store (`localsettings/viewlocalsettings.cpp`) | a map of unsaved values, the future of the running save task | set, get, task, finished | set during a save, exit and crash during a save | no value lost or overtaken by an older one |
| Desktop settings (`virtualkeyboardsettings/`) | GSettings values, a 300 ms debounce timer for the scale factor | change signals | starvation of the debounce | a change is taken over in the end |
| Screen watcher (`screenwatcher.cpp`) | screens, marks of which UI uses which screen | screens added, removed, resized, marks set | the marked screen removed while hidden | a UI hears of every change of its screen |
| Geometry managers (`geometrymanager/`) | stored margin ratios | geometry, moveBy, endDrag | ratios rounded as float and truncated, windows as large as the screen | a window stays inside the screen |
| Float button and manager (`virtualkeyboardentry/floatbutton*.cpp`) | enabled, the button widget, press position and distance | enable, show, hide, press, move, release | enabling while the keyboard is visible; a drag that is a click | a button whenever the keyboard is not shown; both only after enabling |
| Entry manager, tray icon (`virtualkeyboardentry/`) | the strategy in force, the icon, its menu and what the item of the menu does | policy changed, keyboard plugged, float button enabled | handlers read newer values than those they are told of; policy replaced between events; a count service that does not answer | icon and menu end up with what settings and keyboards ask for |
| Input method model (`virtualkeyboardmodel.cpp`, `virtualkeyboard*backend*`) | current input method, lists, candidates, proxies of the backend | D-Bus calls and answers, key press and release, registration and loss of fcitx | late answers, a null proxy, a key released through another channel | it shows what fcitx uses; no key stays down |
| QML keys (`src/qml`) | layout, modifiers, pressed keys | press, release, layout change | modifiers across layouts | no modifier stays down |
| Error handler (`errorhandler.cpp`), start (`main.cpp`, `commandlinehandler.cpp`) | path of the error log, the log, the one instance | a fatal signal in any thread; start | a signal in the middle of a save, in two threads, in a thread that holds the lock of the heap; a log that cannot be opened | a whole report is left, and the program runs again |
| Theme, log, loglevel message | - | - | - | - |

Interactions. fcitx calls `ShowVirtualKeyboard` and `HideVirtualKeyboard` of the D-Bus
service; the *request merger* delays and merges them and then calls the *manager*. The
*float button* shows the keyboard directly, and the loss of the fcitx connection hides
it directly. The manager calls the *view*, which asks the *animator* to play and is
called back when the animation has finished; entering Visible makes the view emit
`raiseAppRequested`, upon which the manager asks the *adjuster* to reserve the area;
flipping to float emits `fallAppRequested`. The *entry manager* turns the float button on
and off and makes and destroys the tray icon as the *desktop settings* tell it. Screens, scale factor and settings reach
manager and view as signals. Placement mode and the float geometry keep their values in
the *view settings store*.

`PROJECT.json` lists every component with its status and, under `hazards`, every place
where one of these behaviours bites.

## 2. Modules

```
InputPanel                    abstract: a panel, docked or floating, that reserves space
    ^ implemented by
VirtualKeyboardView           view + animator + window + adjuster + the manager's handlers
    |  VirtualKeyboardViewProofs      theorems
RequestMerger                 the merger and its timer
    |
KeyboardService               = RequestMerger + VirtualKeyboardView + callers past the merger
    |  KeyboardServiceProofs          theorems
FloatButton                   = KeyboardService + the button, its manager and the mouse
    |  FloatButtonProofs              theorems
ScreenWatcher                 screens, the mark, which screen a position is taken to be on
    |
Floats                        float arithmetic, with its rounding (operators)
    |
FloatGeometry                 = ScreenWatcher + Floats + margin ratios, clamping, dragging (operators)
    |
Screens                       = FloatGeometry + windows, mouse and the events of the screens
    |  ScreensProofs                  theorems
Checkpoints                   abstract: settings that are saved as a whole
    ^ implemented by
ViewLocalSettings             the asynchronous store
    |  ViewLocalSettingsProofs        theorems
Program                       = ViewLocalSettings + signals, the error log, the one instance
    |  ProgramProofs                  theorems
TrayEntry                     desktop settings, entry manager, tray icon, count of keyboards
    |  TrayEntryProofs                theorems
KeyboardModel                 the input method model, its QML page, fcitx and the bus
    |  KeyboardModelProofs            theorems
```

`MC*` modules are what TLC runs on; the `.cfg` files give the constants their values.

### VirtualKeyboardView

| TLA+ | code |
|---|---|
| `state` | `currentState_` of the view |
| `float` | `isFloatMode_` of `PlacementModeManager` |
| `animationEnabled` | the setting, and with it which animator is installed |
| `preload` | the setting `preloadViewEnabled`, read in `initView` and `destroyView` |
| `config`, `refreshPending` | what the geometry managers compute from (screen, scale factor), and whether the signal of a change is still to be handled |
| `window` | `view_`: does it exist, is it shown, x/width/height (`frame`), y (`top`), opacity |
| `animation` | the animation of `EnabledAnimator`: running, its target, the opacity it ends with |
| `area` | the adjuster: timer and its rectangle, what is reserved, the Wayland window pointer |

An action is one slot with everything it calls synchronously. So `HideVirtualKeyboard`
contains the test of the state, giving the area back, `hide()` of the current state, and,
when animations are disabled, the `finished` signal the disabled animator emits before
`playHideAnimation` returns, the transition to Invisible and the deletion of the window.
`ConfigChanged` and `GeometryRefreshed` are two actions because the geometry is computed
from the new screen at once but the handlers run when the (debounced or queued) signal
arrives. A rectangle is represented by *which* rectangle it is: for the docked or floating
mode or the start of an animation, and computed from which configuration.

The four adjusters are selected by the constant `Adjuster`: `x11kf5` (Qt 5: timer, then
strut), `x11kf6` (Qt 6), `wayland` (UKUI and layer-shell, which share their logic), `none`.

### InputPanel

The promise to the desktop, without windows, timers and animations: a panel reserves
space only while it is visible and docked and gives it back in the very step in which it
is hidden or undocked; it changes placement only while visible. `VirtualKeyboardView`
implements it under `visible <- IsVisible`, `docked <- ~float`,
`reserved <- area.reserved`.

### RequestMerger and KeyboardService

`current` and `remaining` are the merger's state and timer. `Activate` and `Deactivate`
take the answer of the callback that says whether a change is wanted, as in the code.
`KeyboardService` composes the merger with the view and adds the two callers that reach
the manager directly. `wish`, `bypassed` and `quiet` are history variables: no action
reads them in a guard or uses them to compute the state of the program.

### FloatButton

`button` is the widget of `FloatButtonManager` (none, hidden, shown); `mouse` holds what a
`FloatButton` remembers of presses: `walked` is `manhattonLength`, counted up to the first
value above the threshold, `displaced` says whether the window is where it was pressed,
`timer` whether the click timer runs. `ButtonFollows` is the slot of
`virtualKeyboardVisibiltyChanged`, which the manager emits inside show and hide, so it is
part of the step that changes the visibility. The click calls `FloatButtonClicked` of the
service. Enabling the button asks fcitx to hide the keyboard; the answer is an ordinary
`RequestHide`. `own` (what `walked` would be had the press started from 0) and `overlap` are
history. Left out: hovering; the coordinates a drag gives the window are in `Screens`.

### ScreenWatcher, Floats, FloatGeometry and Screens

Where windows are, on the horizontal axis (the code treats both axes alike). The slots of
the watcher, the two geometry managers, the view and the button call each other through
direct signals, so each is an operator from a state `u` of the program to the state it leaves,
and an action of `Screens` is the slot an event starts, with all it calls: `EndDrag` sets
currentPosition_ twice, moves the window, marks its screen, sets the ratio, and, if the mark
has moved, has the window that is not shown set its own.

| `ui` | code |
|---|---|
| `connected`, `geometry`, `primary` | what Qt says of the screens |
| `marked`, `changed` | `hasWindow` of the screens in `screenList_`, `isScreenMarkChanged_` |
| `at` | `GeometryManager::currentPosition_`, shared by all geometry managers |
| `ratio` | `leftMarginRatio_` of keyboard and button, a `float`: an integer of 24 bits over a power of two |
| `scale` | the setting of the scale factor |
| `visible`, `float`, `window`, `frame` | the keyboard: shown, in float mode, whether its QQuickView exists, and where |
| `button`, `buttonFrame`, `timer` | `floatButton_`, where it is, `updateGeometryTimer_` |
| `dragged` | the window under the pressed mouse and `lastSize_` |

`Floats` is what the code computes with `float`: `Quotient` is the division that makes a ratio,
rounded to the nearest float, `Product` a product of an int and a float, rounded and then converted
to int, which truncates. So a place that is stored and read (`RatioPosition`) may come back a pixel
nearer to 0, in the model as in the program, and widths (`WidthOn`), which are shares of a screen
and scaled, are rounded the same way. `Quotient` and `Product` are exact to the bit while no operand
is beyond 2^24 and no exponent beyond those of `Powers`, which the assumptions on the constants
require.

A start finds any desktop, the settings of `Saved` and no mark. Between the two signals of a
primary screen that is unplugged Qt has removed the screen but the watcher has not, so
`ScreenRemoval` takes a screen out in two steps. The animations, which move windows
vertically, are in `VirtualKeyboardView`. A flip takes the drag bar, and a drag in progress, away
with it: `FlipPlacementMode` is possible during a drag, and no release follows.

### ViewLocalSettings

`groupSettingMap` is the map on the GUI thread, a member of `saves` is a task in the
thread pool, `posted` the finished event of the watched future on its way to the event
loop, `cache` the in-memory copy all `QSettings` objects of one file share, `file` the
file. A task writes key after key and then syncs, interleaved with everything else. A
value is the number of its `setValue` call, so "older" has a meaning. Exit, crash and
restart are actions. A crash may also hit a process that has left its event loop and waits
for its tasks.

### Checkpoints

What the store promises, without maps, tasks and events: the disk holds a checkpoint, that is
what *all* settings were at one moment, and another one may be on its way there; the next start
loads the one that is on the disk. `ViewLocalSettings` implements it under `running <- up`,
`value <- latest`, `disk <- file` and `saving <- {Snapshot(t) : t \in saves}`. `Snapshot(t)` is what
the file will hold once the task is done: its values, and those of the in-memory copy for the
other keys. That the task writes key by key, while others are set, is what the abstraction hides.

### Program

The store in a process that may be hit by SIGSEGV, SIGABRT, SIGFPE or SIGILL. A signal runs
`signalHandler` in the thread that got it (`handler[t]`), between any two steps of that
thread, while the other thread goes on.

| TLA+ | code |
|---|---|
| `logPath`, `writable` | `m_crashLogPath`; external: can the log be opened there |
| `handler[t]` | where `signalHandler` is in thread `t`: entered by a fault or by `abort()`, waiting for the lock of the heap, writing (how many chunks of how many) |
| `errorLog` | the file, by who wrote each chunk of it; what earlier processes left is `old` |
| `openers`, `ended` | history: who has opened the file in this process, whose report was finished |

`Open` cuts the file, `WriteReport` puts one chunk where this thread's descriptor stands, so
that two handlers write over each other, and `Raise` ends the process with the default action.
Without a log the handler returns at once: `abort()` then ends the process (`ReturnEarly`); a
faulting instruction is executed again, which leaves the state as it is. `toLocal8Bit` in the
handler takes memory from the heap: a thread that was hit inside the allocator waits for itself
(`Stick`). `Start` is `main` in a process that found no other instance.

### TrayEntry

| TLA+ | code |
|---|---|
| `settings`, `waiting` | GSettings, and the keys whose `changed` has not been delivered |
| `keyboards`, `service`, `plugged` | external: keyboards, whether `org.fcitx.Fcitx5.KeyboardStatus` runs; its signal is on the way |
| `strategy`, `icon` | `currentTrayIconStrategy_`, `trayIcon_` |
| `enabled`, `menu` | `floatButtonEnabled_`; icon, text and callback of `floatButtonContextMenuAction_` |
| `merging`, `scale` | `scaleFactorMergeTimer_`; the factor the visible keyboard was laid out with |
| `told`, `ahead` | history: the last count was answered, and every change since was announced; the menu was made from a value still to be notified |

A handler reads the setting when it runs, and what it calls asks for the number of keyboards
then: `UpdateStrategy` may see a policy whose notification is still queued and a keyboard whose
signal is still on its way. `getKeyboardCount` waits for the answer, and an error counts as no
keyboard. The policy named `ShowWhenKeyboardIsConnected` shows the icon if *no* keyboard is
connected; the model follows the code. `moveValueFromLocalSettings` looks for its key outside of
the group it was stored in, so it never finds it and is left out of `TrayInit`.

### KeyboardModel

| TLA+ | code |
|---|---|
| `fcitx` | external: is it gone, running or registered as virtual keyboard backend; its current input method; its profile |
| `bus` | the signals and calls fcitx has sent and the event loop has not delivered yet, in order |
| `backend` | `virtualKeyboardBackendInterface_`: null, valid, or made for a service that was gone already |
| `uniqueName`, `currentIMList` | `uniqueName_`, and the names of the entries of `currentIMList_` |
| `page`, `currentIM`, `candidates`, `listOpen` | the QML page: is it there, is it shown; the properties of `VirtualKeyboard.qml` and `ChangeImKey.qml` |
| `key` | the channel the press of the present key went to |
| `crashed` | a null pointer has been used |

The model waits for the answers of fcitx (`waitForFinished`), so an answer says what fcitx
has *now* and overtakes the notifications in `bus`, which say what it had *then*. The slot
handling a message, with the calls to fcitx it waits for, is one action: no event is handled
meanwhile, and fcitx answers from one state. `Receive` takes the first message; the call of
`syncFcitxInputMethodState` from the constructor's timer is the first message of all. An
entry of the list is represented by its name, and `Includes` says which names are part of
which entries. `PressKey` chooses between `wtype`, fcitx and `xdotool`; which keys `wtype`
knows and whether it succeeds is left open. When the page is created, hidden, kept or deleted is
the business of `VirtualKeyboardView`; here `Leaving`, `ShowPage` and `LeavePage` allow all
that the view does.

## 3. Runs

| Run | Bounds | What it shows |
|---|---|---|
| `view_core` | 2 configurations, both settings in both values, adjuster `x11kf5` | safety of the view and the refinement of `InputPanel` while show, hide, flip, screens, settings, animation ends and the timer interleave freely; as long as the animation setting is left alone, every animation leads out of its state and a docked keyboard that stays gets its area |
| `view_kf6` (violation) | 1 configuration, adjuster `x11kf6` | finding 1 |
| `view_held` (violation) | 1 configuration, adjuster `wayland` | finding 2 |
| `float_button` | 1 configuration, a period of 2 ticks, preloading off, animations switched, threshold 1, moves of 0, 1, 2 | no request that mattered is dropped, none is starved, no flicker; the keyboard comes to rest in its place; the button is there whenever the keyboard is not; overlap only after enabling; no drag is a click |
| `float_clicks` (violation) | the same | finding 3 |
| `model` | 3 input methods, 2 profiles, 2 waiting messages, wlroots | once nothing waits, name, list and backend are those of fcitx; only the plain keyboard bypasses fcitx |
| `model_crash` (violation) | the same | finding 4 |
| `model_shown` (violation) | the same | finding 5 |
| `screens` | 2 screens, one of width 12 and one of 44 or 20 to the right of it; 3 events; windows dragged beyond the left end of the desktop and to the middle of the right screen; scale 40 and 50 per cent; floats of 24 bits | with the rounding of the ratio, away from a left edge: a dragged window ends inside one screen and stays where it was dropped, to a pixel; the other window follows; a marked keyboard is never left beyond the edge |
| `screens_place` (violation) | the same, with saved places, 1 event | finding 6 |
| `settings` | 2 keys, 2 calls of `setValue` per key, 2 threads, reports of 1 and 2 chunks | nothing lost, nothing overtaken, everything saved, a file that is always a checkpoint, also when a signal hits one thread or both; a lone handler leaves its whole report; the program comes back |
| `tray` | 2 scale factors, a period of 2 ticks, 1 keyboard, 3 waiting notifications | icon and menu end up with what settings and keyboards ask for; a changed scale factor reaches the keyboard |

Bounds. The view has no counter: its state space is finite except for the set of
configurations. Properties tell apart only "the configuration now" and "another one", so
two are enough; the theorems hold for any number. A threshold of 1 with moves of 0, 1 and 2
gives a press below, at and above it, and two presses that exceed it only together. Two
ticks per period give an instant strictly inside the period. Of the input methods one is the
plain keyboard, one a layout whose name is part of another entry and one no layout; one profile holds no
layout, so that the default list is used, the other repeats one. Two waiting messages are
enough for one to be stale because of the other; the theorems hold for any number. Two keys
are needed for a task that has written one and not the other; two calls allow the file to hold no value, one value
to be in the task and one in the map. Reports of two sizes let the longer one of an earlier process
show through under a shorter one. Three waiting notifications allow one for a value that has been
replaced already, its successor's, and another key's between or behind them; the theorems hold for any number. Two screens are all the code tells apart (the marked one and another); 12 is narrower than the
keyboard on a screen of 44, so a drag meets a window too wide for its screen. The format of float is
the real one; the screens are small because TLC computes with 32 bits and the product of a margin
and a 24-bit significand has to fit (coordinates up to 127). The theorems hold for desktops up to
4 million pixels wide. `MaxVersion`
bounds the calls of `setValue`, `BusLimit` the waiting messages, `MaxWaiting` the waiting notifications, `MaxEvents` the changes of
screens and scale and the drags together (3: a drag between two changes), `Reach` the places a
window is dragged to (`MoveBy` takes the place; the code adds the offset that leads there); nothing else is bounded. The two screens are interchangeable, which
`SYMMETRY` uses: the code never prefers one of them but by mark, position or Qt's choice.

Deadlock is checked everywhere but in the runs of `KeyboardModel`, where the program stops
after a crash.

Fairness. The event loop runs: an animation ends, an active timer fires, an emitted
signal is handled, time passes (weak fairness of those actions). The thread pool runs its
tasks and the loop delivers the finished event; a thread in the signal handler goes on; the
session manager starts a program that has ended (`data/kylin-virtual-keyboard.desktop.in`
is an autostart entry with automatic restart). Nothing is assumed of the users: no
request, click, flip or setting change ever has to happen. `RequestsHonoured` needs no
fairness of the view.

Properties worth a word:

- `InputAreaOnlyWhileDocked`: neither the strut nor the timer that is going to set it
  survives a hide or a flip. This is why `fallInputArea` has to stop the timer.
- `VisibleIsOpaque`: fades of interrupted shows and hides never leave a transparent
  keyboard at rest. It depends on the handler of the animation setting, on the condition
  of `setViewOpacity` and on fades in float mode only.
- `VisibleIsInPlace` is checked in `float_button`, with preloading off and one
  configuration. It does not hold in general (see the hazards): a kept window that was
  hidden during a flip keeps its width, and an animation still runs to a target computed
  before a change of the screens. Nothing else disturbs it: it is proved for every behaviour in
  which no step is one of those two (`Undisturbed`).
- `TransientStatesEnd` and `DockedGetsReserved` are about behaviours that leave the animation
  setting alone (`AnimationSettingLeftAlone`). When the setting is switched off in the middle
  of an animation the animator goes with its animation, the finished signal never comes, and
  the view stays in Showing, Hiding or Flipping until the next request (see the hazards).
- `DragSettles`, `DropStays` and `OtherFollows` are about places that are not `AtEdge`, because at an
  edge the code goes wrong (`floatgeometrymanager.cpp:131`): a place is stored as a `float` ratio and
  read by a truncated product, which for some places is one pixel less. A window put against the left
  edge of the right screen, as dragging it there does, may be read on the left screen, while its
  size is still that for the right one; `adjustToScreenEdges` then aligns it with the right edge of the
  left screen. With screens 1920 and 3840 wide and a scale factor of 0.6, a keyboard put at x = 1920 is
  read at 1919 and ends at x = -153, partly on no screen. Without the condition TLC refutes `DragSettles`
  and `DropStays` with the constants of the run and `Reach` = {8}: a keyboard scaled by 50 per cent, dropped at 8, is put at 12,
  read at 11 and taken to -7. (`OtherFollows` needs the condition only with three screens.)
- `DropStays` is about a window whose size stays what it was during the drag; a drop on a
  screen of another width changes the size, and then the place may change too. The pixel it allows
  is really lost in the run.
- `OtherFollows` holds for a scale factor below 83 per cent. Above it the default margin of 25 per
  cent and the keyboard do not fit on a screen; the default place is left of it, and after the
  button was dragged to the right screen the keyboard opens on the left one. It is proved where
  they fit (`DefaultsFit`), as in the run.
- `ImplementsCheckpoints` depends on when settings are read: a `QSettings` object that is made
  while a task writes would sync the half-written copy. `getValue` is called by constructors only
  (`placementmodemanager.cpp:63`, `floatgeometrymanager.cpp:241`, `:256`), each before its store is
  given anything to save.
- `MarkedFollows` starts from a keyboard whose screen is marked. `screenwatcher.h:72` says this
  is always so while it is shown, and it is not: a flip to float mode, after which the keyboard
  may be on another screen, emits no `positionChanged` (`virtualkeyboardview.cpp:121`); a
  preloaded window that is shown emits none (`:156`); the 500 ms timer of a hidden button marks
  the screen of the button (`floatbuttonmanager.cpp:46`). If then the keyboard's screen goes,
  `onScreenRemoved` finds a mark left and tells nobody.
- `LastRequestStands` is about the histories in which direct calls come while the merger
  is idle. It does not hold otherwise: a request for the keyboard, a click on the float button
  before the merger has served it, and a request to hide within the same period leave the keyboard on the screen, because the merger
  takes the last request for a cancellation (`requestmerger.cpp:95`).
- `ComesBack` assumes that from some time on the log can be opened, and that no thread waits for
  the lock of the heap. Without the first a faulting instruction repeats for ever, without the second
  the handler never gets on; in both cases the process answers nobody and, as the single instance, keeps the next
  one from starting.
- `ReportIsWhole` is about a signal in one thread. Signals in both leave what the two handlers
  wrote over each other.
- `IconSettles` makes an exception where the number of keyboards cannot be known: the service did not answer
  the last question, or was not there to tell of a change since.
- `MenuSettles` makes one where the setting was changed and taken back before the first notification
  was handled, and an icon was created in between: the manager of the button, whose value has not
  changed, says nothing (`floatbuttonmanager.cpp:222`), and the item offers what is already the case.
- `ScaleReaches` starts when the setting is left alone; a stream of changes that never pauses for 300 ms
  keeps the keyboard as it is, as the debounce means it to.

## 4. Findings

1. `x11workspaceadjuster.cpp:67`: the constructor of the KF6 variant does not connect its
   timer (the KF5 one does, through `connectSignal`). A docked keyboard in a Qt 6 build on
   X11 never reserves its area. Run `view_kf6`.
2. `layershellworkspaceadjuster.cpp:54` and `waylandworkspaceadjuster.cpp`: the plain
   pointer to the last raised window outlives the window; the null check does not see it.
   Docked, no preloading: show, hide, show, hide while the second show animation runs.
   Run `view_held`.
3. `floatbutton.cpp:159`: `manhattonLength` adds up over presses, because only the end of a
   drag resets it: a click is lost after some clicks with slight movements, or after a
   long press with one. Run `float_clicks`.
4. `virtualkeyboardmodel.cpp:47`: `selectCandidate` uses the interface without a test,
   although `processKeyEvent` tests it. After the backend is gone, a candidate on a page that
   is still on the screen, or is shown again, can be tapped. Run `model_crash`.
5. `VirtualKeyboard.qml:266`: the current entry is the last one that *includes* the name,
   and stays the old one when none does. With both Tibetan layouts listed the icon and the
   highlighted entry are those of the other one; after a switch from Tibetan to pinyin, which
   is in no list, `isTibetanKeyboardLayout` stays true. Run `model_shown`.
6. `floatbuttonmanager.cpp:95`: `initFloatButton` computes the place of the button before the
   button is shown. Its screen is marked for the first time, the notification finds an invisible
   button and an invisible keyboard, and both set their saved ratios to the default: where
   the user left them is lost at every start with the float button enabled. Run `screens_place`.

## 5. Proofs

All theorems hold for every value of the constants that satisfies the named assumptions, which
say:

- `ConfigsAssumption`, `SettingsAssumption`, `AdjusterAssumption`, `PeriodAssumption`: there is a
  configuration, the settings are Booleans, the adjuster is one of the four, the period is positive;
- `ThresholdAssumption`, `StepsAssumption`: threshold and distances are natural numbers;
- `KeysAssumption`, `ReportAssumption`: there is a key; a report has at least one chunk;
- `TrayScalesAssumption`, `MergeAssumption`, `BoundsAssumption`: there is a scale factor, period and
  bounds are positive;
- `MethodsAssumption`, `LayoutsAssumption`, `ProfilesAssumption`, `WlrootsAssumption`, `BusAssumption`:
  keyboard-us is an input method of fcitx and wylie is not, the profile holds input methods, the bus
  some message;
- `ScreensAssumption`, `GeometriesAssumption`, `ShareAssumption`, `ScalesAssumption`,
  `FlagsAssumption`, `PositionsAssumption`, `WidthsAssumption`, `MaxEventsAssumption`: there is a
  screen; screens start at positions that are not negative and have a width; the window widths the
  float arithmetic yields are less than the screen and at least a pixel; the rest are types;
- `FormatAssumption`, `DesktopAssumption`: the number of significands is a multiple of 4, `Powers` are
  powers of two without a gap; the desktop is at most a quarter of the significands wide (4 million
  pixels for `float`), every place a window is dragged to is within as much of 0, and there are powers
  enough to divide by the width of the desktop.

**VirtualKeyboardViewProofs.** `IInv` is inductive: `TypeOK` and the checked invariants
together with two parts they need.

- `OpacityInv`. `VisibleIsOpaque` is not inductive: a show animation may end in Visible, so
  one needs that it ends opaque when floating and leaves the opacity alone when docked,
  that a docked window is never anything but opaque, and that Flipping starts opaque. The
  last clause is why a flip, which only Visible starts, is safe.
- `AreaInv`. Which adjuster has which state: without one nothing is ever reserved, the
  Wayland ones use no timer and reserve only on a window that is alive. It is what turns
  `fallInputArea` of the Wayland adjusters, which does nothing for a dead pointer, into
  "nothing is reserved afterwards".

There is one lemma for each way of entering a state (`EnterVisibleKeepsIInv`, ...), which
the handlers share, and one for each action. Theorems: `IInvInvariant`, `TypeCorrect`,
`AreaReleased`, `AreaCurrent`, `WindowFollowsState`, `AnimationsAreOwned`, `RestIsOpaque`,
and `ViewImplementsPanel`: initial states map to initial states, and `IInv` makes every
step of the view a step of the panel or a stutter (`PanelSteps`).

`VisibleIsInPlace` is proved from `InPlaceInv`, which says where the window is, and where its
animation goes, in each state: a window that is being flipped to docked mode has the frame of the floating one, in all
other states but Invisible it has that of its mode. Theorem: `UndisturbedIsInPlace`, under
`[][Undisturbed]_vars`.

`Behavior` is `Spec` without its fairness. The lemmas `BehaviorIInv`, `BehaviorImplementsPanel` and
`BehaviorIsInPlace` are stated for it, so that they carry over to every composition.

**KeyboardServiceProofs.** `SInv` is `LastRequestStands` with `PendingIsUseful` (a pending
request agrees with the last wish and is not fulfilled yet; this is what makes cancelling
right) and `WaitInv` (the time since the last change and the time left on the timer add up
to a period, which makes the merger flicker-free). Theorems: `SInvInvariant`,
`MergingIsHonest`, `MergingStopsFlicker`. The view enters only through three lemmas: what
showing, hiding and any other event do to `IsVisible`. In the other direction, every step of the
service is a step of the view or leaves it alone (`ServiceStepIsViewStep`), which gives
`ServiceImplementsPanel`.

**FloatButtonProofs.** `ButtonInv` adds `PressInv` to the checked invariants: while the button
is pressed its counter is at least the distance of this press, so a drag cannot pass for a
click although the counter also holds what earlier presses left. Theorems:
`ButtonInvInvariant`, `ButtonTypeCorrect`, `ButtonCallsUp`, `OverlapIsFromEnabling`, `DragsAreNoClicks`. The same
three lemmas about `IsVisible` carry the view. Every step of button and service together is one of
the service or leaves it alone (`EntryStepIsServiceStep`), so that the run `float_button`, which
checks the whole composition, has its theorems for the whole composition:
`LastRequestStandsWithButton`, `NoFlickerWithButton`, `EntryImplementsPanel` and, with the
configuration and the preloading of that run (one desktop, no view kept), `EntryKeepsPlace`.

**ViewLocalSettingsProofs.** `IInv` adds `WatcherInv` (a finished watcher means no task and
no event; this gives one task at a time), `OrderInv` (file, cache, task and map hold
values of non-decreasing age) and `WrittenInv` (what a task has written is what the in-memory copy
has). Theorems: `IInvInvariant`, `TypeCorrect`, `NoValueLost`, `FileMonotone`, and
`StoreImplementsCheckpoints`: by `NothingLost` a task that starts is what all settings are at
that moment (`SaveIsCheckpoint`), by `OneSaveAtATime` and `WrittenInv` writing a key leaves its snapshot as it
is (`WriteKeyRefines`), and syncing puts exactly that into the file (`SyncRefines`).

**ProgramProofs.** `ProgramInv` takes the store's `IInv` over as it is: a handler touches none of
the store's variables, and the end of the process is the store's `Crash`. It adds `ReportInv`: a
thread that writes has opened the file, and while no other thread has, the file holds exactly
the chunks it has written. `PutKeepsLog` is the arithmetic of it. Theorems: `ProgramInvInvariant`,
`ProgramTypeCorrect`, `ReportsAreWhole`, and, of the program with its signals,
`SignalsLoseNothing`, `SignalsKeepTheFile` and `SignalsLeaveCheckpoints`.

**TrayEntryProofs.** `TrayInv` says of every state what `IconSettles` and `MenuSettles` say of quiet
ones: whatever icon and menu lack is announced by a notification that waits (`IconInv`,
`MenuInv`). `HandledWaits` and `SetWaits` say which notifications a step leaves. The strategy may be
*newer* than its last notification, never older without one. Theorems: `TrayInvInvariant`,
`TrayTypeCorrect`, `IconFollowsPolicy`, `MenuFollowsSetting`.

**ScreensProofs.** `ScreensInv` is `Sane`, of a state of the program, and `DragInv`, that only what is on
the screen is dragged. `Sane` has two sets of screens as parameters, those that are plugged and
those the watcher knows, because between the two signals of an unplugged primary screen they differ;
outside of a step they are the same. A handler has two lemmas: that it leaves a sane state sane
(`...Sane`), and which fields it leaves alone (`...Keeps`). From the invariant alone follow the types and
that never two screens are marked, nor one that is gone. For `DragSettles` and `DropStays` one
also needs `PlaceOfDrop`, the heart of the code's scheme: right after the ratio was set for a
place, the place computed from the ratio is that place again or the pixel before it (`RoundTrip`),
moved inside the screen; away from the edge that pixel is on the same screen (`AwayFromEdge`); the
window fits (`WidthFits`), so it is inside, and the mark goes to that screen (`UpdateGeometryDrops`).
`RoundTrip` is a statement about `float`: the quotient is off by at most half a unit of its last place
(`QuotientIs`), the product by at most another (`NearestIs`, `DivisorIs`); together, for a desktop of up
to a quarter of 2^24, that is less than a pixel (`Roundings`), and truncation does the rest. `MultiplierIs`
and `DivisorIs` need that the exponents `CHOOSE` asks for exist; they are found with the least element
of a set of natural numbers (`Least`, from the library's well-founded induction).

`MarkedFollows` is about every change of the screens. Each of their handlers either *tells* the
windows, which then compute their places anew (lemmas `...Tells`, `ToldReaches`), or leaves the mark where
it is, on a screen that is still there and that the keyboard is still on (`Untold`). A window that has been told is moved
inside a screen, so that it can be reached. For this `Sane` says that a window that exists has a
width, and `DragInv` that a keyboard that is visible has one and that the button is not shown beside
it. `OtherFollows` is about who learns of a drag: one that
changes the mark notifies the window that is not on the screen, which gets the default place of the marked
screen (`EndDragNotifies`, `NotifyTells`); where that place is on its screen (`DefaultsFit`: by more than the
pixel the ratio may lose) it opens there.
Theorems: `ScreensInvInvariant`, `ScreensTypeCorrect`, `EveryDragSettles`,
`DropsInsideStay`, `TheMarkedIsFollowed`, `TheOtherFollows`.

**KeyboardModelProofs.** `NameSettles` and its kind say nothing while messages wait. `IMInv`
says for every state: the *last* waiting message that names an input method tells the truth
(or makes the model ask), and if there is none the model is right; the same for the backend
and, for any message that makes the model read the profile, for the list. `TailLast` and
`AppendLast` say what handling and sending do to "the last message of these kinds";
`ReceiveIMInv`, `SendIMInv`, `SilentIMInv` and `QuietIMInv` turn them into one rule each for
a handled message, a sent one, an unannounced change of fcitx and a step of the page. The
interesting case is `SetCurrentIMIMInv`: the answer and the notification of the same switch
agree, and for wylie both mean keyboard-us.

`IMTypeOK` says that only layouts are listed and highlighted, so it needs what the folds of
`syncCurrentIMList` over a profile make of any profile. The library's induction theorems cannot be used here
(they take an operator as a parameter); instead, the intervals from a number up to a bound are finite sets, inclusion of
which is well founded (`WFMin`): hence a set of numbers has a greatest member (`GreatestOf`), hence
induction up to a bound (`UpTo`), hence the function a fold is defined by exists (`FoldExists`) and
can be unrolled along the profile (`LayoutStages`, `EntryStages`). What comes out is
`EntriesAreLayouts`: the layouts of the profile, each once, or those the program knows, and wylie
right after keyboard-us. Theorems: `IMInvInvariant`, `NameIsRight`, `ListIsRight`,
`BackendIsRight`, `OnlyPlainKeysBypass`, `EntriesAreLayouts`, `IMTypeCorrect`.

**Only model-checked.** The liveness properties `TransientStatesEnd`,
`DockedGetsReserved`, `RequestsHonoured`, `ValuesReachFile`, `ComesBack` and `ScaleReaches`:
liveness under fairness is out of the prover's reach, as is ENABLED. Every other property of a
passing run is stated by a theorem. Two of them have a hypothesis, because they do not hold without one (section 3):
`VisibleIsInPlace` (`Undisturbed`, or the desktop of the run) and `OtherFollows` (`DefaultsFit`).
No module the proofs use declares a RECURSIVE operator, whose definition the SMT backend
could not use.

## 6. Assumptions of the models

- In `VirtualKeyboardView` a GSettings value and the signal of its change are seen in the same
  turn of the event loop, so `animationEnabled` is both the setting and the animator. The view's handler of
  the change runs before the manager's, in the order of their connection.
- `VirtualKeyboardView` has `screensChanged` reach a visible keyboard whatever happens to its
  screen; `Screens` shows when it does (`MarkedFollows`) and section 3 when it does not.
- In `Screens`: at least one screen is plugged (the fake screen Qt makes otherwise, which
  `isScreenValid` filters, is left out); screens are wider than high, do not overlap, and start
  at positions that are not negative; the program moves its windows itself (on UKUI Wayland the compositor does);
  the button is enabled while the keyboard is not visible (`FloatButton` has the other case); a
  keyboard that disappears under the mouse gets no release.
- The animation factory matches the placement mode. Animations last 200 or 260 ms (the
  duration the code computes is not used), so none ends inside `start()`.
- `QFutureWatcher::isFinished` becomes true once the finished event has been handled.
- `QSettings` shares one in-memory copy of a file per process and writes the file
  atomically; a crash loses the copy.
- fcitx is at the other end of the bus and in order: it notifies of every change of its
  input method while it is registered, announces each change of its profile, and registers
  its backend only after the keyboard has started and has its D-Bus name (the watcher is not told
  of a service that is there already). A fcitx that is gone does not answer.
- One key is down at a time; the QML page sends the release of the key it sent the press of.
- The layer-shell adjuster is the one of a build with LayerShellQt.
- In `TrayEntry` QGSettings delivers `changed` through the event queue, so a handler may read a newer
  value than the one it is told of. The calls of the count service are blocking; an error, or a
  service that is not there, counts as 0. A service that runs tells of every change.
- In `Program` writes to a log that could be opened succeed; what another program has
  done to the log before a start is left open. Signals come in the GUI thread between two slots and in
  the pool between two steps of a task; signals of other threads (D-Bus, rendering) and faults in
  destructors after the event loop are left out.
- The destructors of manager and view are not modelled.
- `ViewLocalSettings::remove` and `contains` are used once, for a migration at start that never
  finds its key, and are not modelled.

## 7. Plan, and what is not modelled

Done: the view with its animator, window and adjuster; the merger and the service; the abstract
panel; the float button; screens, marks and dragging; the settings store, its abstraction and the process it
lives in; the tray icon; the input method model; theorems about each of them.

What would come next, in this order:

1. The screen the keyboard is on as the configuration of `VirtualKeyboardView`, so that the view
   loses the signals the watcher does not send; with it a desktop without screens, for which Qt
   makes a fake one.
2. The channel a key is released through. A release never goes through wtype, so a key may be
   released where it was not pressed (`virtualkeyboardmodel.cpp:69-94`).

Not modelled, and why:

- Modifiers and layouts of the QML keyboard (`src/qml`): a network of property bindings between
  some thirty small files and no state machine of its own; which bindings run first is Qt's business.
- Preedit text, caret and the menu key: values passed on, nothing depends on them.
- The vertical axis: the code does to it what it does to the horizontal one.
- Theme, colours, painting, hovering: no state anything depends on.
- The log levels and the `loglevel` message to the running instance: they choose what is logged.
- The options of the command line: they are read once.
- The D-Bus proxies and adaptors: generated, without state.
- Vendored code (`third-party/`): `Program` uses of the single instance only
  that there is one.
