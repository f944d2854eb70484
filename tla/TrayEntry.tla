------------------------------ MODULE TrayEntry ------------------------------
(***************************************************************************)
(* The way from the settings of the desktop to the tray icon: GSettings,   *)
(* VirtualKeyboardSettings, which turns its notifications into signals,    *)
(* VirtualKeyboardEntryManager with its three strategies, the icon and its *)
(* menu, and the service that counts the physical keyboards.  A handler    *)
(* reads the setting, and asks for the count, when it runs: what it finds  *)
(* may be newer than the notification it handles.                          *)
(*                                                                         *)
(* What the user asks of the keyboard through icon and menu goes through   *)
(* fcitx and comes back as a request of KeyboardService.                   *)
(***************************************************************************)
EXTENDS Naturals, Sequences

CONSTANTS
  Scales,       \* values of virtual-keyboard-scale-factor
  MergePeriod,  \* SCALE_FACTOR_MERGE_PERIOD, in ticks
  MaxKeyboards, \* bound: physical keyboards
  MaxWaiting    \* bound: notifications of settings that wait

ASSUME TrayScalesAssumption == Scales # {}
ASSUME MergeAssumption == MergePeriod \in Nat \ {0}
ASSUME BoundsAssumption == MaxKeyboards \in Nat \ {0} /\ MaxWaiting \in Nat \ {0}

VARIABLES
  settings,   \* GSettings: what a handler reads
  waiting,    \* keys whose notification has not been handled, in order
  keyboards,  \* external: how many are plugged
  service,    \* external: the service that counts them runs
  plugged,    \* keyboardStatusChanged has not been handled
  strategy,   \* currentTrayIconStrategy_, by its policy
  icon,       \* trayIcon_: none, or hidden or shown
  enabled,    \* floatButtonEnabled_ of FloatButtonManager
  menu,       \* what the action of the menu does: its text, icon and callback
  merging,    \* ticks until scaleFactorMergeTimer_ fires, 0 if it is not active
  scale,      \* the scale factor the visible keyboard was laid out with
  told,       \* history: the last count came from the service, which tells since
  ahead       \* history: the menu was made from a value still to be notified

counting == <<keyboards, service, plugged>>
iconVars == <<strategy, icon, told>>
menuVars == <<enabled, menu, ahead>>
scaleVars == <<merging, scale>>
trayVars == <<settings, waiting, counting, iconVars, menuVars, scaleVars>>

Policies == {"NeverShow", "AlwaysShow", "ShowWhenKeyboardIsConnected"}
Settings == [float : BOOLEAN, policy : Policies, scale : Scales]
SettingKeys == {"float", "policy", "scale"}
Waits(k) == \E i \in 1 .. Len(waiting) : waiting[i] = k

-----------------------------------------------------------------------------
(* The strategies and the icon.                                            *)

ShouldCreateTray(policy) == policy # "NeverShow"
NeedsKeyboardMonitor(policy) == policy = "ShowWhenKeyboardIsConnected"

ShouldShowTray(policy, count) ==
  policy = "AlwaysShow" \/ (policy = "ShowWhenKeyboardIsConnected" /\ count = 0)

\* getKeyboardCount waits for the answer; an error counts as no keyboard.
KeyboardCount == IF service THEN keyboards ELSE 0

\* changeTrayIconVisibility
Shown(policy) == IF ShouldShowTray(policy, KeyboardCount) THEN "shown" ELSE "hidden"

\* updateTrayVisibility; an icon that does not exist stays so.
UpdateTrayVisibility ==
  /\ icon' = IF icon = "none" THEN "none" ELSE Shown(strategy)
  /\ told' = IF NeedsKeyboardMonitor(strategy) THEN service ELSE told
  /\ UNCHANGED strategy

\* initTrayIcon or destroyTrayIcon, and changeTrayIconVisibility
Icon(policy) == IF ShouldCreateTray(policy) THEN Shown(policy) ELSE "none"

\* The item of the menu offers what is not the case.
Offer(float) == IF float THEN "disable" ELSE "enable"

\* updateFloatButtonContextMenuAction, if there is an action
UpdateContextMenuAction(float) ==
  menu' = IF menu = "none" THEN "none" ELSE Offer(float)

\* Mutant of SyncTrayIconContextMenuAction: only the first icon gets an action.
SyncTrayIconContextMenuActionOnce ==
  /\ menu' = IF menu = "none" THEN Offer(settings.float) ELSE menu
  /\ ahead' = (settings.float # enabled)

\* syncTrayIconContextMenuAction; the menu and its action outlive the icon.
SyncTrayIconContextMenuAction ==
  /\ menu' = Offer(settings.float)
  /\ ahead' = (settings.float # enabled)

\* Mutant of UpdateStrategy: a new icon gets no menu.
UpdateStrategyUnsynced(policy) ==
  /\ strategy' = policy
  /\ icon' = Icon(policy)
  /\ told' = IF NeedsKeyboardMonitor(policy) THEN service ELSE told
  /\ UNCHANGED menuVars

\* updateStrategy: the icon is created or destroyed, then shown or hidden.
UpdateStrategy(policy) ==
  /\ strategy' = policy
  /\ icon' = Icon(policy)
  /\ told' = IF NeedsKeyboardMonitor(policy) THEN service ELSE told
  /\ \/ /\ icon = "none" /\ ShouldCreateTray(policy)
        /\ SyncTrayIconContextMenuAction
     \/ /\ ~(icon = "none" /\ ShouldCreateTray(policy))
        /\ UNCHANGED <<menu, ahead>>
  /\ UNCHANGED enabled

\* setFloatButtonEnabled, with the signal that changes the action, if there is one.
SetFloatButtonEnabled(float) ==
  \/ /\ float = enabled
     /\ UNCHANGED menuVars
  \/ /\ float # enabled
     /\ enabled' = float
     /\ UpdateContextMenuAction(float)
     /\ ahead' = FALSE

-----------------------------------------------------------------------------
(* The constructor of the entry manager, on the settings it finds.         *)

TrayInit ==
  /\ settings \in Settings
  /\ waiting = <<>>
  /\ keyboards \in 0 .. MaxKeyboards
  /\ service \in BOOLEAN
  /\ plugged = FALSE
  /\ strategy = settings.policy
  /\ icon = Icon(strategy)
  /\ enabled = settings.float
  /\ menu = IF icon = "none" THEN "none" ELSE Offer(enabled)
  /\ merging = 0
  /\ scale = settings.scale
  /\ told = service
  /\ ahead = FALSE

-----------------------------------------------------------------------------
(* The notifications of the settings.                                      *)

\* Mutant of MergeScale: a second change stops the timer.
MergeScaleCancels == IF merging > 0 THEN 0 ELSE MergePeriod

\* The timer is started, or started anew.
MergeScale == MergePeriod

EmitFloatButtonAvailabilityChanged == SetFloatButtonEnabled(settings.float)
EmitTrayIconShowChanged == UpdateStrategy(settings.policy)

\* QGSettings::changed, whose handler and what it calls read the setting of now.
SettingChanged ==
  /\ waiting # <<>>
  /\ waiting' = Tail(waiting)
  /\ \/ /\ Head(waiting) = "float"
        /\ EmitFloatButtonAvailabilityChanged
        /\ UNCHANGED <<iconVars, scaleVars>>
     \/ /\ Head(waiting) = "policy"
        /\ EmitTrayIconShowChanged
        /\ UNCHANGED scaleVars
     \/ /\ Head(waiting) = "scale"
        /\ merging' = MergeScale
        /\ UNCHANGED <<iconVars, menuVars, scale>>
  /\ UNCHANGED <<settings, counting>>

\* A setting gets another value, of which the program is notified.
Set(k, v) ==
  /\ v # settings[k]
  /\ Len(waiting) < MaxWaiting
  /\ settings' = [settings EXCEPT ![k] = v]
  /\ waiting' = Append(waiting, k)
  /\ UNCHANGED <<counting, iconVars, menuVars, scaleVars>>

\* The user, the control center, another program
SettingsChange ==
  \/ \E v \in BOOLEAN : Set("float", v)
  \/ \E v \in Policies : Set("policy", v)
  \/ \E v \in Scales : Set("scale", v)

\* The action of the menu of the icon: updateFloatButtonAvailability
ActionTriggered ==
  /\ icon = "shown"
  /\ Set("float", menu = "enable")

\* A tick; the timer that is due fires and the keyboard is laid out anew.
TimePasses ==
  /\ merging > 0
  /\ merging' = merging - 1
  /\ scale' = IF merging = 1 THEN settings.scale ELSE scale
  /\ UNCHANGED <<settings, waiting, counting, iconVars, menuVars>>

-----------------------------------------------------------------------------
(* The physical keyboards.                                                 *)

\* Mutant of KbdStatusChanged: only a strategy that shows the icon looks.
KbdStatusChangedWhenShown ==
  /\ plugged
  /\ plugged' = FALSE
  /\ \/ icon = "shown" /\ UpdateTrayVisibility
     \/ icon # "shown" /\ UNCHANGED iconVars
  /\ UNCHANGED <<settings, waiting, keyboards, service, menuVars, scaleVars>>

KbdStatusChanged ==
  /\ plugged
  /\ plugged' = FALSE
  /\ UpdateTrayVisibility
  /\ UNCHANGED <<settings, waiting, keyboards, service, menuVars, scaleVars>>

\* A service that does not run tells nobody.
KeyboardsChange ==
  /\ keyboards' \in (0 .. MaxKeyboards) \ {keyboards}
  /\ plugged' = (plugged \/ service)
  /\ told' = (told /\ service)
  /\ UNCHANGED <<settings, waiting, service, strategy, icon, menuVars, scaleVars>>

ServiceEnds ==
  /\ service
  /\ service' = FALSE
  /\ UNCHANGED <<settings, waiting, keyboards, plugged, iconVars, menuVars, scaleVars>>

ServiceStarts ==
  /\ ~service
  /\ service' = TRUE
  /\ UNCHANGED <<settings, waiting, keyboards, plugged, iconVars, menuVars, scaleVars>>

-----------------------------------------------------------------------------

TrayNext ==
  \/ SettingChanged
  \/ SettingsChange
  \/ ActionTriggered
  \/ TimePasses
  \/ KbdStatusChanged
  \/ KeyboardsChange
  \/ ServiceEnds
  \/ ServiceStarts

\* The event loop delivers what waits, and time goes on.
TrayFairness ==
  /\ WF_trayVars(SettingChanged)
  /\ WF_trayVars(TimePasses)

TraySpec == TrayInit /\ [][TrayNext]_trayVars /\ TrayFairness
-----------------------------------------------------------------------------
(* What must hold.                                                         *)

\* Every variable has its type; there is an icon exactly if the strategy in force wants
\* one, and an icon never goes without the action of its menu.
TrayTypeOK ==
  /\ settings \in Settings
  /\ waiting \in Seq(SettingKeys) /\ Len(waiting) <= MaxWaiting
  /\ keyboards \in 0 .. MaxKeyboards
  /\ service \in BOOLEAN /\ plugged \in BOOLEAN
  /\ strategy \in Policies
  /\ icon \in {"none", "hidden", "shown"}
  /\ enabled \in BOOLEAN
  /\ menu \in {"none", "enable", "disable"}
  /\ merging \in 0 .. MergePeriod
  /\ scale \in Scales
  /\ told \in BOOLEAN /\ ahead \in BOOLEAN
  /\ icon # "none" <=> ShouldCreateTray(strategy)
  /\ icon # "none" => menu # "none"

\* The icon that the settings and the keyboards of now ask for.
IconFor(policy, count) ==
  CASE ~ShouldCreateTray(policy) -> "none"
    [] ShouldShowTray(policy, count) -> "shown"
    [] OTHER -> "hidden"

\* Policies are replaced while keyboards come and go, and the count is asked for between
\* the notifications: once none of them waits, the icon is the one the policy in force
\* wants for the keyboards that are plugged, unless the service
\* did not answer or was not there to tell of a keyboard.
IconSettles ==
  ~Waits("policy") /\ ~plugged /\ (NeedsKeyboardMonitor(settings.policy) => told)
    => icon = IconFor(settings.policy, keyboards)

\* The menu is made from the setting when an icon is created and from the signals of the
\* float button otherwise.  Whichever came last, once no change of the setting waits the
\* item offers to change it; except when the menu was made from a value that was taken
\* back before its notification was handled (floatbuttonmanager.cpp:222 tells nobody).
MenuSettles ==
  ~Waits("float") /\ ~ahead /\ menu # "none" => menu = Offer(settings.float)

\* The timer of the scale factor is started anew by every change.  Once the setting is
\* left alone the keyboard gets its size, whatever other settings go on changing.
ScaleReaches ==
  <>[][UNCHANGED settings.scale]_trayVars => <>[](scale = settings.scale)
=============================================================================
