--------------------------- MODULE TrayEntryProofs ---------------------------
(***************************************************************************)
(* Why icon and menu end up as the settings want them: whatever they lack  *)
(* is still announced by a notification that waits.                        *)
(***************************************************************************)
EXTENDS TrayEntry, TLAPS

\* The icon lacks nothing that is not announced.
IconInv ==
  /\ strategy # settings.policy => Waits("policy")
  /\ strategy = "AlwaysShow" => icon = "shown"
  /\ strategy = "ShowWhenKeyboardIsConnected" /\ told /\ ~plugged
       => icon = IF keyboards = 0 THEN "shown" ELSE "hidden"

\* Neither does the menu, which is made from what the float button was told last,
\* unless it was made ahead of that.
MenuInv ==
  /\ enabled # settings.float => Waits("float")
  /\ menu # "none" /\ ~ahead => menu = Offer(enabled)

TrayInv == TrayTypeOK /\ IconInv /\ MenuInv

-----------------------------------------------------------------------------
(* What handling and setting do to the notifications that wait.            *)

\* A sequence without its first element, and with one more.
LEMMA TailAndAppend ==
  ASSUME NEW S, NEW w \in Seq(S)
  PROVE  /\ w # <<>> => /\ Tail(w) \in Seq(S) /\ Head(w) \in S
                        /\ Len(Tail(w)) = Len(w) - 1 /\ Len(w) \in Nat \ {0}
                        /\ \A i \in 1 .. Len(w) - 1 : Tail(w)[i] = w[i + 1]
                        /\ Head(w) = w[1]
         /\ \A k \in S : /\ Append(w, k) \in Seq(S)
                         /\ Len(Append(w, k)) = Len(w) + 1 /\ Len(w) \in Nat
                         /\ \A i \in 1 .. Len(w) : Append(w, k)[i] = w[i]
                         /\ Append(w, k)[Len(w) + 1] = k
  OBVIOUS

\* Handling a notification leaves those of every other setting.
LEMMA HandledWaits ==
  ASSUME waiting \in Seq(SettingKeys), waiting # <<>>, waiting' = Tail(waiting),
         NEW k, k # Head(waiting), Waits(k)
  PROVE  Waits(k)'
<1>1. PICK i \in 1 .. Len(waiting) : waiting[i] = k
  BY DEF Waits
<1>2. /\ Len(waiting') = Len(waiting) - 1 /\ Len(waiting) \in Nat \ {0}
      /\ \A j \in 1 .. Len(waiting) - 1 : waiting'[j] = waiting[j + 1]
      /\ Head(waiting) = waiting[1]
  BY TailAndAppend
<1>3. i # 1 /\ i - 1 \in 1 .. Len(waiting')
  BY <1>1, <1>2
<1>4. waiting'[i - 1] = k
  BY <1>1, <1>2, <1>3
<1> QED BY <1>3, <1>4 DEF Waits

\* A setting that changes waits, and all that waited still does.
LEMMA SetWaits ==
  ASSUME waiting \in Seq(SettingKeys), NEW k \in SettingKeys,
         waiting' = Append(waiting, k)
  PROVE  /\ Waits(k)'
         /\ \A j : Waits(j) => Waits(j)'
<1>1. /\ Len(waiting') = Len(waiting) + 1 /\ Len(waiting) \in Nat
      /\ \A i \in 1 .. Len(waiting) : waiting'[i] = waiting[i]
      /\ waiting'[Len(waiting) + 1] = k
  BY TailAndAppend
<1>2. Len(waiting) + 1 \in 1 .. Len(waiting')
  BY <1>1
<1>3. Waits(k)'
  BY <1>1, <1>2 DEF Waits
<1>4. ASSUME NEW j, Waits(j) PROVE Waits(j)'
  <2>1. PICK i \in 1 .. Len(waiting) : waiting[i] = j
    BY <1>4 DEF Waits
  <2>2. i \in 1 .. Len(waiting') /\ waiting'[i] = j
    BY <1>1, <2>1
  <2> QED BY <2>2 DEF Waits
<1> QED BY <1>3, <1>4

-----------------------------------------------------------------------------
(* Each action keeps the invariant.                                        *)

\* A program that has just started has everything its settings want.
LEMMA InitTrayInv == TrayInit => TrayInv
<1> SUFFICES ASSUME TrayInit PROVE TrayInv
  OBVIOUS
<1>1. waiting \in Seq(SettingKeys) /\ Len(waiting) = 0
  BY DEF TrayInit
<1>2. /\ settings.float \in BOOLEAN /\ settings.policy \in Policies
      /\ settings.scale \in Scales
  BY DEF TrayInit, Settings
<1>3. 0 \in 0 .. MergePeriod /\ 0 <= MaxWaiting
  BY MergeAssumption, BoundsAssumption
<1>4. TrayTypeOK
  BY <1>1, <1>2, <1>3
  DEF TrayInit, TrayTypeOK, Policies, Icon, ShouldCreateTray, Shown, Offer
<1>5. IconInv
  BY DEF TrayInit, IconInv, Settings, Policies, Icon, ShouldCreateTray, Shown,
         ShouldShowTray, KeyboardCount
<1>6. MenuInv
  BY DEF TrayInit, MenuInv
<1> QED BY <1>4, <1>5, <1>6 DEF TrayInv

\* The policy of now is put into force, whichever was announced.
LEMMA PolicyHandled ==
  ASSUME TrayInv, SettingChanged, Head(waiting) = "policy"
  PROVE  TrayInv'
<1> USE DEF TrayInv
<1>1. /\ UpdateStrategy(settings.policy)
      /\ UNCHANGED <<settings, keyboards, service, plugged, merging, scale>>
      /\ waiting # <<>> /\ waiting' = Tail(waiting)
  BY DEF SettingChanged, EmitTrayIconShowChanged, scaleVars, counting
<1>2. waiting' \in Seq(SettingKeys) /\ Len(waiting') <= MaxWaiting
  BY <1>1, TailAndAppend, BoundsAssumption DEF TrayTypeOK
<1>3. settings.policy \in Policies /\ settings.float \in BOOLEAN
  BY DEF TrayTypeOK, Settings
<1>4. TrayTypeOK'
  BY <1>1, <1>2, <1>3
  DEF TrayTypeOK, UpdateStrategy, Icon, ShouldCreateTray, Shown, Offer,
      SyncTrayIconContextMenuAction, Policies, NeedsKeyboardMonitor
<1>5. IconInv'
  BY <1>1, <1>3
  DEF IconInv, UpdateStrategy, Icon, ShouldCreateTray, Shown, ShouldShowTray, KeyboardCount,
      Policies, NeedsKeyboardMonitor
<1>6. enabled # settings.float => Waits("float")'
  BY <1>1, HandledWaits DEF MenuInv, TrayTypeOK
<1>7. MenuInv'
  BY <1>1, <1>3, <1>6
  DEF MenuInv, TrayTypeOK, UpdateStrategy, SyncTrayIconContextMenuAction, Offer
<1> QED BY <1>4, <1>5, <1>7

\* The float button and the menu are told what the setting says now.
LEMMA FloatHandled ==
  ASSUME TrayInv, SettingChanged, Head(waiting) = "float"
  PROVE  TrayInv'
<1> USE DEF TrayInv
<1>1. /\ SetFloatButtonEnabled(settings.float)
      /\ UNCHANGED <<settings, keyboards, service, plugged, strategy, icon, told, merging,
                     scale>>
      /\ waiting # <<>> /\ waiting' = Tail(waiting)
  BY DEF SettingChanged, EmitFloatButtonAvailabilityChanged, scaleVars, counting, iconVars
<1>2. waiting' \in Seq(SettingKeys) /\ Len(waiting') <= MaxWaiting
  BY <1>1, TailAndAppend, BoundsAssumption DEF TrayTypeOK
<1>3. settings.float \in BOOLEAN
  BY DEF TrayTypeOK, Settings
<1>4. TrayTypeOK'
  BY <1>1, <1>2, <1>3 DEF TrayTypeOK, SetFloatButtonEnabled, UpdateContextMenuAction, menuVars, Offer
<1>5. strategy # settings.policy => Waits("policy")'
  BY <1>1, HandledWaits DEF IconInv, TrayTypeOK
<1>6. IconInv'
  BY <1>1, <1>5 DEF IconInv
<1>7. MenuInv'
  BY <1>1, <1>3 DEF MenuInv, SetFloatButtonEnabled, UpdateContextMenuAction, menuVars
<1> QED BY <1>4, <1>6, <1>7

\* The scale factor has nothing to do with icon and menu.
LEMMA ScaleHandled ==
  ASSUME TrayInv, SettingChanged, Head(waiting) = "scale"
  PROVE  TrayInv'
<1> USE DEF TrayInv
<1>1. /\ merging' = MergePeriod
      /\ UNCHANGED <<settings, keyboards, service, plugged, strategy, icon, told, enabled,
                     menu, ahead, scale>>
      /\ waiting # <<>> /\ waiting' = Tail(waiting)
  BY DEF SettingChanged, MergeScale, counting, iconVars, menuVars
<1>2. waiting' \in Seq(SettingKeys) /\ Len(waiting') <= MaxWaiting
  BY <1>1, TailAndAppend, BoundsAssumption DEF TrayTypeOK
<1>3. TrayTypeOK'
  BY <1>1, <1>2, MergeAssumption DEF TrayTypeOK
<1>4. /\ strategy # settings.policy => Waits("policy")'
      /\ enabled # settings.float => Waits("float")'
  BY <1>1, HandledWaits DEF IconInv, MenuInv, TrayTypeOK
<1> QED BY <1>1, <1>3, <1>4 DEF IconInv, MenuInv

\* What a setting is changed from and to, it is announced.
LEMMA SetKeepsInv ==
  ASSUME TrayInv, NEW k \in SettingKeys, NEW v, Set(k, v),
         [settings EXCEPT ![k] = v] \in Settings
  PROVE  TrayInv'
<1> USE DEF TrayInv
<1>1. /\ settings' = [settings EXCEPT ![k] = v] /\ settings' \in Settings
      /\ UNCHANGED <<keyboards, service, plugged, strategy, icon, told, enabled, menu,
                     ahead, merging, scale>>
      /\ Len(waiting) < MaxWaiting /\ waiting' = Append(waiting, k)
  BY DEF Set, counting, iconVars, menuVars, scaleVars
<1>2. waiting' \in Seq(SettingKeys) /\ Len(waiting') <= MaxWaiting
  BY <1>1, TailAndAppend, BoundsAssumption DEF TrayTypeOK
<1>3. TrayTypeOK'
  BY <1>1, <1>2 DEF TrayTypeOK
<1>4. Waits(k)' /\ \A j : Waits(j) => Waits(j)'
  BY <1>1, SetWaits DEF TrayTypeOK
<1>5. /\ k # "policy" => settings'.policy = settings.policy
      /\ k # "float" => settings'.float = settings.float
  BY <1>1 DEF TrayTypeOK, Settings, SettingKeys
<1>6. IconInv'
  BY <1>1, <1>4, <1>5 DEF IconInv
<1>7. MenuInv'
  BY <1>1, <1>4, <1>5 DEF MenuInv
<1> QED BY <1>3, <1>6, <1>7

\* The settings stay settings.
LEMMA SettingsStaySettings ==
  ASSUME settings \in Settings
  PROVE  /\ \A v \in BOOLEAN : [settings EXCEPT !["float"] = v] \in Settings
         /\ \A v \in Policies : [settings EXCEPT !["policy"] = v] \in Settings
         /\ \A v \in Scales : [settings EXCEPT !["scale"] = v] \in Settings
  BY DEF Settings

\* Keyboards come and go, with or without the service that tells of them.
LEMMA KeyboardsKeepInv ==
  ASSUME TrayInv, KbdStatusChanged \/ KeyboardsChange \/ ServiceEnds \/ ServiceStarts
  PROVE  TrayInv'
<1> USE DEF TrayInv
<1>1. UNCHANGED <<settings, waiting, strategy, enabled, menu, ahead, merging, scale>>
  BY DEF KbdStatusChanged, UpdateTrayVisibility, KeyboardsChange, ServiceEnds,
         ServiceStarts, iconVars, menuVars, scaleVars
<1>2. TrayTypeOK'
  BY <1>1, BoundsAssumption
  DEF TrayTypeOK, KbdStatusChanged, UpdateTrayVisibility, Shown, KeyboardsChange,
      ServiceEnds, ServiceStarts, iconVars
<1>3. \A j : Waits(j)' = Waits(j)
  BY <1>1 DEF Waits
<1>4. MenuInv'
  BY <1>1, <1>3 DEF MenuInv
<1>5. ASSUME KbdStatusChanged PROVE IconInv'
  BY <1>1, <1>3, <1>5
  DEF IconInv, TrayTypeOK, KbdStatusChanged, UpdateTrayVisibility, Shown, ShouldShowTray,
      KeyboardCount, ShouldCreateTray, NeedsKeyboardMonitor
<1>6. ASSUME KeyboardsChange PROVE IconInv'
  BY <1>1, <1>3, <1>6 DEF IconInv, TrayTypeOK, KeyboardsChange
<1>7. ASSUME ServiceEnds \/ ServiceStarts PROVE IconInv'
  BY <1>1, <1>3, <1>7 DEF IconInv, ServiceEnds, ServiceStarts, iconVars
<1> QED BY <1>2, <1>4, <1>5, <1>6, <1>7

\* The invariant is inductive.
LEMMA NextTrayInv == TrayInv /\ [TrayNext]_trayVars => TrayInv'
<1> SUFFICES ASSUME TrayInv, [TrayNext]_trayVars PROVE TrayInv'
  OBVIOUS
<1>1. CASE SettingChanged
  <2>1. Head(waiting) \in {"float", "policy", "scale"}
    BY <1>1 DEF SettingChanged
  <2> QED BY <1>1, <2>1, PolicyHandled, FloatHandled, ScaleHandled
<1>2. CASE SettingsChange
  <2>1. settings \in Settings
    BY DEF TrayInv, TrayTypeOK
  <2>2. {"float", "policy", "scale"} = SettingKeys
    BY DEF SettingKeys
  <2> QED BY <1>2, <2>1, <2>2, SetKeepsInv, SettingsStaySettings DEF SettingsChange
<1>3. CASE ActionTriggered
  <2>1. settings \in Settings /\ (menu = "enable") \in BOOLEAN /\ "float" \in SettingKeys
    BY DEF TrayInv, TrayTypeOK, SettingKeys
  <2>2. Set("float", menu = "enable")
    BY <1>3 DEF ActionTriggered
  <2> QED BY <2>1, <2>2, SetKeepsInv, SettingsStaySettings
<1>4. CASE TimePasses
  <2>1. /\ UNCHANGED <<settings, waiting, keyboards, service, plugged, strategy, icon, told,
                       enabled, menu, ahead>>
        /\ merging' \in 0 .. MergePeriod /\ scale' \in Scales
    BY <1>4, MergeAssumption
    DEF TimePasses, TrayInv, TrayTypeOK, Settings, counting, iconVars, menuVars
  <2> QED BY <2>1 DEF TrayInv, TrayTypeOK, IconInv, MenuInv, Waits
<1>5. CASE KbdStatusChanged \/ KeyboardsChange \/ ServiceEnds \/ ServiceStarts
  BY <1>5, KeyboardsKeepInv
<1>6. CASE UNCHANGED trayVars
  BY <1>6
  DEF TrayInv, TrayTypeOK, IconInv, MenuInv, Waits, trayVars, counting, iconVars, menuVars,
      scaleVars
<1> QED BY <1>1, <1>2, <1>3, <1>4, <1>5, <1>6 DEF TrayNext

-----------------------------------------------------------------------------
(* The theorems.                                                           *)

\* The inductive invariant holds in every behaviour.
THEOREM TrayInvInvariant == TraySpec => []TrayInv
  BY InitTrayInv, NextTrayInv, PTL DEF TraySpec

\* Type correctness, and that an icon has the action of its menu.
THEOREM TrayTypeCorrect == TraySpec => []TrayTypeOK
<1>1. TrayInv => TrayTypeOK
  BY DEF TrayInv
<1> QED BY <1>1, TrayInvInvariant, PTL

\* However notifications and keyboards interleave, the icon settles.
THEOREM IconFollowsPolicy == TraySpec => []IconSettles
<1>1. TrayInv => IconSettles
  BY DEF TrayInv, TrayTypeOK, IconInv, IconSettles, IconFor, ShouldCreateTray,
         ShouldShowTray, NeedsKeyboardMonitor, Policies
<1> QED BY <1>1, TrayInvInvariant, PTL

\* However the menu was made, what it offers settles.
THEOREM MenuFollowsSetting == TraySpec => []MenuSettles
<1>1. TrayInv => MenuSettles
  BY DEF TrayInv, MenuInv, MenuSettles
<1> QED BY <1>1, TrayInvInvariant, PTL
=============================================================================
