---------------------------- MODULE KeyboardModel ----------------------------
(***************************************************************************)
(* VirtualKeyboardModel, what the QML keyboard keeps of it, and fcitx on   *)
(* the other side of the bus.  Signals and calls of fcitx arrive in order; *)
(* the answers the model waits for overtake those still queued.            *)
(***************************************************************************)
EXTENDS Naturals, Sequences, SequencesExt, FiniteSetsExt

CONSTANTS
  Methods,    \* input methods of fcitx, UsKeyboard among them
  Layouts,    \* those whose names start with keyboard-
  Profiles,   \* what fcitx may have written to its profile: sequences of Methods
  Wlroots,    \* isWlrootsWayland
  BusLimit    \* bound: signals and calls that may wait

UsKeyboard == "keyboard-us"
Wylie == "wylie"
NoIM == "|||"

ASSUME MethodsAssumption == UsKeyboard \in Methods /\ Wylie \notin Methods /\ "" \notin Methods
ASSUME LayoutsAssumption == Layouts \subseteq Methods
ASSUME ProfilesAssumption == Profiles \subseteq Seq(Methods) /\ Profiles # {}
ASSUME WlrootsAssumption == Wlroots \in BOOLEAN
ASSUME BusAssumption == BusLimit \in Nat \ {0}

VARIABLES
  fcitx,          \* external: its phase, current input method, profile
  bus,            \* what fcitx has sent and the program has not handled
  backend,        \* virtualKeyboardBackendInterface_: null, or valid or not
  uniqueName,     \* uniqueName_
  currentIMList,  \* names of the entries of currentIMList_
  page,           \* the QML keyboard: exists or not, on the screen or not
  currentIM,      \* QML: name of the entry currentIM
  candidates,     \* QML: candidates are shown
  listOpen,       \* QML: changeIMState is OPEN
  key,            \* the channel that got the press of the key that is down
  crashed         \* a null pointer was used: only fcitx goes on

qmlVars == <<page, currentIM, candidates, listOpen, key>>
modelVars == <<backend, uniqueName, currentIMList>>
imVars == <<fcitx, bus, modelVars, qmlVars, crashed>>

Phases == {"gone", "running", "registered"}
Messages == [kind : {"registered", "unregistered", "groupsChanged", "listChanged",
                     "activated", "deactivated", "candidates"},
             arg : Methods \cup {"", "some"}]
Msg(kind, arg) == [kind |-> kind, arg |-> arg]

-----------------------------------------------------------------------------
(* The list of input methods and its entry for the current one.            *)

DefaultIMs == <<"keyboard-us", "keyboard-cn-tib", "keyboard-cn-tib_asciinum">>

\* What syncCurrentIMList makes of the profile: its groups may repeat a layout, which
\* is listed once, and hold what is no layout; wylie follows keyboard-us.
LayoutsOf(profile) ==
  FoldLeft(LAMBDA list, im :
             IF im \in Layouts /\ ~Contains(list, im) THEN Append(list, im) ELSE list,
           <<>>, profile)
Entries(profile) ==
  FoldLeft(LAMBDA list, im : list \o IF im = UsKeyboard THEN <<im, Wylie>> ELSE <<im>>,
           <<>>, IF LayoutsOf(profile) = <<>> THEN DefaultIMs ELSE LayoutsOf(profile))

\* What the list may hold, and what uniqueName_ may be.
Listable == UNION {ToSet(Entries(profile)) : profile \in Profiles}
Names == Methods \cup {Wylie, ""}

\* onUniqueNameChanged asks for entries whose text includes the name.
Includes(entry, name) ==
  \/ entry = name
  \/ name = ""
  \/ name = "keyboard-cn-tib" /\ entry = "keyboard-cn-tib_asciinum"

\* Mutant of Highlight: an input method without entry is shown all the same.
HighlightName(list, name, old) ==
  LET hits == {i \in DOMAIN list : Includes(list[i], name)}
  IN  IF hits = {} THEN name ELSE list[Max(hits)]

\* The last such entry, or the old one.
Highlight(list, name, old) ==
  LET hits == {i \in DOMAIN list : Includes(list[i], name)}
  IN  IF hits = {} THEN old ELSE list[Max(hits)]

-----------------------------------------------------------------------------
(* The model.                                                              *)

\* setUniqueName with the signal it emits; list is the currentIMList the QML sees.
SetUniqueName(name, list) ==
  /\ uniqueName' = name
  /\ currentIM' = IF name # uniqueName /\ page # "none"
                  THEN Highlight(list, name, currentIM) ELSE currentIM

\* syncUniqueName: the answer is what fcitx uses now, not when the signals were sent.
SyncUniqueName(list) ==
  SetUniqueName(IF fcitx.phase = "gone" THEN uniqueName ELSE fcitx.im, list)

\* Mutant of SyncFcitxInputMethodState: only the name is fetched.
SyncNameOnly ==
  /\ UNCHANGED currentIMList
  /\ SyncUniqueName(currentIMList)

\* syncFcitxInputMethodState
SyncFcitxInputMethodState ==
  /\ currentIMList' = Entries(fcitx.profile)
  /\ SyncUniqueName(Entries(fcitx.profile))

IMInit ==
  /\ \E phase \in {"gone", "running"}, im \in Methods \cup {""}, profile \in Profiles :
       fcitx = [phase |-> phase, im |-> im, profile |-> profile]
  /\ bus = <<Msg("groupsChanged", "")>>  \* the singleShot of the constructor
  /\ backend = "null"
  /\ uniqueName = ""
  /\ currentIMList = <<>>
  /\ page = "none"
  /\ currentIM = NoIM
  /\ candidates = FALSE
  /\ listOpen = FALSE
  /\ key = "none"
  /\ crashed = FALSE

Receive(kind) ==
  /\ ~crashed
  /\ bus # <<>>
  /\ Head(bus).kind = kind
  /\ bus' = Tail(bus)
  /\ UNCHANGED <<fcitx, crashed>>

\* Mutant of BackendServiceRegistered: what fcitx uses is not asked for.
BackendServiceRegisteredUnsynced ==
  /\ Receive("registered")
  /\ backend' = IF fcitx.phase = "registered" THEN "valid" ELSE "invalid"
  /\ UNCHANGED <<uniqueName, currentIMList, qmlVars>>

BackendServiceRegistered ==
  /\ Receive("registered")
  /\ backend' = IF fcitx.phase = "registered" THEN "valid" ELSE "invalid"
  /\ SyncFcitxInputMethodState
  /\ UNCHANGED <<page, candidates, listOpen, key>>

\* Where the page may be once the keyboard hides: on the screen until the animation
\* has ended, kept (preloaded) or deleted.
Leaving == IF page = "shown" THEN {"shown", "hidden", "none"} ELSE {page}

\* Mutant of BackendServiceUnregistered: the interface is kept.
BackendServiceUnregisteredKept ==
  /\ Receive("unregistered")
  /\ page' \in Leaving
  /\ UNCHANGED <<modelVars, currentIM, candidates, listOpen, key>>

BackendServiceUnregistered ==
  /\ Receive("unregistered")
  /\ backend' = "null"
  /\ page' \in Leaving
  /\ UNCHANGED <<uniqueName, currentIMList, currentIM, candidates, listOpen, key>>

\* The signal InputMethodGroupsChanged, or the start of the program
InputMethodGroupsChanged ==
  /\ Receive("groupsChanged")
  /\ SyncFcitxInputMethodState
  /\ UNCHANGED <<backend, page, candidates, listOpen, key>>

NotifyIMListChanged ==
  /\ Receive("listChanged")
  /\ currentIMList' = Entries(fcitx.profile)
  /\ UNCHANGED <<backend, uniqueName, qmlVars>>

NotifyIMActivated ==
  /\ Receive("activated")
  /\ SetUniqueName(Head(bus).arg, currentIMList)
  /\ UNCHANGED <<backend, currentIMList, page, candidates, listOpen, key>>

\* imDeactivated closes the list of input methods.
NotifyIMDeactivated ==
  /\ Receive("deactivated")
  /\ listOpen' = FALSE
  /\ UNCHANGED <<modelVars, page, currentIM, candidates, key>>

\* Without a page nobody listens to the signal.
UpdateCandidateArea ==
  /\ Receive("candidates")
  /\ candidates' = (page # "none" /\ Head(bus).arg = "some")
  /\ UNCHANGED <<modelVars, page, currentIM, listOpen, key>>

-----------------------------------------------------------------------------
(* The user.                                                               *)

OnPage == page = "shown" /\ ~crashed

\* A new page starts without candidates.  Its handler of uniqueName runs unless the
\* name is empty; whether it sees the list already depends on the order in which the
\* bindings are evaluated.
ShowPage ==
  /\ page # "shown" /\ ~crashed
  /\ page' = "shown"
  /\ \/ /\ page = "hidden"
        /\ UNCHANGED <<currentIM, candidates, listOpen>>
     \/ /\ page = "none"
        /\ currentIM' \in IF uniqueName = "" THEN {NoIM}
                          ELSE {NoIM, Highlight(currentIMList, uniqueName, NoIM)}
        /\ candidates' = FALSE
        /\ listOpen' = FALSE
  /\ UNCHANGED <<fcitx, bus, modelVars, key, crashed>>

LeavePage ==
  /\ OnPage
  /\ page' \in {"hidden", "none"}
  /\ UNCHANGED <<fcitx, bus, modelVars, currentIM, candidates, listOpen, key, crashed>>

\* selectCandidate
SelectCandidate ==
  /\ OnPage
  /\ candidates
  /\ crashed' = (backend = "null")
  /\ UNCHANGED <<fcitx, bus, modelVars, qmlVars>>

\* ChangeImKey
ToggleIMList ==
  /\ OnPage
  /\ listOpen' = ~listOpen
  /\ UNCHANGED <<fcitx, bus, modelVars, page, currentIM, candidates, key, crashed>>

FcitxName(name) == IF name = Wylie THEN UsKeyboard ELSE name

\* external: fcitx stays with what it has when it does not know the name.
Switched(name) ==
  IF FcitxName(name) \in Methods THEN FcitxName(name) ELSE fcitx.im

\* setCurrentIM: fcitx switches and tells everyone before it answers.
SetCurrentIM(name) ==
  /\ OnPage
  /\ listOpen
  /\ name \in ToSet(currentIMList)
  /\ listOpen' = FALSE
  /\ \/ /\ fcitx.phase = "gone"
        /\ UNCHANGED <<fcitx, bus, uniqueName, currentIM>>
     \/ /\ fcitx.phase # "gone"
        /\ Len(bus) < BusLimit
        /\ fcitx' = [fcitx EXCEPT !.im = Switched(name)]
        /\ bus' = IF fcitx.phase = "registered" /\ fcitx'.im # fcitx.im
                  THEN Append(bus, Msg("activated", fcitx'.im)) ELSE bus
        /\ SetUniqueName(IF name = Wylie THEN Wylie ELSE fcitx'.im, currentIMList)
  /\ UNCHANGED <<backend, currentIMList, page, candidates, key, crashed>>

\* Mutant of Bypass: the Tibetan layouts alone need fcitx.
BypassUnlessTibetan ==
  Wlroots /\ uniqueName \notin {"keyboard-cn-tib", "keyboard-cn-tib_asciinum"}

\* shouldUseDirectWaylandInput, for a press of a key wtype knows without Ctrl, Alt, Win
Bypass == Wlroots /\ uniqueName \in {"", UsKeyboard}

\* processKeyEvent of a press: wtype may fail, or not know the key.
PressKey ==
  /\ OnPage
  /\ key = "none"
  /\ \/ /\ Bypass
        /\ key' = "wtype"
     \/ /\ backend = "valid"
        /\ key' = "fcitx"
     \/ /\ backend # "valid"
        /\ key' = "xdotool"
  /\ UNCHANGED <<fcitx, bus, modelVars, page, currentIM, candidates, listOpen, crashed>>

\* The release, or the loss of the page: the next key may be pressed.
ReleaseKey ==
  /\ key # "none" /\ ~crashed
  /\ key' = "none"
  /\ UNCHANGED <<fcitx, bus, modelVars, page, currentIM, candidates, listOpen, crashed>>

-----------------------------------------------------------------------------
(* fcitx.                                                                  *)

Send(kind, arg) ==
  /\ Len(bus) < BusLimit
  /\ bus' = Append(bus, Msg(kind, arg))

FcitxOnly == UNCHANGED <<modelVars, qmlVars, crashed>>

FcitxStarts ==
  /\ fcitx.phase = "gone"
  /\ \E im \in Methods \cup {""} : fcitx' = [fcitx EXCEPT !.phase = "running", !.im = im]
  /\ UNCHANGED bus
  /\ FcitxOnly

FcitxRegisters ==
  /\ fcitx.phase = "running"
  /\ fcitx' = [fcitx EXCEPT !.phase = "registered"]
  /\ Send("registered", "")
  /\ FcitxOnly

\* It turns to another user interface, or ends.
FcitxUnregisters ==
  /\ fcitx.phase = "registered"
  /\ \E phase \in {"running", "gone"} : fcitx' = [fcitx EXCEPT !.phase = phase]
  /\ Send("unregistered", "")
  /\ FcitxOnly

FcitxEnds ==
  /\ fcitx.phase = "running"
  /\ fcitx' = [fcitx EXCEPT !.phase = "gone"]
  /\ UNCHANGED bus
  /\ FcitxOnly

\* Another input method, or no focus any more; a registered backend tells.
FcitxSwitches ==
  /\ fcitx.phase # "gone"
  /\ \E im \in (Methods \cup {""}) \ {fcitx.im} :
       /\ fcitx' = [fcitx EXCEPT !.im = im]
       /\ \/ fcitx.phase = "running" /\ UNCHANGED bus
          \/ fcitx.phase = "registered" /\ im # "" /\ Send("activated", im)
          \/ fcitx.phase = "registered" /\ im = "" /\ Send("deactivated", fcitx.im)
  /\ FcitxOnly

FcitxProfileChanges ==
  /\ \E profile \in Profiles \ {fcitx.profile} :
       fcitx' = [fcitx EXCEPT !.profile = profile]
  /\ \/ fcitx.phase = "gone" /\ UNCHANGED bus
     \/ fcitx.phase # "gone" /\ Send("groupsChanged", "")
     \/ fcitx.phase = "registered" /\ Send("listChanged", "")
  /\ FcitxOnly

FcitxUpdatesCandidates ==
  /\ fcitx.phase = "registered"
  /\ \E arg \in {"some", ""} : Send("candidates", arg)
  /\ UNCHANGED fcitx
  /\ FcitxOnly

-----------------------------------------------------------------------------

Handle ==
  \/ BackendServiceRegistered
  \/ BackendServiceUnregistered
  \/ InputMethodGroupsChanged
  \/ NotifyIMListChanged
  \/ NotifyIMActivated
  \/ NotifyIMDeactivated
  \/ UpdateCandidateArea

User ==
  \/ ShowPage
  \/ LeavePage
  \/ SelectCandidate
  \/ ToggleIMList
  \/ \E name \in Listable : SetCurrentIM(name)
  \/ PressKey
  \/ ReleaseKey

Fcitx ==
  \/ FcitxStarts
  \/ FcitxRegisters
  \/ FcitxUnregisters
  \/ FcitxEnds
  \/ FcitxSwitches
  \/ FcitxProfileChanges
  \/ FcitxUpdatesCandidates

IMNext == Handle \/ User \/ Fcitx

IMSpec == IMInit /\ [][IMNext]_imVars

-----------------------------------------------------------------------------
(* What must hold.                                                         *)

\* Every variable has its type; currentIM is an entry, whatever name has arrived.
IMTypeOK ==
  /\ fcitx \in [phase : Phases, im : Methods \cup {""}, profile : Profiles]
  /\ bus \in Seq(Messages) /\ Len(bus) <= BusLimit
  /\ backend \in {"null", "valid", "invalid"}
  /\ uniqueName \in Names
  /\ ToSet(currentIMList) \subseteq Listable
  /\ page \in {"none", "hidden", "shown"}
  /\ currentIM \in Listable \cup {NoIM}
  /\ candidates \in BOOLEAN /\ listOpen \in BOOLEAN /\ crashed \in BOOLEAN
  /\ key \in {"none", "wtype", "fcitx", "xdotool"}

\* wylie is keyboard-us for fcitx.
NameAgrees == fcitx.im = FcitxName(uniqueName)

Settled == bus = <<>> /\ fcitx.phase = "registered"

\* Answers overtake notifications, the backend comes and goes, the user and fcitx
\* switch at the same time: once everything has been handled the model has the input
\* method fcitx uses.
NameSettles == Settled /\ fcitx.im # "" => NameAgrees

\* The list is that of the profile once everything has been handled, although changes
\* made while fcitx was away were never announced.
ListSettles == Settled => currentIMList = Entries(fcitx.profile)

\* A registered backend can be called, and only a registered one is, once everything
\* has been handled: a registration handled too late leaves no dead interface behind.
BackendSettles ==
  bus = <<>> => backend = IF fcitx.phase = "registered" THEN "valid" ELSE "null"

\* Only the plain keyboard is bypassed, so that pinyin gets its keys: a key goes past
\* fcitx only when fcitx uses keyboard-us, unless a notification is still on its way.
PinyinGetsItsKeys ==
  [][PressKey /\ key' = "wtype" /\ Settled => fcitx.im \in {"", UsKeyboard}]_imVars

\* The model is prepared for a backend that is not there.
NeverCrashes == ~crashed

\* The entry the keyboard shows as the current input method is the current one.
CurrentIMIsCurrent ==
  Settled /\ page # "none" /\ currentIM # NoIM => currentIM = uniqueName
=============================================================================
