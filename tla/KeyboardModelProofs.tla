------------------------ MODULE KeyboardModelProofs ------------------------
(***************************************************************************)
(* Why the model ends up with what fcitx uses: of all messages that are    *)
(* still waiting only the last of a kind matters, and it tells the truth.  *)
(***************************************************************************)
EXTENDS KeyboardModel, FiniteSetTheorems, TLAPS

\* No message of these kinds waits.
NoneOf(b, kinds) == \A i \in DOMAIN b : b[i].kind \notin kinds

\* The last message of these kinds, if there is one, is good.
LastOf(b, kinds, good) ==
  \A i \in DOMAIN b :
    /\ b[i].kind \in kinds
    /\ \A j \in DOMAIN b : j > i => b[j].kind \notin kinds
    => b[i] \in good

\* The bus holds messages whatever is sent and handled.
LEMMA SeqSteps ==
  ASSUME NEW S
  PROVE  /\ \A b \in Seq(S) : b # <<>> => Head(b) \in S /\ Tail(b) \in Seq(S)
         /\ \A b \in Seq(S), m \in S : Append(b, m) \in Seq(S)
         /\ \A m \in S : <<m>> \in Seq(S) /\ DOMAIN <<m>> = {1} /\ <<m>>[1] = m
  OBVIOUS

\* An empty bus holds no message of any kind.
LEMMA NothingWaits == \A kinds : NoneOf(<<>>, kinds)
  BY DEF NoneOf

\* Handling the first message leaves the last one, or it was the last one.
LEMMA TailLast ==
  ASSUME NEW b \in Seq(Messages), b # <<>>, NEW kinds, NEW good, LastOf(b, kinds, good)
  PROVE  /\ LastOf(Tail(b), kinds, good)
         /\ NoneOf(Tail(b), kinds) /\ Head(b).kind \in kinds => Head(b) \in good
         /\ NoneOf(Tail(b), kinds) /\ Head(b).kind \notin kinds => NoneOf(b, kinds)
<1> DEFINE t == Tail(b)
<1>1. /\ t \in Seq(Messages)
      /\ DOMAIN t = 1..(Len(b) - 1) /\ DOMAIN b = 1..Len(b) /\ Len(b) \in Nat \ {0}
      /\ Head(b) = b[1]
      /\ \A i \in 1..(Len(b) - 1) : t[i] = b[i + 1]
  OBVIOUS
<1>2. LastOf(t, kinds, good)
  <2> SUFFICES ASSUME NEW i \in DOMAIN t, t[i].kind \in kinds,
                      \A j \in DOMAIN t : j > i => t[j].kind \notin kinds
               PROVE  t[i] \in good
    BY DEF LastOf
  <2>1. i + 1 \in DOMAIN b /\ t[i] = b[i + 1]
    BY <1>1
  <2>2. \A j \in DOMAIN b : j > i + 1 => b[j].kind \notin kinds
    <3> TAKE j \in DOMAIN b
    <3> HAVE j > i + 1
    <3>1. j - 1 \in DOMAIN t /\ j - 1 > i /\ t[j - 1] = b[j]
      BY <1>1
    <3> QED BY <3>1
  <2> QED BY <2>1, <2>2 DEF LastOf
<1>3. ASSUME NoneOf(t, kinds) PROVE \A j \in DOMAIN b : j > 1 => b[j].kind \notin kinds
  <2> TAKE j \in DOMAIN b
  <2> HAVE j > 1
  <2>1. j - 1 \in DOMAIN t /\ t[j - 1] = b[j]
    BY <1>1
  <2> QED BY <2>1, <1>3 DEF NoneOf
<1>4. ASSUME NoneOf(t, kinds), Head(b).kind \in kinds PROVE Head(b) \in good
  BY <1>1, <1>3, <1>4 DEF LastOf
<1>5. ASSUME NoneOf(t, kinds), Head(b).kind \notin kinds PROVE NoneOf(b, kinds)
  BY <1>1, <1>3, <1>5 DEF NoneOf
<1> QED BY <1>2, <1>4, <1>5

\* A message that is sent is the last of its kinds, and none of the others.
LEMMA AppendLast ==
  ASSUME NEW b \in Seq(Messages), NEW m \in Messages, NEW kinds, NEW good
  PROVE  /\ m.kind \in kinds => ~NoneOf(Append(b, m), kinds)
         /\ m.kind \in kinds /\ m \in good => LastOf(Append(b, m), kinds, good)
         /\ m.kind \notin kinds /\ LastOf(b, kinds, good) => LastOf(Append(b, m), kinds, good)
         /\ NoneOf(Append(b, m), kinds) => NoneOf(b, kinds)
<1> DEFINE a == Append(b, m)
           n == Len(b) + 1
<1>1. /\ DOMAIN b = 1..Len(b) /\ DOMAIN a = 1..n /\ Len(b) \in Nat
      /\ a[n] = m
      /\ \A i \in 1..Len(b) : a[i] = b[i]
  OBVIOUS
<1> HIDE DEF a
<1>2. m.kind \in kinds => ~NoneOf(a, kinds)
  BY <1>1 DEF NoneOf
<1>3. ASSUME m.kind \in kinds, m \in good PROVE LastOf(a, kinds, good)
  BY <1>1, <1>3 DEF LastOf
<1>4. ASSUME m.kind \notin kinds, LastOf(b, kinds, good) PROVE LastOf(a, kinds, good)
  <2> SUFFICES ASSUME NEW i \in DOMAIN a, a[i].kind \in kinds,
                      \A j \in DOMAIN a : j > i => a[j].kind \notin kinds
               PROVE  a[i] \in good
    BY DEF LastOf
  <2>1. i \in DOMAIN b /\ a[i] = b[i]
    BY <1>1, <1>4
  <2>2. \A j \in DOMAIN b : j > i => b[j].kind \notin kinds
    BY <1>1
  <2> QED BY <2>1, <2>2, <1>4 DEF LastOf
<1>5. NoneOf(a, kinds) => NoneOf(b, kinds)
  BY <1>1 DEF NoneOf
<1> QED BY <1>2, <1>3, <1>4, <1>5 DEF a

-----------------------------------------------------------------------------
(* The inductive invariant.                                                *)

\* After these messages the model has a name, an interface, a list.
Naming == {"registered", "groupsChanged", "activated"}
Presence == {"registered", "unregistered"}
Listing == {"registered", "groupsChanged", "listChanged"}

\* A notification tells the truth when it carries the present name, the others fetch it.
NamingTrue == {m \in Messages : m.kind = "activated" => m.arg = fcitx.im}
PresenceTrue ==
  {m \in Messages : m.kind = IF fcitx.phase = "registered" THEN "registered" ELSE "unregistered"}

BackendAgrees == backend = IF fcitx.phase = "registered" THEN "valid" ELSE "null"

\* What the messages say, as far as the proofs need it.
BusInv ==
  /\ fcitx \in [phase : Phases, im : Methods \cup {""}, profile : Profiles]
  /\ bus \in Seq(Messages)

\* The last message that names an input method is right, or the model is.
NameInv ==
  fcitx.phase = "registered" /\ fcitx.im # "" =>
    /\ LastOf(bus, Naming, NamingTrue)
    /\ NoneOf(bus, Naming) => NameAgrees

\* The last message about the backend is right, or the interface is.
PresenceInv ==
  /\ LastOf(bus, Presence, PresenceTrue)
  /\ NoneOf(bus, Presence) => BackendAgrees

\* Some message makes the model read the profile, or it has read it.
ListInv ==
  fcitx.phase = "registered" /\ NoneOf(bus, Listing) => currentIMList = Entries(fcitx.profile)

IMInv == BusInv /\ NameInv /\ PresenceInv /\ ListInv

-----------------------------------------------------------------------------
(* Each action keeps it.                                                   *)

\* Everything the kinds and their sets unfold to.
USE DEF Naming, Presence, Listing, BackendAgrees

\* The model starts with a message that makes it fetch everything.
LEMMA InitIMInv == ASSUME IMInit PROVE IMInv
<1>1. PICK phase \in {"gone", "running"}, im \in Methods \cup {""}, profile \in Profiles :
        fcitx = [phase |-> phase, im |-> im, profile |-> profile]
  BY DEF IMInit
<1>2. Msg("groupsChanged", "") \in Messages
  BY DEF Msg, Messages
<1>3. bus = <<Msg("groupsChanged", "")>> /\ Msg("groupsChanged", "").kind \notin Presence
  BY DEF IMInit, Msg
<1>4. BusInv
  BY <1>1, <1>2, <1>3, SeqSteps DEF BusInv, Phases
<1>5. DOMAIN bus = {1} /\ bus[1].kind \notin Presence
  BY <1>2, <1>3, SeqSteps
<1>6. PresenceInv
  BY <1>1, <1>5 DEF PresenceInv, LastOf, NoneOf, IMInit
<1>7. fcitx.phase # "registered"
  BY <1>1
<1> QED BY <1>4, <1>6, <1>7 DEF IMInv, NameInv, ListInv

\* Steps that leave fcitx, the bus and what the model knows alone keep it.
LEMMA QuietIMInv ==
  ASSUME IMInv, UNCHANGED <<fcitx, bus, backend, uniqueName, currentIMList>>
  PROVE  IMInv'
  BY DEF IMInv, BusInv, NameInv, PresenceInv, ListInv, NameAgrees, NamingTrue,
         PresenceTrue, LastOf, NoneOf

\* Handling the first message keeps it if the model then has what a last message,
\* which tells the truth, stands for.
LEMMA ReceiveIMInv ==
  ASSUME IMInv, NEW kind, Receive(kind),
         kind \in Presence \/ UNCHANGED backend,
         kind = "registered" /\ fcitx.phase = "registered" => backend' = "valid",
         kind = "unregistered" => backend' = "null",
         kind \in Naming \/ UNCHANGED uniqueName,
         kind \in {"registered", "groupsChanged"} /\ fcitx.phase # "gone"
           => uniqueName' = fcitx.im,
         kind = "activated" => uniqueName' = Head(bus).arg,
         kind \in Listing \/ UNCHANGED currentIMList,
         kind \in Listing => currentIMList' = Entries(fcitx.profile)
  PROVE  IMInv'
<1>1. /\ bus \in Seq(Messages) /\ bus # <<>> /\ Head(bus) \in Messages
      /\ Head(bus).kind = kind /\ bus' = Tail(bus) /\ fcitx' = fcitx
  BY SeqSteps DEF IMInv, BusInv, Receive
<1>2. BusInv'
  BY <1>1, SeqSteps DEF IMInv, BusInv
<1>3. NameInv'
  <2> SUFFICES ASSUME fcitx.phase = "registered", fcitx.im # ""
               PROVE  /\ LastOf(Tail(bus), Naming, NamingTrue)
                      /\ NoneOf(Tail(bus), Naming) => NameAgrees'
    BY <1>1 DEF NameInv, NamingTrue
  <2>1. LastOf(bus, Naming, NamingTrue) /\ (NoneOf(bus, Naming) => NameAgrees)
    BY DEF IMInv, NameInv
  <2>2. /\ LastOf(Tail(bus), Naming, NamingTrue)
        /\ NoneOf(Tail(bus), Naming) /\ kind \in Naming => Head(bus) \in NamingTrue
        /\ NoneOf(Tail(bus), Naming) /\ kind \notin Naming => NoneOf(bus, Naming)
    BY <1>1, <2>1, TailLast
  <2>3. ASSUME NoneOf(Tail(bus), Naming), kind \in Naming PROVE NameAgrees'
    <3>1. uniqueName' = fcitx.im
      BY <1>1, <2>2, <2>3 DEF NamingTrue
    <3>2. fcitx.im \in Methods
      BY DEF IMInv, BusInv
    <3> QED BY <1>1, <3>1, <3>2, MethodsAssumption DEF NameAgrees, FcitxName
  <2>4. ASSUME NoneOf(Tail(bus), Naming), kind \notin Naming PROVE NameAgrees'
    BY <1>1, <2>1, <2>2, <2>4 DEF NameAgrees, FcitxName
  <2> QED BY <2>2, <2>3, <2>4
<1>4. PresenceInv'
  <2>1. LastOf(bus, Presence, PresenceTrue) /\ (NoneOf(bus, Presence) => BackendAgrees)
    BY DEF IMInv, PresenceInv
  <2>2. /\ LastOf(Tail(bus), Presence, PresenceTrue)
        /\ NoneOf(Tail(bus), Presence) /\ kind \in Presence => Head(bus) \in PresenceTrue
        /\ NoneOf(Tail(bus), Presence) /\ kind \notin Presence => NoneOf(bus, Presence)
    BY <1>1, <2>1, TailLast
  <2>3. ASSUME NoneOf(Tail(bus), Presence) PROVE BackendAgrees'
    <3>1. CASE kind \in Presence
      BY <1>1, <2>2, <2>3, <3>1 DEF PresenceTrue
    <3>2. CASE kind \notin Presence
      BY <1>1, <2>1, <2>2, <2>3, <3>2
    <3> QED BY <3>1, <3>2
  <2> QED BY <1>1, <2>2, <2>3 DEF PresenceInv, PresenceTrue
<1>5. ListInv'
  <2> SUFFICES ASSUME fcitx.phase = "registered", NoneOf(Tail(bus), Listing)
               PROVE  currentIMList' = Entries(fcitx.profile)
    BY <1>1 DEF ListInv
  <2>1. kind \notin Listing => NoneOf(bus, Listing)
    <3>1. LastOf(bus, Listing, Messages)
      BY <1>1 DEF LastOf
    <3> QED BY <1>1, <3>1, TailLast
  <2> QED BY <2>1 DEF IMInv, ListInv
<1> QED BY <1>2, <1>3, <1>4, <1>5 DEF IMInv

\* Sending keeps it if the message tells the truth about what changes.
LEMMA SendIMInv ==
  ASSUME IMInv, NEW kind, NEW arg, Msg(kind, arg) \in Messages, Send(kind, arg),
         fcitx' \in [phase : Phases, im : Methods \cup {""}, profile : Profiles],
         UNCHANGED <<backend, currentIMList>>,
         fcitx'.phase = "registered" /\ fcitx'.im # "" =>
           \/ kind \in {"registered", "groupsChanged"}
           \/ kind = "activated" /\ arg = fcitx'.im
           \/ /\ kind \notin Naming
              /\ fcitx.phase = "registered" /\ fcitx'.im = fcitx.im
              /\ UNCHANGED uniqueName,
         \/ kind = "registered" /\ fcitx'.phase = "registered"
         \/ kind = "unregistered" /\ fcitx'.phase # "registered"
         \/ kind \notin Presence /\ fcitx'.phase = fcitx.phase,
         fcitx'.phase = "registered" =>
           \/ kind \in Listing
           \/ fcitx.phase = "registered" /\ fcitx'.profile = fcitx.profile
  PROVE  IMInv'
<1> DEFINE m == Msg(kind, arg)
<1>1. /\ bus \in Seq(Messages) /\ bus' = Append(bus, m)
      /\ m \in Messages /\ m.kind = kind /\ m.arg = arg
  BY DEF IMInv, BusInv, Send, Msg
<1> HIDE DEF m
<1>2. BusInv'
  BY <1>1, SeqSteps DEF BusInv
<1>3. NameInv'
  <2> SUFFICES ASSUME fcitx'.phase = "registered", fcitx'.im # ""
               PROVE  /\ LastOf(Append(bus, m), Naming, NamingTrue')
                      /\ NoneOf(Append(bus, m), Naming) => NameAgrees'
    BY <1>1 DEF NameInv
  <2>1. CASE kind \in Naming
    <3>1. m \in NamingTrue'
      BY <1>1, <2>1 DEF NamingTrue
    <3>2. LastOf(Append(bus, m), Naming, NamingTrue') /\ ~NoneOf(Append(bus, m), Naming)
      BY <1>1, <2>1, <3>1, AppendLast
    <3> QED BY <3>2
  <2>2. CASE kind \notin Naming
    <3>1. /\ fcitx.phase = "registered" /\ fcitx'.im = fcitx.im
          /\ uniqueName' = uniqueName
      BY <2>2
    <3>2. LastOf(bus, Naming, NamingTrue) /\ (NoneOf(bus, Naming) => NameAgrees)
      BY <3>1 DEF IMInv, NameInv
    <3>3. NamingTrue' = NamingTrue
      BY <3>1 DEF NamingTrue
    <3>4. /\ LastOf(Append(bus, m), Naming, NamingTrue)
          /\ NoneOf(Append(bus, m), Naming) => NoneOf(bus, Naming)
      BY <1>1, <2>2, <3>2, AppendLast
    <3> QED BY <3>1, <3>2, <3>3, <3>4 DEF NameAgrees, FcitxName
  <2> QED BY <2>1, <2>2
<1>4. PresenceInv'
  <2>1. CASE kind \in Presence
    <3>1. m \in PresenceTrue'
      BY <1>1, <2>1 DEF PresenceTrue
    <3>2. LastOf(Append(bus, m), Presence, PresenceTrue') /\ ~NoneOf(Append(bus, m), Presence)
      BY <1>1, <2>1, <3>1, AppendLast
    <3> QED BY <1>1, <3>2 DEF PresenceInv
  <2>2. CASE kind \notin Presence
    <3>1. PresenceTrue' = PresenceTrue /\ BackendAgrees' = BackendAgrees
      BY <2>2 DEF PresenceTrue
    <3>2. LastOf(bus, Presence, PresenceTrue) /\ (NoneOf(bus, Presence) => BackendAgrees)
      BY DEF IMInv, PresenceInv
    <3>3. /\ LastOf(Append(bus, m), Presence, PresenceTrue)
          /\ NoneOf(Append(bus, m), Presence) => NoneOf(bus, Presence)
      BY <1>1, <2>2, <3>2, AppendLast
    <3> QED BY <1>1, <3>1, <3>2, <3>3 DEF PresenceInv
  <2> QED BY <2>1, <2>2
<1>5. ListInv'
  <2>1. kind \in Listing => ~NoneOf(Append(bus, m), Listing)
    BY <1>1, AppendLast
  <2>2. NoneOf(Append(bus, m), Listing) => NoneOf(bus, Listing)
    BY <1>1, AppendLast
  <2> QED BY <1>1, <2>1, <2>2 DEF IMInv, ListInv
<1> QED BY <1>2, <1>3, <1>4, <1>5 DEF IMInv

\* While no backend is registered fcitx may change as it likes without a message.
LEMMA SilentIMInv ==
  ASSUME IMInv, UNCHANGED <<bus, backend>>,
         fcitx' \in [phase : Phases, im : Methods \cup {""}, profile : Profiles],
         fcitx.phase # "registered", fcitx'.phase # "registered"
  PROVE  IMInv'
<1>1. PresenceTrue' = PresenceTrue
  BY DEF PresenceTrue
<1>2. PresenceInv'
  BY <1>1 DEF IMInv, PresenceInv, LastOf, NoneOf
<1> QED BY <1>2 DEF IMInv, BusInv, NameInv, ListInv

-----------------------------------------------------------------------------
(* The actions.                                                            *)

\* What the program handles
LEMMA HandleIMInv == ASSUME IMInv, Handle PROVE IMInv'
<1> USE DEF SyncFcitxInputMethodState, SyncUniqueName, SetUniqueName, modelVars, qmlVars
<1>1. CASE BackendServiceRegistered
  <2>1. /\ Receive("registered") /\ (fcitx.phase = "registered" => backend' = "valid")
        /\ fcitx.phase # "gone" => uniqueName' = fcitx.im
        /\ currentIMList' = Entries(fcitx.profile)
    BY <1>1 DEF BackendServiceRegistered
  <2> QED BY <2>1, ReceiveIMInv
<1>2. CASE BackendServiceUnregistered
  <2>1. /\ Receive("unregistered") /\ backend' = "null"
        /\ UNCHANGED <<uniqueName, currentIMList>>
    BY <1>2 DEF BackendServiceUnregistered
  <2> QED BY <2>1, ReceiveIMInv
<1>3. CASE InputMethodGroupsChanged
  <2>1. /\ Receive("groupsChanged") /\ UNCHANGED backend
        /\ fcitx.phase # "gone" => uniqueName' = fcitx.im
        /\ currentIMList' = Entries(fcitx.profile)
    BY <1>3 DEF InputMethodGroupsChanged
  <2> QED BY <2>1, ReceiveIMInv
<1>4. CASE NotifyIMListChanged
  <2>1. /\ Receive("listChanged") /\ UNCHANGED <<backend, uniqueName>>
        /\ currentIMList' = Entries(fcitx.profile)
    BY <1>4 DEF NotifyIMListChanged
  <2> QED BY <2>1, ReceiveIMInv
<1>5. CASE NotifyIMActivated
  <2>1. /\ Receive("activated") /\ UNCHANGED <<backend, currentIMList>>
        /\ uniqueName' = Head(bus).arg
    BY <1>5 DEF NotifyIMActivated
  <2> QED BY <2>1, ReceiveIMInv
<1>6. CASE NotifyIMDeactivated
  <2>1. Receive("deactivated") /\ UNCHANGED <<backend, uniqueName, currentIMList>>
    BY <1>6 DEF NotifyIMDeactivated
  <2> QED BY <2>1, ReceiveIMInv
<1>7. CASE UpdateCandidateArea
  <2>1. Receive("candidates") /\ UNCHANGED <<backend, uniqueName, currentIMList>>
    BY <1>7 DEF UpdateCandidateArea
  <2> QED BY <2>1, ReceiveIMInv
<1> QED BY <1>1, <1>2, <1>3, <1>4, <1>5, <1>6, <1>7 DEF Handle

\* A pick of an input method tells fcitx first; its answer and its notification agree.
LEMMA SetCurrentIMIMInv ==
  ASSUME IMInv, NEW name, SetCurrentIM(name) PROVE IMInv'
<1>1. /\ UNCHANGED <<backend, currentIMList>>
      /\ fcitx \in [phase : Phases, im : Methods \cup {""}, profile : Profiles]
  BY DEF SetCurrentIM, IMInv, BusInv
<1>2. CASE fcitx.phase = "gone"
  <2>1. UNCHANGED <<fcitx, bus, uniqueName>>
    BY <1>2 DEF SetCurrentIM
  <2> QED BY <1>1, <2>1, QuietIMInv
<1>3. CASE fcitx.phase # "gone"
  <2>1. /\ Len(bus) < BusLimit
        /\ fcitx' = [fcitx EXCEPT !.im = Switched(name)]
        /\ bus' = IF fcitx.phase = "registered" /\ fcitx'.im # fcitx.im
                  THEN Append(bus, Msg("activated", fcitx'.im)) ELSE bus
        /\ uniqueName' = IF name = Wylie THEN Wylie ELSE fcitx'.im
    BY <1>3 DEF SetCurrentIM, SetUniqueName
  <2>2. Switched(name) \in Methods \cup {""}
    BY <1>1 DEF Switched
  <2>3. /\ fcitx' \in [phase : Phases, im : Methods \cup {""}, profile : Profiles]
        /\ fcitx'.phase = fcitx.phase /\ fcitx'.profile = fcitx.profile
        /\ fcitx'.im = Switched(name)
    BY <1>1, <2>1, <2>2
  <2>4. CASE fcitx.phase # "registered"
    BY <1>1, <2>1, <2>3, <2>4, SilentIMInv
  <2>5. CASE fcitx.phase = "registered" /\ fcitx'.im # fcitx.im
    <3>1. Msg("activated", fcitx'.im) \in Messages /\ Send("activated", fcitx'.im)
      BY <2>1, <2>2, <2>3, <2>5 DEF Msg, Messages, Send
    <3> QED BY <1>1, <2>3, <2>5, <3>1, SendIMInv
  <2>6. CASE fcitx.phase = "registered" /\ fcitx'.im = fcitx.im
    <3>1. fcitx' = fcitx /\ bus' = bus
      BY <1>1, <2>1, <2>6
    <3>2. NameAgrees'
      <4>1. CASE name = Wylie
        BY <2>1, <2>3, <4>1, MethodsAssumption DEF NameAgrees, FcitxName, Switched
      <4>2. CASE name # Wylie
        <5>1. fcitx'.im # Wylie
          BY <2>2, <2>3, MethodsAssumption DEF Wylie
        <5> QED BY <2>1, <4>2, <5>1 DEF NameAgrees, FcitxName
      <4> QED BY <4>1, <4>2
    <3>3. NameInv'
      BY <3>1, <3>2 DEF IMInv, NameInv, NamingTrue, LastOf
    <3>4. BusInv' /\ PresenceInv' /\ ListInv'
      BY <1>1, <3>1 DEF IMInv, BusInv, PresenceInv, ListInv, PresenceTrue, LastOf, NoneOf
    <3> QED BY <3>3, <3>4 DEF IMInv
  <2> QED BY <2>4, <2>5, <2>6
<1> QED BY <1>2, <1>3

\* What the user does to the page does not touch what the model knows.
LEMMA UserIMInv == ASSUME IMInv, User PROVE IMInv'
<1>1. CASE \E name \in Listable : SetCurrentIM(name)
  BY <1>1, SetCurrentIMIMInv
<1>2. CASE \/ ShowPage \/ LeavePage \/ SelectCandidate \/ ToggleIMList
           \/ PressKey \/ ReleaseKey
  <2>1. UNCHANGED <<fcitx, bus, backend, uniqueName, currentIMList>>
    BY <1>2 DEF ShowPage, LeavePage, SelectCandidate, ToggleIMList, PressKey, ReleaseKey,
                modelVars, qmlVars
  <2> QED BY <2>1, QuietIMInv
<1> QED BY <1>1, <1>2 DEF User

\* What fcitx does: it is silent, or it says what has changed.
LEMMA FcitxIMInv == ASSUME IMInv, Fcitx PROVE IMInv'
<1> DEFINE Types == [phase : Phases, im : Methods \cup {""}, profile : Profiles]
<1>1. /\ UNCHANGED <<backend, uniqueName, currentIMList>>
      /\ fcitx \in Types
  BY DEF Fcitx, FcitxStarts, FcitxRegisters, FcitxUnregisters, FcitxEnds, FcitxSwitches,
         FcitxProfileChanges, FcitxUpdatesCandidates, FcitxOnly, modelVars, IMInv, BusInv
<1>2. \A kind \in {"registered", "unregistered", "groupsChanged", "listChanged",
                   "activated", "deactivated", "candidates"},
        arg \in Methods \cup {"", "some"} : Msg(kind, arg) \in Messages
  BY DEF Msg, Messages
<1>3. CASE FcitxStarts
  <2>1. /\ fcitx.phase = "gone" /\ bus' = bus
        /\ fcitx' \in Types /\ fcitx'.phase = "running"
    BY <1>1, <1>3 DEF FcitxStarts, Phases
  <2> QED BY <1>1, <2>1, SilentIMInv
<1>4. CASE FcitxEnds
  <2>1. /\ fcitx.phase = "running" /\ bus' = bus
        /\ fcitx' \in Types /\ fcitx'.phase = "gone"
    BY <1>1, <1>4 DEF FcitxEnds, Phases
  <2> QED BY <1>1, <2>1, SilentIMInv
<1>5. CASE FcitxRegisters
  <2>1. /\ Send("registered", "") /\ Msg("registered", "") \in Messages
        /\ fcitx' \in Types /\ fcitx'.phase = "registered"
    BY <1>1, <1>2, <1>5 DEF FcitxRegisters, Phases
  <2> QED BY <1>1, <2>1, SendIMInv
<1>6. CASE FcitxUnregisters
  <2>1. /\ Send("unregistered", "") /\ Msg("unregistered", "") \in Messages
        /\ fcitx' \in Types /\ fcitx'.phase # "registered"
    BY <1>1, <1>2, <1>6 DEF FcitxUnregisters, Phases
  <2> QED BY <1>1, <2>1, SendIMInv
<1>7. CASE FcitxSwitches
  <2>1. PICK im \in (Methods \cup {""}) \ {fcitx.im} :
          /\ fcitx' = [fcitx EXCEPT !.im = im]
          /\ \/ fcitx.phase = "running" /\ UNCHANGED bus
             \/ fcitx.phase = "registered" /\ im # "" /\ Send("activated", im)
             \/ fcitx.phase = "registered" /\ im = "" /\ Send("deactivated", fcitx.im)
    BY <1>7 DEF FcitxSwitches
  <2>2. /\ fcitx' \in Types /\ fcitx'.phase = fcitx.phase /\ fcitx'.im = im
        /\ fcitx'.profile = fcitx.profile
    BY <1>1, <2>1
  <2>3. CASE fcitx.phase = "running" /\ UNCHANGED bus
    BY <1>1, <2>2, <2>3, SilentIMInv
  <2>4. CASE fcitx.phase = "registered" /\ im # "" /\ Send("activated", im)
    <3>1. Msg("activated", im) \in Messages
      BY <1>2
    <3> QED BY <1>1, <2>2, <2>4, <3>1, SendIMInv
  <2>5. CASE fcitx.phase = "registered" /\ im = "" /\ Send("deactivated", fcitx.im)
    <3>1. Msg("deactivated", fcitx.im) \in Messages
      BY <1>1, <1>2
    <3> QED BY <1>1, <2>2, <2>5, <3>1, SendIMInv
  <2> QED BY <2>1, <2>3, <2>4, <2>5
<1>8. CASE FcitxProfileChanges
  <2>1. PICK profile \in Profiles : fcitx' = [fcitx EXCEPT !.profile = profile]
    BY <1>8 DEF FcitxProfileChanges
  <2>2. /\ fcitx' \in Types /\ fcitx'.phase = fcitx.phase /\ fcitx'.im = fcitx.im
    BY <1>1, <2>1
  <2>3. CASE fcitx.phase = "gone" /\ UNCHANGED bus
    BY <1>1, <2>2, <2>3, SilentIMInv
  <2>4. CASE fcitx.phase # "gone" /\ Send("groupsChanged", "")
    <3>1. Msg("groupsChanged", "") \in Messages
      BY <1>2
    <3> QED BY <1>1, <2>2, <2>4, <3>1, SendIMInv
  <2>5. CASE fcitx.phase = "registered" /\ Send("listChanged", "")
    <3>1. Msg("listChanged", "") \in Messages
      BY <1>2
    <3> QED BY <1>1, <2>2, <2>5, <3>1, SendIMInv
  <2> QED BY <1>8, <2>3, <2>4, <2>5 DEF FcitxProfileChanges
<1>9. CASE FcitxUpdatesCandidates
  <2>1. PICK arg \in {"some", ""} : Send("candidates", arg)
    BY <1>9 DEF FcitxUpdatesCandidates
  <2>2. Msg("candidates", arg) \in Messages /\ fcitx' = fcitx
    BY <1>2, <1>9 DEF FcitxUpdatesCandidates
  <2> QED BY <1>1, <2>1, <2>2, SendIMInv
<1> QED BY <1>3, <1>4, <1>5, <1>6, <1>7, <1>8, <1>9 DEF Fcitx

-----------------------------------------------------------------------------
(* The theorems.                                                           *)

\* The strengthened invariant holds in every reachable state: of the messages still
\* waiting, the last that names an input method, and the last about the backend, tell
\* the truth.
THEOREM IMInvInvariant == IMSpec => []IMInv
<1>1. IMInit => IMInv
  BY InitIMInv
<1>2. IMInv /\ [IMNext]_imVars => IMInv'
  <2>1. ASSUME IMInv, UNCHANGED imVars PROVE IMInv'
    BY <2>1, QuietIMInv DEF imVars, modelVars
  <2> QED BY <2>1, HandleIMInv, UserIMInv, FcitxIMInv DEF IMNext
<1> QED BY <1>1, <1>2, PTL DEF IMSpec

\* Without messages the model has the name, by the strengthened invariant.
LEMMA SettledName ==
  ASSUME IMInv, Settled, fcitx.im # "" PROVE fcitx.im = FcitxName(uniqueName)
<1>1. NoneOf(bus, Naming)
  BY NothingWaits DEF Settled
<1>2. NoneOf(bus, Naming) => NameAgrees
  BY DEF IMInv, NameInv, Settled
<1> QED BY <1>1, <1>2 DEF NameAgrees

\* Once nothing waits, the model has the input method of fcitx, whatever answers have
\* overtaken (syncUniqueName, notifyIMActivated, setCurrentIM).
THEOREM NameIsRight == IMSpec => []NameSettles
<1>1. IMInv => NameSettles
  BY SettledName DEF NameSettles, NameAgrees
<1> QED BY <1>1, IMInvInvariant, PTL

\* Once nothing waits, the list is that of the profile (syncCurrentIMList).
THEOREM ListIsRight == IMSpec => []ListSettles
<1>1. IMInv => ListSettles
  BY NothingWaits DEF IMInv, ListInv, ListSettles, Settled
<1> QED BY <1>1, IMInvInvariant, PTL

\* Once nothing waits, there is an interface exactly if a backend is registered, and it
\* can be called (backendServiceRegistered, backendServiceUnregistered).
THEOREM BackendIsRight == IMSpec => []BackendSettles
<1>1. IMInv => BackendSettles
  BY NothingWaits DEF IMInv, PresenceInv, BackendSettles
<1> QED BY <1>1, IMInvInvariant, PTL

\* A key goes past fcitx only when fcitx uses the plain keyboard
\* (shouldBypassFcitxForWaylandTextInput), for every set of input methods.
THEOREM OnlyPlainKeysBypass == IMSpec => PinyinGetsItsKeys
<1>1. IMInv /\ [IMNext]_imVars
        => [PressKey /\ key' = "wtype" /\ Settled => fcitx.im \in {"", UsKeyboard}]_imVars
  <2> SUFFICES ASSUME IMInv, PressKey, key' = "wtype", Settled, fcitx.im # ""
               PROVE  fcitx.im = UsKeyboard
    OBVIOUS
  <2>1. fcitx.im = FcitxName(uniqueName)
    BY SettledName
  <2>2. uniqueName \in {"", UsKeyboard}
    BY DEF PressKey, Bypass
  <2> QED BY <2>1, <2>2 DEF FcitxName
<1> QED BY <1>1, IMInvInvariant, PTL DEF IMSpec, PinyinGetsItsKeys

-----------------------------------------------------------------------------
(* The folds of the list, by induction on the numbers up to a bound: the   *)
(* intervals from a number up to the bound are finite sets, on which       *)
(* inclusion is well founded.                                              *)

\* A set of numbers up to n that is not empty has a greatest one: the intervals from its
\* members up to n are finite sets, and inclusion of those is well founded.
LEMMA GreatestOf ==
  ASSUME NEW n \in Nat, NEW D, D \subseteq 1..n, D # {}
  PROVE  Max(D) \in D /\ \A i \in D : i <= Max(D)
<1> DEFINE T == {i..n : i \in D}
           R == StrictSubsetOrdering(1..n)
<1>1. T \subseteq FiniteSubsetsOf(1..n) /\ T # {}
  <2>1. \A i \in D : i..n \subseteq 1..n /\ IsFiniteSet(i..n)
    BY FS_Interval
  <2> QED BY <2>1 DEF FiniteSubsetsOf
<1>2. IsWellFoundedOn(R, FiniteSubsetsOf(1..n))
  BY FS_StrictSubsetOrderingWellFounded
<1>3. \E x \in T : \A y \in T : <<y, x>> \notin R
  <2> HIDE DEF T, R
  <2> QED BY <1>1, <1>2, WFMin, Zenon
<1>4. PICK m \in D : \A i \in D : <<i..n, m..n>> \notin R
  BY <1>3
<1>5. \A i \in D : i <= m
  <2> SUFFICES ASSUME NEW i \in D, i > m PROVE FALSE
    OBVIOUS
  <2>1. i..n \subseteq m..n /\ m \in m..n /\ m \notin i..n
    OBVIOUS
  <2>2. i..n \in SUBSET (1..n) /\ m..n \in SUBSET (1..n)
    OBVIOUS
  <2>3. <<i..n, m..n>> \in R
    BY <2>1, <2>2 DEF StrictSubsetOrdering
  <2> QED BY <1>4, <2>3
<1> QED BY <1>5 DEF Max

\* Hence the first number without a property that is not had by all.
LEMMA FirstOf ==
  ASSUME NEW n \in Nat, NEW D, D \subseteq 0..n, D # {}
  PROVE  \E m \in D : \A i \in 0..n : i < m => i \notin D
<1> DEFINE E == {(n + 1) - i : i \in D}
<1>1. E \subseteq 1..(n + 1) /\ E # {}
  <2>1. \A i \in D : (n + 1) - i \in 1..(n + 1)
    OBVIOUS
  <2> QED BY <2>1
<1>2. n + 1 \in Nat
  OBVIOUS
<1>3. Max(E) \in E /\ \A i \in E : i <= Max(E)
  <2> HIDE DEF E
  <2> QED BY <1>1, <1>2, GreatestOf, Zenon
<1>4. PICK m \in D : Max(E) = (n + 1) - m
  BY <1>3
<1>5. \A i \in D : (n + 1) - i <= (n + 1) - m
  BY <1>3, <1>4
<1> QED BY <1>5

\* The numbers up to k, and without k.
LEMMA PrefixOf ==
  ASSUME NEW n \in Nat, NEW k \in 1..n
  PROVE  1..k \in SUBSET (1..n) /\ 1..k # {} /\ (1..k) \ {k} = 1..(k - 1)
<1>1. k \in 1..k
  OBVIOUS
<1>2. (1..k) \ {k} = 1..(k - 1)
  OBVIOUS
<1>3. 1..k \subseteq 1..n
  OBVIOUS
<1> QED BY <1>1, <1>2, <1>3

\* Induction up to n, for a set of numbers.
LEMMA UpTo ==
  ASSUME NEW n \in Nat, NEW T, 0 \in T, \A k \in 1..n : k - 1 \in T => k \in T
  PROVE  0..n \subseteq T
<1> DEFINE D == {k \in 0..n : k \notin T}
<1> SUFFICES ASSUME D # {} PROVE FALSE
  OBVIOUS
<1>1. PICK k \in D : \A i \in 0..n : i < k => i \notin D
  <2> HIDE DEF D
  <2>1. D \subseteq 0..n
    BY DEF D
  <2> QED BY <2>1, FirstOf
<1>2. k # 0 /\ k - 1 \in 0..n /\ k \in 1..n
  OBVIOUS
<1>3. k - 1 \in T
  BY <1>1, <1>2
<1> QED BY <1>2, <1>3

\* iter has what a fold of F makes of every set of numbers up to k, from the least on.
Folds(iter, k, V, base, F) ==
  /\ iter \in [SUBSET (1..k) -> V]
  /\ \A s \in SUBSET (1..k) :
       iter[s] = IF s = {} THEN base ELSE F[Max(s), iter[s \ {Max(s)}]]

\* There is such a function, by induction on k.
LEMMA FoldExists ==
  ASSUME NEW n \in Nat, NEW V, NEW base \in V, NEW F \in [(1..n) \X V -> V]
  PROVE  \E iter : Folds(iter, n, V, base, F)
<1> DEFINE T == {k \in 0..n : \E iter : Folds(iter, k, V, base, F)}
<1>1. 0 \in T
  <2> DEFINE it == [s \in SUBSET (1..0) |-> base]
  <2>1. SUBSET (1..0) = {{}}
    OBVIOUS
  <2>2. Folds(it, 0, V, base, F)
    BY <2>1 DEF Folds
  <2> QED BY <2>2
<1>2. ASSUME NEW k \in 1..n, k - 1 \in T PROVE k \in T
  <2>2. PICK old : Folds(old, k - 1, V, base, F)
    BY <1>2
  <2> DEFINE it == [s \in SUBSET (1..k) |-> IF k \in s THEN F[k, old[s \ {k}]] ELSE old[s]]
  <2>3. \A s \in SUBSET (1..k) : s \ {k} \in SUBSET (1..(k-1)) /\ (k \notin s => s \in SUBSET (1..(k-1)))
    OBVIOUS
  <2>4. it \in [SUBSET (1..k) -> V]
    <3> SUFFICES ASSUME NEW s \in SUBSET (1..k)
                 PROVE  (IF k \in s THEN F[k, old[s \ {k}]] ELSE old[s]) \in V
      OBVIOUS
    <3>1. s \ {k} \in SUBSET (1..(k - 1)) /\ (k \notin s => s \in SUBSET (1..(k - 1)))
      BY <2>3
    <3>2. old[s \ {k}] \in V /\ (k \notin s => old[s] \in V)
      BY <2>2, <3>1 DEF Folds
    <3> QED BY <3>2
  <2>5. ASSUME NEW s \in SUBSET (1..k)
        PROVE it[s] = IF s = {} THEN base ELSE F[Max(s), it[s \ {Max(s)}]]
    <3>1. CASE k \in s
      <4>1. Max(s) = k
        <5>1. k \in Nat /\ s \subseteq 1..k /\ s # {}
          BY <3>1
        <5>2. Max(s) \in s /\ \A i \in s : i <= Max(s)
          BY <5>1, GreatestOf, Zenon
        <5>3. Max(s) \in 1..k /\ k <= Max(s)
          BY <5>2, <3>1
        <5> QED BY <5>3
      <4>2. it[s \ {k}] = old[s \ {k}]
        BY <2>3
      <4> QED BY <4>1, <4>2, <3>1
    <3>2. CASE k \notin s
      <4>1. it[s] = old[s] /\ s \in SUBSET (1..(k-1))
        BY <3>2, <2>3
      <4>2. CASE s = {}
        BY <4>1, <4>2, <2>2 DEF Folds
      <4>3. CASE s # {}
        <5>1. s \ {Max(s)} \in SUBSET (1..(k-1)) /\ k \notin s \ {Max(s)}
          BY <4>1, <3>2
        <5>2. it[s \ {Max(s)}] = old[s \ {Max(s)}]
          BY <5>1
        <5> QED BY <4>1, <4>3, <5>2, <2>2 DEF Folds
      <4> QED BY <4>2, <4>3
    <3> QED BY <3>1, <3>2
  <2>6. Folds(it, k, V, base, F)
    <3> HIDE DEF it
    <3> QED BY <2>4, <2>5 DEF Folds
  <2>7. \E iter : Folds(iter, k, V, base, F)
    <3> HIDE DEF it
    <3> QED BY <2>6
  <2> QED BY <2>7
<1>3. n \in 0..n
  OBVIOUS
<1> HIDE DEF T
<1>4. n \in T
  BY <1>1, <1>2, <1>3, UpTo, Zenon
<1> QED BY <1>4 DEF T


\* One step of the folds of LayoutsOf and Entries.
LayoutStep(list, im) ==
  IF im \in Layouts /\ ~Contains(list, im) THEN Append(list, im) ELSE list
EntryStep(list, im) == list \o IF im = UsKeyboard THEN <<im, Wylie>> ELSE <<im>>

\* The sequences a fold over p goes through, from the empty one.
Stages(it, p, V) ==
  /\ it \in [0..Len(p) -> V]
  /\ it[0] = <<>>

\* syncCurrentIMList goes through the profile from left to right.
LEMMA LayoutStages ==
  ASSUME NEW p \in Seq(Methods)
  PROVE  \E it : /\ Stages(it, p, Seq(Layouts))
                 /\ \A k \in 1..Len(p) : it[k] = LayoutStep(it[k - 1], p[k])
                 /\ LayoutsOf(p) = it[Len(p)]
<1> DEFINE n == Len(p)
           V == Seq(Layouts)
           F == [x \in (1..n) \X V |-> LayoutStep(x[2], p[x[1]])]
           Is(f) == f = [s \in SUBSET (1..n) |->
                           IF s = {} THEN <<>>
                           ELSE LayoutStep(f[s \ {Max(s)}], p[Max(s)])]
<1>1. n \in Nat /\ DOMAIN p = 1..n /\ <<>> \in V
  OBVIOUS
<1>2. ASSUME NEW k \in 1..n, NEW v \in V PROVE LayoutStep(v, p[k]) \in V
  BY <1>1 DEF LayoutStep
<1>3. F \in [(1..n) \X V -> V]
  <2> HIDE DEF V
  <2> QED BY <1>2
<1>4. PICK iter : Folds(iter, n, V, <<>>, F)
  <2> HIDE DEF V, F
  <2> QED BY <1>1, <1>3, FoldExists, Zenon
<1>5. ASSUME NEW s \in SUBSET (1..n), s # {}
      PROVE  Max(s) \in s /\ s \ {Max(s)} \in SUBSET (1..n)
  <2>1. Max(s) \in s
    <3> HIDE DEF n
    <3> QED BY <1>1, <1>5, GreatestOf, Zenon
  <2> QED BY <2>1
<1>6. Is(iter)
  <2>1. iter = [s \in SUBSET (1..n) |-> iter[s]]
    BY <1>4 DEF Folds
  <2>2. ASSUME NEW s \in SUBSET (1..n)
        PROVE  iter[s] = IF s = {} THEN <<>>
                         ELSE LayoutStep(iter[s \ {Max(s)}], p[Max(s)])
    <3>1. CASE s = {}
      BY <1>4, <3>1 DEF Folds
    <3>2. CASE s # {}
      <4>1. Max(s) \in 1..n /\ iter[s \ {Max(s)}] \in V
        BY <1>4, <1>5, <3>2 DEF Folds
      <4>2. iter[s] = F[Max(s), iter[s \ {Max(s)}]]
        BY <1>4, <3>2 DEF Folds
      <4> HIDE DEF V
      <4> QED BY <4>1, <4>2, <3>2
    <3> QED BY <3>1, <3>2
  <2> HIDE DEF n
  <2> QED BY <2>1, <2>2, Zenon
<1> DEFINE fold == CHOOSE f : Is(f)
<1>7. Is(fold)
  <2> HIDE DEF Is
  <2> QED BY <1>6
<1>8. LayoutsOf(p) = fold[1..n]
  BY <1>1 DEF LayoutsOf, FoldLeft, MapThenFoldSet, LayoutStep
<1> HIDE DEF fold
<1>9. ASSUME NEW k \in 1..n PROVE fold[1..k] = LayoutStep(fold[1..(k - 1)], p[k])
  <2>1. 1..k \in SUBSET (1..n) /\ 1..k # {} /\ (1..k) \ {k} = 1..(k - 1)
    <3> HIDE DEF n
    <3> QED BY <1>1, PrefixOf, Zenon
  <2>2. Max(1..k) \in 1..k /\ \A i \in 1..k : i <= Max(1..k)
    <3>1. k \in Nat /\ 1..k \subseteq 1..k
      BY <1>1
    <3> QED BY <2>1, <3>1, GreatestOf, Zenon
  <2>3. Max(1..k) = k
    BY <1>1, <2>2
  <2> HIDE DEF n
  <2> QED BY <1>7, <2>1, <2>3
<1> DEFINE it == [k \in 0..n |-> fold[1..k]]
           T == {k \in 0..n : it[k] \in V}
<1>10. it[0] = <<>>
  <2>1. 1..0 = {} /\ {} \in SUBSET (1..n) /\ 0 \in 0..n
    BY <1>1
  <2> HIDE DEF n
  <2> QED BY <1>7, <2>1
<1>11. ASSUME NEW k \in 1..n PROVE it[k] = LayoutStep(it[k - 1], p[k])
  <2>1. k \in 0..n /\ k - 1 \in 0..n
    BY <1>1
  <2> HIDE DEF n
  <2> QED BY <1>9, <2>1
<1> HIDE DEF it
<1>12. 0..n \subseteq T
  <2>1. 0 \in T
    <3>1. 0 \in 0..n
      BY <1>1
    <3> HIDE DEF n, V
    <3> QED BY <1>1, <1>10, <3>1
  <2>2. ASSUME NEW k \in 1..n, k - 1 \in T PROVE k \in T
    <3>1. k \in 0..n /\ it[k - 1] \in V
      BY <1>1, <2>2
    <3> HIDE DEF V, n
    <3> QED BY <1>2, <1>11, <3>1
  <2> HIDE DEF T, V, n
  <2> QED BY <1>1, <2>1, <2>2, UpTo
<1>13. it \in [0..n -> V] /\ it[n] = fold[1..n]
  BY <1>1, <1>12 DEF it
<1> QED BY <1>8, <1>10, <1>11, <1>13 DEF Stages

\* What the list may hold.
Listed == Layouts \cup ToSet(DefaultIMs) \cup {Wylie}

\* An entry is added to a list of names.
LEMMA EntryStepTyped ==
  ASSUME NEW list \in Seq(Listed), NEW im \in Listed
  PROVE  EntryStep(list, im) \in Seq(Listed)
<1>1. <<im, Wylie>> \in Seq(Listed) /\ <<im>> \in Seq(Listed)
  BY DEF Listed
<1> HIDE DEF Listed
<1> QED BY <1>1 DEF EntryStep

\* Then through what it lists.
LEMMA EntryStages ==
  ASSUME NEW q \in Seq(Listed),
         NEW p, q = IF LayoutsOf(p) = <<>> THEN DefaultIMs ELSE LayoutsOf(p)
  PROVE  \E it : /\ Stages(it, q, Seq(Listed))
                 /\ \A k \in 1..Len(q) : it[k] = EntryStep(it[k - 1], q[k])
                 /\ Entries(p) = it[Len(q)]
<1> DEFINE n == Len(q)
           V == Seq(Listed)
           F == [x \in (1..n) \X V |-> EntryStep(x[2], q[x[1]])]
           Is(f) == f = [s \in SUBSET (1..n) |->
                           IF s = {} THEN <<>>
                           ELSE EntryStep(f[s \ {Max(s)}], q[Max(s)])]
<1>1. n \in Nat /\ DOMAIN q = 1..n /\ <<>> \in V
  OBVIOUS
<1>2. ASSUME NEW k \in 1..n, NEW v \in V PROVE EntryStep(v, q[k]) \in V
  <2>1. q[k] \in Listed
    BY <1>1
  <2> QED BY <2>1, EntryStepTyped
<1>3. F \in [(1..n) \X V -> V]
  <2> HIDE DEF V
  <2> QED BY <1>2
<1>4. PICK iter : Folds(iter, n, V, <<>>, F)
  <2> HIDE DEF V, F
  <2> QED BY <1>1, <1>3, FoldExists, Zenon
<1>5. ASSUME NEW s \in SUBSET (1..n), s # {}
      PROVE  Max(s) \in s /\ s \ {Max(s)} \in SUBSET (1..n)
  <2>1. Max(s) \in s
    <3> HIDE DEF n
    <3> QED BY <1>1, <1>5, GreatestOf, Zenon
  <2> QED BY <2>1
<1>6. Is(iter)
  <2>1. iter = [s \in SUBSET (1..n) |-> iter[s]]
    BY <1>4 DEF Folds
  <2>2. ASSUME NEW s \in SUBSET (1..n)
        PROVE  iter[s] = IF s = {} THEN <<>>
                         ELSE EntryStep(iter[s \ {Max(s)}], q[Max(s)])
    <3>1. CASE s = {}
      BY <1>4, <3>1 DEF Folds
    <3>2. CASE s # {}
      <4>1. Max(s) \in 1..n /\ iter[s \ {Max(s)}] \in V
        BY <1>4, <1>5, <3>2 DEF Folds
      <4>2. iter[s] = F[Max(s), iter[s \ {Max(s)}]]
        BY <1>4, <3>2 DEF Folds
      <4> HIDE DEF V
      <4> QED BY <4>1, <4>2, <3>2
    <3> QED BY <3>1, <3>2
  <2> HIDE DEF n
  <2> QED BY <2>1, <2>2, Zenon
<1> DEFINE fold == CHOOSE f : Is(f)
<1>7. Is(fold)
  <2> HIDE DEF Is
  <2> QED BY <1>6
<1>8. Entries(p) = fold[1..n]
  BY <1>1 DEF Entries, FoldLeft, MapThenFoldSet, EntryStep
<1> HIDE DEF fold
<1>9. ASSUME NEW k \in 1..n PROVE fold[1..k] = EntryStep(fold[1..(k - 1)], q[k])
  <2>1. 1..k \in SUBSET (1..n) /\ 1..k # {} /\ (1..k) \ {k} = 1..(k - 1)
    <3> HIDE DEF n
    <3> QED BY <1>1, PrefixOf, Zenon
  <2>2. Max(1..k) \in 1..k /\ \A i \in 1..k : i <= Max(1..k)
    <3>1. k \in Nat /\ 1..k \subseteq 1..k
      BY <1>1
    <3> QED BY <2>1, <3>1, GreatestOf, Zenon
  <2>3. Max(1..k) = k
    BY <1>1, <2>2
  <2> HIDE DEF n
  <2> QED BY <1>7, <2>1, <2>3
<1> DEFINE it == [k \in 0..n |-> fold[1..k]]
           T == {k \in 0..n : it[k] \in V}
<1>10. it[0] = <<>>
  <2>1. 1..0 = {} /\ {} \in SUBSET (1..n) /\ 0 \in 0..n
    BY <1>1
  <2> HIDE DEF n
  <2> QED BY <1>7, <2>1
<1>11. ASSUME NEW k \in 1..n PROVE it[k] = EntryStep(it[k - 1], q[k])
  <2>1. k \in 0..n /\ k - 1 \in 0..n
    BY <1>1
  <2> HIDE DEF n
  <2> QED BY <1>9, <2>1
<1> HIDE DEF it
<1>12. 0..n \subseteq T
  <2>1. 0 \in T
    <3>1. 0 \in 0..n
      BY <1>1
    <3> HIDE DEF n, V
    <3> QED BY <1>1, <1>10, <3>1
  <2>2. ASSUME NEW k \in 1..n, k - 1 \in T PROVE k \in T
    <3>1. k \in 0..n /\ it[k - 1] \in V
      BY <1>1, <2>2
    <3> HIDE DEF V, n
    <3> QED BY <1>2, <1>11, <3>1
  <2> HIDE DEF T, V, n
  <2> QED BY <1>1, <2>1, <2>2, UpTo
<1>13. it \in [0..n -> V] /\ it[n] = fold[1..n]
  BY <1>1, <1>12 DEF it
<1> QED BY <1>8, <1>10, <1>11, <1>13 DEF Stages

\* A sequence that gets an element it does not have yet lists each once.
LEMMA AppendOnce ==
  ASSUME NEW S, NEW list \in Seq(S), NEW x \in S
  PROVE  /\ ToSet(Append(list, x)) = ToSet(list) \cup {x}
         /\ IsInjective(list) /\ x \notin ToSet(list) => IsInjective(Append(list, x))
<1> DEFINE a == Append(list, x)
           n == Len(list)
<1>1. /\ n \in Nat /\ DOMAIN list = 1..n /\ DOMAIN a = 1..(n + 1)
      /\ a[n + 1] = x /\ \A i \in 1..n : a[i] = list[i]
  OBVIOUS
<1>2. \A i \in 1..(n + 1) : i \in 1..n \/ i = n + 1
  BY <1>1
<1>3. \A i \in 1..n : i \in 1..(n + 1)
  BY <1>1
<1>4. n + 1 \in 1..(n + 1)
  BY <1>1
<1> HIDE DEF a, n
<1>5. ToSet(a) = ToSet(list) \cup {x}
  BY <1>1, <1>2, <1>3, <1>4 DEF ToSet
<1>6. IsInjective(list) /\ x \notin ToSet(list) => IsInjective(a)
  BY <1>1, <1>2 DEF IsInjective, ToSet
<1> QED BY <1>5, <1>6 DEF a

\* No element, and no element twice.
LEMMA EmptyOnce == ToSet(<<>>) = {} /\ IsInjective(<<>>)
  BY DEF ToSet, IsInjective

\* LayoutsOf lists the layouts of the profile, each once.
LEMMA LayoutsAre ==
  ASSUME NEW p \in Seq(Methods)
  PROVE  /\ LayoutsOf(p) \in Seq(Layouts)
         /\ ToSet(LayoutsOf(p)) = ToSet(p) \cap Layouts
         /\ IsInjective(LayoutsOf(p))
<1> DEFINE n == Len(p)
           First(k) == {p[i] : i \in 1..k}
<1>1. n \in Nat /\ DOMAIN p = 1..n /\ First(n) = ToSet(p) /\ First(0) = {} /\ n \in 0..n
  BY DEF ToSet
<1>2. PICK it : /\ Stages(it, p, Seq(Layouts))
                /\ \A k \in 1..n : it[k] = LayoutStep(it[k - 1], p[k])
                /\ LayoutsOf(p) = it[n]
  BY LayoutStages
<1>3. it \in [0..n -> Seq(Layouts)] /\ it[0] = <<>>
  BY <1>2 DEF Stages
<1> DEFINE T == {k \in 0..n : ToSet(it[k]) = First(k) \cap Layouts /\ IsInjective(it[k])}
<1>4. 0 \in T
  <2>1. 0 \in 0..n
    BY <1>1
  <2> HIDE DEF First, n
  <2> QED BY <1>1, <1>3, <2>1, EmptyOnce
<1>5. ASSUME NEW k \in 1..n, k - 1 \in T PROVE k \in T
  <2>1. k \in 0..n /\ k - 1 \in 0..n /\ First(k) = First(k - 1) \cup {p[k]}
    <3>1. \A i : i \in 1..k <=> i \in 1..(k - 1) \/ i = k
      BY <1>1
    <3>2. k \in 0..n /\ k - 1 \in 0..n
      BY <1>1
    <3> HIDE DEF n
    <3> QED BY <3>1, <3>2
  <2>2. /\ ToSet(it[k - 1]) = First(k - 1) \cap Layouts /\ IsInjective(it[k - 1])
        /\ it[k] = LayoutStep(it[k - 1], p[k])
    BY <1>2, <1>5
  <2> DEFINE list == it[k - 1]
  <2>3. list \in Seq(Layouts)
    <3> HIDE DEF n
    <3> QED BY <1>3, <2>1
  <2>4. Contains(list, p[k]) <=> p[k] \in ToSet(list)
    BY <2>3 DEF Contains, ToSet
  <2> HIDE DEF First, n, list
  <2>5. CASE p[k] \in Layouts /\ ~Contains(list, p[k])
    <3>1. it[k] = Append(list, p[k])
      BY <2>2, <2>5 DEF LayoutStep, list
    <3>2. ToSet(it[k]) = ToSet(list) \cup {p[k]} /\ IsInjective(it[k])
      BY <2>2, <2>3, <2>4, <2>5, <3>1, AppendOnce DEF list
    <3> QED BY <2>1, <2>2, <2>5, <3>2 DEF list
  <2>6. CASE ~(p[k] \in Layouts /\ ~Contains(list, p[k]))
    <3>1. it[k] = list
      BY <2>2, <2>6 DEF LayoutStep, list
    <3> QED BY <2>1, <2>2, <2>4, <2>6, <3>1 DEF list
  <2> QED BY <2>5, <2>6
<1>6. n \in T
  <2> HIDE DEF T, n
  <2> QED BY <1>1, <1>4, <1>5, UpTo
<1> HIDE DEF First, n
<1> QED BY <1>1, <1>2, <1>3, <1>6

\* What a profile stands for: its layouts, or those the program knows.
LayoutsListed(p) ==
  IF ToSet(p) \cap Layouts = {} THEN ToSet(DefaultIMs) ELSE ToSet(p) \cap Layouts

\* wylie follows keyboard-us.
WylieFollows(list) ==
  \A i \in DOMAIN list : list[i] = UsKeyboard => i + 1 \in DOMAIN list /\ list[i + 1] = Wylie

\* A layout is listed with what belongs to it.
LEMMA EntryOnce ==
  ASSUME NEW list \in Seq(Listed), NEW im \in Listed, im # Wylie
  PROVE  /\ ToSet(EntryStep(list, im)) = ToSet(list) \cup {im} \cup (IF im = UsKeyboard THEN {Wylie} ELSE {})
         /\ IsInjective(list) /\ im \notin ToSet(list) /\ (im = UsKeyboard => Wylie \notin ToSet(list))
              => IsInjective(EntryStep(list, im))
         /\ WylieFollows(list) => WylieFollows(EntryStep(list, im))
<1> USE DEF EntryStep
<1>1. Append(list, im) \in Seq(Listed) /\ Wylie \in Listed
  BY DEF Listed
<1>2. CASE im = UsKeyboard
  <2>1. EntryStep(list, im) = Append(Append(list, im), Wylie)
    <3> HIDE DEF Listed
    <3> QED BY <1>1, <1>2
  <2>2. /\ ToSet(Append(list, im)) = ToSet(list) \cup {im}
        /\ IsInjective(list) /\ im \notin ToSet(list) => IsInjective(Append(list, im))
    BY AppendOnce
  <2> DEFINE b == Append(list, im)
  <2>3. /\ ToSet(Append(b, Wylie)) = ToSet(b) \cup {Wylie}
        /\ IsInjective(b) /\ Wylie \notin ToSet(b) => IsInjective(Append(b, Wylie))
    <3> HIDE DEF b, EntryStep
    <3> QED BY <1>1, AppendOnce DEF b
  <2>4. ASSUME WylieFollows(list) PROVE WylieFollows(EntryStep(list, im))
    <3> DEFINE n == Len(list)
               a == EntryStep(list, im)
    <3>1. /\ n \in Nat /\ DOMAIN list = 1..n /\ DOMAIN a = 1..(n + 2)
          /\ a[n + 1] = im /\ a[n + 2] = Wylie /\ \A i \in 1..n : a[i] = list[i]
      BY <1>1, <2>1
    <3> HIDE DEF a, n
    <3>2. SUFFICES ASSUME NEW i \in 1..(n + 2), a[i] = UsKeyboard
                   PROVE  i + 1 \in 1..(n + 2) /\ a[i + 1] = Wylie
      BY <3>1 DEF WylieFollows, a
    <3>3. CASE i \in 1..n
      <4>1. i + 1 \in 1..n /\ list[i + 1] = Wylie
        BY <2>4, <3>1, <3>2, <3>3 DEF WylieFollows
      <4> QED BY <3>1, <4>1
    <3>4. CASE i = n + 1
      BY <3>1, <3>4
    <3>5. CASE i = n + 2
      BY <3>1, <3>2, <3>5 DEF UsKeyboard, Wylie
    <3> QED BY <3>1, <3>3, <3>4, <3>5
  <2> HIDE DEF EntryStep
  <2> QED BY <1>2, <2>1, <2>2, <2>3, <2>4
<1>3. CASE im # UsKeyboard
  <2>1. EntryStep(list, im) = Append(list, im)
    <3> HIDE DEF Listed
    <3> QED BY <1>3
  <2>2. ASSUME WylieFollows(list) PROVE WylieFollows(Append(list, im))
    <3> DEFINE n == Len(list)
               a == Append(list, im)
    <3>1. /\ n \in Nat /\ DOMAIN list = 1..n /\ DOMAIN a = 1..(n + 1)
          /\ a[n + 1] = im /\ \A i \in 1..n : a[i] = list[i]
      OBVIOUS
    <3> HIDE DEF a, n
    <3>2. SUFFICES ASSUME NEW i \in 1..(n + 1), a[i] = UsKeyboard
                   PROVE  i + 1 \in 1..(n + 1) /\ a[i + 1] = Wylie
      BY <3>1 DEF WylieFollows, a
    <3>3. i \in 1..n
      BY <1>3, <3>1, <3>2
    <3> QED BY <2>2, <3>1, <3>2, <3>3 DEF WylieFollows
  <2> HIDE DEF EntryStep
  <2>3. /\ ToSet(EntryStep(list, im)) = ToSet(list) \cup {im}
        /\ IsInjective(list) /\ im \notin ToSet(list) => IsInjective(EntryStep(list, im))
    BY <2>1, AppendOnce
  <2> QED BY <1>3, <2>1, <2>2, <2>3
<1> QED BY <1>2, <1>3

\* What syncCurrentIMList lists for a profile: its layouts, each once, or those the
\* program knows, and wylie after keyboard-us.
THEOREM EntriesAreLayouts ==
  ASSUME NEW p \in Seq(Methods)
  PROVE  /\ ToSet(Entries(p)) = LayoutsListed(p) \cup
                                  (IF UsKeyboard \in LayoutsListed(p) THEN {Wylie} ELSE {})
         /\ IsInjective(Entries(p))
         /\ WylieFollows(Entries(p))
         /\ Entries(p) \in Seq(Listed) \ {<<>>}
<1> DEFINE q == IF LayoutsOf(p) = <<>> THEN DefaultIMs ELSE LayoutsOf(p)
           n == Len(q)
           First(k) == {q[i] : i \in 1..k}
<1>1. q \in Seq(Listed) /\ ToSet(q) = LayoutsListed(p) /\ IsInjective(q) /\ Wylie \notin ToSet(q)
  <2>1. /\ LayoutsOf(p) \in Seq(Layouts) /\ IsInjective(LayoutsOf(p))
        /\ ToSet(LayoutsOf(p)) = ToSet(p) \cap Layouts
    BY LayoutsAre
  <2>2. CASE LayoutsOf(p) = <<>>
    <3>1. /\ DefaultIMs \in Seq(Listed) /\ IsInjective(DefaultIMs)
          /\ Wylie \notin ToSet(DefaultIMs)
      BY DEF DefaultIMs, Listed, ToSet, IsInjective, Wylie
    <3>2. ToSet(p) \cap Layouts = {}
      BY <2>1, <2>2, EmptyOnce
    <3> QED BY <2>2, <3>1, <3>2 DEF LayoutsListed
  <2>3. CASE LayoutsOf(p) # <<>>
    <3>1. LayoutsOf(p)[1] \in ToSet(LayoutsOf(p))
      BY <2>1, <2>3 DEF ToSet
    <3>2. LayoutsOf(p) \in Seq(Listed)
      BY <2>1 DEF Listed
    <3> QED BY <2>1, <2>3, <3>1, <3>2, MethodsAssumption, LayoutsAssumption
            DEF LayoutsListed
  <2> QED BY <2>2, <2>3
<1> HIDE DEF q
<1>2. n \in Nat /\ DOMAIN q = 1..n /\ First(n) = ToSet(q) /\ First(0) = {} /\ n \in 0..n
  BY <1>1 DEF ToSet
<1>3. PICK it : /\ Stages(it, q, Seq(Listed))
                /\ \A k \in 1..n : it[k] = EntryStep(it[k - 1], q[k])
                /\ Entries(p) = it[n]
  BY <1>1, EntryStages DEF q
<1>4. it \in [0..n -> Seq(Listed)] /\ it[0] = <<>>
  BY <1>3 DEF Stages
<1> DEFINE Of(k) == First(k) \cup (IF UsKeyboard \in First(k) THEN {Wylie} ELSE {})
           T == {k \in 0..n : ToSet(it[k]) = Of(k) /\ IsInjective(it[k]) /\ WylieFollows(it[k])}
<1>5. 0 \in T
  <2>1. 0 \in 0..n
    BY <1>2
  <2>2. WylieFollows(<<>>)
    BY DEF WylieFollows
  <2> HIDE DEF First, n
  <2> QED BY <1>2, <1>4, <2>1, <2>2, EmptyOnce
<1>6. ASSUME NEW k \in 1..n, k - 1 \in T PROVE k \in T
  <2>1. k \in 0..n /\ k - 1 \in 0..n /\ First(k) = First(k - 1) \cup {q[k]}
    <3>1. \A i : i \in 1..k <=> i \in 1..(k - 1) \/ i = k
      BY <1>2
    <3>2. k \in 0..n /\ k - 1 \in 0..n
      BY <1>2
    <3> HIDE DEF n
    <3> QED BY <3>1, <3>2
  <2>2. q[k] \notin First(k - 1)
    <3>1. \A i \in 1..(k - 1) : i \in 1..n /\ i # k
      BY <1>2
    <3> HIDE DEF n
    <3> QED BY <1>1, <1>2, <3>1 DEF IsInjective
  <2>3. q[k] \in Listed /\ q[k] # Wylie /\ Wylie \notin First(k - 1)
    <3>1. \A i \in 1..(k - 1) : i \in 1..n
      BY <1>2
    <3>2. q[k] \in Listed
      BY <1>1, <1>2
    <3> HIDE DEF n
    <3> QED BY <1>1, <1>2, <3>1, <3>2 DEF ToSet
  <2> DEFINE list == it[k - 1]
  <2>4. list \in Seq(Listed)
    <3> HIDE DEF n
    <3> QED BY <1>4, <2>1
  <2>5. /\ ToSet(list) = Of(k - 1) /\ IsInjective(list) /\ WylieFollows(list)
        /\ it[k] = EntryStep(list, q[k])
    BY <1>3, <1>6
  <2> HIDE DEF First, n, list
  <2>6. /\ ToSet(it[k]) = ToSet(list) \cup {q[k]} \cup (IF q[k] = UsKeyboard THEN {Wylie} ELSE {})
        /\ IsInjective(list) /\ q[k] \notin ToSet(list)
             /\ (q[k] = UsKeyboard => Wylie \notin ToSet(list)) => IsInjective(it[k])
        /\ WylieFollows(it[k])
    BY <2>3, <2>4, <2>5, EntryOnce
  <2>7. ToSet(it[k]) = Of(k)
    BY <2>1, <2>5, <2>6
  <2>8. q[k] \notin ToSet(list)
    BY <2>2, <2>3, <2>5
  <2>9. q[k] = UsKeyboard => Wylie \notin ToSet(list)
    BY <2>2, <2>3, <2>5
  <2> QED BY <2>1, <2>5, <2>6, <2>7, <2>8, <2>9
<1>7. n \in T
  <2> HIDE DEF T, n
  <2> QED BY <1>2, <1>5, <1>6, UpTo
<1>8. Entries(p) \in Seq(Listed)
  BY <1>2, <1>3, <1>4
<1>9. LayoutsListed(p) # {}
  BY DEF LayoutsListed, DefaultIMs, ToSet
<1> HIDE DEF First, n
<1> QED BY <1>1, <1>2, <1>3, <1>7, <1>8, <1>9, EmptyOnce

-----------------------------------------------------------------------------
(* The types: the list is a sequence, so that there is a last entry to     *)
(* show, and a notification carries the name of an input method.           *)

ActivatedNames == \A i \in DOMAIN bus : bus[i].kind = "activated" => bus[i].arg \in Methods

BusOK == bus \in Seq(Messages) /\ Len(bus) <= BusLimit /\ ActivatedNames

\* The parts of IMTypeOK that the actions change together.
ListOK == currentIMList \in Seq(Listed) /\ ToSet(currentIMList) \subseteq Listable
FcitxOK == fcitx \in [phase : Phases, im : Methods \cup {""}, profile : Profiles]
NameOK == uniqueName \in Names /\ currentIM \in Listable \cup {NoIM}
PageOK ==
  /\ page \in {"none", "hidden", "shown"}
  /\ candidates \in BOOLEAN /\ listOpen \in BOOLEAN /\ crashed \in BOOLEAN
  /\ key \in {"none", "wtype", "fcitx", "xdotool"}
BackendOK == backend \in {"null", "valid", "invalid"}

IMTypeInv == BusOK /\ ListOK /\ FcitxOK /\ NameOK /\ PageOK /\ BackendOK

\* What the QML shows for a name is an entry of the list, or what it showed.
LEMMA HighlightIsListed ==
  ASSUME NEW list \in Seq(Listed), NEW name, NEW old
  PROVE  Highlight(list, name, old) \in ToSet(list) \cup {old}
<1> DEFINE hits == {i \in DOMAIN list : Includes(list[i], name)}
<1>1. Len(list) \in Nat /\ DOMAIN list = 1..Len(list)
  OBVIOUS
<1>2. CASE hits = {}
  BY <1>2 DEF Highlight
<1>3. CASE hits # {}
  <2>1. hits \subseteq 1..Len(list)
    BY <1>1
  <2>2. Max(hits) \in hits
    <3> HIDE DEF hits
    <3> QED BY <1>1, <1>3, <2>1, GreatestOf, Zenon
  <2>3. list[Max(hits)] \in ToSet(list)
    BY <2>2 DEF ToSet
  <2> QED BY <1>3, <2>3 DEF Highlight
<1> QED BY <1>2, <1>3

\* syncCurrentIMList makes a list.
LEMMA EntriesListable ==
  ASSUME NEW profile \in Profiles
  PROVE  Entries(profile) \in Seq(Listed) /\ ToSet(Entries(profile)) \subseteq Listable
<1>1. profile \in Seq(Methods)
  BY ProfilesAssumption
<1> QED BY <1>1, EntriesAreLayouts DEF Listable

\* The name and what the QML shows for it.
LEMMA SetUniqueNameOK ==
  ASSUME NameOK, NEW name \in Names, NEW list \in Seq(Listed),
         ToSet(list) \subseteq Listable, SetUniqueName(name, list)
  PROVE  NameOK'
<1>1. Highlight(list, name, currentIM) \in ToSet(list) \cup {currentIM}
  BY HighlightIsListed
<1> QED BY <1>1 DEF SetUniqueName, NameOK

\* An answer of fcitx.
LEMMA SyncUniqueNameOK ==
  ASSUME NameOK, FcitxOK, NEW list \in Seq(Listed), ToSet(list) \subseteq Listable,
         SyncUniqueName(list)
  PROVE  NameOK'
<1>1. (IF fcitx.phase = "gone" THEN uniqueName ELSE fcitx.im) \in Names
  BY DEF NameOK, FcitxOK, Names
<1> QED BY <1>1, SetUniqueNameOK DEF SyncUniqueName

\* The whole answer.
LEMMA SyncStateOK ==
  ASSUME NameOK, FcitxOK, SyncFcitxInputMethodState PROVE NameOK' /\ ListOK'
<1>1. Entries(fcitx.profile) \in Seq(Listed) /\ ToSet(Entries(fcitx.profile)) \subseteq Listable
  BY EntriesListable DEF FcitxOK
<1> QED BY <1>1, SyncUniqueNameOK DEF SyncFcitxInputMethodState, ListOK

\* Sending.
LEMMA SendOK ==
  ASSUME BusOK, NEW kind, NEW arg, Msg(kind, arg) \in Messages, Send(kind, arg),
         kind = "activated" => arg \in Methods
  PROVE  BusOK'
<1> DEFINE m == Msg(kind, arg)
           n == Len(bus)
<1>1. /\ bus' = Append(bus, m) /\ m \in Messages /\ m.kind = kind /\ m.arg = arg
      /\ bus \in Seq(Messages) /\ n < BusLimit
  BY DEF BusOK, Send, Msg
<1> HIDE DEF m
<1>2. /\ n \in Nat /\ DOMAIN bus = 1..n /\ bus' \in Seq(Messages) /\ Len(bus') = n + 1
      /\ DOMAIN bus' = 1..(n + 1) /\ bus'[n + 1] = m /\ \A i \in 1..n : bus'[i] = bus[i]
  BY <1>1
<1> HIDE DEF n
<1>3. \A i \in 1..(n + 1) : i \in 1..n \/ i = n + 1
  BY <1>2
<1>4. ActivatedNames'
  BY <1>1, <1>2, <1>3 DEF ActivatedNames, BusOK
<1> QED BY <1>1, <1>2, <1>4, BusAssumption DEF BusOK

\* Receiving.
LEMMA ReceiveOK ==
  ASSUME BusOK, NEW kind, Receive(kind)
  PROVE  BusOK' /\ (kind = "activated" => Head(bus).arg \in Methods)
<1> DEFINE n == Len(bus)
<1>1. bus' = Tail(bus) /\ bus # <<>> /\ bus \in Seq(Messages) /\ Head(bus).kind = kind
  BY DEF BusOK, Receive
<1>2. /\ n \in Nat \ {0} /\ DOMAIN bus = 1..n /\ Head(bus) = bus[1]
      /\ bus' \in Seq(Messages) /\ Len(bus') = n - 1 /\ DOMAIN bus' = 1..(n - 1)
      /\ \A i \in 1..(n - 1) : bus'[i] = bus[i + 1]
  BY <1>1
<1>3. n <= BusLimit /\ ActivatedNames
  BY DEF BusOK
<1> HIDE DEF n
<1>4. 1 \in 1..n /\ \A i \in 1..(n - 1) : i + 1 \in 1..n
  BY <1>2
<1>5. ActivatedNames'
  BY <1>2, <1>3, <1>4 DEF ActivatedNames
<1>6. Len(bus') <= BusLimit
  BY <1>2, <1>3, BusAssumption
<1>7. kind = "activated" => Head(bus).arg \in Methods
  BY <1>1, <1>2, <1>3, <1>4 DEF ActivatedNames
<1> QED BY <1>2, <1>5, <1>6, <1>7 DEF BusOK

\* The start.
LEMMA InitOK == ASSUME IMInit PROVE IMTypeInv
<1> DEFINE m == Msg("groupsChanged", "")
<1>1. m \in Messages /\ m.kind # "activated"
  BY DEF Msg, Messages
<1>2. bus = <<m>>
  BY DEF IMInit
<1> HIDE DEF m
<1>3. BusOK
  BY <1>1, <1>2, BusAssumption DEF BusOK, ActivatedNames
<1>4. FcitxOK
  BY InitIMInv DEF IMInv, BusInv, FcitxOK
<1>5. currentIMList = <<>>
  BY DEF IMInit
<1>6. <<>> \in Seq(Listed)
  OBVIOUS
<1>7. ListOK
  BY <1>5, <1>6, EmptyOnce DEF ListOK
<1> QED BY <1>3, <1>4, <1>7 DEF IMInit, IMTypeInv, NameOK, PageOK, BackendOK, Names

\* What the program handles.
LEMMA HandleOK == ASSUME IMTypeInv, Handle PROVE IMTypeInv'
<1> USE DEF modelVars, qmlVars
<1>1. /\ BusOK /\ ListOK /\ FcitxOK /\ NameOK /\ PageOK /\ BackendOK
  BY DEF IMTypeInv
<1>2. PICK kind : Receive(kind)
  BY DEF Handle, BackendServiceRegistered, BackendServiceUnregistered,
         InputMethodGroupsChanged, NotifyIMListChanged, NotifyIMActivated,
         NotifyIMDeactivated, UpdateCandidateArea
<1>3. BusOK' /\ FcitxOK' /\ crashed' = crashed
  BY <1>1, <1>2, ReceiveOK DEF Receive, FcitxOK
<1>4. BackendOK' /\ PageOK'
  BY <1>1, <1>3 DEF Handle, BackendServiceRegistered, BackendServiceUnregistered,
         InputMethodGroupsChanged, NotifyIMListChanged, NotifyIMActivated,
         NotifyIMDeactivated, UpdateCandidateArea, BackendOK, PageOK, Leaving
<1>5. NameOK' /\ ListOK'
  <2>1. CASE BackendServiceRegistered \/ InputMethodGroupsChanged
    <3>1. SyncFcitxInputMethodState
      BY <2>1 DEF BackendServiceRegistered, InputMethodGroupsChanged
    <3> QED BY <1>1, <3>1, SyncStateOK
  <2>2. CASE NotifyIMListChanged
    <3>1. currentIMList' = Entries(fcitx.profile) /\ UNCHANGED <<uniqueName, currentIM>>
      BY <2>2 DEF NotifyIMListChanged
    <3>2. fcitx.profile \in Profiles
      BY <1>1 DEF FcitxOK
    <3> QED BY <1>1, <3>1, <3>2, EntriesListable DEF NameOK, ListOK
  <2>3. CASE NotifyIMActivated
    <3>1. /\ SetUniqueName(Head(bus).arg, currentIMList) /\ UNCHANGED currentIMList
          /\ Receive("activated")
      BY <2>3 DEF NotifyIMActivated
    <3>2. Head(bus).arg \in Names
      BY <1>1, <3>1, ReceiveOK DEF Names
    <3> QED BY <1>1, <3>1, <3>2, SetUniqueNameOK DEF ListOK
  <2>4. CASE BackendServiceUnregistered \/ NotifyIMDeactivated \/ UpdateCandidateArea
    BY <1>1, <2>4 DEF BackendServiceUnregistered, NotifyIMDeactivated, UpdateCandidateArea,
       NameOK, ListOK
  <2> QED BY <2>1, <2>2, <2>3, <2>4 DEF Handle
<1> QED BY <1>3, <1>4, <1>5 DEF IMTypeInv

\* What the user does.
LEMMA UserOK == ASSUME IMTypeInv, User PROVE IMTypeInv'
<1> USE DEF modelVars, qmlVars
<1>1. /\ BusOK /\ ListOK /\ FcitxOK /\ NameOK /\ PageOK /\ BackendOK
  BY DEF IMTypeInv
<1>2. CASE ShowPage
  <2>1. UNCHANGED <<fcitx, bus, backend, uniqueName, currentIMList, key, crashed>>
    BY <1>2 DEF ShowPage
  <2>2. BusOK' /\ ListOK' /\ FcitxOK' /\ BackendOK'
    BY <1>1, <2>1 DEF BusOK, ListOK, FcitxOK, BackendOK, ActivatedNames
  <2>3. Highlight(currentIMList, uniqueName, NoIM) \in Listable \cup {NoIM}
    <3>1. Highlight(currentIMList, uniqueName, NoIM) \in ToSet(currentIMList) \cup {NoIM}
      BY <1>1, HighlightIsListed DEF ListOK
    <3> QED BY <1>1, <3>1 DEF ListOK
  <2>4. NameOK' /\ PageOK'
    BY <1>1, <1>2, <2>1, <2>3 DEF ShowPage, NameOK, PageOK
  <2> QED BY <2>2, <2>4 DEF IMTypeInv
<1>3. CASE LeavePage \/ SelectCandidate \/ ToggleIMList \/ PressKey \/ ReleaseKey
  <2>1. UNCHANGED <<fcitx, bus, backend, uniqueName, currentIMList, currentIM>>
    BY <1>3 DEF LeavePage, SelectCandidate, ToggleIMList, PressKey, ReleaseKey
  <2>2. BusOK' /\ ListOK' /\ FcitxOK' /\ BackendOK' /\ NameOK'
    BY <1>1, <2>1 DEF BusOK, ListOK, FcitxOK, BackendOK, ActivatedNames, NameOK
  <2>3. PageOK'
    BY <1>1, <1>3 DEF LeavePage, SelectCandidate, ToggleIMList, PressKey, ReleaseKey, PageOK
  <2> QED BY <2>2, <2>3 DEF IMTypeInv
<1>4. ASSUME NEW name \in Listable, SetCurrentIM(name) PROVE IMTypeInv'
  <2>1. /\ listOpen' = FALSE /\ name \in ToSet(currentIMList)
        /\ UNCHANGED <<backend, currentIMList, page, candidates, key, crashed>>
    BY <1>4 DEF SetCurrentIM
  <2>2. PageOK' /\ ListOK' /\ BackendOK'
    BY <1>1, <2>1 DEF PageOK, ListOK, BackendOK
  <2>3. CASE fcitx.phase = "gone"
    <3>1. UNCHANGED <<fcitx, bus, uniqueName, currentIM>>
      BY <1>4, <2>3 DEF SetCurrentIM
    <3> QED BY <1>1, <2>2, <3>1 DEF IMTypeInv, FcitxOK, BusOK, NameOK, ActivatedNames
  <2>4. CASE fcitx.phase # "gone"
    <3>1. /\ Len(bus) < BusLimit
          /\ fcitx' = [fcitx EXCEPT !.im = Switched(name)]
          /\ bus' = IF fcitx.phase = "registered" /\ fcitx'.im # fcitx.im
                    THEN Append(bus, Msg("activated", fcitx'.im)) ELSE bus
          /\ SetUniqueName(IF name = Wylie THEN Wylie ELSE fcitx'.im, currentIMList)
      BY <1>4, <2>4 DEF SetCurrentIM
    <3>2. Switched(name) \in Methods \cup {""} /\ (Switched(name) # fcitx.im => Switched(name) \in Methods)
      BY <1>1 DEF Switched, FcitxOK
    <3>3. FcitxOK' /\ fcitx'.im = Switched(name)
      BY <1>1, <3>1, <3>2 DEF FcitxOK
    <3>4. (IF name = Wylie THEN Wylie ELSE fcitx'.im) \in Names
      BY <3>2, <3>3 DEF Names
    <3>5. NameOK'
      BY <1>1, <3>1, <3>4, SetUniqueNameOK DEF ListOK
    <3>6. BusOK'
      <4>1. CASE fcitx.phase = "registered" /\ fcitx'.im # fcitx.im
        <5>1. fcitx'.im \in Methods /\ Send("activated", fcitx'.im)
          BY <3>1, <3>2, <3>3, <4>1 DEF Send
        <5>2. Msg("activated", fcitx'.im) \in Messages
          BY <5>1 DEF Msg, Messages
        <5> QED BY <1>1, <5>1, <5>2, SendOK
      <4>2. CASE ~(fcitx.phase = "registered" /\ fcitx'.im # fcitx.im)
        BY <1>1, <3>1, <4>2 DEF BusOK, ActivatedNames
      <4> QED BY <4>1, <4>2
    <3> QED BY <2>2, <3>3, <3>5, <3>6 DEF IMTypeInv
  <2> QED BY <2>3, <2>4
<1> QED BY <1>2, <1>3, <1>4 DEF User

\* What fcitx does.
LEMMA FcitxKeepsOK == ASSUME IMTypeInv, Fcitx PROVE IMTypeInv'
<1> USE DEF FcitxOnly, modelVars, qmlVars, Phases
<1>1. /\ BusOK /\ ListOK /\ FcitxOK /\ NameOK /\ PageOK /\ BackendOK
  BY DEF IMTypeInv
<1>2. ListOK' /\ NameOK' /\ PageOK' /\ BackendOK'
  <2>1. FcitxOnly
    BY DEF Fcitx, FcitxStarts, FcitxRegisters, FcitxUnregisters, FcitxEnds, FcitxSwitches,
       FcitxProfileChanges, FcitxUpdatesCandidates
  <2> QED BY <1>1, <2>1 DEF ListOK, NameOK, PageOK, BackendOK
<1>3. FcitxOK'
  BY <1>1 DEF Fcitx, FcitxStarts, FcitxRegisters, FcitxUnregisters, FcitxEnds, FcitxSwitches,
     FcitxProfileChanges, FcitxUpdatesCandidates, FcitxOK
<1>4. BusOK'
  <2>1. CASE bus' = bus
    BY <1>1, <2>1 DEF BusOK, ActivatedNames
  <2>2. CASE \E kind \in {"registered", "unregistered", "groupsChanged", "listChanged",
                          "deactivated", "candidates"},
                arg \in Methods \cup {"", "some"} : Send(kind, arg)
    <3>1. PICK kind \in {"registered", "unregistered", "groupsChanged", "listChanged",
                         "deactivated", "candidates"},
               arg \in Methods \cup {"", "some"} : Send(kind, arg)
      BY <2>2
    <3>2. Msg(kind, arg) \in Messages
      BY DEF Msg, Messages
    <3> QED BY <1>1, <3>1, <3>2, SendOK
  <2>3. CASE \E im \in Methods : Send("activated", im)
    <3>1. PICK im \in Methods : Send("activated", im)
      BY <2>3
    <3>2. Msg("activated", im) \in Messages
      BY DEF Msg, Messages
    <3> QED BY <1>1, <3>1, <3>2, SendOK
  <2>4. fcitx.im \in Methods \cup {""}
    BY <1>1 DEF FcitxOK
  <2>5. CASE FcitxStarts \/ FcitxEnds
    BY <2>1, <2>5 DEF FcitxStarts, FcitxEnds
  <2>6. CASE FcitxRegisters \/ FcitxUnregisters \/ FcitxUpdatesCandidates
    BY <2>2, <2>6 DEF FcitxRegisters, FcitxUnregisters, FcitxUpdatesCandidates
  <2>7. CASE FcitxSwitches
    <3>1. PICK im \in (Methods \cup {""}) \ {fcitx.im} :
             \/ UNCHANGED bus
             \/ im # "" /\ Send("activated", im)
             \/ Send("deactivated", fcitx.im)
      BY <2>7 DEF FcitxSwitches
    <3> QED BY <2>1, <2>2, <2>3, <2>4, <3>1
  <2>8. CASE FcitxProfileChanges
    BY <2>1, <2>2, <2>8 DEF FcitxProfileChanges
  <2> QED BY <2>5, <2>6, <2>7, <2>8 DEF Fcitx
<1> QED BY <1>2, <1>3, <1>4 DEF IMTypeInv

\* Every variable has its type: what the keyboard highlights is an entry of some list,
\* and no name arrives that is no input method's.
THEOREM IMTypeCorrect == IMSpec => []IMTypeOK
<1>1. IMInit => IMTypeInv
  BY InitOK
<1>2. IMTypeInv /\ [IMNext]_imVars => IMTypeInv'
  <2>1. ASSUME IMTypeInv, UNCHANGED imVars PROVE IMTypeInv'
    BY <2>1 DEF imVars, modelVars, qmlVars, IMTypeInv, BusOK, ListOK, FcitxOK, NameOK, PageOK,
       BackendOK, ActivatedNames
  <2> QED BY <2>1, HandleOK, UserOK, FcitxKeepsOK DEF IMNext
<1>3. IMTypeInv => IMTypeOK
  BY DEF IMTypeInv, IMTypeOK, BusOK, ListOK, FcitxOK, NameOK, PageOK, BackendOK
<1> QED BY <1>1, <1>2, <1>3, PTL DEF IMSpec
=============================================================================
