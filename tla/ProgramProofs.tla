---------------------------- MODULE ProgramProofs ----------------------------
(***************************************************************************)
(* Proofs about Program, for any settings, any number of calls of setValue *)
(* and reports of any size.                                                *)
(***************************************************************************)
EXTENDS Program, ViewLocalSettingsProofs

-----------------------------------------------------------------------------
(* The inductive invariant.                                                *)

\* Where a report stands: a thread that writes has opened the file, and as long as no
\* other one has, the file holds what it has written and nothing else.  A report that is
\* finished belongs to a process that is gone, so nobody is left to touch it.
ReportInv ==
  /\ \A t \in Threads : handler[t].at = "writes" =>
       /\ t \in openers
       /\ handler[t].size \in ReportSizes
       /\ openers = {t} => errorLog = [i \in 1 .. handler[t].done |-> t]
  /\ ended.thread # "none" => ~up /\ saves = {}

ProgramInv ==
  /\ IInv
  /\ ProgramTypeOK
  /\ ReportInv
  /\ ReportIsWhole

-----------------------------------------------------------------------------
(* What the log holds.                                                     *)

Log == Seq(Threads \cup {"old", "hole"})

\* An empty file is the report of a thread that has written nothing.
LEMMA EmptyLog ==
  /\ <<>> \in Log
  /\ \A t : <<>> = [i \in 1 .. 0 |-> t]
  BY DEF Log

\* What is left of earlier processes is a log.
LEMMA OldReportsAreLogs == OldReports \subseteq Log
<1>1. \A n \in ReportSizes : [i \in 1 .. n |-> "old"] \in Log
  BY ReportAssumption DEF Log
<1> QED
  BY <1>1, EmptyLog DEF OldReports

\* A chunk written makes a log of a log, and one more chunk of a report of one thread.
LEMMA PutKeepsLog ==
  ASSUME NEW log \in Log, NEW m \in Nat, NEW t \in Threads
  PROVE  /\ Put(log, m + 1, t) \in Log
         /\ log = [j \in 1 .. m |-> t] => Put(log, m + 1, t) = [j \in 1 .. m + 1 |-> t]
<1> DEFINE i == m + 1
<1>1. Len(log) \in Nat /\ \A j \in 1 .. Len(log) : log[j] \in Threads \cup {"old", "hole"}
  BY DEF Log
<1>2. Put(log, i, t) \in Log
  <2> DEFINE n == IF i > Len(log) THEN i ELSE Len(log)
  <2>1. n \in Nat
    BY <1>1
  <2>2. \A j \in 1 .. n : (IF j = i THEN t ELSE IF j <= Len(log) THEN log[j] ELSE "hole")
                            \in Threads \cup {"old", "hole"}
    BY <1>1
  <2> QED
    BY <2>1, <2>2 DEF Put, Log
<1>3. ASSUME log = [j \in 1 .. m |-> t]
      PROVE  Put(log, i, t) = [j \in 1 .. i |-> t]
  <2>1. Len(log) = m
    BY <1>3, <1>1
  <2> QED
    BY <2>1, <1>3 DEF Put
<1> QED
  BY <1>2, <1>3

-----------------------------------------------------------------------------
(* One lemma per kind of step.                                             *)

\* At the start no signal has come.
LEMMA InitKeepsProgramInv ==
  ASSUME ProgramInit
  PROVE  ProgramInv
<1> USE DEF ProgramInit
<1>1. IInv
  BY InitKeepsIInv
<1>2. logPath \in Dirs \cup {"none"} /\ \A t \in Threads : handler[t] = NotCalled
  BY DEF LogPath, Dirs
<1>3. errorLog \in Log
  BY OldReportsAreLogs
<1>4. ProgramTypeOK
  <2>1. handler \in [Threads -> Handlers] /\ \A t \in Threads : handler[t].at = "none"
    BY <1>2 DEF Handlers, NotCalled
  <2>2. \A t \in Threads : handler[t].done <= handler[t].size
    BY <1>2 DEF NotCalled
  <2> QED
    BY <2>1, <2>2, <1>2, <1>3 DEF ProgramTypeOK, Log, NotEnded, InHandler, Threads
<1> QED
  BY <1>1, <1>2, <1>4 DEF ProgramInv, ReportInv, ReportIsWhole, NotCalled, NotEnded

\* The event loop and the tasks leave the handlers alone, and run in threads without one.
LEMMA RunKeepsProgramInv ==
  ASSUME ProgramInv, GuiStep \/ GuiFinished \/ PoolStep
  PROVE  ProgramInv'
<1>1. Next /\ UNCHANGED signalVars
  BY DEF GuiStep, GuiFinished, PoolStep, Next
<1>2. IInv'
  BY <1>1, StepKeepsIInv DEF ProgramInv
<1>3. up \/ saves # {}
  BY DEF GuiStep, GuiFinished, PoolStep, Quit, SetValue, Finished
<1>4. (InHandler("gui") => up)' /\ (InHandler("pool") => saves # {})'
  <2>1. CASE GuiStep \/ GuiFinished
    <3>1. ~InHandler("gui") /\ UNCHANGED handler
      BY <2>1 DEF GuiStep, GuiFinished, signalVars
    <3>2. saves # {} => saves' # {}
      BY <2>1 DEF GuiStep, GuiFinished, Quit, SetValue, Finished, FinishedSlot, SaveSettingsAsync
    <3> QED
      BY <3>1, <3>2 DEF ProgramInv, ProgramTypeOK, InHandler
  <2>2. CASE PoolStep
    <3>1. ~InHandler("pool") /\ UNCHANGED <<handler, up>>
      BY <2>2 DEF PoolStep, signalVars, Sync, WriteKey
    <3> QED
      BY <3>1 DEF ProgramInv, ProgramTypeOK, InHandler
  <2> QED
    BY <2>1, <2>2
<1>5. ProgramTypeOK'
  BY <1>1, <1>4 DEF ProgramInv, ProgramTypeOK, signalVars
<1>6. ReportInv' /\ ReportIsWhole'
  BY <1>1, <1>3 DEF ProgramInv, ReportInv, ReportIsWhole, signalVars
<1> QED
  BY <1>2, <1>5, <1>6 DEF ProgramInv

\* A process that ends, for whatever reason, leaves no handler behind.
LEMMA EndKeepsInv ==
  ASSUME ProgramInv, End, UNCHANGED <<errorLog, openers>>,
         \/ UNCHANGED ended
         \/ /\ ended' \in [thread : Threads, size : ReportSizes]
            /\ openers = {ended'.thread} =>
                 errorLog = [i \in 1 .. ended'.size |-> ended'.thread]
  PROVE  ProgramInv'
<1> USE DEF End
<1>1. IInv'
  BY StepKeepsIInv DEF ProgramInv, Next
<1>2. ~up' /\ saves' = {} /\ \A t \in Threads : handler'[t] = NotCalled
  BY DEF Crash
<1>3. ProgramTypeOK'
  <2>1. handler' \in [Threads -> Handlers] /\ \A t \in Threads : handler'[t].at = "none"
    BY <1>2 DEF Handlers, NotCalled
  <2>2. \A t \in Threads : handler'[t].done <= handler'[t].size
    BY <1>2 DEF NotCalled
  <2>3. ended' \in [thread : Threads \cup {"none"}, size : ReportSizes \cup {0}]
    BY DEF ProgramInv, ProgramTypeOK
  <2> QED
    BY <2>1, <2>2, <2>3 DEF ProgramInv, ProgramTypeOK, InHandler, Threads
<1>4. ReportInv' /\ ReportIsWhole'
  BY <1>2 DEF ProgramInv, ReportInv, ReportIsWhole, NotCalled
<1> QED
  BY <1>1, <1>3, <1>4 DEF ProgramInv

\* The next process begins without a handler.
LEMMA StartKeepsProgramInv ==
  ASSUME ProgramInv, Start
  PROVE  ProgramInv'
<1> USE DEF Start
<1>1. IInv'
  BY StepKeepsIInv DEF ProgramInv, Next
<1>2. ~InHandler("gui") /\ ~InHandler("pool") /\ up'
  BY DEF ProgramInv, ProgramTypeOK, Restart
<1>3. logPath' \in Dirs \cup {"none"}
  BY DEF LogPath, Dirs
<1>4. errorLog' \in Log
  BY OldReportsAreLogs
<1>5. ProgramTypeOK'
  BY <1>2, <1>3, <1>4 DEF ProgramInv, ProgramTypeOK, Log, InHandler, NotEnded
<1>6. ReportInv' /\ ReportIsWhole'
  BY <1>2 DEF ReportInv, ReportIsWhole, InHandler, NotEnded, Threads
<1> QED
  BY <1>1, <1>5, <1>6 DEF ProgramInv

\* The handler at work; the settings are left alone.
LEMMA HandlerKeepsProgramInv ==
  ASSUME ProgramInv, NEW t \in Threads,
         Signal(t) \/ Open(t) \/ WriteReport(t) \/ Stick(t)
  PROVE  ProgramInv'
<1> DEFINE h == handler'[t]
<1>1. UNCHANGED vars /\ IInv'
  <2>1. UNCHANGED vars
    BY DEF Signal, Open, WriteReport, Stick
  <2> QED
    BY <2>1, StepKeepsIInv DEF ProgramInv
<1>2. /\ handler \in [Threads -> Handlers]
      /\ \A s \in Threads : handler[s].done <= handler[s].size
      /\ errorLog \in Log /\ openers \subseteq Threads
      /\ UNCHANGED <<up, saves, logPath, writable, ended>>
  BY DEF ProgramInv, ProgramTypeOK, Log, Signal, Open, WriteReport, Stick, vars
<1>3. ended.thread = "none"
  BY DEF ProgramInv, ReportInv, ProgramTypeOK, Threads, InHandler,
         Signal, Open, Called, WriteReport, Stick
<1>4. /\ h \in Handlers /\ h.done <= h.size
      /\ handler' = [handler EXCEPT ![t] = h]
      /\ t = "gui" => up
      /\ t = "pool" => saves # {}
  <2>1. handler[t] = [at |-> handler[t].at, done |-> handler[t].done, size |-> handler[t].size]
        /\ handler[t].done \in Nat /\ handler[t].size \in ReportSizes \cup {0}
    BY <1>2 DEF Handlers
  <2>2. t = "gui" => up
    BY DEF ProgramInv, ProgramTypeOK, InHandler, Signal, Open, Called, WriteReport, Stick
  <2>3. t = "pool" => saves # {}
    BY DEF ProgramInv, ProgramTypeOK, InHandler, Signal, Open, Called, WriteReport, Stick
  <2>4. h \in Handlers /\ h.done <= h.size /\ handler' = [handler EXCEPT ![t] = h]
    <3>1. CASE Signal(t)
      BY <3>1, <2>1, <1>2 DEF Signal, Handlers
    <3>2. CASE Open(t)
      BY <3>2, <1>2, ReportAssumption DEF Open, Report, Handlers
    <3>3. CASE WriteReport(t)
      <4>1. handler[t].size \in Nat
        BY <2>1, ReportAssumption
      <4> QED
        BY <3>3, <2>1, <4>1, <1>2 DEF WriteReport, Handlers
    <3>4. CASE Stick(t)
      BY <3>4, <2>1, <1>2 DEF Stick, Handlers
    <3> QED
      BY <3>1, <3>2, <3>3, <3>4
  <2> QED
    BY <2>2, <2>3, <2>4
<1>5. errorLog' \in Log /\ openers' \subseteq Threads
  <2>1. CASE Open(t)
    BY <2>1, <1>2, EmptyLog DEF Open, CutLog
  <2>2. CASE WriteReport(t)
    <3>1. handler[t].done \in Nat
      BY <1>2 DEF Handlers
    <3> QED
      BY <2>2, <3>1, <1>2, PutKeepsLog DEF WriteReport
  <2>3. CASE Signal(t) \/ Stick(t)
    BY <2>3, <1>2 DEF Signal, Stick
  <2> QED
    BY <2>1, <2>2, <2>3
<1>6. ProgramTypeOK'
  <2>1. handler' \in [Threads -> Handlers] /\ \A s \in Threads : handler'[s].done <= handler'[s].size
    BY <1>2, <1>4
  <2>2. (InHandler("gui") => up)' /\ (InHandler("pool") => saves # {})'
    BY <1>2, <1>4 DEF ProgramInv, ProgramTypeOK, InHandler, Threads
  <2> QED
    BY <2>1, <2>2, <1>2, <1>5 DEF ProgramInv, ProgramTypeOK, Log
<1>7. ASSUME NEW s \in Threads, handler'[s].at = "writes"
      PROVE  /\ s \in openers'
             /\ handler'[s].size \in ReportSizes
             /\ openers' = {s} => errorLog' = [i \in 1 .. handler'[s].done |-> s]
  <2>1. CASE Open(t)
    <3>1. CASE s = t
      <4>1. h.done = 0 /\ h.size \in ReportSizes /\ errorLog' = <<>> /\ t \in openers'
        BY <2>1, <1>2 DEF Open, Report, CutLog
      <4> QED
        BY <3>1, <4>1, EmptyLog
    <3>2. CASE s # t
      BY <3>2, <2>1, <1>2, <1>4, <1>7 DEF Open, ProgramInv, ReportInv
    <3> QED
      BY <3>1, <3>2
  <2>2. CASE WriteReport(t)
    <3>1. t \in openers /\ UNCHANGED openers
      BY <2>2 DEF WriteReport, ProgramInv, ReportInv
    <3>2. CASE s = t
      <4>1. /\ h.done = handler[t].done + 1 /\ h.size = handler[t].size
            /\ errorLog' = Put(errorLog, handler[t].done + 1, t)
            /\ handler[t].done \in Nat
        BY <2>2, <1>2 DEF WriteReport, Handlers
      <4>2. /\ handler[t].size \in ReportSizes
            /\ openers = {t} => errorLog = [i \in 1 .. handler[t].done |-> t]
        BY <2>2 DEF WriteReport, ProgramInv, ReportInv
      <4>3. openers = {t} =>
              Put(errorLog, handler[t].done + 1, t) = [i \in 1 .. handler[t].done + 1 |-> t]
        BY <4>1, <4>2, <1>2, PutKeepsLog
      <4> QED
        BY <3>1, <3>2, <4>1, <4>2, <4>3
    <3>3. CASE s # t
      BY <3>1, <3>3, <1>2, <1>4, <1>7 DEF ProgramInv, ReportInv
    <3> QED
      BY <3>2, <3>3
  <2>3. CASE Signal(t) \/ Stick(t)
    <3>1. handler'[t].at \in {"fault", "abort", "stuck"}
      <4>1. handler[t] = [at |-> handler[t].at, done |-> handler[t].done, size |-> handler[t].size]
        BY <1>2 DEF Handlers
      <4> QED
        BY <4>1, <2>3, <1>2 DEF Signal, Stick
    <3>2. UNCHANGED <<errorLog, openers>>
      BY <2>3 DEF Signal, Stick
    <3> QED
      BY <3>1, <3>2, <1>2, <1>4, <1>7 DEF ProgramInv, ReportInv
  <2> QED
    BY <2>1, <2>2, <2>3
<1>8. ReportInv' /\ ReportIsWhole'
  BY <1>2, <1>3, <1>7 DEF ReportInv, ReportIsWhole
<1> QED
  BY <1>1, <1>6, <1>8 DEF ProgramInv

\* Every step keeps the invariant, and is one of the settings store or leaves it alone.
LEMMA StepKeepsProgramInv ==
  ASSUME ProgramInv, [ProgramNext]_programVars
  PROVE  ProgramInv' /\ [Next]_vars
<1>1. CASE GuiStep \/ GuiFinished \/ PoolStep
  BY <1>1, RunKeepsProgramInv DEF GuiStep, GuiFinished, PoolStep, Next
<1>2. ASSUME NEW t \in Threads, Signal(t) \/ Open(t) \/ WriteReport(t) \/ Stick(t)
      PROVE  ProgramInv' /\ [Next]_vars
  BY <1>2, HandlerKeepsProgramInv DEF Signal, Open, WriteReport, Stick
<1>3. ASSUME NEW t \in Threads, ReturnEarly(t)
      PROVE  ProgramInv' /\ [Next]_vars
  BY <1>3, EndKeepsInv DEF ReturnEarly, End, Next
<1>4. ASSUME NEW t \in Threads, Raise(t)
      PROVE  ProgramInv' /\ [Next]_vars
  <2>1. /\ handler[t].size \in ReportSizes
        /\ openers = {t} => errorLog = [i \in 1 .. handler[t].size |-> t]
    BY <1>4 DEF Raise, ProgramInv, ReportInv
  <2>2. ended' = [thread |-> t, size |-> handler[t].size] /\ End /\ UNCHANGED <<errorLog, openers>>
    BY <1>4 DEF Raise
  <2> QED
    BY <2>1, <2>2, EndKeepsInv DEF End, Next
<1>5. CASE Killed
  BY <1>5, EndKeepsInv DEF Killed, End, Next
<1>6. CASE Start
  BY <1>6, StartKeepsProgramInv DEF Start, Next
<1>7. CASE DirsChange
  <2>1. UNCHANGED <<vars, logPath, handler, errorLog, openers, ended>>
        /\ logPath # "none" /\ writable' = ~writable
    BY <1>7 DEF DirsChange
  <2>2. IInv'
    BY <2>1, StepKeepsIInv DEF ProgramInv
  <2>3. UNCHANGED <<up, saves>>
    BY <2>1 DEF vars
  <2> QED
    BY <2>1, <2>2, <2>3
    DEF ProgramInv, ProgramTypeOK, ReportInv, ReportIsWhole, InHandler
<1>8. CASE UNCHANGED programVars
  <2>1. UNCHANGED vars /\ UNCHANGED signalVars
    BY <1>8 DEF programVars
  <2>2. IInv'
    BY <2>1, StepKeepsIInv DEF ProgramInv
  <2>3. UNCHANGED <<up, saves>>
    BY <2>1 DEF vars
  <2> QED
    BY <2>1, <2>2, <2>3
    DEF ProgramInv, ProgramTypeOK, ReportInv, ReportIsWhole, InHandler, signalVars
<1> QED
  BY <1>1, <1>2, <1>3, <1>4, <1>5, <1>6, <1>7, <1>8 DEF ProgramNext, HandlerStep

-----------------------------------------------------------------------------
(* The theorems.                                                           *)

\* The strengthened invariant holds in every reachable state of the program.
THEOREM ProgramInvInvariant == ProgramSpec => []ProgramInv
<1>1. ProgramInit => ProgramInv
  BY InitKeepsProgramInv
<1>2. ProgramInv /\ [ProgramNext]_programVars => ProgramInv'
  BY StepKeepsProgramInv
<1> QED
  BY <1>1, <1>2, PTL DEF ProgramSpec

\* Type correctness; in particular, a handler runs only in a thread that is there.
THEOREM ProgramTypeCorrect == ProgramSpec => []ProgramTypeOK
  BY ProgramInvInvariant, PTL DEF ProgramInv

\* A process that a signal has ended leaves the whole report of that signal, unless
\* another thread was hit as well.
THEOREM ReportsAreWhole == ProgramSpec => []ReportIsWhole
  BY ProgramInvInvariant, PTL DEF ProgramInv

\* Signals, handlers and new starts take nothing from what is promised about the settings:
\* nothing set is lost while the program runs.
THEOREM SignalsLoseNothing == ProgramSpec => [](TypeOK /\ NothingLost)
  BY ProgramInvInvariant, PTL DEF ProgramInv, IInv

\* Nor does a program that crashes and starts again put an older value into the file.
THEOREM SignalsKeepTheFile == ProgramSpec => FileNeverGoesBack
<1>1. ProgramInv /\ [ProgramNext]_programVars => [\A k \in Keys : file'[k] >= file[k]]_vars
  BY StepKeepsProgramInv, StepKeepsIInv DEF ProgramInv
<1> QED
  BY <1>1, ProgramInvInvariant, PTL DEF ProgramSpec, FileNeverGoesBack

\* Nor does a signal, in whichever thread and wherever in a save it comes, leave half a
\* save in the file: the next start finds what all settings were at one moment.
THEOREM SignalsLeaveCheckpoints == ProgramSpec => ImplementsCheckpoints
<1>1. ProgramInit => Checkpoint!SettingsInit
  BY InitRefines DEF ProgramInit
<1>2. ProgramInv /\ [ProgramNext]_programVars
        => [Checkpoint!SettingsNext]_(Checkpoint!settings)
  BY StepKeepsProgramInv, StepRefines DEF ProgramInv
<1> QED
  BY <1>1, <1>2, ProgramInvInvariant, PTL
  DEF ProgramSpec, ImplementsCheckpoints, Checkpoint!SettingsSpec
=============================================================================
