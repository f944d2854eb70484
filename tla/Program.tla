------------------------------- MODULE Program -------------------------------
(***************************************************************************)
(* How the program ends and starts again: the settings store of            *)
(* ViewLocalSettings in a process whose threads a fatal signal may hit.    *)
(* ErrorHandler::signalHandler runs in the thread that got the signal,     *)
(* while the other threads go on; it writes the error log and then lets    *)
(* the signal end the process.  While the process is there no other one    *)
(* starts (shouldContinueExecution); once it is gone the session manager   *)
(* starts the next one.                                                    *)
(***************************************************************************)
EXTENDS ViewLocalSettings, Sequences

CONSTANT ReportSizes  \* how many chunks signalHandler may have to write

ASSUME ReportAssumption == ReportSizes # {} /\ ReportSizes \subseteq Nat \ {0}

VARIABLES
  logPath,   \* m_crashLogPath: the directory it is in, or "none"
  writable,  \* external: the error log can be opened there
  handler,   \* what signalHandler does in each thread
  errorLog,  \* the file at logPath: who wrote each of its chunks
  openers,   \* history: the threads that have opened the file in this process
  ended      \* history: the thread whose report was finished when the process ended

signalVars == <<logPath, writable, handler, errorLog, openers, ended>>
programVars == <<vars, signalVars>>

Dirs == {"home", "tmp"}
Threads == {"gui", "pool"}
NotCalled == [at |-> "none", done |-> 0, size |-> 0]
Handlers == [at : {"none", "fault", "abort", "stuck", "writes"},
             done : Nat, size : ReportSizes \cup {0}]
NotEnded == [thread |-> "none", size |-> 0]

InHandler(t) == handler[t].at # "none"
Crashing == \E t \in Threads : InHandler(t)

\* What earlier processes have left in the file.
OldReports == {<<>>} \cup {[i \in 1 .. n |-> "old"] : n \in ReportSizes}

-----------------------------------------------------------------------------
(* The start.                                                              *)

\* createLogFile: the first directory that is writable, or has been made.
LogPath(dirs) ==
  IF "home" \in dirs THEN "home" ELSE IF "tmp" \in dirs THEN "tmp" ELSE "none"

\* main, in a process that is the only one.  What another program or an earlier process
\* has done to the error log is left open.
Start ==
  /\ Restart
  /\ logPath' \in {LogPath(dirs) : dirs \in SUBSET Dirs}
  /\ writable' = (logPath' # "none")
  /\ errorLog' \in OldReports
  /\ openers' = {}
  /\ ended' = NotEnded
  /\ UNCHANGED handler

ProgramInit ==
  /\ Init
  /\ logPath \in {LogPath(dirs) : dirs \in SUBSET Dirs}
  /\ writable = (logPath # "none")
  /\ handler = [t \in Threads |-> NotCalled]
  /\ errorLog \in OldReports
  /\ openers = {}
  /\ ended = NotEnded

-----------------------------------------------------------------------------
(* The threads as long as they run.                                        *)

GuiStep ==
  /\ ~InHandler("gui")
  /\ Quit \/ \E k \in Keys : SetValue(k)
  /\ UNCHANGED signalVars

GuiFinished ==
  /\ ~InHandler("gui")
  /\ Finished
  /\ UNCHANGED signalVars

PoolStep ==
  /\ ~InHandler("pool")
  /\ \E t \in saves : Sync(t) \/ \E k \in Keys : WriteKey(t, k)
  /\ UNCHANGED signalVars

\* A fault (SIGSEGV, SIGFPE, SIGILL), or abort().
Signal(t) ==
  /\ ~InHandler(t)
  /\ t = "gui" => up
  /\ t = "pool" => saves # {}
  /\ \E s \in {"fault", "abort"} : handler' = [handler EXCEPT ![t].at = s]
  /\ UNCHANGED <<vars, logPath, writable, errorLog, openers, ended>>

\* The directory is removed, made or protected, the disk mounted read-only.
DirsChange ==
  /\ logPath # "none"
  /\ writable' = ~writable
  /\ UNCHANGED <<vars, logPath, handler, errorLog, openers, ended>>

-----------------------------------------------------------------------------
(* signalHandler.                                                          *)

Called(t) == handler[t].at \in {"fault", "abort"}

\* The process is gone, with all of its threads.
End ==
  /\ Crash
  /\ handler' = [t \in Threads |-> NotCalled]
  /\ UNCHANGED <<logPath, writable>>

\* Mutant of CutLog: the file is opened without O_TRUNC.
CutLogKept == errorLog

\* Of an earlier report nothing is left.
CutLog == <<>>

\* The name of the signal and the backtrace make reports of different sizes.
Report(n) == [at |-> "writes", done |-> 0, size |-> n]

\* The log is opened and emptied.
Open(t) ==
  /\ Called(t)
  /\ writable
  /\ \E n \in ReportSizes : handler' = [handler EXCEPT ![t] = Report(n)]
  /\ errorLog' = CutLog
  /\ openers' = openers \cup {t}
  /\ UNCHANGED <<vars, logPath, writable, ended>>

\* Without a log the handler returns.  abort() then ends the process itself; an
\* instruction that faults is executed again, and so is the handler.
ReturnEarly(t) ==
  /\ handler[t].at = "abort"
  /\ ~writable
  /\ End
  /\ UNCHANGED <<errorLog, openers, ended>>

\* The name of the file is converted with memory from the heap, whose lock the thread
\* may have held when it was hit: then it waits for itself.
Stick(t) ==
  /\ Called(t)
  /\ logPath # "none"
  /\ handler' = [handler EXCEPT ![t].at = "stuck"]
  /\ UNCHANGED <<vars, logPath, writable, errorLog, openers, ended>>

\* A chunk goes where this thread's file descriptor stands.
Put(file_, i, t) ==
  [j \in 1 .. (IF i > Len(file_) THEN i ELSE Len(file_)) |->
     IF j = i THEN t ELSE IF j <= Len(file_) THEN file_[j] ELSE "hole"]

\* Mutant of WriteReport: the loop goes on when nothing is left.
WriteReportPast(t) ==
  /\ handler[t].at = "writes"
  /\ handler[t].done <= handler[t].size
  /\ handler' = [handler EXCEPT ![t].done = @ + 1]
  /\ errorLog' = Put(errorLog, handler[t].done + 1, t)
  /\ UNCHANGED <<vars, logPath, writable, openers, ended>>

WriteReport(t) ==
  /\ handler[t].at = "writes"
  /\ handler[t].done < handler[t].size
  /\ handler' = [handler EXCEPT ![t].done = @ + 1]
  /\ errorLog' = Put(errorLog, handler[t].done + 1, t)
  /\ UNCHANGED <<vars, logPath, writable, openers, ended>>

\* Mutant of Raise: the signal still has its handler.
RaiseAgain(t) ==
  /\ handler[t].at = "writes"
  /\ handler[t].done = handler[t].size
  /\ handler' = [handler EXCEPT ![t] = [NotCalled EXCEPT !.at = "fault"]]
  /\ UNCHANGED <<vars, logPath, writable, errorLog, openers, ended>>

\* The signal gets its default action and is raised.
Raise(t) ==
  /\ handler[t].at = "writes"
  /\ handler[t].done = handler[t].size
  /\ End
  /\ ended' = [thread |-> t, size |-> handler[t].size]
  /\ UNCHANGED <<errorLog, openers>>

HandlerStep(t) == Open(t) \/ ReturnEarly(t) \/ WriteReport(t) \/ Raise(t)

\* Signals nobody catches: SIGKILL, a session that ends.
Killed == End /\ UNCHANGED <<errorLog, openers, ended>>

-----------------------------------------------------------------------------

ProgramNext ==
  \/ GuiStep
  \/ GuiFinished
  \/ PoolStep
  \/ \E t \in Threads : Signal(t) \/ HandlerStep(t) \/ Stick(t)
  \/ Killed
  \/ DirsChange
  \/ Start

\* The threads run, and the session manager starts the program again.
ProgramFairness ==
  /\ WF_programVars(PoolStep)
  /\ WF_programVars(GuiFinished)
  /\ \A t \in Threads : WF_programVars(HandlerStep(t))
  /\ WF_programVars(Start)

ProgramSpec == ProgramInit /\ [][ProgramNext]_programVars /\ ProgramFairness

-----------------------------------------------------------------------------
(* What must hold.                                                         *)

\* Every variable has its type; a handler runs only in a thread that is there.
ProgramTypeOK ==
  /\ logPath \in Dirs \cup {"none"}
  /\ writable \in BOOLEAN
  /\ writable => logPath # "none"
  /\ handler \in [Threads -> Handlers]
  /\ \A t \in Threads : handler[t].done <= handler[t].size
  /\ errorLog \in Seq(Threads \cup {"old", "hole"})
  /\ openers \subseteq Threads
  /\ ended \in [thread : Threads \cup {"none"}, size : ReportSizes \cup {0}]
  /\ InHandler("gui") => up
  /\ InHandler("pool") => saves # {}

\* When a signal has ended the process, the error log is the report of that signal,
\* whole, whatever it held before and whatever the other threads did meanwhile; unless
\* a signal hit another thread too, whose handler writes into the same file.
ReportIsWhole ==
  ended.thread # "none" /\ openers = {ended.thread} =>
    errorLog = [i \in 1 .. ended.size |-> ended.thread]

\* A program hit by a fatal signal runs again in the end: the handler lets the process
\* go, for which the single instance waits.  It does so if from some time on the log can
\* be opened (otherwise a faulting instruction is executed for ever, in a process
\* that answers nobody and keeps the next one from starting) and if no handler waits for the heap.
ComesBack ==
  <>[]writable /\ [](\A t \in Threads : handler[t].at # "stuck")
    => (Crashing ~> up /\ ~Crashing)

\* Every value reaches the file, or a later one does, unless the program ends or a
\* thread is hit by a signal; also when values are set faster than a task writes them.
ValuesReachFile ==
  \A k \in Keys, v \in Versions : latest[k] = v ~> file[k] >= v \/ ~up \/ Crashing
=============================================================================
