--------------------------- MODULE ViewLocalSettings ---------------------------
(***************************************************************************)
(* The asynchronous store of the view's settings.  setValue puts a value   *)
(* into groupSettingMap_ on the GUI thread; a QtConcurrent task takes the  *)
(* whole map, writes its keys one after the other through QSettings, whose *)
(* in-memory copy of the file all QSettings objects of the process share,  *)
(* and syncs the file.  Its future's finished signal comes back to the GUI *)
(* thread, which starts the next task if values have piled up meanwhile.   *)
(*                                                                         *)
(* A value is the number of the setValue call that stored it, 0 stands for *)
(* "no value".                                                             *)
(***************************************************************************)
EXTENDS Naturals

CONSTANTS
  Keys,       \* group and key of the settings
  MaxVersion  \* bound of the model: calls of setValue per key

ASSUME KeysAssumption == Keys # {} /\ MaxVersion \in Nat

VARIABLES
  up,               \* the program runs
  groupSettingMap,  \* values set and not yet handed to a task
  isFinished,       \* futureWatcher_.isFinished()
  saves,            \* the tasks of the thread pool that run
  posted,           \* the finished event of the watched future is in the queue
  cache,            \* QSettings' in-memory copy of the file
  file,             \* the file
  latest            \* history: the last value set, or loaded

vars == <<up, groupSettingMap, isFinished, saves, posted, cache, file, latest>>

Versions == 0 .. MaxVersion
SettingMaps == [Keys -> Versions]
Empty == [k \in Keys |-> 0]
HasKeys(map) == {k \in Keys : map[k] # 0}
Tasks == [map : SettingMaps, todo : SUBSET Keys]

Init ==
  /\ up = TRUE
  /\ groupSettingMap = Empty
  /\ isFinished = TRUE
  /\ saves = {}
  /\ posted = FALSE
  /\ cache = Empty
  /\ file = Empty
  /\ latest = Empty

\* saveSettingsAsync: the map moves into a task, and its future is watched.
SaveSettingsAsync(map) ==
  /\ saves' = saves \cup {[map |-> map, todo |-> HasKeys(map)]}
  /\ groupSettingMap' = Empty
  /\ isFinished' = FALSE

\* Mutant of MayStartSave: a save is started while another one runs.
MayStartSaveAlways == TRUE

MayStartSave == isFinished

SetValue(k) ==
  LET v == latest[k] + 1
      map == [groupSettingMap EXCEPT ![k] = v]
  IN  /\ up
      /\ v \in Versions
      /\ latest' = [latest EXCEPT ![k] = v]
      /\ IF MayStartSave
         THEN SaveSettingsAsync(map)
         ELSE groupSettingMap' = map /\ UNCHANGED <<saves, isFinished>>
      /\ UNCHANGED <<up, posted, cache, file>>

\* Mutant of WriteKey: the file is synced after every key.
WriteKeySynced(t, k) ==
  /\ k \in t.todo
  /\ cache' = [cache EXCEPT ![k] = t.map[k]]
  /\ file' = cache'
  /\ saves' = (saves \ {t}) \cup {[t EXCEPT !.todo = @ \ {k}]}
  /\ UNCHANGED <<up, groupSettingMap, isFinished, posted, latest>>

\* A task calls QSettings::setValue for one of its keys ...
WriteKey(t, k) ==
  /\ k \in t.todo
  /\ cache' = [cache EXCEPT ![k] = t.map[k]]
  /\ saves' = (saves \ {t}) \cup {[t EXCEPT !.todo = @ \ {k}]}
  /\ UNCHANGED <<up, groupSettingMap, isFinished, posted, file, latest>>

\* ... and, after the last one, sync; the watched future then is finished.
Sync(t) ==
  /\ t.todo = {}
  /\ file' = cache
  /\ saves' = saves \ {t}
  /\ posted' = up
  /\ UNCHANGED <<up, groupSettingMap, isFinished, cache, latest>>

\* Mutant of FinishedSlot: the map is cleared, not saved.
FinishedSlotClears ==
  /\ isFinished' = TRUE
  /\ groupSettingMap' = Empty
  /\ UNCHANGED saves

\* Mutant of FinishedSlot: the values that have piled up wait for the next setValue.
FinishedSlotIdle ==
  /\ isFinished' = TRUE
  /\ UNCHANGED <<saves, groupSettingMap>>

\* The slot connected to QFutureWatcher::finished
FinishedSlot ==
  IF groupSettingMap = Empty
  THEN isFinished' = TRUE /\ UNCHANGED <<saves, groupSettingMap>>
  ELSE SaveSettingsAsync(groupSettingMap)

Finished ==
  /\ up
  /\ posted
  /\ posted' = FALSE
  /\ FinishedSlot
  /\ UNCHANGED <<up, cache, file, latest>>

\* The program ends.  The destructor drops the map and the event; the thread pool
\* waits for the tasks that run.
Quit ==
  /\ up
  /\ up' = FALSE
  /\ groupSettingMap' = Empty
  /\ posted' = FALSE
  /\ UNCHANGED <<isFinished, saves, cache, file, latest>>

\* A crash, also of a program that waits for its tasks, takes them and the in-memory
\* copy along.
Crash ==
  /\ up \/ saves # {}
  /\ up' = FALSE
  /\ groupSettingMap' = Empty
  /\ posted' = FALSE
  /\ saves' = {}
  /\ cache' = file
  /\ UNCHANGED <<isFinished, file, latest>>

\* The next start loads the file.
Restart ==
  /\ ~up
  /\ saves = {}
  /\ up' = TRUE
  /\ isFinished' = TRUE
  /\ cache' = file
  /\ latest' = file
  /\ UNCHANGED <<groupSettingMap, saves, posted, file>>

Next ==
  \/ \E k \in Keys : SetValue(k)
  \/ \E t \in saves : Sync(t) \/ \E k \in Keys : WriteKey(t, k)
  \/ Finished
  \/ Quit
  \/ Crash
  \/ Restart

\* The thread pool runs its tasks, the event loop delivers what is posted.
Fairness ==
  /\ WF_vars(\E t \in saves : Sync(t) \/ \E k \in Keys : WriteKey(t, k))
  /\ WF_vars(Finished)

Spec == Init /\ [][Next]_vars /\ Fairness

-----------------------------------------------------------------------------
(* What must hold.                                                         *)

\* At most one task runs: two of them could write the same key in either order.
OneSaveAtATime == \A t, u \in saves : t = u

\* Every variable has its type, and no two tasks run side by side.
TypeOK ==
  /\ up \in BOOLEAN
  /\ isFinished \in BOOLEAN
  /\ posted \in BOOLEAN
  /\ saves \subseteq Tasks
  /\ groupSettingMap \in SettingMaps
  /\ cache \in SettingMaps
  /\ file \in SettingMaps
  /\ latest \in SettingMaps
  /\ OneSaveAtATime

\* The last value set for a key is in the map, or else on its way in the task that
\* runs, or else written: no interleaving of setValue with the task and with the
\* finished event drops it while the program runs.
NothingLost ==
  up => \A k \in Keys :
    IF groupSettingMap[k] # 0
    THEN latest[k] = groupSettingMap[k]
    ELSE /\ \A t \in saves : k \in t.todo => latest[k] = t.map[k]
         /\ (\A t \in saves : k \notin t.todo) => latest[k] = cache[k]

\* What the file holds is never replaced by something older, whatever the tasks,
\* exits, crashes and restarts are interleaved with.
FileNeverGoesBack == [][\A k \in Keys : file'[k] >= file[k]]_vars

\* What the file will hold when a task is done.
Snapshot(t) == [k \in Keys |-> IF t.map[k] # 0 THEN t.map[k] ELSE cache[k]]

Checkpoint == INSTANCE Checkpoints
  WITH running <- up,
       value <- latest,
       disk <- file,
       saving <- {Snapshot(t) : t \in saves}

\* The store implements Checkpoints: although the keys are written one by one, and go on
\* being set meanwhile, the file only ever goes from what all settings were at one
\* moment to what they were at a later one; a crash in the middle of a task, or
\* an exit the thread pool outlives, never leaves half a save there.
ImplementsCheckpoints == Checkpoint!SettingsSpec
=============================================================================
