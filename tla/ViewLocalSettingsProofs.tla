------------------------ MODULE ViewLocalSettingsProofs ------------------------
(***************************************************************************)
(* Proofs about ViewLocalSettings, for every set of keys and any number of *)
(* calls of setValue.                                                      *)
(***************************************************************************)
EXTENDS ViewLocalSettings, TLAPS

-----------------------------------------------------------------------------
(* The inductive invariant.                                                *)

\* Where a save stands: before its task has run, isFinished is FALSE; after that, and
\* until the event loop delivers it, the finished event is posted.
WatcherInv ==
  /\ up /\ isFinished => saves = {} /\ ~posted
  /\ posted => up /\ saves = {}
  /\ ~up => groupSettingMap = Empty

\* The order of the values on their way from the program to the file.
OrderInv ==
  /\ \A k \in Keys : file[k] <= cache[k]
  /\ \A t \in saves : \A k \in t.todo : t.map[k] # 0 /\ cache[k] <= t.map[k]
  /\ up => \A k \in Keys : cache[k] <= latest[k]
  /\ up => \A t \in saves : \A k \in Keys : t.map[k] <= latest[k]

\* What a task has written is what the in-memory copy has: nobody else writes to it.
WrittenInv ==
  \A t \in saves : \A k \in Keys :
    t.map[k] # 0 /\ k \notin t.todo => cache[k] = t.map[k]

IInv ==
  /\ TypeOK
  /\ WatcherInv
  /\ OrderInv
  /\ WrittenInv
  /\ NothingLost

-----------------------------------------------------------------------------
(* One lemma per step.                                                     *)

\* Nothing is set, nothing is saved.
LEMMA InitKeepsIInv ==
  ASSUME Init
  PROVE  IInv
<1> USE DEF Init
<1>1. Empty \in SettingMaps /\ \A k \in Keys : Empty[k] = 0
  BY KeysAssumption DEF Empty, SettingMaps, Versions
<1>2. TypeOK /\ WatcherInv
  BY <1>1 DEF TypeOK, WatcherInv, OneSaveAtATime
<1>3. OrderInv /\ WrittenInv /\ NothingLost
  BY <1>1 DEF OrderInv, WrittenInv, NothingLost
<1> QED
  BY <1>2, <1>3 DEF IInv

\* A save that starts when none runs takes over every value that is not yet written.
LEMMA SaveKeepsIInv ==
  ASSUME IInv,
         up, saves = {},
         NEW map \in SettingMaps,
         SaveSettingsAsync(map),
         latest' \in SettingMaps,
         \A k \in Keys : /\ cache[k] <= latest'[k]
                         /\ latest'[k] = IF map[k] # 0 THEN map[k] ELSE cache[k],
         posted' = FALSE,
         UNCHANGED <<up, cache, file>>
  PROVE  IInv'
<1> DEFINE task == [map |-> map, todo |-> HasKeys(map)]
<1>1. /\ saves' = {task}
      /\ groupSettingMap' = Empty
      /\ isFinished' = FALSE
  BY DEF SaveSettingsAsync
<1>2. task \in Tasks /\ task.map = map /\ \A k \in Keys : k \in task.todo <=> map[k] # 0
  BY DEF Tasks, HasKeys
<1> HIDE DEF task
<1>3. Empty \in SettingMaps /\ \A k \in Keys : Empty[k] = 0
  BY KeysAssumption DEF Empty, SettingMaps, Versions
<1>4. TypeOK'
  BY <1>1, <1>2, <1>3 DEF IInv, TypeOK, OneSaveAtATime
<1>5. WatcherInv'
  BY <1>1 DEF WatcherInv
<1>6. OrderInv'
  <2>1. /\ task.todo \subseteq Keys
        /\ \A k \in Keys : map[k] \in Nat /\ cache[k] \in Nat
    BY <1>2 DEF IInv, TypeOK, Tasks, SettingMaps, Versions
  <2>2. \A k \in Keys : map[k] <= latest'[k]
    BY <2>1
  <2>3. \A k \in task.todo : map[k] # 0 /\ cache[k] <= map[k]
    BY <1>2, <2>1
  <2>4. \A k \in Keys : file[k] <= cache[k]
    BY DEF IInv, OrderInv
  <2> QED
    BY <1>1, <1>2, <2>2, <2>3, <2>4 DEF OrderInv
<1>7. NothingLost'
  BY <1>1, <1>2, <1>3 DEF NothingLost
<1>8. WrittenInv'
  BY <1>1, <1>2 DEF WrittenInv
<1> QED
  BY <1>4, <1>5, <1>6, <1>7, <1>8 DEF IInv

\* A value that is set goes into a task of its own or waits in the map.
LEMMA SetValueKeepsIInv ==
  ASSUME IInv, NEW k \in Keys, SetValue(k)
  PROVE  IInv'
<1> DEFINE v == latest[k] + 1
           map == [groupSettingMap EXCEPT ![k] = v]
<1>1. /\ latest \in SettingMaps /\ groupSettingMap \in SettingMaps
      /\ cache \in SettingMaps
      /\ v \in Versions /\ v # 0
  BY DEF SetValue, IInv, TypeOK, SettingMaps, Versions
<1>2. up /\ UNCHANGED <<up, posted, cache, file>>
  BY DEF SetValue
<1>3. /\ latest' \in SettingMaps
      /\ \A j \in Keys : latest'[j] = IF j = k THEN v ELSE latest[j]
      /\ map \in SettingMaps
      /\ \A j \in Keys : map[j] = IF j = k THEN v ELSE groupSettingMap[j]
  BY <1>1 DEF SetValue, SettingMaps
<1>4. \A j \in Keys : /\ latest[j] \in Nat /\ latest'[j] \in Nat
                      /\ latest[j] <= latest'[j]
                      /\ cache[j] <= latest'[j]
  BY <1>1, <1>2, <1>3 DEF IInv, OrderInv, SettingMaps, Versions
<1>5. CASE isFinished
  <2>1. saves = {} /\ ~posted
    BY <1>2, <1>5 DEF IInv, WatcherInv
  <2>2. SaveSettingsAsync(map)
    BY <1>5 DEF SetValue, MayStartSave
  <2>3. \A j \in Keys : latest'[j] = IF map[j] # 0 THEN map[j] ELSE cache[j]
    BY <1>1, <1>2, <1>3, <2>1 DEF IInv, NothingLost
  <2>4. posted' = FALSE
    BY <1>2, <2>1 DEF IInv, TypeOK
  <2> HIDE DEF map
  <2> QED
    BY <1>2, <1>3, <1>4, <2>1, <2>2, <2>3, <2>4, SaveKeepsIInv
<1>6. CASE ~isFinished
  <2>1. groupSettingMap' = map /\ UNCHANGED <<saves, isFinished>>
    BY <1>6 DEF SetValue, MayStartSave
  <2> HIDE DEF map
  <2>2. TypeOK'
    BY <1>2, <1>3, <2>1 DEF IInv, TypeOK, OneSaveAtATime
  <2>3. WatcherInv'
    BY <1>2, <1>6, <2>1 DEF IInv, WatcherInv
  <2>4. OrderInv'
    <3>1. \A t \in saves : \A j \in Keys : t.map[j] \in Nat /\ t.todo \subseteq Keys
      BY DEF IInv, TypeOK, Tasks, SettingMaps, Versions
    <3> QED
      BY <1>2, <1>4, <2>1, <3>1 DEF IInv, OrderInv
  <2>5. NothingLost'
    BY <1>1, <1>2, <1>3, <2>1 DEF IInv, NothingLost
  <2>6. WrittenInv'
    BY <1>2, <2>1 DEF IInv, WrittenInv
  <2> QED
    BY <2>2, <2>3, <2>4, <2>5, <2>6 DEF IInv
<1> QED
  BY <1>5, <1>6

\* A task only ever replaces a value by the one that was set after it.
LEMMA WriteKeyKeepsIInv ==
  ASSUME IInv, NEW t \in saves, NEW k \in Keys, WriteKey(t, k)
  PROVE  IInv' /\ UNCHANGED file
<1> DEFINE u == [t EXCEPT !.todo = @ \ {k}]
<1> USE DEF WriteKey
<1>1. /\ t \in Tasks /\ saves = {t}
      /\ u \in Tasks /\ u.map = t.map /\ u.todo = t.todo \ {k}
  BY DEF IInv, TypeOK, OneSaveAtATime, Tasks
<1>2. saves' = {u}
  BY <1>1
<1> HIDE DEF u
<1>3. /\ cache' \in SettingMaps
      /\ \A j \in Keys : cache'[j] = IF j = k THEN t.map[k] ELSE cache[j]
  BY <1>1 DEF IInv, TypeOK, Tasks, SettingMaps
<1>4. \A j \in Keys : /\ file[j] \in Nat /\ cache[j] \in Nat /\ t.map[j] \in Nat
                      /\ latest[j] \in Nat
  BY <1>1 DEF IInv, TypeOK, Tasks, SettingMaps, Versions
<1>5. TypeOK'
  BY <1>1, <1>2, <1>3 DEF IInv, TypeOK, OneSaveAtATime
<1>6. WatcherInv'
  BY <1>1, <1>2 DEF IInv, WatcherInv
<1>7. OrderInv'
  <2>1. t.todo \subseteq Keys
    BY <1>1 DEF Tasks
  <2> QED
    BY <1>1, <1>2, <1>3, <1>4, <2>1 DEF IInv, OrderInv
<1>8. NothingLost'
  BY <1>1, <1>2, <1>3 DEF IInv, NothingLost
<1>9. WrittenInv'
  BY <1>1, <1>2, <1>3 DEF IInv, WrittenInv
<1> QED
  BY <1>5, <1>6, <1>7, <1>8, <1>9 DEF IInv

\* Syncing brings the file up to the in-memory copy.
LEMMA SyncKeepsIInv ==
  ASSUME IInv, NEW t \in saves, Sync(t)
  PROVE  IInv' /\ file' = cache
<1> USE DEF Sync
<1>1. saves = {t} /\ saves' = {}
  BY DEF IInv, TypeOK, OneSaveAtATime
<1>2. TypeOK'
  BY <1>1 DEF IInv, TypeOK, OneSaveAtATime
<1>3. WatcherInv'
  BY <1>1 DEF IInv, WatcherInv
<1>4. OrderInv'
  BY <1>1 DEF IInv, TypeOK, OrderInv, SettingMaps, Versions
<1>5. NothingLost'
  BY <1>1 DEF IInv, NothingLost
<1>6. WrittenInv'
  BY <1>1 DEF WrittenInv
<1> QED
  BY <1>2, <1>3, <1>4, <1>5, <1>6 DEF IInv

\* What has waited in the map goes into the next task.
LEMMA FinishedKeepsIInv ==
  ASSUME IInv, Finished
  PROVE  IInv' /\ UNCHANGED file
<1> USE DEF Finished
<1>1. up /\ saves = {}
  BY DEF IInv, WatcherInv
<1>2. CASE groupSettingMap = Empty
  <2>1. isFinished' = TRUE /\ UNCHANGED <<saves, groupSettingMap>>
    BY <1>2 DEF FinishedSlot
  <2>2. TypeOK' /\ WatcherInv'
    BY <1>1, <2>1 DEF IInv, TypeOK, WatcherInv, OneSaveAtATime
  <2>3. OrderInv' /\ WrittenInv' /\ NothingLost'
    BY <2>1 DEF IInv, OrderInv, WrittenInv, NothingLost
  <2> QED
    BY <2>2, <2>3 DEF IInv
<1>3. CASE groupSettingMap # Empty
  <2>1. SaveSettingsAsync(groupSettingMap)
    BY <1>3 DEF FinishedSlot
  <2>2. groupSettingMap \in SettingMaps /\ latest \in SettingMaps
    BY DEF IInv, TypeOK
  <2>3. \A k \in Keys :
          /\ cache[k] <= latest[k]
          /\ latest[k] = IF groupSettingMap[k] # 0 THEN groupSettingMap[k] ELSE cache[k]
    BY <1>1 DEF IInv, OrderInv, NothingLost
  <2> QED
    BY <1>1, <2>1, <2>2, <2>3, SaveKeepsIInv
<1> QED
  BY <1>2, <1>3

\* A program that ends may lose values, but no order.
LEMMA EndKeepsIInv ==
  ASSUME IInv, Quit \/ Crash
  PROVE  IInv' /\ UNCHANGED file
<1> USE DEF Quit, Crash
<1>1. Empty \in SettingMaps
  BY KeysAssumption DEF Empty, SettingMaps, Versions
<1>2. TypeOK' /\ WatcherInv'
  BY <1>1 DEF IInv, TypeOK, WatcherInv, OneSaveAtATime
<1>3. OrderInv'
  BY DEF IInv, TypeOK, OrderInv, SettingMaps, Versions
<1>4. NothingLost' /\ WrittenInv'
  BY DEF IInv, NothingLost, WrittenInv
<1> QED
  BY <1>2, <1>3, <1>4 DEF IInv

\* A restarted program begins with what the file holds.
LEMMA RestartKeepsIInv ==
  ASSUME IInv, Restart
  PROVE  IInv' /\ UNCHANGED file
<1> USE DEF Restart
<1>1. ~posted /\ groupSettingMap = Empty /\ saves = {}
  BY DEF IInv, WatcherInv
<1>2. TypeOK' /\ WatcherInv'
  BY <1>1 DEF IInv, TypeOK, WatcherInv, OneSaveAtATime
<1>3. OrderInv'
  BY <1>1 DEF IInv, TypeOK, OrderInv, SettingMaps, Versions
<1>4. NothingLost' /\ WrittenInv'
  BY <1>1 DEF NothingLost, WrittenInv, Empty
<1> QED
  BY <1>2, <1>3, <1>4 DEF IInv

\* Every step keeps the invariant, and takes no key of the file back.
LEMMA StepKeepsIInv ==
  ASSUME IInv, [Next]_vars
  PROVE  IInv' /\ \A k \in Keys : file'[k] >= file[k]
<1>1. \A k \in Keys : file[k] \in Nat /\ cache[k] \in Nat /\ file[k] <= cache[k]
  BY DEF IInv, TypeOK, OrderInv, SettingMaps, Versions
<1>2. ASSUME NEW k \in Keys, SetValue(k)
      PROVE  IInv' /\ UNCHANGED file
  BY <1>2, SetValueKeepsIInv DEF SetValue
<1>3. ASSUME NEW t \in saves, Sync(t)
      PROVE  IInv' /\ file' = cache
  BY <1>3, SyncKeepsIInv
<1>4. ASSUME NEW t \in saves, NEW k \in Keys, WriteKey(t, k)
      PROVE  IInv' /\ UNCHANGED file
  BY <1>4, WriteKeyKeepsIInv
<1>5. CASE UNCHANGED vars
  BY <1>1, <1>5
  DEF vars, IInv, TypeOK, WatcherInv, OrderInv, WrittenInv, NothingLost, OneSaveAtATime
<1> QED
  BY <1>1, <1>2, <1>3, <1>4, <1>5, FinishedKeepsIInv, EndKeepsIInv, RestartKeepsIInv
  DEF Next

-----------------------------------------------------------------------------
(* The store implements Checkpoints.                                       *)

Saving == {Snapshot(t) : t \in saves}

\* Without a task no checkpoint is on its way, and with one it is that of the task.
LEMMA OneCheckpoint ==
  /\ saves = {} => Saving = {}
  /\ \A t : saves = {t} => Saving = {Snapshot(t)}
  BY DEF Saving

\* What happens between values, file and task that Checkpoints allows.
LEMMA CheckpointSteps ==
  ASSUME IInv,
         \/ UNCHANGED <<up, latest, file, Saving>>
         \/ /\ up
            /\ \E k \in Keys : latest' = [latest EXCEPT ![k] = @ + 1]
            /\ Saving' = Saving \/ (Saving = {} /\ Saving' = {latest'})
            /\ UNCHANGED <<up, file>>
         \/ up /\ Saving = {} /\ Saving' = {latest} /\ UNCHANGED <<up, latest, file>>
         \/ file' \in Saving /\ Saving' = {} /\ UNCHANGED <<up, latest>>
         \/ /\ up \/ Saving # {}
            /\ ~up'
            /\ Saving' \in {Saving, {}}
            /\ UNCHANGED <<latest, file>>
         \/ ~up /\ Saving = {} /\ up' /\ latest' = file /\ UNCHANGED <<file, Saving>>
  PROVE  [Checkpoint!SettingsNext]_(Checkpoint!settings)
<1>1. DOMAIN latest = Keys
  BY DEF IInv, TypeOK, SettingMaps
<1> QED
  BY <1>1
  DEF Saving, Checkpoint!SettingsNext, Checkpoint!settings, Checkpoint!Change,
      Checkpoint!Take, Checkpoint!Commit, Checkpoint!Stop, Checkpoint!Load

\* A task that starts when no other runs is a checkpoint of this moment.
LEMMA SaveIsCheckpoint ==
  ASSUME saves = {},
         NEW map \in SettingMaps,
         SaveSettingsAsync(map),
         latest' \in SettingMaps,
         \A k \in Keys : latest'[k] = IF map[k] # 0 THEN map[k] ELSE cache[k],
         UNCHANGED cache
  PROVE  Saving = {} /\ Saving' = {latest'}
<1> DEFINE task == [map |-> map, todo |-> HasKeys(map)]
<1>1. saves' = {task} /\ task.map = map
  BY DEF SaveSettingsAsync
<1> HIDE DEF task
<1>2. Saving = {} /\ Saving' = {Snapshot(task)'}
  BY <1>1 DEF Saving
<1>3. Snapshot(task)' = latest'
  BY <1>1 DEF Snapshot, SettingMaps
<1> QED
  BY <1>2, <1>3

\* Setting a value: with a task of its own it is part of the checkpoint of this moment;
\* without one it waits for the next.
LEMMA SetValueRefines ==
  ASSUME IInv, NEW k \in Keys, SetValue(k)
  PROVE  [Checkpoint!SettingsNext]_(Checkpoint!settings)
<1> DEFINE v == latest[k] + 1
           map == [groupSettingMap EXCEPT ![k] = v]
<1>1. /\ up /\ UNCHANGED <<up, cache, file>>
      /\ latest' = [latest EXCEPT ![k] = @ + 1]
      /\ v \in Versions /\ v # 0
  BY DEF SetValue, IInv, TypeOK, SettingMaps, Versions
<1>2. /\ latest' \in SettingMaps /\ map \in SettingMaps
      /\ \A j \in Keys : latest'[j] = IF j = k THEN v ELSE latest[j]
      /\ \A j \in Keys : map[j] = IF j = k THEN v ELSE groupSettingMap[j]
  BY <1>1 DEF IInv, TypeOK, SettingMaps
<1>3. CASE isFinished
  <2>1. saves = {} /\ SaveSettingsAsync(map)
    BY <1>1, <1>3 DEF IInv, WatcherInv, SetValue, MayStartSave
  <2>2. \A j \in Keys : latest'[j] = IF map[j] # 0 THEN map[j] ELSE cache[j]
    BY <1>1, <1>2, <2>1 DEF IInv, NothingLost
  <2> HIDE DEF map
  <2>3. Saving = {} /\ Saving' = {latest'}
    BY <1>1, <1>2, <2>1, <2>2, SaveIsCheckpoint
  <2> QED
    BY <1>1, <2>3, CheckpointSteps
<1>4. CASE ~isFinished
  <2>1. Saving' = Saving
    BY <1>1, <1>4 DEF SetValue, MayStartSave, Saving, Snapshot
  <2> QED
    BY <1>1, <2>1, CheckpointSteps
<1> QED
  BY <1>3, <1>4

\* Writing a key does not change what the file will hold when the task is done.
LEMMA WriteKeyRefines ==
  ASSUME IInv, NEW t \in saves, NEW k \in Keys, WriteKey(t, k)
  PROVE  [Checkpoint!SettingsNext]_(Checkpoint!settings)
<1> DEFINE u == [t EXCEPT !.todo = @ \ {k}]
<1>1. /\ t \in Tasks /\ saves = {t}
      /\ u.map = t.map /\ saves' = {u}
  BY DEF WriteKey, IInv, TypeOK, OneSaveAtATime, Tasks
<1> HIDE DEF u
<1>2. /\ t.map[k] # 0
      /\ \A j \in Keys : cache'[j] = IF j = k THEN t.map[k] ELSE cache[j]
  BY <1>1 DEF WriteKey, IInv, TypeOK, OrderInv, SettingMaps
<1>3. Snapshot(u)' = Snapshot(t)
  BY <1>1, <1>2 DEF Snapshot
<1>4. Saving' = Saving
  BY <1>1, <1>3 DEF Saving
<1> QED
  BY <1>4, CheckpointSteps DEF WriteKey

\* When all keys of a task are written, the in-memory copy is its checkpoint.
LEMMA SyncRefines ==
  ASSUME IInv, NEW t \in saves, Sync(t)
  PROVE  [Checkpoint!SettingsNext]_(Checkpoint!settings)
<1>1. saves = {t} /\ saves' = {} /\ t.todo = {} /\ file' = cache
  BY DEF Sync, IInv, TypeOK, OneSaveAtATime
<1>2. Snapshot(t) = cache
  BY <1>1 DEF Snapshot, IInv, TypeOK, WrittenInv, SettingMaps
<1>3. file' \in Saving /\ Saving' = {}
  BY <1>1, <1>2 DEF Saving
<1> QED
  BY <1>3, CheckpointSteps DEF Sync

\* The values that have piled up make the next checkpoint.
LEMMA FinishedRefines ==
  ASSUME IInv, Finished
  PROVE  [Checkpoint!SettingsNext]_(Checkpoint!settings)
<1>1. up /\ saves = {} /\ UNCHANGED <<up, cache, file, latest>>
  BY DEF Finished, IInv, WatcherInv
<1>2. CASE groupSettingMap = Empty
  <2>1. Saving' = Saving
    BY <1>1, <1>2 DEF Finished, FinishedSlot, Saving, Snapshot
  <2> QED
    BY <1>1, <2>1, CheckpointSteps
<1>3. CASE groupSettingMap # Empty
  <2>1. SaveSettingsAsync(groupSettingMap)
    BY <1>3 DEF Finished, FinishedSlot
  <2>2. groupSettingMap \in SettingMaps /\ latest' \in SettingMaps
    BY <1>1 DEF IInv, TypeOK
  <2>3. \A k \in Keys :
          latest'[k] = IF groupSettingMap[k] # 0 THEN groupSettingMap[k] ELSE cache[k]
    BY <1>1 DEF IInv, NothingLost
  <2>4. Saving = {} /\ Saving' = {latest'}
    BY <1>1, <2>1, <2>2, <2>3, SaveIsCheckpoint
  <2> QED
    BY <1>1, <2>4, CheckpointSteps
<1> QED
  BY <1>2, <1>3

\* An exit leaves the task to the thread pool; a crash takes it along.
LEMMA EndRefines ==
  ASSUME IInv, Quit \/ Crash
  PROVE  [Checkpoint!SettingsNext]_(Checkpoint!settings)
<1>1. CASE Quit
  <2>1. Saving' = Saving
    BY <1>1 DEF Quit, Saving, Snapshot
  <2> QED
    BY <1>1, <2>1, CheckpointSteps DEF Quit
<1>2. CASE Crash
  <2>1. Saving' = {} /\ (saves # {} => Saving # {})
    BY <1>2 DEF Crash, Saving
  <2> QED
    BY <1>2, <2>1, CheckpointSteps DEF Crash
<1> QED
  BY <1>1, <1>2

\* The next start takes the settings from the file.
LEMMA RestartRefines ==
  ASSUME IInv, Restart
  PROVE  [Checkpoint!SettingsNext]_(Checkpoint!settings)
<1>1. Saving = {} /\ Saving' = {}
  BY DEF Restart, Saving
<1> QED
  BY <1>1, CheckpointSteps DEF Restart

\* Every step of the store is one of Checkpoints, or leaves all of it alone.
LEMMA StepRefines ==
  ASSUME IInv, [Next]_vars
  PROVE  [Checkpoint!SettingsNext]_(Checkpoint!settings)
<1>1. CASE UNCHANGED vars
  <2>1. UNCHANGED <<up, latest, file, Saving>>
    BY <1>1 DEF vars, Saving, Snapshot
  <2> QED
    BY <2>1, CheckpointSteps
<1> QED
  BY <1>1, SetValueRefines, WriteKeyRefines, SyncRefines, FinishedRefines, EndRefines,
     RestartRefines DEF Next

\* In the first state nothing is on its way.
LEMMA InitRefines ==
  ASSUME Init
  PROVE  Checkpoint!SettingsInit
  BY DEF Init, Checkpoint!SettingsInit

-----------------------------------------------------------------------------
(* The theorems.                                                           *)

\* The strengthened invariant holds in every reachable state.
THEOREM IInvInvariant == Spec => []IInv
<1>1. Init => IInv
  BY InitKeepsIInv
<1>2. IInv /\ [Next]_vars => IInv'
  BY StepKeepsIInv
<1> QED
  BY <1>1, <1>2, PTL DEF Spec

\* Type correctness; in particular, no two tasks ever write side by side.
THEOREM TypeCorrect == Spec => []TypeOK
  BY IInvInvariant, PTL DEF IInv

\* While the program runs, the last value set for a key is in the map, in the running
\* task, or written.
THEOREM NoValueLost == Spec => []NothingLost
  BY IInvInvariant, PTL DEF IInv

\* No step, crashes and restarts included, replaces a value in the file by an older one.
THEOREM FileMonotone == Spec => FileNeverGoesBack
<1>1. IInv /\ [Next]_vars => [\A k \in Keys : file'[k] >= file[k]]_vars
  BY StepKeepsIInv
<1> QED
  BY <1>1, IInvInvariant, PTL DEF Spec, FileNeverGoesBack

\* The store implements Checkpoints: the file never holds some settings of one moment and
\* others of another, although a task writes them one by one while others are set.
THEOREM StoreImplementsCheckpoints == Spec => ImplementsCheckpoints
<1>1. Init => Checkpoint!SettingsInit
  BY InitRefines
<1>2. IInv /\ [Next]_vars => [Checkpoint!SettingsNext]_(Checkpoint!settings)
  BY StepRefines
<1> QED
  BY <1>1, <1>2, IInvInvariant, PTL
  DEF Spec, ImplementsCheckpoints, Checkpoint!SettingsSpec
=============================================================================
