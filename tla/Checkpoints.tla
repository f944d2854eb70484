----------------------------- MODULE Checkpoints -----------------------------
(***************************************************************************)
(* What the settings store promises, with maps, tasks and events left out: *)
(* settings that are saved as a whole.  A checkpoint is what all settings  *)
(* were at one moment; the disk holds one, and the next start loads it, so *)
(* that a program never begins with some settings of one moment and others *)
(* of another, wherever the one before it ended.                           *)
(***************************************************************************)
EXTENDS Naturals

VARIABLES
  running,
  value,   \* the settings
  disk,    \* the checkpoint of the disk
  saving   \* the checkpoint on its way there, if there is one

settings == <<running, value, disk, saving>>

SettingsInit ==
  /\ running = TRUE
  /\ value = disk
  /\ saving = {}

\* A setting changes, and may be saved at once.
Change ==
  /\ running
  /\ \E k \in DOMAIN value : value' = [value EXCEPT ![k] = @ + 1]
  /\ saving' \in (IF saving = {} THEN {{}, {value'}} ELSE {saving})
  /\ UNCHANGED <<running, disk>>

Take ==
  /\ running
  /\ saving = {}
  /\ saving' = {value}
  /\ UNCHANGED <<running, value, disk>>

\* Also after the program has ended.
Commit ==
  /\ \E checkpoint \in saving : disk' = checkpoint
  /\ saving' = {}
  /\ UNCHANGED <<running, value>>

\* What is on its way may still arrive, or be lost.
Stop ==
  /\ running \/ saving # {}
  /\ ~running'
  /\ saving' \in {saving, {}}
  /\ UNCHANGED <<value, disk>>

Load ==
  /\ ~running
  /\ saving = {}
  /\ running'
  /\ value' = disk
  /\ UNCHANGED <<disk, saving>>

SettingsNext == Change \/ Take \/ Commit \/ Stop \/ Load

SettingsSpec == SettingsInit /\ [][SettingsNext]_settings
=============================================================================
