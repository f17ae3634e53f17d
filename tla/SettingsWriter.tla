---------------------------- MODULE SettingsWriter ----------------------------
(***************************************************************************)
(* How the settings of the local servers reach the .env file (gui/workers/ *)
(* provider_lifecycle_backend.py, gui/widgets/dual_brain_control.py).      *)
(*                                                                         *)
(* An edit in the provider panel is saved later, by a writer on a thread   *)
(* of its own; while one writes, the panel is dirty, and a timer of the    *)
(* interface thread, the drain, starts the next.  Other controls save at   *)
(* once, on the interface thread, and so do other parts of the window      *)
(* their own keys.  Every save reads the file, changes its keys and        *)
(* replaces the file (set_env_values in app/environment.py), under no      *)
(* lock.  A version stands for what the panel shows; the keys of others    *)
(* are left out.                                                           *)
(***************************************************************************)
EXTENDS Naturals

CONSTANT MaxEdits    \* bound on the edits of a behaviour

ASSUME SettingsAssumption == MaxEdits \in Nat

VARIABLES
  edits,      \* version the panel shows
  saved,      \* version in the file
  writer,     \* _persist_thread: where it is and the version it writes
  saving,     \* the save of the interface thread: whose keys, the version it leaves
  dirty,      \* _persist_dirty
  armed,      \* is there a _persist_drain_timer
  idleTicks,  \* _persist_idle_ticks
  notice,     \* is there a _pending_persist_message
  lost        \* observation: last version whose save failed, or overlapped another

settingsVars ==
  <<edits, saved, writer, saving, dirty, armed, idleTicks, notice, lost>>
drainVars == <<dirty, armed, idleTicks, notice>>

Versions == 0 .. MaxEdits
NoWriter == [at |-> "off", of |-> 0]
NoSave == [keys |-> "none", leaves |-> 0]
Alive == writer.at # "off"
Writing == writer.at = "writing"
Quiet == saving = NoSave          \* the interface thread is in its event loop

Write(version) == writer' = [at |-> "writing", of |-> version]

\* What the panel shows when it saves: something new or, with Start, the same.
Shown(version) ==
  version \in {edits, edits + 1} \cap Versions /\ edits' = version

-----------------------------------------------------------------------------

SlipSaveLater ==
  /\ Quiet
  /\ \E version \in Versions :
       /\ Shown(version)
       /\ IF Alive THEN UNCHANGED <<writer, dirty, armed>>
          ELSE Write(version) /\ dirty' = FALSE /\ armed' = TRUE
  /\ UNCHANGED <<saved, saving, idleTicks, notice, lost>>
\* _persist_settings_async; the snapshot of the panel may fail.
SaveLater ==
  /\ Quiet
  /\ \E version \in Versions :
       /\ Shown(version)
       /\ \/ /\ Alive
             /\ dirty' = TRUE /\ armed' = TRUE
             /\ UNCHANGED <<writer, lost>>
          \/ /\ ~Alive
             /\ Write(version) /\ dirty' = FALSE /\ armed' = TRUE
             /\ UNCHANGED lost
          \/ /\ ~Alive
             /\ lost' = version
             /\ UNCHANGED <<writer, dirty, armed>>
  /\ UNCHANGED <<saved, saving, idleTicks, notice>>

\* _write_env_values: the file is replaced, or the thread gives up.
FileWritten ==
  /\ Writing
  /\ \/ saved' = writer.of /\ notice' = TRUE /\ UNCHANGED lost
     \/ /\ lost' = IF writer.of > lost THEN writer.of ELSE lost
        /\ UNCHANGED <<saved, notice>>
  /\ writer' = [writer EXCEPT !.at = "ending"]
  /\ UNCHANGED <<edits, saving, dirty, armed, idleTicks>>

WriterEnds ==
  /\ writer.at = "ending"
  /\ writer' = NoWriter
  /\ UNCHANGED <<edits, saved, saving, drainVars, lost>>

\* The drain stops at the third tick that finds nothing.
IdleTick ==
  IF notice THEN idleTicks' = 0 /\ UNCHANGED armed
  ELSE IF idleTicks < 2 THEN idleTicks' = idleTicks + 1 /\ UNCHANGED armed
  ELSE idleTicks' = 0 /\ armed' = FALSE

SlipTick ==
  /\ Quiet /\ armed
  /\ notice' = FALSE
  /\ \/ Alive /\ IdleTick /\ UNCHANGED <<dirty, writer, lost>>
     \/ ~Alive /\ dirty /\ Write(edits) /\ dirty' = FALSE
               /\ UNCHANGED <<idleTicks, armed, lost>>
     \/ ~Alive /\ ~dirty /\ IdleTick /\ UNCHANGED <<dirty, writer, lost>>
  /\ UNCHANGED <<edits, saved, saving>>
\* _drain_persist_dirty
Tick ==
  /\ Quiet /\ armed
  /\ notice' = FALSE
  /\ \/ Alive /\ UNCHANGED <<dirty, armed, idleTicks, writer, lost>>
     \/ ~Alive /\ dirty /\ Write(edits) /\ dirty' = FALSE
               /\ UNCHANGED <<idleTicks, armed, lost>>
     \/ ~Alive /\ dirty /\ dirty' = FALSE /\ lost' = edits     \* no snapshot
               /\ IdleTick /\ UNCHANGED writer
     \/ ~Alive /\ ~dirty /\ IdleTick /\ UNCHANGED <<dirty, writer, lost>>
  /\ UNCHANGED <<edits, saved, saving>>

\* A save on the interface thread begins: it and a writer under way may undo
\* each other's keys, whichever replaces the file last.
Overlap(version) == lost' = IF Writing THEN version ELSE lost

\* _persist_settings
SaveNow ==
  /\ Quiet
  /\ \E version \in Versions :
       /\ Shown(version)
       /\ saving' = [keys |-> "ours", leaves |-> version]
       /\ Overlap(version)
  /\ UNCHANGED <<saved, writer, drainVars>>

\* Another part of the window writes its keys, and what it has read of ours.
SaveOthers ==
  /\ Quiet
  /\ saving' = [keys |-> "others", leaves |-> saved]
  /\ Overlap(edits)
  /\ UNCHANGED <<edits, saved, writer, drainVars>>

FileSaved ==
  /\ ~Quiet
  /\ \/ saved' = saving.leaves /\ UNCHANGED lost
     \/ /\ lost' = IF saving.keys = "ours" THEN edits ELSE lost
        /\ UNCHANGED saved
  /\ saving' = NoSave
  /\ UNCHANGED <<edits, writer, drainVars>>

-----------------------------------------------------------------------------

SettingsInit ==
  /\ edits = 0 /\ saved = 0 /\ writer = NoWriter /\ saving = NoSave
  /\ dirty = FALSE /\ armed = FALSE /\ idleTicks = 0 /\ notice = FALSE /\ lost = 0

SettingsNext == SaveLater \/ FileWritten \/ WriterEnds \/ Tick \/ SaveNow \/ SaveOthers \/ FileSaved

SettingsSpec == SettingsInit /\ [][SettingsNext]_settingsVars

\* The two threads go on with what they have begun, and the event loop delivers
\* the timer between the saves of an operator, however many of them there are.
FairSettings == /\ SettingsSpec
                /\ WF_settingsVars(FileWritten \/ WriterEnds) /\ WF_settingsVars(FileSaved)
                /\ SF_settingsVars(Tick)

-----------------------------------------------------------------------------
(* Properties. *)

SettingsTypeOK ==
  /\ {edits, saved, lost} \subseteq Versions
  /\ writer \in [at : {"off", "writing", "ending"}, of : Versions]
  /\ saving \in [keys : {"none", "ours", "others"}, leaves : Versions]
  /\ dirty \in BOOLEAN /\ armed \in BOOLEAN /\ notice \in BOOLEAN
  /\ idleTicks \in 0 .. 2

\* An edit that is neither in the file nor lost to a failure or an overlap is on
\* its way there: a save has it in hand, or the panel is dirty and the timer
\* runs (an edit arriving while a write is in flight is not dropped).
EditIsOnItsWay ==
  lost < edits => \/ saved = edits
                  \/ Writing /\ writer.of = edits
                  \/ saving = [keys |-> "ours", leaves |-> edits]
                  \/ dirty /\ armed

\* The operator's latest change lands, if its save neither fails nor overlaps a
\* save of the other thread.
EditsLand == saved # edits ~> saved = edits \/ lost = edits
=============================================================================
