------------------------------- MODULE Files -------------------------------
(***************************************************************************)
(* What is written to disk: the contexts' state files, the settings files, *)
(* and the binary under its own update.  They share no state, so a         *)
(* behaviour is one part's (`part`) while the others' variables rest at 0: *)
(* each is checked, and proved about, as if it ran by itself.              *)
(***************************************************************************)
EXTENDS Naturals

CONSTANTS
  Context, Namespace, Kind, Landing, Extras, Found, Served, MaxActs, MaxSaves, MaxStarts,  \* Store
  Themes, Default, MaxPicks,                                                               \* Settings
  Updaters, MaxBuild                                                                       \* Update

VARIABLES
  part,
  disk, retained, shell, discovering, scope, connecting, saves, issued, mixed, failed, acts, starts,
  authored, overlay, legacy, running, writes, picks, written, missed,
  live, newest, exe, kept, up

States == INSTANCE Store
Config == INSTANCE Settings
Binary == INSTANCE Update

ASSUME FilesAssumption == States!StoreAssumption /\ Config!SettingsAssumption

stateVars == <<disk, retained, shell, discovering, scope, connecting, saves, issued, mixed,
               failed, acts, starts>>
configVars == <<authored, overlay, legacy, running, writes, picks, written, missed>>
binaryVars == <<live, newest, exe, kept, up>>
v == <<part, stateVars, configVars, binaryVars>>

StatesRest ==
  /\ disk = 0 /\ retained = 0 /\ shell = 0 /\ discovering = 0 /\ scope = 0 /\ connecting = 0
  /\ saves = 0 /\ issued = 0 /\ mixed = 0 /\ failed = 0 /\ acts = 0 /\ starts = 0
ConfigRests ==
  /\ authored = 0 /\ overlay = 0 /\ legacy = 0 /\ running = 0
  /\ writes = 0 /\ picks = 0 /\ written = 0 /\ missed = 0
BinaryRests == live = 0 /\ newest = 0 /\ exe = 0 /\ kept = 0 /\ up = 0

Init ==
  \/ part = "state"  /\ States!Init /\ ConfigRests /\ BinaryRests
  \/ part = "config" /\ StatesRest /\ Config!Init /\ BinaryRests
  \/ part = "binary" /\ StatesRest /\ ConfigRests /\ Binary!Init
Next ==
  \/ part = "state"  /\ States!Next /\ UNCHANGED <<part, configVars, binaryVars>>
  \/ part = "config" /\ Config!Next /\ UNCHANGED <<part, stateVars, binaryVars>>
  \/ part = "binary" /\ Binary!Next /\ UNCHANGED <<part, stateVars, configVars>>
Spec == Init /\ [][Next]_v
----------------------------- (* properties *) -----------------------------
(* A context's file holds what was picked on that context, all of it unless *)
(* two saves overlapped (statePersister): see Store.                        *)
SavesCarryOneAnother ==
  part = "state" => States!TypeOK /\ States!PicksStayHome /\ States!SavesCarryOneAnother

(* The remembered pane never displaces one the reader opened                *)
(* (handleRestoreDrill): see Store.                                         *)
MemoryYields == [][part = "state" => States!Yields]_v

(* A written pick outlives migrations, edits and crashes (maybeMigrate,     *)
(* PersistTheme): see Settings.                                             *)
PicksStayWritten == part = "config" => Config!TypeOK /\ Config!PicksStayWritten

(* The binary is a whole build at any moment (install): see Update.         *)
BinaryIsWhole == part = "binary" => Binary!TypeOK /\ Binary!BinaryIsWhole
=============================================================================
