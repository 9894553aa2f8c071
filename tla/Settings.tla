------------------------------ MODULE Settings ------------------------------
(***************************************************************************)
(* The settings files and the theme kept in them: the one-shot migration   *)
(* and the load at a start (cmd/kubecom/run.go), the two files' precedence *)
(* (config.go), and the writes of picked themes, each on a goroutine of    *)
(* its own (tui/theme.go, config/overlay.go).  `theme` is the one setting; *)
(* a write replaces its file by a rename.                                  *)
(***************************************************************************)
EXTENDS Naturals, FiniteSets

CONSTANTS
  Themes,    \* built-in themes, the default among them
  Default,
  MaxPicks   \* bound: themes picked

VARIABLES
  authored,  \* config.kdl, the user's
  overlay,   \* config.overlay.kdl, kubecom's
  legacy,    \* ~/.kubecom.yaml
  running,     \* running or not, and the theme it wears
  writes,     \* theme writes under way
  picks,     \* themes picked so far
  written,   \* history: the pick last written
  missed     \* history of this shell: two writes under way at once, or one that failed

vars == <<authored, overlay, legacy, running, writes, picks, written, missed>>

None == "none"
Unknown == "unknown"   \* a name no built-in theme has
SettingsAssumption == Default \in Themes /\ None \notin Themes /\ MaxPicks \in Nat
Name == Themes \cup {None, Unknown}
File == [is : {"absent", "broken"}, theme : {None}] \cup [is : {"ok"}, theme : Name]
Absent == [is |-> "absent", theme |-> None]
Save == [n : 1 .. MaxPicks, name : Themes, read : BOOLEAN]

TypeOK ==
  /\ authored \in File /\ overlay \in File /\ legacy \in File
  /\ running \in [up : BOOLEAN, theme : Themes, picked : BOOLEAN]
  /\ writes \subseteq Save /\ picks \in 0 .. MaxPicks
  /\ written \in Themes \cup {None} /\ missed \subseteq {"overlapped", "failed"}

Init ==
  /\ authored \in File /\ legacy \in File /\ overlay = Absent
  /\ running = [up |-> FALSE, theme |-> Default, picked |-> FALSE]
  /\ writes = {} /\ picks = 0 /\ written = None /\ missed = {}

Files == UNCHANGED <<authored, overlay, legacy>>

(* maybeMigrate: only if neither file exists, and only a legacy file that   *)
(* parses.  A theme v1 still ships is carried over; with nothing to carry   *)
(* an empty overlay is written, which is what makes it one-shot.            *)
MigratesOver(a, o) == a.is = "absent" /\ legacy.is = "ok"   \* not the code
Migrates(a, o) == a.is = "absent" /\ o.is = "absent" /\ legacy.is = "ok"
Migrated == [is |-> "ok", theme |-> IF legacy.theme \in Themes THEN legacy.theme ELSE None]

(* Load and Get: a file that does not read is an error; the overlay wins.   *)
Reads(a, o) == a.is # "broken" /\ o.is # "broken"
Get(a, o) == IF o.theme # None THEN o.theme ELSE a.theme
ResolveTheme(name) == IF name \in Themes THEN name ELSE Default

(* runTUI: a failed migration is logged, a config that does not read stops  *)
(* the start.                                                               *)
Start ==
  /\ ~running.up
  /\ overlay' \in {overlay} \cup (IF Migrates(authored, overlay) THEN {Migrated} ELSE {})
  /\ Reads(authored, overlay')
  /\ running' = [up |-> TRUE, theme |-> ResolveTheme(Get(authored, overlay')), picked |-> FALSE]
  /\ UNCHANGED <<authored, legacy, writes, picks, written, missed>>

(* applyThemeNamed and persistTheme; the theme worn already costs no write. *)
Pick ==
  /\ running.up /\ picks < MaxPicks /\ picks' = picks + 1
  /\ \E name \in Themes \ {running.theme} :
       /\ running' = [running EXCEPT !.theme = name, !.picked = TRUE]
       /\ writes' = writes \cup {[n |-> picks', name |-> name, read |-> FALSE]}
  /\ missed' = (IF writes # {} THEN missed \cup {"overlapped"} ELSE missed)
  /\ Files /\ UNCHANGED written

(* PersistTheme: the files are read again, and an error gives the write up. *)
ReadFiles(s) ==
  /\ ~s.read
  /\ IF Reads(authored, overlay)
     THEN writes' = (writes \ {s}) \cup {[s EXCEPT !.read = TRUE]} /\ UNCHANGED missed
     ELSE writes' = writes \ {s} /\ missed' = missed \cup {"failed"}
  /\ Files /\ UNCHANGED <<running, picks, written>>
WriteOverlay(s) ==
  /\ s.read /\ writes' = writes \ {s}
  /\ \/ overlay' = [is |-> "ok", theme |-> s.name] /\ written' = s.name /\ UNCHANGED missed
     \/ missed' = missed \cup {"failed"} /\ UNCHANGED <<overlay, written>>
  /\ UNCHANGED <<authored, legacy, running, picks>>

(* The shell does not wait for its commands when it quits or is killed.     *)
Quit ==
  /\ running.up /\ running' = [running EXCEPT !.up = FALSE, !.picked = FALSE] /\ writes' = {} /\ missed' = {}
  /\ Files /\ UNCHANGED <<picks, written>>
Edit ==
  /\ authored' \in File \ {Absent}
  /\ UNCHANGED <<overlay, legacy, running, writes, picks, written, missed>>

Next == Start \/ Pick \/ Quit \/ Edit \/ \E s \in writes : ReadFiles(s) \/ WriteOverlay(s)
Spec == Init /\ [][Next]_vars
----------------------------- (* properties *) -----------------------------
(* A pick once written stays: no migration, edit of config.kdl or crash     *)
(* between two starts takes it away, and a running shell whose writes went  *)
(* one at a time has written the theme it wears (maybeMigrate, PersistTheme)*)
PicksStayWritten ==
  /\ written # None => Get(authored, overlay) = written
  /\ (running.up /\ running.picked /\ writes = {} /\ missed = {}) => written = running.theme

(* Why: the pick last written is in the overlay, which wins over config.kdl *)
(* and forbids a migration ...                                              *)
Kept == written # None => overlay.is = "ok" /\ overlay.theme = written

(* ... and while no two writes have overlapped and none has failed, there   *)
(* is one write of the theme worn under way, or it has been written.        *)
UnderWay ==
  /\ ~running.up => writes = {}
  /\ running.up /\ ~running.picked => writes = {}
  /\ running.up /\ running.picked /\ missed = {} =>
       \/ writes = {} /\ written = running.theme
       \/ \E s \in writes : writes = {s} /\ s.name = running.theme

Inv == TypeOK /\ Kept /\ UnderWay

(* "The next launch opens on it" (theme.go's ThemePersister): of two picks  *)
(* whose writes overlap, the earlier may be written last.                   *)
NextLaunchOpensOnIt ==
  (running.up /\ running.picked /\ writes = {} /\ "failed" \notin missed) => Get(authored, overlay) = running.theme
=============================================================================
