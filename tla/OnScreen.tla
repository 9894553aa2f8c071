------------------------------ MODULE OnScreen ------------------------------
(***************************************************************************)
(* What the reader looks at and types into: the palette, the menu, the     *)
(* table, the logs view, the dialogs, the key engine and the canvas probe. *)
(* They share no state here, so a behaviour is one part's (`part`) while   *)
(* the others' variables rest: each is checked, and proved about, as if it *)
(* ran by itself.                                                          *)
(***************************************************************************)
EXTENDS Palette, Integers, Sequences

CONSTANTS
  Seed, Namespace, Extras, Customs, SectionOf, Queries, Heights,   \* Menu
  Opened, Uid, Samples, Sizes, MaxOpens,                           \* Table
  MaxLines, Chunk, Batch, MaxWritten, MaxLogKeys,                  \* Logs
  Workload, PodName, Service, NodeName, Verb, MaxAsks, MaxPrompts, \* Dialogs
  KeyName, Browse, Text, Bound, AcceptKeys, MaxPresses,            \* Keys
  Painted, Own, MaxPicks, MaxAnswers                               \* Canvas

VARIABLES
  part,
  sidebar, pins, discovered,
  t, kind, shown, armed, picked, opens,
  view, previous, gen, pumps, written, logKeys,
  modal, portPicker, pfPorts, pfPort, stash, pfGen, prompts, wrote, asks, asked, outran,
  surface, pending, seqGen, timers, expired, trace, ran, abandoned, strayed,
  honours, painted, worn, kept, canvasGen, awaiting, ticks, answers, warned, misled

Sidebar == INSTANCE Menu    WITH menu <- sidebar
Rows    == INSTANCE Table   WITH Kinds <- Opened
Lines   == INSTANCE Logs    WITH MaxKeys <- MaxLogKeys, inbox <- pumps, keys <- logKeys
Prompts == INSTANCE Dialogs WITH MaxInbox <- MaxPrompts, inbox <- prompts, done <- wrote,
                                 overtaken <- outran
Engine  == INSTANCE Keys
Probe   == INSTANCE Canvas  WITH Themes <- Painted, MaxGen <- MaxPicks, shown <- worn,
                                 anchor <- kept, gen <- canvasGen, moved <- misled

ASSUME OnScreenAssumption ==
  /\ Sidebar!MenuAssumption /\ Rows!TableAssumption /\ Lines!LogsAssumption
  /\ Engine!KeysAssumption /\ Probe!CanvasAssumption
  /\ Prompts!ObjectAssumption /\ Prompts!VerbAssumption /\ Prompts!DialogBoundAssumption

sidebarVars == <<sidebar, pins, discovered>>
rowsVars    == <<t, kind, shown, armed, picked, opens>>
linesVars   == <<view, previous, gen, pumps, written, logKeys>>
promptsVars == <<modal, portPicker, pfPorts, pfPort, stash, pfGen, prompts, wrote, asks, asked, outran>>
engineVars  == <<surface, pending, seqGen, timers, expired, trace, ran, abandoned, strayed>>
probeVars   == <<honours, painted, worn, kept, canvasGen, awaiting, ticks, answers, warned, misled>>
screenVars ==
  <<part, vars, sidebarVars, rowsVars, linesVars, promptsVars, engineVars, probeVars>>

(* The palette's own variables rest at their first values.                  *)
PaletteRests == Init /\ row = None /\ theme = CHOOSE th \in Theme : TRUE
SidebarRests == sidebar = 0 /\ pins = 0 /\ discovered = 0
RowsRest     == t = 0 /\ kind = 0 /\ shown = 0 /\ armed = 0 /\ picked = 0 /\ opens = 0
LinesRest    == view = 0 /\ previous = 0 /\ gen = 0 /\ pumps = 0 /\ written = 0 /\ logKeys = 0
PromptsRest  ==
  /\ modal = 0 /\ portPicker = 0 /\ pfPorts = 0 /\ pfPort = 0 /\ stash = 0 /\ pfGen = 0
  /\ prompts = 0 /\ wrote = 0 /\ asks = 0 /\ asked = 0 /\ outran = 0
EngineRests  ==
  /\ surface = 0 /\ pending = 0 /\ seqGen = 0 /\ timers = 0 /\ expired = 0 /\ trace = 0
  /\ ran = 0 /\ abandoned = 0 /\ strayed = 0
ProbeRests   ==
  /\ honours = 0 /\ painted = 0 /\ worn = 0 /\ kept = 0 /\ canvasGen = 0 /\ awaiting = 0
  /\ ticks = 0 /\ answers = 0 /\ warned = 0 /\ misled = 0

ScreenInit ==
  \/ /\ part = "palette" /\ Init
     /\ SidebarRests /\ RowsRest /\ LinesRest /\ PromptsRest /\ EngineRests /\ ProbeRests
  \/ /\ part = "menu" /\ Sidebar!Init
     /\ PaletteRests /\ RowsRest /\ LinesRest /\ PromptsRest /\ EngineRests /\ ProbeRests
  \/ /\ part = "table" /\ Rows!Init
     /\ PaletteRests /\ SidebarRests /\ LinesRest /\ PromptsRest /\ EngineRests /\ ProbeRests
  \/ /\ part = "logs" /\ Lines!Init
     /\ PaletteRests /\ SidebarRests /\ RowsRest /\ PromptsRest /\ EngineRests /\ ProbeRests
  \/ /\ part = "dialog" /\ Prompts!Init
     /\ PaletteRests /\ SidebarRests /\ RowsRest /\ LinesRest /\ EngineRests /\ ProbeRests
  \/ /\ part = "keys" /\ Engine!Init
     /\ PaletteRests /\ SidebarRests /\ RowsRest /\ LinesRest /\ PromptsRest /\ ProbeRests
  \/ /\ part = "canvas" /\ Probe!Init
     /\ PaletteRests /\ SidebarRests /\ RowsRest /\ LinesRest /\ PromptsRest /\ EngineRests

ScreenNext ==
  \/ part = "palette" /\ Next
     /\ UNCHANGED <<part, sidebarVars, rowsVars, linesVars, promptsVars, engineVars, probeVars>>
  \/ part = "menu" /\ Sidebar!Next
     /\ UNCHANGED <<part, vars, rowsVars, linesVars, promptsVars, engineVars, probeVars>>
  \/ part = "table" /\ Rows!Next
     /\ UNCHANGED <<part, vars, sidebarVars, linesVars, promptsVars, engineVars, probeVars>>
  \/ part = "logs" /\ Lines!Next
     /\ UNCHANGED <<part, vars, sidebarVars, rowsVars, promptsVars, engineVars, probeVars>>
  \/ part = "dialog" /\ Prompts!Next
     /\ UNCHANGED <<part, vars, sidebarVars, rowsVars, linesVars, engineVars, probeVars>>
  \/ part = "keys" /\ Engine!Next
     /\ UNCHANGED <<part, vars, sidebarVars, rowsVars, linesVars, promptsVars, probeVars>>
  \/ part = "canvas" /\ Probe!Next
     /\ UNCHANGED <<part, vars, sidebarVars, rowsVars, linesVars, promptsVars, engineVars>>
ScreenSpec == ScreenInit /\ [][ScreenNext]_screenVars
----------------------------- (* properties *) -----------------------------
(* A kind has a row for a reason, and the cursor's row is on the screen     *)
(* (Unpin, scrollToCursor): see Menu.                                       *)
RowsHaveReasons ==
  part = "menu" => Sidebar!TypeOK /\ Sidebar!RowsHaveReasons /\ Sidebar!CursorInView

(* The displayed rows are the watch's, narrowed and sorted, and the cursors *)
(* are on them (applyFilter, clampOffset): see Table.                       *)
RowsAreTheLiveOnes ==
  part = "table" => Rows!TypeOK /\ Rows!RowsAreTheLiveOnes /\ Rows!CursorsAreOnTheTable

(* The logs view shows what filtering the stream's lines anew would show    *)
(* (shownLines): see Logs.                                                  *)
ShownIsARebuild == part = "logs" => Lines!TypeOK /\ Lines!ShownIsARebuild

(* A delete or a drain was asked for (handleModalConfirmed): see Dialogs.   *)
OnlyWhatWasAskedFor == part = "dialog" => Prompts!TypeOK /\ Prompts!OnlyWhatWasAskedFor

(* A write is of the object its dialog named, keys that were overtaken      *)
(* aside (handleModalConfirmed): see Dialogs.                               *)
ActsOnWhatWasNamed == part = "dialog" => Prompts!ActsOnWhatWasNamed

(* A timer runs its own key's binding (Sequencer.Timeout), and the report   *)
(* of the key log makes no abandoned sequence up: see Keys.                 *)
SequencesAreTrue ==
  part = "keys" => Engine!TypeOK /\ Engine!TimersRunTheirOwn /\ Engine!ReportIsTrue

(* Nothing but the reader takes the cursor, or a selection's start, off     *)
(* what it is on while that is displayed (restoreSelection, placeCursor):   *)
(* see Menu, Table and Logs.  And Esc in the palette leads only to the list *)
(* the reader came from (paletteDirect): see Palette.                       *)
CursorsKeepTheirPlace ==
  [][/\ part = "palette" => BackToWhereItCameFrom
     /\ part = "menu"  => Sidebar!KeepsItsKind
     /\ part = "table" => Rows!KeepsItsObject
     /\ part = "logs"  => Lines!LinesStay]_screenVars

(* A terminal that does as it is asked is not warned about, but for a       *)
(* preview, or a report that outlasts the next probe's delay                *)
(* (handleCanvasProbe, applyThemeNamed): see Canvas.                        *)
WarnsIfIgnored == [][part = "canvas" => Probe!TypeOK /\ Probe!WarnsIfMoved]_screenVars
=============================================================================
