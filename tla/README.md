# kubecom in TLA+

kubecom is a terminal browser for Kubernetes: a Bubble Tea program whose single
update loop (`internal/tui/app.go`) owns all the screen state, and whose every
request, stream and timer runs in a goroutine of its own and comes back to the
loop as a message. This directory models the parts of it where that can go
wrong, checks the models with TLC and proves the results that matter most with
TLAPS.

## The system

| Component | State | Operations | What makes it correct |
|---|---|---|---|
| Live watch (`kube/watch.go`) | resource version, whether a list is due, list-only mode, a bounded channel | list, open, read event or bookmark, drop, expire, back off, poll, cancel | the pane shows one version the server had, never goes back, catches up, and ends when left |
| Watch pump and table (`tui/msg.go`, `components/table`) | rows, filter, sort, overlay, cursor | one receive per command; RESET, upsert, delete, filter, sort, resize | displayed rows are the watch's, narrowed and sorted; the cursor stays on its object |
| Shell (`tui/app.go`, `tui/context.go`) | context and its clients, a generation counter per kind of fetch, the surfaces on screen, stashed targets | key presses, one handler per message, switching context | nothing of one cluster shows, or is acted on, under another |
| Row actions (`exec.go`, `edit.go`, `ports.go`, `rowaction.go`, `kube/actions.go`, ...) | targets stashed for a dialog or picker | describe, logs, exec, edit, delete, scale, restart, cordon, drain, forward, children, relations | a write acts on the object and cluster it was asked for |
| Pane memory, children (`tui/panememory.go`, `children.go`) | the scope of the table, what is remembered of it | pick, narrow, restore at a launch or switch | the remembered pane yields to one the reader opens |
| Search and scan (`tui/search.go`, `tui/unhealthy.go`, `components/searchview`, `kube/search.go`, `kube/scan.go`) | query, debounce generation, hits, a pool of list requests | type, debounce, fan out, collect, cancel, open a hit | hits belong to the last query; the end announced is a true one |
| Metrics poll (`tui/metrics.go`, `components/table/usage.go`) | generation, usage | refresh, tick, stop | at most one poll, of the resource on screen |
| Logs (`kube/logs.go`, `tui/logs.go`, `components/logsview`) | the resumer's window; line buffer, follow, filter, selection | open, reconnect, append, trim, page, close | no line lost or repeated; the view is a filter of its buffer |
| Node drain (`kube/drain.go`, drain part of `app.go`) | candidates, step channel | cordon, evict with retry, wait, report | cordon first, evict only candidates, exactly one outcome |
| Port forwards (`kube/portforward.go`, `components/forwards`) | live forwards, their panel | start, ready, done, stop, stop all | the panel lists what runs |
| Credentials and terminal handover (`tui/reauth.go`, `authdiag.go`, `browsefail.go`, `handover.go`, `kube/authexec.go`) | the armed remedy, the terminal's owner, stderr | diagnose, offer, accept, decline, run, retry | a login is of its own cluster and runs once; a notice is of its own failure |
| Discovery (`kube/discovery.go`) | kinds served, generation | start, deliver | the menu lists the current cluster's kinds |
| Dialogs, palette, pickers (`components/modal`, `components/picker`, `tui/palette.go`, `theme.go`) | what is up, its title and rows; a theme previewed | open, filter, pick, cancel | what is run is what was shown; a preview leaves no trace |
| Menu and pins (`components/menu`, `tui/pin.go`) | rows in sections, the filter, the cursor, the pins | seed, discover, pin, unpin, filter, move | every row has a reason; the cursor keeps its kind |
| Key engine and key log (`tui/keymap`, `tui/keylog.go`, `internal/keylog`) | the pending sequence, its timer | press, time out, reset | a timer runs its own keys' binding, once |
| State file (`config/state.go`, `cmd/kubecom/run.go`) | per-context state on disk, a retained copy | load, change, save | no save loses another's change |
| Settings (`config/config.go`, `overlay.go`, `migrate.go`) | the authored file, the overlay, the legacy file | migrate, load, pick a theme | a pick written stays written |
| Self update (`internal/update`, `cmd/kubecom-launcher`) | the channel, the binary | pick, fetch, write, flush, rename | the binary is whole at any moment |
| Canvas (`tui/canvas.go`) | the palette painted, the probe under way | paint, ask, answer | a terminal that obeys is not warned about |
| Presentation (styles, help, hints, status bar, viewers, stories, docs tooling) | | | |

How they interact: the update loop is the only writer of the shell's state; what
it starts holds a context to be cancelled by and, nearly always, the generation
it was started under. A context switch connects off the loop and, when the
connect is handled, cancels all of that, moves every generation on, dismisses
the surfaces and installs the new clients, in one step. The state file, the
settings and the binary are shared between commands that overlap and, the last
one, between processes.

What is hard: cancellation does not recall a message already sent, so every
kind of message needs its own staleness check; overlays open when an answer
arrives, not when they are asked for; targets are stashed in slots some of which
are shared; a watch resumes from a version that may be gone, a log stream from a
second it has half read; lists are derived again at every event, under a cursor;
commands save side by side what nothing locks; a process may be killed anywhere.

## The modules

| Module | Models | State and actions, and where they come from |
|---|---|---|
| `LiveTable` | what a browse pane promises | the history of the collection, the version shown, the rows; the pane moves from one version to a later one |
| `Watch` | one pane: `kube/watch.go`, the pump of `tui/msg.go`, `SetTable`/`ApplyEvent` of `components/table`; the API server is external | `pc` is the place in `watchLoop`, `rv`/`needList`/`listOnly` its locals, `chan` the buffered channel, `pump` the command in flight; one action per request outcome, event read, send, sleep and hand-over |
| `Session` | the shell across context switches: `tui/app.go`, `context.go` and the handlers of every asynchronous answer | `gen` holds the generation counters, `view` what each surface shows, `stash` the kept targets, `inbox` the messages on their way; one action per key and per handler |
| `Drain` | `kube/drain.go` `DrainStream`, `drainPump`, and `runDrain`, `handleDrainMsg`, `stopDrain` of the shell; the cluster is external | per generation: `pc` in the goroutine, `cands`, the pass's `left`, `pump`, whether its context is `dead`; the shell's `drainGen`, the kept cancel (`live`) and `label` |
| `Dialogs` | the dialogs and the port picker of one cluster: the row-action handlers of `app.go`, `ports.go`, `components/modal` | `modal` and the object it names, `stash` (deleteRef, drainRef, mutateRef), `pfPorts`, `pfPort`, `pfGen`; one action per key and per handler |
| `ScanChannel` | what a sweep's channel promises: the contract over `kube/search.go` `Search` and `kube/scan.go` `Scan` | the kinds reported, the hits received, the end |
| `Fanout` | the sweep of `kube/search.go` and `kube/scan.go` | a `pc` per kind, the rows it holds, the cap's counters, the bounded channel `out`, what the view was told (`got`) |
| `Unhealthy` | `tui/unhealthy.go` and `components/unhealthyview` | `view` (hits, searching, progress, capped), `scanGen`, the channel received from, each sweep's channel, the commands receiving |
| `Search` | `tui/search.go` and `components/searchview`: typing, debounce, hits, ranking, opening a hit | `view`, `gen` and the one debounce or pump per generation in `inbox`; of the pane a hit opens in: the rows delivered, those displayed, the cursor, the awaited row (`searchTarget`) |
| `LogStream` | `kube/logs.go` `followLogStream`, `logResumer`; the container's log is external | `pc`, the window of lines already delivered in the last second, the connection's next line, the channel |
| `Logs` | `tui/logs.go`, `components/logsview` | `view` (buffer, shown lines, cursor, anchor, filter, follow), `gen`, batches on the way |
| `Forwards` | `kube/portforward.go`, `waitForward` and the handlers of `app.go`, `components/forwards` | `handle` (its two goroutines and channels), `forwards`, `ready`, commands waiting, the panel |
| `Reauth` | `authdiag.go`, `reauth.go`, `browsefail.go`, `handover.go`, `kube/authexec.go` | the `pane` and its notice, `latch`, `armed`, `offer`, the dialog, the login, the state of stderr |
| `Palette` | `tui/palette.go`, `theme.go`, the namespace stage, `components/picker` | the stage, its rows and its pending pick, the theme and its anchor |
| `Menu` | `components/menu` | the rows in order, filter, cursor, offset, active row, collapse; the pins and the kinds discovered |
| `Table` | `components/table` and the shell's calls into it | the rows delivered, `shown`, sort, filter, overlay, cursor, offset |
| `Keys` | `keymap/sequencer.go` and `engine.go`, `keypath.go`, `internal/keylog`; the matching library is external | the pending keys, `seqGen`, the timers, the trace written |
| `Canvas` | `tui/canvas.go` | the palette painted, worn and picked, the probes armed, the reports on the way and the palette each was made under |
| `Store` | `config/state.go`, the persister of `cmd/kubecom/run.go`, `panememory.go`, `pin.go`, `children.go` | per context the file and the retained copy; the shell's copy; saves at their own place between change and write |
| `Settings` | `config/config.go`, `overlay.go`, `migrate.go`, the start of `cmd/kubecom/run.go` | the three files, the shell's theme, writes under way |
| `Update` | `internal/update/update.go` | the channel, the file under the binary's name, those a power loss may leave there, each updater's place |
| `Behind` | `Fanout`, `Unhealthy`, `LogStream`, `Forwards`, `Reauth` together | a behaviour is one part's; the other parts' variables rest |
| `OnScreen` | `Palette`, `Menu`, `Table`, `Logs`, `Dialogs`, `Keys`, `Canvas` together | the same |
| `Files` | `Store`, `Settings`, `Update` together | the same |
| `SessionProofs`, `DrainProofs`, `WatchProofs`, `SearchProofs`, `PaletteProofs`, `BehindProofs`, `OnScreenProofs`, `FilesProofs` | theorems about the module each is named after | |
| `MCWatch`, `MCSession`, `MCDrain`, `MCDialogs`, `MCBehind`, `MCOnScreen`, `MCFiles` | instances for TLC | values of the constants, symmetry, a VIEW; `MCSearch.cfg` needs no module |

`Watch` refines `LiveTable` (`Watch!Promise`), and `Fanout` refines `ScanChannel`
(`Fanout!Promise`), which is what `Unhealthy` takes a sweep to be. `Session` has every pane's watch
as one gated message kind; how a watch behaves inside is `Watch`, and what the
reader sees of its rows is `Table`. `Session` keeps only the *cluster* of each
object, `Dialogs` only the objects of one cluster: the first is about what
survives a switch, the second about what happens between two switches. `Drain`
takes over where `Dialogs` records the accepted drain, `LogStream` what `Logs` has as batches of any lines.

`Behind`, `OnScreen` and `Files` put several components in one specification. Their
parts share no state, so an interleaving of two would show nothing that each does
not show by itself: `part` is chosen once, at the start, and each part is checked,
and proved about, as if it ran alone.

### What the models abstract

* A message is a record with the generation it carries, if any. `inbox` is a
  set in `Session` (a second identical message would be handled to the same
  effect, except for the writes of `Dialogs`, which keeps a bag): commands run
  in goroutines of their own, so nothing keeps messages in order. Fields that the
  code does not carry are commented as history: in `Session` the cluster a
  message's data came from (`at`), in `Dialogs` the object a dialog named (`named`).
* Objects' contents, layout, toasts, help, mouse and sideways scrolling are left out.
* In `Watch` a table's cells are one model value per object; versions are
  numbers, and the server keeps a compaction floor below which a watch is Gone.
* In `Drain` a pod is a name, a uid, a node and what `classifyDrainPods` tells
  apart (to be skipped, its controller, local storage). A disruption budget
  that refuses is a stutter of the retry loop.
* In `Fanout` and `Search` a match is an exact or a scattered one, or a score.
* In `LogStream` a line is its place in the log, its second, and whether it is too
  long to read; in `Logs` it is a place and whether the filter takes it.
* In `Store`, `Settings` and `Update` a file is what it says when parsed, or broken,
  or missing; a rename is atomic, and what was not flushed is in doubt after a power loss.
* Bounds are constants named `Max...`; they stand in guards of the environment's
  and the reader's actions, never of the program's own.

## The runs

| Run | Instance | What it shows |
|---|---|---|
| `watch_safety` | 2 objects, 2 versions after the first, channel of 1, 2 faults | the pane is always one version the server had, never a mixture, never older than before (`TableIsSnapshot`, `PromiseSpec`) |
| `watch_live` | 1 object, 2 versions, 2 faults | the pane catches up once things calm down; leaving it ends goroutine and pump |
| `session` | 2 contexts, every use but search, two uses at a time, one switch | surfaces show the current cluster, prompted writes stay on theirs |
| `session_switches` | 3 contexts, search and the namespace stage, 3 uses, 3 switches | overlapping switches land on the last one asked for; nothing of an older generation is accepted |
| `drain` | 2 nodes, 2 pod names, 3 pods ever, 2 generations, 1 failed request | drained means gone, and only the last drain is reported; a refusal leaves no cordon |
| `drain_live` | 2 nodes, 1 pod name, 2 pods ever, DaemonSet pods too | cancelled drains end, others are reported |
| `search` | 2 objects, 1 text that parses, scores 1 and 2, 4 keys (and any number in the pane), a view of 2 hits, 3 messages on the way | hits are of the query in force, an opened hit is selected by the first delta that finds it displayed, a better hit does not move the cursor, searches end |
| `behind`: sweep | 3 kinds, answers of up to two rows, cap 3, 2 slots, channel of 1 | the end is announced last, once every kind has reported, and says whether anything was refused; every step keeps the promise of `ScanChannel` |
| `behind`: broken | up to 2 kinds, a cap of 2, 3 keys | a list that is done is one sweep's whole answer; one that scans has a sweep feeding it, and its scan ends |
| `behind`: stream | 3 lines, a tail of 2, channel of 1, 2 faults, torn lines | a tail that begins with its second is delivered without gap or repetition |
| `behind`: forward | 2 forwards | each is listed or stopped, is watched by one command, and is reported at most once |
| `behind`: login | 2 clusters, 3 selections, 4 keys | a login is of the cluster it runs on; the notice is of the failure it explains, and asks only while the question is up |
| `onscreen`: palette | 2 themes, 2 rows, 1 verb, 1 kind, 4 keys, 2 messages, 1 switch | previews leave no trace; a pick is of what was shown; Esc goes back only to where the reader came from |
| `onscreen`: menu | a built-in kind, the seam, one extra, two custom kinds, 2 filters, heights 2 and 3 | rows have reasons, the cursor keeps its kind and stays in view |
| `onscreen`: table | 2 objects, an overlay that measures one, 1 or 2 rows high | displayed rows are the live ones, the cursor keeps its object |
| `onscreen`: logs | a buffer of 2 lines, 5 written, 5 keys | the filtered view is what a rebuild would give; cursor and selection keep their lines |
| `onscreen`: dialog | a workload, 2 pods, a service, a node; 3 row actions, 2 messages in flight | deletes and drains were asked for; and act on what was named, unless a key was overtaken |
| `onscreen`: keys | `g g`, `g r`, `d`, `r`, `r d`; 3 presses, four surfaces | timers run their own keys' binding; the key log's report makes nothing up |
| `onscreen`: canvas | a dark and a light palette, 2 picks, 2 answers | an obedient terminal is not warned about |
| `files`: state | 2 contexts, 2 kinds, 1 namespace, 2 gestures, 2 saves, 1 restart | a file carries every change of its context, unless saves overlapped; the remembered pane yields |
| `files`: config | 2 themes, 2 picks | a written pick survives migration, edits and crashes |
| `files`: binary | 2 updaters, 2 builds | the binary is whole at any moment |
| `session_edit_late`, `dialogs_slot` | as `session`; as `dialog`, 3 messages | violations, see Findings |

Why the bounds are enough:

* *Watch.* Two versions make a resume from the first one skip or replay the
  second; two faults let a drop be followed by an expiry, or an open that fails
  after a list that failed. A channel of one is full as soon as it holds an
  event, so a blocked send is the common case.
* *Session.* A stale message needs one thing begun before a switch and handled
  after it; two uses at a time give every pair of surfaces that can stack, three
  contexts and three switches every order of overlapping connects, the return
  to a former context included. Generations are only compared with their
  counter, and a message that lost the comparison can never win it again: the
  VIEW drops such messages and the numbers of the others, so TLC explores each
  future once. It changes no property, since none mentions a generation except
  `LiveIsCurrent`; its claim that no message is ahead of its counter is checked of
  the messages the view keeps, and proved of all (it is part of `SessionProofs!Inv`).
* *Drain.* Two generations give one drain replaced by another, or cancelled by a
  context switch, at every step of both; three pods over two names give a name
  that is taken again. One failed request puts the failure at every place.
* *Dialogs.* Three requests let two port-forwards overlap with one dialog of
  another kind; two messages in flight cover a late answer beside a key.
* *Search.* Four keys open, type, edit and pick; three messages are an older
  generation's debounce, its pump and the new one's. In the pane a hit opens in, the
  filter, the unhealthy toggle, the ticks and the cursor's keys are not counted, so
  they come at every point before and after a delta.
* *Sweep.* With two slots one kind of three waits; the cap of three is reached by
  two kinds, in the middle of one's answer, and its scattered share before it.
* *Broken.* Three keys open the list, leave it and open it again, over the sweep of
  the first that is still coming in, or switch the cluster in between.
* *Streams.* Three lines over up to three seconds put a drop before, between and after
  lines of one second; a second drop falls into the resumed part.
* *Login.* Three selections are the failed one, one more on its cluster and one on
  the next; four keys ask, accept and cover the offer with something else.
* *Lists.* Menu, table and logs: two rows more than fit, so that scroll, trim and
  filter all happen under the cursor; rows, pins and lines come and go unbounded
  or for more than twice what the buffer holds.
* *Keys.* Three presses are a prefix, its stale timer's key and the one after; the
  bindings are the shapes of the default keymap and one that a user may add, a
  binding that is a prefix of another.
* *Files.* Two saves overlap in every order of change, write and failure; one
  restart reads what they left. Two updaters may each be killed, or lose power, at
  every step of the other.

Deadlock is checked in the Watch runs, whose end is an explicit stutter. The
others set `CHECK_DEADLOCK FALSE`: at their bounds a shell nobody uses, with
nothing in flight, really is at rest. What may not stop there is stated as liveness
(`SearchesEnd`, `EverythingEnds`, `CancelledDrainsEnd`, `DrainsAreReported`).

### Fairness

`Watch!Fairness` is weak fairness of each step of the goroutine and of the pump:
Go runs a runnable goroutine, requests come back (client-go's time-outs), timers
fire, Bubble Tea runs commands and handles messages. An open stream delivers
what it has. Nothing forces a write, a fault, a cancellation; faults are bounded,
which is what "once things calm down" means. `Drain!Fairness` is weak fairness
of each drain's goroutine, its pump and the handling of its messages, and, of the
cluster, that a terminating pod is removed in the end and a disruption budget
does not refuse for ever (without these `kubectl drain` would not end either).
`Search!FairSpec` is weak fairness of handling a message, `Behind!Fairness` that
of each sweeping goroutine, its closer and receiver, of the list's commands and
messages, of the log stream's goroutine
and pump, and of each forward's goroutines, commands and messages; nothing forces
the reader, a fault, or a forwarder to fail. No strong fairness is assumed. The
other safety runs use specifications without fairness.

## What is proved

`SessionProofs` proves, for any set of contexts, any uses and any bounds:

* `TypeCorrect`: `Spec => []TypeOK`;
* `SurfacesCorrect`: `Spec => []SurfacesShowCurrent`;
* `PromptedWritesCorrect`: `Spec => []PromptedWritesStayHome`;
* `SwitchesCorrect`: `Spec => LastAskedWins`.

The assumptions are those `Session` states on its constants: the contexts are not
the model's own markers, the bounds are natural numbers. Neither surfaces nor
writes are inductive alone: a surface is right tomorrow because no message that
will be accepted tomorrow is from elsewhere, and no target that will be used is.
The invariant `Inv` adds exactly that: `LiveIsCurrent` (a message whose generation
is its counter's is the current cluster's, and none is ahead of its counter) and
`StashIsCurrent`. Steps then fall in two classes. Every step but a completed switch
satisfies `StaysOnCluster`: it keeps the context, lowers no counter, and adds only
what belongs to the current cluster; one lemma (`StayingKeepsInv`) shows that this
keeps `Inv`, and one lemma per group of actions shows that the actions do it. A
completed switch is the opposite case (`ConnectedKeepsInv`): everything under way
falls behind the counters at once, because `stopClusterAsync` moves *every* one of
them, and slots and surfaces are cleared. `SwitchesCorrect` has an invariant of its
own: the connect with the newest generation goes where the reader asked last.

`DrainProofs` proves, for any nodes, pods, options and bounds:

* `TypeCorrect`: `Spec => []TypeOK`;
* `DrainedCorrect`: `Spec => []DrainedMeansGone`;
* `RefusalsCorrect`: `Spec => []RefusalLeavesNoCordon`.

It assumes what `Drain` states on its constants: pod names are finitely many
numbers, no more than there are uids to give, and the options are Booleans. The
difficulty is that a cancelled drain's channel closes exactly as a finished one's,
and the pump turns either close into "drained". The invariant says why only the
right one is reported. `LiveDrain`: the cancel that is kept is always the newest
generation's, so the drain whose messages are still accepted was never cancelled.
`Progress`: a drain that was not cancelled has seen gone every candidate the second
pass dealt with, so when it closes with no error sent they are all gone.
`UidsAreOld` makes that permanent (`GoneForGood`): uids are never given twice, so
a name taken again is not the pod that went. `Refusals` says a refusal is decided
before the cordon. `ReportsStay` shows that no step disturbs what a closed drain
saw, so a report once true stays true; one lemma per action shows the rest.

`WatchProofs` proves, for any objects, rows, versions, channel size and number of
faults (the assumptions are `Watch`'s: bounds are natural numbers, the channel holds
at least one event, no row is the mark of an absent one):

* `TypeCorrect`: `Spec => []TypeOK`;
* `TableCorrect`: `Spec => []TableIsSnapshot`;
* `RefinesLiveTable`: `Spec => PromiseSpec`, that is, `Watch` implements `LiveTable`.

What the pane shows depends on everything between it and the server. The invariant
`Inv` says of all of it (`Chain`): the message being delivered, the channel and the
event being sent form a chain of versions, in which each event carries the pane
from the version the one before left it at to a later one; and where the last one
leaves it, the collection is what it is at the version the goroutine would resume
from. `LoopInv` says which locals go with which place of the loop, and `OneWrite`
that two versions in a row differ in at most one object, which is what makes a
DELTA enough. A step then does one of four things: adds a link at the sending end,
moves one along, folds one onto the rows, or changes the version to resume from
to one with the same collection (a bookmark, a reconnect).

`PaletteProofs` proves `TypeCorrect`, `PreviewCorrect` (`PreviewLeavesNoTrace`),
`PicksCorrect` (`PicksAreWhatWasShown`) and `EscCorrect` (`EscGoesBack`) for any themes, rows, verbs, kinds and
bounds. The invariant says where the theme worn comes from (`Anchors`), what a
stage lists (`Listing`), that what is on the way leads into no stage but its own
(`InFlight`), and what the pending pick meant when it was made (`Meant`).

`SearchProofs` proves, for any texts, scores, objects and bounds (the markers are no
text and no object, scores are numbers): `SearchTypeCorrect`, `HitsCorrect`
(`HitsAreOfTheQueryIfPrompt`), `SelectionCorrect` (`SelectionLands`) and `CursorCorrect`
(`CursorKeepsItsHit`, an action property). The invariant `Search!Inv` adds that the list
is ranked and the cursor on one of it (`Listed`: an insertion behind its equals keeps
both, shown by cases on where the hit goes), that no message is of a generation to come
(`NoneToCome`), and, while every change of the query is handled before anything else
(`Prompt`), that a change on its way finds the list empty (`ChangesWait`) and that, once
none is, whatever carries this generation carries the query and scopes on screen
(`CurrentInForce`). `SelectionLands` carries a history of its own: a delta looks for the
awaited row among those displayed, a filter lifted by the reader does not, so what is
claimed is that the row is on screen unselected only where something other than a
delta has changed what is displayed since the last one (`uncovered`).

`FilesProofs` proves, for any contexts, kinds, files found, themes, updaters and builds:

* `SavesCorrect` (`SavesCarryOneAnother`, with `PicksStayHome`). Two arguments in
  one invariant. *Where facts come from* (`Origins`): all that a retained copy, a save or a
  file holds was chosen on its own context, since a persister is bound to one for life.
  *How far a save is* (`OneAtATime`): while no two saves of a file have overlapped, at
  most one is under way, and the retained copy is the shell's less that one change,
  until the save makes it. `Reread` carries both over a switch, whose file is read before
  the shell moves to it.
* `MemoryCorrect` (`MemoryYields`, an action property).
* `PicksCorrect` (`PicksStayWritten`): the pick last written is in the overlay, which
  wins over the authored file and forbids a migration (`Kept`), and as long as writes
  neither overlapped nor failed the one under way is of the theme worn (`UnderWay`).
* `BinaryCorrect` (`BinaryIsWhole`): every file that a power loss may leave under the
  binary's name is whole and flushed, because only a flushed file is renamed to it.

`BehindProofs` proves, for any finite set of kinds, any lists they answer, any caps,
channel sizes, tails of at least one line, numbers of forwards, clusters and selections:

* `EndsCorrect` (`EndIsTrue`): of a sweep, that the end comes last and is true; that
  every step is one `ScanChannel` promises, the refinement; and of the list of
  unhealthy objects, which takes that promise for granted, that a list that is done is one
  sweep's. The sweep's invariant counts: hits received, in the channel and held by a
  goroutine come to those let through (`Counted`), each kind's report is in one place
  (`ReportedOnce`) and behind its hits (`HitsFirst`). That is arithmetic over the
  cardinality of sets that lose or gain one member a step, so the proof is mostly
  lemmas about the channel's `Tail` and `Append`. The list's invariant (`Following`) is that
  what it shows and the one event on its way come to what the sweep sent.
* `StreamsCorrect` (`TailedStreamIsTheLog`): the resumer neither repeats nor skips a
  line. What was delivered ends with the last line taken, and the window holds that
  line's second whole up to it (`Placed`), so that a connection served from the start of
  that second passes over exactly those (`Resumes`).
* `ForwardsCorrect` (`ForwardsAreAccountedFor`, `CursorStaysOnTheList`): each listed
  forward has one watcher, a command or a message, and is listed once.
* `LoginsCorrect` (`LoginsStayHome`, `PaneExplainsItself`, `AskingMeansAskedIfAnswered`): a failure
  is in one place at a time - its plugin running, its report on the way, its remedy armed,
  or a login for it run (`Apart`) - it moves on only while its selection is the shell's
  (`Dated`), and a switch disarms (`Armed`).

`OnScreenProofs` proves, for any objects, verbs, bindings, themes, buffer sizes and bounds:

* `AskedForCorrect` (`OnlyWhatWasAskedFor`) and `NamedCorrect` (`ActsOnWhatWasNamed`), of
  the dialogs. A slot still holds what the dialog on screen named (`SlotIsNamed`): always
  for a delete and a drain, and for the slot that scales, restarts and forwards share until a
  message overtakes a key (see Findings). At most one answer on its way is of the newest
  request (`OneAnswer`), so a superseded one cannot retarget a forward, and at most one key
  is (`OneKey`). Messages are a bag, so the lemmas are about what adding one and
  taking one does to membership.
* `LogsCorrect` (`ShownIsARebuild`), of the logs view: the lines shown, kept up by
  `appendLine` and cut by `trim`, are those `rebuildShown`'s loop would find. `Kept` is that
  loop, a function from the number of lines seen so far; by induction it yields
  the same for two views that agree on those lines (`KeptUpToAgrees`), and for a view that
  has lost the first *d* lines what is left of the other's, *d* lower
  (`KeptUpToShift`); so `trim`, which counts the places at most *d*, cuts exactly those. A
  batch is a fold of `Extend`, taken line by line by a second induction.
* `RowsCorrect` (`RowsAreTheLiveOnes`), of the table: the rows shown are the objects that
  live, once each, that match the filter, in the order of the column and direction chosen,
  and the cursor is on the table. `applyFilterSort`'s stable sort is modelled by the place
  each row comes to, the number of rows before it. `BeforeIsAnOrder` and `RanksTellApart`
  show that two rows never share a place, and `PlacesAreTaken`, an injection of a finite
  set into itself, that no place is empty: so the sort is a permutation. The rest is
  that every path that changes the rows, the filter, the sort or what the overlay measures
  derives the rows again before it returns (`Rederived`), and that the watch's rows name an
  object once.
* `ReasonsCorrect` (`RowsHaveReasons`), of the menu: a kind has one row, for a reason, and
  the cursor's row is on the screen. Marks on a row (built in, from the file, pinned,
  discovered) are shown to say where it came from, and the list to be what the seed, the
  file, the pins and the discovery account for; `Unpin` and `Reconcile` then keep
  exactly the rows that still have a mark. Lists are stated by the place each entry
  comes to (`NthIs`), since the provers know nothing of `SelectSeq` or `SetToSeq`; a merge
  adds one kind after another, by induction over the set of them.
* `CursorsCorrect` (`CursorsKeepTheirPlace`, an action property), of the menu, the table, the
  logs and the palette. In the logs the invariant adds that every line has a number of
  its own (`Tallied`), so that a line can be told from another with the same text, and that
  the lines shown are in the order they came (`KeptOrdered`): a trim then moves the
  cursor and the selection's start by as many places as it drops shown lines
  (`Dropped`), and a rebuild finds the same lines (`RenderStays`). In the menu and
  the table each re-derivation puts the cursor on the row of the same kind or object. For
  the palette, `PaletteProofs` adds that unless a verb's own key opened it, an open palette
  has shown its verbs since (`CameFrom`; `EscCorrect` states it of `Palette` alone).
* `SequencesCorrect` (`SequencesAreTrue`), of the key engine: a timer runs its own keys'
  binding, and what the key log's analyzer reports as abandoned was abandoned. The
  analyzer is a `FoldLeft` over the whole trace; `FoldAppend` shows that one more
  entry is one more step of it, and then `TalliedSoFar` relates its state after each entry
  to the sequencer's.
* `WarningsCorrect` (`WarnsIfIgnored`, an action property), of the canvas probe: until
  something misleads it, the answers it waits for were made under the palette worn, and a
  probe that is due finds that palette painted (`Undisturbed`). Only a preview, its
  undoing, or a report slower than the next probe's delay sets `moved`; a pick clears it,
  since it retires the probe and the answer under way (`canvasGen`, `awaitingCanvas`), and
  a palette already painted by its preview is probed like any other.

### From the standard modules' definitions

Recursive functions and the folds of the community modules are `CHOOSE` expressions, of
which nothing is known until one is shown to exist. `OnScreenProofs` proves the
induction it needs for this as statements about *sets* of numbers (`Least` from the
library's `WFMin`, then `SetInduction`): the library's own induction theorems take
an operator as a parameter, which the installed provers cannot instantiate. With it
come, once each, that such a function exists on `0 .. n` and on the subsets of `1 .. n`, that
it satisfies its equation, and what one more element adds. Bags are
used through definitions of their own, and the Cardinality of an instance is
shown to be the library's before a fact about finite sets is used.

### Only model-checked

* All liveness (`CatchesUp`, `NothingLeaks`, `EverythingEnds`, `SearchesEnd`, the drains): it needs
  fairness and ENABLED, which the prover does not have.
* `NothingMissed`, a sum over a sweep's kinds that is part of `EverythingEnds`.
* `ScreenInv`'s parts and the other inductive invariants were checked by TLC on the
  instances above before they were proved.

No module declares a RECURSIVE operator.

## Findings

* `dialogs_slot`: a port list that arrives while a scale or rollout-restart dialog
  is up overwrites the dialog's target (`tui/ports.go:124`); accepting the dialog
  then sends the write for the pod of the port-forward.
* `session_edit_late`: YAML fetched before a switch is edited and applied after it,
  on the new cluster (`tui/edit.go:170`).

### Seen while modelling

Some things a reader might expect do not hold of the models, and not of the code.
Each is stated beside the module it is about, under the name given, and has no run:

* `Session!RowActionsStayHome`: a row action is a message without a generation; a
  context switch handled between the key and it sends the old cluster's object to
  the new cluster's client (`tui/app.go:2343`). For cordon, suspend and the like no
  dialog comes between. `Session!UnhealthyShowsCurrent`: the unhealthy view is the
  one overlay `resetCluster` does not dismiss (`tui/app.go:1994`), and
  `Unhealthy!ScanningMeansScanning`: left up over a sweep that the switch has stopped,
  it says "scanning" until it is closed ("an empty list must never read as a hung
  sweep", `components/unhealthyview/unhealthyview.go:385`).
* `Drain!DrainedMeansEmpty`: candidates are listed before the cordon, so a pod
  scheduled in between stays on a node reported as drained (`kube/drain.go:239`).
  Eviction goes by name, whatever pod has it by then (`kube/drain.go:282`).
* `LogStream!StreamIsTheLog`: a tail that starts in the middle of a second is, after
  a drop, followed by the lines of that second before it (`kube/logs.go:431`). An
  over-long line makes the stream reconnect at it for ever (`kube/logs.go:95`); a line
  torn by a drop is delivered, and delivered whole after it; a reopen that fails before
  any line was read is the end.
* `Reauth!AskingMeansAsked`: a dialog that opens over the offer leaves the notice saying
  that kubecom is asking; `AskingMeansAskedIfAnswered`, which sets that and app.quit
  aside, holds and is checked. `Reauth!RetryStaysHome`: a login that ends after a
  switch starts a watch on the new cluster, which never failed; `LoginsStayHome` is of
  the login and its notice, and not of the retry.
* `Search!NoStaleHitStays`: a hit handled between the key that empties the query and
  that key's message stays in the list; `HitsAreOfTheQueryIfPrompt` sets this aside.
  `Search!NeverYankedBack`: a hit whose row a filter hides when it comes is still awaited
  once the filter is lifted and the row is on screen. The next delta takes the cursor
  there, off whatever the reader has gone to, which is what the comment at
  `tui/search.go:325` says never happens; `SelectionLands` says what does hold.
* `Table!SortStaysWithItsKind`: the sort read from the file is applied at the first
  RESET, whatever kind that is of. A sort is also held by position, which shifts when
  the overlay's columns come before the rows; and a saved one on a measured column is
  lost at the first RESET if the overlay is not there yet.
* `Settings!NextLaunchOpensOnIt`: two overlapping theme writes leave the older pick.
* `Store!NothingIsReverted`: overlapping saves of one context may write half of each
  other's change; `SavesCarryOneAnother` is of saves that do not overlap. `Store!ScopeNeverYanks`: a late scope takes the table away from a
  kind picked meanwhile (`tui/children.go:91`).
* `Palette!RowVerbsStayPut`: a row deleted or replaced by the watch under the open palette
  leaves its title; a row verb picked then acts on the row that has the cursor by that
  time (`tui/palette.go:633`). `PicksAreWhatWasShown` leaves out a row that moved.
  `Palette!NamespaceIsOne`: a second Enter pressed before the first one, on the namespace
  verb, is handled has its label taken as a namespace. A namespace list carries no
  generation and may fill a stage opened on the next cluster (`tui/app.go:2119`).
* `Keys!NothingIsHidden`: the key log's report leaves out a prefix that timed out, if the
  press after it would have completed it. `Keys!ActsWhereTyped`: a prefix typed on one
  surface may run on the one that opened meanwhile.
* `Canvas!WarningsAreTrue`: a terminal that obeys is warned about if a preview comes
  between the palette and its probe, or if the answer to an earlier question arrives
  after the next probe has gone out.
* `Menu`: a section's header shows twice when a custom section follows an extra kind; a
  pane one row high hides the cursor; a pin the cluster does not serve, opened and then
  unpinned, loses its row; `ClearActive` is never called.
* `Forwards`: an entry that goes above the panel's cursor puts another forward under it.
* `Update`: two updaters may leave the older of two builds; a directory flush that fails
  is reported as success. The configuration's own atomic write does not flush.
* The logs view may open over a dialog that keeps the keys (`tui/app.go:4650`, against
  the comment at `:4678`). A dropped watch resumes from its last version instead of
  listing again, as its doc comment says it would (`kube/watch.go:76`, `:170`; the
  behaviour is the better one, and `PromiseSpec` is checked of it).

## The plan

Done, in this order: `Watch` with `LiveTable`; `Session`, `Drain` and their proofs;
`Dialogs`; `Store` and `Settings`; `Fanout`, `Search` and `Unhealthy`; `LogStream` and `Logs`;
`Forwards`; `Reauth`; `Keys`; `Update`; `Palette`, `Menu`, `Table` and `Canvas`; the proofs
about `Palette` and `Watch`; and those about `Search`, `Files`, `Behind` and, of
`OnScreen`, every part.

Left:

1. Theorem: `NothingMissed`, whose sum is a function on the subsets of a finite set.
2. Which objects `kube/children.go` and `kube/relations.go` select, as operators against
   a reference definition over small owner graphs.
3. The launcher's choice of a build, and its own directory.

## Not modelled

* Presentation: styles, layout, column widths, help, hint bar, status bar, welcome
  screen, viewers' scrolling, text elision, copying and mouse. Sequential code over
  data, which golden and unit tests reach.
* The key-binding parser: no state; what it yields, a set of bound sequences, is a
  constant of `Keys`. The matching itself is a library's and is modelled from its use.
* The parsing of API resources and discovery's disk cache; how `kube/actions.go` phrases
  its requests; which objects children and relations select.
* How a name is scored: a score is a number in `Search`.
* The launcher, the release listing and the install into the launcher's directory.
* The picker's filter and scrolling, the menu file's parsing, the key log's rotation,
  the reader behind the stderr pipe.
* Version, stories, packaging and documentation tooling: no behaviour of the program.
