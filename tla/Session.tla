------------------------------ MODULE Session ------------------------------
(***************************************************************************)
(* The shell (tui/app.go) across context switches.  Bubble Tea runs Update *)
(* one message at a time, but every fetch, stream, resolve and connect     *)
(* runs off the loop and comes back as a message later, in any order.  A   *)
(* switch repoints every client at once; what was started on the old       *)
(* cluster is dropped by comparing the generation a message carries with   *)
(* the model's, and by dismissing the surfaces and stashed targets that    *)
(* hold the old cluster's objects.                                         *)
(*                                                                         *)
(* Data is reduced to the cluster it belongs to: a surface shows some      *)
(* cluster's data, a message carries an object of some cluster ("obj") and *)
(* was produced by some cluster's client ("at").                           *)
(***************************************************************************)
EXTENDS Integers, Sequences

CONSTANTS
  Context,      \* the kubeconfig contexts, each a cluster
  Uses,         \* what the reader asks for: row actions and the panes opened
  MaxOpens,     \* bound: how often
  MaxSwitches   \* bound: context switches asked for

Down    == "down"       \* the surface is not on screen
Idle    == "idle"       \* on screen, empty and expecting nothing
Waiting == "waiting"    \* on screen, empty until a message arrives
None    == "none"

ASSUME ContextAssumption ==
  /\ Context # {}
  /\ Context \cap {Down, Idle, Waiting, None} = {}
ASSUME SessionBoundAssumption == MaxOpens \in Nat /\ MaxSwitches \in Nat

(* The generation counters: watchGen, discoveryGen, viewerGen, searchGen,  *)
(* scanGen, pfResolveGen, childGen, relGen, metricsGen.                    *)
Gate == {"watch", "discovery", "viewer", "search", "scan", "ports", "child",
         "rel", "metrics"}

(* Where cluster data shows.  "scope" is the children drill-down's          *)
(* breadcrumb, "usage" the metrics overlay, "menu" what discovery added.    *)
Overlay == {"viewer", "logs", "search", "unhealthy", "palette", "ctrPicker",
            "portPicker", "relPicker"}
Surface == Overlay \cup {"table", "menu", "scope", "usage"}

(* deleteRef, mutateRef, drainRef, ctrStreamRef *)
Slot  == {"delete", "mutate", "drain", "ctr"}
Modal == {"delete", "scale", "drain", "forward"}
SlotOf(k) == CASE k = "delete" -> "delete"
               [] k = "drain"  -> "drain"
               [] OTHER        -> "mutate"

RowAction == {"view", "logs", "exec", "cordon", "delete", "scale", "drain",
              "forward", "edit", "children", "relations"}

VARIABLES
  context,     \* m.context and the m.Cluster bundle installed with it
  ctxGen,      \* generation of the newest switch
  connecting,  \* switches whose connect has not been handled
  asked,       \* history: the context the reader asked for last
  gen,         \* the generation counters
  inbox,       \* messages not handled yet
  view,        \* what each surface shows
  modal,       \* the modal dialog up, or None
  stash,       \* the target each slot holds, or NoTarget
  ctrPurpose,  \* what the container picker is for
  current,     \* m.hasCurrent
  restore,     \* m.restorePending
  did,         \* what the last step did to a cluster, or Nothing
  opens        \* bound counter

vars == <<context, ctxGen, connecting, asked, gen, inbox, view, modal, stash,
          ctrPurpose, current, restore, did, opens>>

link   == <<context, ctxGen, connecting, asked>>
dialog == <<modal, stash, ctrPurpose>>
browse == <<current, restore>>

Target == [obj : Context, at : Context]
T(o, a) == [obj |-> o, at |-> a]
NoTarget == T(None, None)

(* Messages.  A gated one carries the generation current when it was asked  *)
(* for; "to" is what it is for (a row action, logs or exec).  A note that   *)
(* the modal was accepted, or a surface closed, carries only which.         *)
GatedKind == {"watch", "discovery", "viewer", "containers", "log", "debounce",
              "search", "scan", "ports", "child", "restore", "relations",
              "metrics", "tick"}
LooseKind == {"namespaces", "edit", "row", "ctrPick", "portPick", "relPick",
              "searchPick", "scanPick"}
GateOf(k) == CASE k = "watch" -> "watch"
               [] k = "discovery" -> "discovery"
               [] k \in {"viewer", "containers", "log"} -> "viewer"
               [] k \in {"debounce", "search"} -> "search"
               [] k = "scan" -> "scan"
               [] k = "ports" -> "ports"
               [] k \in {"child", "restore"} -> "child"
               [] k = "relations" -> "rel"
               [] OTHER -> "metrics"

M(k, g, o, a, t) == [kind |-> k, gen |-> g, obj |-> o, at |-> a, to |-> t]
Loose(k, o, a, t) == M(k, 0, o, a, t)
Note(k, t) == [kind |-> k, to |-> t]
Purpose == {"logs", "exec"}
Message == [kind : GatedKind \cup LooseKind, gen : Nat, obj : Context,
            at : Context, to : {None} \cup RowAction \cup Purpose]
           \cup [kind : {"confirmed"}, to : Modal]
           \cup [kind : {"closed"}, to : Overlay \cup {"modal"}]

Write == [how : {"now", "confirmed", "exec", "forward", "edit"},
          obj : Context, at : Context, client : Context]
Nothing == [how |-> None, obj |-> None, at |-> None, client |-> None]

(* The nil check on a stashed target, and that check forgotten.             *)
HeldForgotten(t) == TRUE
Held(t)          == t # NoTarget

Live(m)  == m.gen = gen[GateOf(m.kind)]
Up(s)    == view[s] # Down
Shows(s) == view[s] \in Context

Show(s, v)   == view' = [view EXCEPT ![s] = v]
Take(m, new) == inbox' = (inbox \ {m}) \cup new
Post(new)    == inbox' = inbox \cup new
Bump(g)      == gen' = [gen EXCEPT ![g] = @ + 1]
Ask(u)       == u \in Uses /\ opens < MaxOpens /\ opens' = opens + 1
Did(how, t)  == did' = [how |-> how, obj |-> t.obj, at |-> t.at, client |-> context]
Quiet        == did' = Nothing

(* keyMode and handleAction: the one surface a key press goes to, whatever  *)
(* the screen shows.  The browse pane gets the keys nobody above it takes.  *)
Ladder == <<"search", "ctrPicker", "palette", "portPicker", "relPicker",
            "modal", "unhealthy", "logs", "viewer">>
OnScreen(s) == IF s = "modal" THEN modal # None ELSE Up(s)
HasKeys(s)  == \E i \in 1..Len(Ladder) :
                 /\ Ladder[i] = s /\ OnScreen(s)
                 /\ \A j \in 1..(i - 1) : ~OnScreen(Ladder[j])
Browsing    == \A i \in 1..Len(Ladder) : ~OnScreen(Ladder[i])
(* The palette's switchers pass through the logs view.                      *)
CanPalette  == Browsing \/ HasKeys("logs")

TypeOK ==
  /\ context \in Context
  /\ ctxGen \in Nat
  /\ connecting \subseteq [gen : Nat, to : Context]
  /\ asked \in Context
  /\ gen \in [Gate -> Nat]
  /\ inbox \subseteq Message
  /\ \A m \in inbox : m.kind = "containers" => m.to \in Purpose
  /\ view \in [Surface -> Context \cup {Down, Idle, Waiting}]
  /\ modal \in Modal \cup {None}
  /\ stash \in [Slot -> Target \cup {NoTarget}]
  /\ ctrPurpose \in Purpose
  /\ current \in BOOLEAN
  /\ restore \in BOOLEAN
  /\ did \in Write \cup {Nothing}
  /\ opens \in 0..MaxOpens

(* Launch: connected, discovery running, nothing open.                      *)
Init ==
  /\ context \in Context
  /\ ctxGen = 0
  /\ connecting = {}
  /\ asked = context
  /\ gen = [g \in Gate |-> 0]
  /\ inbox = {M("discovery", 0, context, context, None)}
  /\ view = [s \in Surface |-> IF s = "menu" THEN Waiting ELSE Down]
  /\ modal = None
  /\ stash = [s \in Slot |-> NoTarget]
  /\ ctrPurpose = "logs"
  /\ current = FALSE
  /\ restore = TRUE
  /\ did = Nothing
  /\ opens = 0

-----------------------------------------------------------------------------
(* watchResource: the old watch is superseded, the table blanks, and the    *)
(* new watch's pump starts on the current cluster, with a poll when the     *)
(* kind is measured.  A watch that cannot start leaves a blank table and    *)
(* the old poll.  "v" is the view as the caller leaves it, "g" the          *)
(* counters, "used" the message being handled.                              *)
Measured == IF "usage" \in Uses THEN BOOLEAN ELSE {FALSE}

WatchResource(v, g, used) ==
  \/ LET g2 == [g EXCEPT !["watch"] = @ + 1, !["metrics"] = @ + 1] IN
     \E measured \in Measured :
       /\ gen' = g2
       /\ view' = [v EXCEPT !["table"] = Waiting, !["usage"] = Down]
       /\ current' = TRUE
       /\ inbox' = (inbox \ used)
                     \cup {M("watch", g2["watch"], context, context, None)}
                     \cup (IF measured
                           THEN {M("metrics", g2["metrics"], context, context, None)}
                           ELSE {})
  \/ /\ gen' = [g EXCEPT !["watch"] = @ + 1]
     /\ view' = [v EXCEPT !["table"] = Idle, !["usage"] = Down]
     /\ current' = current
     /\ inbox' = inbox \ used

(* selectResource leaves any children drill-down first.                     *)
SelectResource(v, g, used) == WatchResource([v EXCEPT !["scope"] = Down], g, used)

-----------------------------------------------------------------------------
(* Switching context *)

(* The context the shell is on is not connected to again: nothing happens,  *)
(* and a switch under way goes on.                                          *)
SwitchContext(c) ==
  /\ CanPalette
  /\ ctxGen < MaxSwitches
  /\ c # context
  /\ ctxGen' = ctxGen + 1
  /\ connecting' = connecting \cup {[gen |-> ctxGen + 1, to |-> c]}
  /\ asked' = c
  /\ Quiet /\ UNCHANGED <<context, gen, inbox, view, dialog, browse, opens>>

(* stopClusterAsync: every generation moves on.  Forgetting one of them is  *)
(* what a new kind of fetch added without its line here would do.           *)
BumpAllBut(G)         == gen' = [g \in Gate |-> IF g \in G THEN gen[g] ELSE gen[g] + 1]
StopAllButViewer      == BumpAllBut({"viewer"})
StopAllButSearch      == BumpAllBut({"search"})
StopAllButDiscovery   == BumpAllBut({"discovery"})
StopClusterAsync      == gen' = [g \in Gate |-> gen[g] + 1]

(* resetCluster's dismissals.  The unhealthy view is not among them.        *)
AfterReset(s) == IF s = "unhealthy" THEN view[s]
                 ELSE IF s = "menu" THEN Waiting ELSE Down

(* resetCluster drops every stashed target; and one kept by mistake.        *)
ResetStashButMutate == stash' = [s \in Slot |-> IF s = "mutate" THEN stash[s]
                                                ELSE NoTarget]
ResetStash          == stash' = [s \in Slot |-> NoTarget]

(* A connect that is no longer the newest is stale; and that check skipped. *)
NewestSkipped(c) == TRUE
Newest(c)        == c.gen = ctxGen

HandleClusterConnected(c) ==
  /\ c \in connecting
  /\ connecting' = connecting \ {c}
  /\ \/ (* superseded, or the connect failed: nothing changed *)
        /\ UNCHANGED <<context, gen, inbox, view, dialog, browse>>
     \/ /\ Newest(c)
        /\ context' = c.to
        /\ StopClusterAsync
        /\ view' = [s \in Surface |-> AfterReset(s)]
        /\ modal' = None
        /\ ResetStash
        /\ ctrPurpose' = ctrPurpose
        /\ current' = FALSE
        /\ restore' = TRUE
        /\ Post({M("discovery", gen["discovery"] + 1, c.to, c.to, None)})
  /\ Quiet /\ UNCHANGED <<ctxGen, asked, opens>>

(* Discovery fills the menu; the first pass on a cluster brings back the    *)
(* remembered kind unless the reader already opened one.                    *)
HandleDiscovery(m) ==
  /\ m \in inbox /\ m.kind = "discovery"
  /\ IF ~Live(m)
     THEN Take(m, {}) /\ UNCHANGED <<gen, view, browse>>
     ELSE LET v == [view EXCEPT !["menu"] = m.at] IN
          /\ restore' = FALSE
          /\ \/ /\ restore /\ ~current
                /\ SelectResource(v, gen, {m})
             \/ (* the remembered kind was a drill-down: find its owner first *)
                /\ restore /\ ~current
                /\ view' = v
                /\ Bump("child")
                /\ Take(m, {M("restore", gen["child"] + 1, context, context, None)})
                /\ UNCHANGED current
             \/ (* nothing to restore, or not served here *)
                view' = v /\ Take(m, {}) /\ UNCHANGED <<gen, current>>
  /\ Quiet /\ UNCHANGED <<link, dialog, opens>>

-----------------------------------------------------------------------------
(* Browsing *)

(* A resource picked in the menu or the palette, or Back out of a           *)
(* drill-down.                                                              *)
PickResource ==
  /\ CanPalette /\ Ask("resource")
  /\ SelectResource(view, gen, {})
  /\ Quiet /\ UNCHANGED <<link, dialog, restore>>

(* The pump is re-issued for every event until the channel closes.          *)
HandleWatchMsg(m) ==
  /\ m \in inbox /\ m.kind = "watch"
  /\ \/ Live(m) /\ Show("table", m.at) /\ UNCHANGED inbox
     \/ ~Live(m) /\ Take(m, {}) /\ UNCHANGED view
  /\ Quiet /\ UNCHANGED <<link, gen, dialog, browse, opens>>

(* A refresh delivers usage, or fails and leaves the last one; either way   *)
(* the next tick is scheduled.                                              *)
HandleMetricsMsg(m) ==
  /\ m \in inbox /\ m.kind = "metrics"
  /\ \/ /\ Live(m)
        /\ Show("usage", m.at) \/ UNCHANGED view
        /\ Take(m, {[m EXCEPT !.kind = "tick"]})
     \/ ~Live(m) /\ Take(m, {}) /\ UNCHANGED view
  /\ Quiet /\ UNCHANGED <<link, gen, dialog, browse, opens>>

HandleMetricsTick(m) ==
  /\ m \in inbox /\ m.kind = "tick"
  /\ IF Live(m)
     THEN /\ Ask("usage")
          /\ Bump("metrics")
          /\ Take(m, {M("metrics", gen["metrics"] + 1, context, context, None)})
     ELSE Take(m, {}) /\ UNCHANGED <<gen, opens>>
  /\ Quiet /\ UNCHANGED <<link, view, dialog, browse>>

-----------------------------------------------------------------------------
(* Row actions: the intent is posted as a message and handled later.        *)

DispatchRowAction(a) ==
  /\ Browsing /\ Ask(a)
  /\ current /\ Shows("table")
  /\ Post({Loose("row", view["table"], context, a)})
  /\ Quiet /\ UNCHANGED <<link, gen, view, dialog, browse>>

Row(m, a) == m \in inbox /\ m.kind = "row" /\ m.to = a

(* Describe, events and secret: one viewer, one generation.                 *)
OpenViewer(m) ==
  /\ Row(m, "view")
  /\ Bump("viewer")
  /\ Show("viewer", Waiting)
  /\ Take(m, {M("viewer", gen["viewer"] + 1, m.obj, context, None)})
  /\ Quiet /\ UNCHANGED <<link, dialog, browse, opens>>

HandleViewerLoaded(m) ==
  /\ m \in inbox /\ m.kind = "viewer"
  /\ \/ Live(m) /\ Up("viewer") /\ \E v \in {m.at, Down} : Show("viewer", v)
     \/ ~(Live(m) /\ Up("viewer")) /\ UNCHANGED view
  /\ Take(m, {})
  /\ Quiet /\ UNCHANGED <<link, gen, dialog, browse, opens>>

(* Logs and exec list the pod's containers first.                           *)
ResolveContainers(m, p) ==
  /\ Row(m, p)
  /\ Bump("viewer")
  /\ Take(m, {M("containers", gen["viewer"] + 1, m.obj, context, p)})
  /\ Quiet /\ UNCHANGED <<link, view, dialog, browse, opens>>

(* streamOrExec for target t: the logs view opens on a stream guarded by    *)
(* generation g, or a shell opens in the container.                         *)
StreamOrExec(p, t, g, v, m) ==
  \/ /\ p = "logs"
     /\ view' = [v EXCEPT !["logs"] = Waiting]
     /\ Take(m, {M("log", g, t.obj, context, None)})
     /\ Quiet
  \/ /\ p = "exec"
     /\ view' = v
     /\ Take(m, {})
     /\ Did("exec", t)

HandleContainersLoaded(m) ==
  /\ m \in inbox /\ m.kind = "containers"
  /\ \/ (* stale, failed, or no containers *)
        Take(m, {}) /\ Quiet /\ UNCHANGED <<view, stash, ctrPurpose>>
     \/ /\ Live(m)
        /\ StreamOrExec(m.to, T(m.obj, m.at), m.gen, view, m)
        /\ UNCHANGED <<stash, ctrPurpose>>
     \/ /\ Live(m)
        /\ Show("ctrPicker", m.at)
        /\ stash' = [stash EXCEPT !["ctr"] = [obj |-> m.obj, at |-> m.at]]
        /\ ctrPurpose' = m.to
        /\ Take(m, {})
        /\ Quiet
  /\ UNCHANGED <<link, gen, modal, browse, opens>>

(* A pick that finds no label map (the switch, or another pick, dropped it) *)
(* does nothing.                                                            *)
HandleContainerSelected(m) ==
  /\ m \in inbox /\ m.kind = "ctrPick"
  /\ IF Up("ctrPicker") /\ Held(stash["ctr"])
     THEN /\ Bump("viewer")
          /\ StreamOrExec(ctrPurpose, stash["ctr"], gen["viewer"] + 1,
                          [view EXCEPT !["ctrPicker"] = Down], m)
     ELSE Take(m, {}) /\ Show("ctrPicker", Down) /\ Quiet /\ UNCHANGED gen
  /\ UNCHANGED <<link, dialog, browse, opens>>

HandleLogMsg(m) ==
  /\ m \in inbox /\ m.kind = "log"
  /\ LET live == Live(m) /\ Up("logs") IN
     \/ live /\ Show("logs", m.at) /\ UNCHANGED <<inbox, gen>>
     \/ (* the stream ended *)
        live /\ Shows("logs") /\ Take(m, {}) /\ UNCHANGED <<view, gen>>
     \/ (* it failed before a line: the empty view closes *)
        live /\ ~Shows("logs") /\ Take(m, {}) /\ Show("logs", Down) /\ Bump("viewer")
     \/ ~live /\ Take(m, {}) /\ UNCHANGED <<view, gen>>
  /\ Quiet /\ UNCHANGED <<link, dialog, browse, opens>>

(* Cordon, uncordon, suspend and resume act at once.                        *)
RunCordon(m) ==
  /\ Row(m, "cordon")
  /\ Did("now", T(m.obj, m.at))
  /\ Take(m, {})
  /\ UNCHANGED <<link, gen, view, dialog, browse, opens>>

(* Delete, scale (and rollout restart) and drain stash the target and ask.  *)
OpenModal(m, k) ==
  /\ Row(m, k)
  /\ modal' = k
  /\ stash' = [stash EXCEPT ![SlotOf(k)] = T(m.obj, context)]
  /\ Take(m, {})
  /\ Quiet /\ UNCHANGED <<link, gen, view, ctrPurpose, browse, opens>>

(* An accept is a message; the modal stays up until it is handled.          *)
Accept ==
  /\ HasKeys("modal")
  /\ Post({Note("confirmed", modal)})
  /\ Quiet /\ UNCHANGED <<link, gen, view, dialog, browse, opens>>

HandleModalConfirmed(m) ==
  /\ m \in inbox /\ m.kind = "confirmed"
  /\ modal' = None
  /\ LET t == stash[SlotOf(m.to)] IN
     IF Held(t) THEN Did(IF m.to = "forward" THEN "forward" ELSE "confirmed", t)
     ELSE Quiet
  /\ Take(m, {})
  /\ UNCHANGED <<link, gen, view, stash, ctrPurpose, browse, opens>>

(* Port-forward lists the ports first, then offers a picker or a prompt.    *)
ResolvePorts(m) ==
  /\ Row(m, "forward")
  /\ Bump("ports")
  /\ Take(m, {M("ports", gen["ports"] + 1, m.obj, context, None)})
  /\ Quiet /\ UNCHANGED <<link, view, dialog, browse, opens>>

HandlePortsLoaded(m) ==
  /\ m \in inbox /\ m.kind = "ports"
  /\ IF ~Live(m)
     THEN Take(m, {}) /\ UNCHANGED <<view, dialog>>
     ELSE /\ stash' = [stash EXCEPT !["mutate"] = T(m.obj, m.at)]
          /\ \/ /\ modal' = "forward"
                /\ Take(m, {})
                /\ UNCHANGED view
             \/ /\ Show("portPicker", m.at)
                /\ Take(m, {Loose("portPick", m.obj, m.at, None)})
                /\ UNCHANGED modal
  /\ Quiet /\ UNCHANGED <<link, gen, ctrPurpose, browse, opens>>

(* A pick that finds no port list (the switch dropped it) asks in a prompt  *)
(* for whatever target is stashed.                                          *)
HandlePortSelected(m) ==
  /\ m \in inbox /\ m.kind = "portPick"
  /\ Show("portPicker", Down)
  /\ IF ~Up("portPicker") THEN modal' = "forward" /\ Quiet
     ELSE /\ UNCHANGED modal
          /\ IF Held(stash["mutate"]) THEN Did("forward", stash["mutate"])
             ELSE Quiet
  /\ Take(m, {})
  /\ UNCHANGED <<link, gen, stash, ctrPurpose, browse, opens>>

(* Edit fetches the YAML with no generation; what comes back opens the      *)
(* editor and is applied with the client the shell has then.                *)
OpenEdit(m) ==
  /\ Row(m, "edit")
  /\ Take(m, {Loose("edit", m.obj, context, None)})
  /\ Quiet /\ UNCHANGED <<link, gen, view, dialog, browse, opens>>

HandleEditFetched(m) ==
  /\ m \in inbox /\ m.kind = "edit"
  /\ Take(m, {})
  /\ \/ Did("edit", T(m.obj, m.at))
     \/ Quiet                 \* fetch failed, or nothing changed
  /\ UNCHANGED <<link, gen, view, dialog, browse, opens>>

(* The children drill-down resolves a scope, then switches the table to it. *)
OpenChildren(m) ==
  /\ Row(m, "children")
  /\ Bump("child")
  /\ Take(m, {M("child", gen["child"] + 1, m.obj, context, None)})
  /\ Quiet /\ UNCHANGED <<link, view, dialog, browse, opens>>

HandleChildScope(m) ==
  /\ m \in inbox /\ m.kind = "child"
  /\ \/ /\ Live(m)
        /\ WatchResource([view EXCEPT !["scope"] = m.at], gen, {m})
     \/ Take(m, {}) /\ UNCHANGED <<gen, view, current>>     \* stale or failed
  /\ Quiet /\ UNCHANGED <<link, dialog, restore, opens>>

(* The remembered drill-down, unless the reader went elsewhere meanwhile;   *)
(* with its owner gone, the plain table.                                    *)
HandleRestoreDrill(m) ==
  /\ m \in inbox /\ m.kind = "restore"
  /\ IF Live(m) /\ ~current
     THEN \/ WatchResource([view EXCEPT !["scope"] = m.at], gen, {m})
          \/ SelectResource(view, gen, {m})
     ELSE Take(m, {}) /\ UNCHANGED <<gen, view, current>>
  /\ Quiet /\ UNCHANGED <<link, dialog, restore, opens>>

OpenRelations(m) ==
  /\ Row(m, "relations")
  /\ Bump("rel")
  /\ Take(m, {M("relations", gen["rel"] + 1, m.obj, context, None)})
  /\ Quiet /\ UNCHANGED <<link, view, dialog, browse, opens>>

HandleRelations(m) ==
  /\ m \in inbox /\ m.kind = "relations"
  /\ \/ /\ Live(m)
        /\ Show("relPicker", m.at)
        /\ Take(m, {})
     \/ Take(m, {}) /\ UNCHANGED view            \* stale, failed or none
  /\ Quiet /\ UNCHANGED <<link, gen, dialog, browse, opens>>

HandleRelationSelected(m) ==
  /\ m \in inbox /\ m.kind = "relPick"
  /\ IF Up("relPicker")
     THEN LET v == [view EXCEPT !["relPicker"] = Down] IN
          \/ WatchResource([v EXCEPT !["scope"] = view["relPicker"]], gen, {m})
          \/ SelectResource(v, gen, {m})
     ELSE Take(m, {}) /\ UNCHANGED <<gen, view, current>>
  /\ Quiet /\ UNCHANGED <<link, dialog, restore, opens>>

-----------------------------------------------------------------------------
(* Cluster search *)

OpenSearch ==
  /\ Browsing /\ Ask("search")
  /\ Show("search", Idle)
  /\ Quiet /\ UNCHANGED <<link, gen, inbox, dialog, browse>>

(* restartSearch: every edit of the query supersedes the running search and *)
(* arms the debounce; an empty query or one that does not parse only does   *)
(* the former.                                                              *)
RestartSearch ==
  /\ HasKeys("search") /\ Ask("search")
  /\ Bump("search")
  /\ \/ /\ Show("search", Waiting)
        /\ Post({M("debounce", gen["search"] + 1, context, context, None)})
     \/ Show("search", Idle) /\ UNCHANGED inbox
  /\ Quiet /\ UNCHANGED <<link, dialog, browse>>

HandleSearchDebounced(m) ==
  /\ m \in inbox /\ m.kind = "debounce"
  /\ \/ /\ Live(m) /\ Up("search")
        /\ Take(m, {M("search", m.gen, context, context, None)})
        /\ UNCHANGED view
     \/ /\ Live(m) /\ Up("search")                   \* no kinds to search
        /\ Show("search", Idle)
        /\ Take(m, {})
     \/ ~(Live(m) /\ Up("search")) /\ Take(m, {}) /\ UNCHANGED view
  /\ Quiet /\ UNCHANGED <<link, gen, dialog, browse, opens>>

HandleSearchMsg(m) ==
  /\ m \in inbox /\ m.kind = "search"
  /\ LET live == Live(m) /\ Up("search") IN
     \/ live /\ Show("search", m.at) /\ UNCHANGED inbox
     \/ /\ live /\ Take(m, {})                               \* closed
        /\ Show("search", IF Shows("search") THEN view["search"] ELSE Idle)
     \/ ~live /\ Take(m, {}) /\ UNCHANGED view
  /\ Quiet /\ UNCHANGED <<link, gen, dialog, browse, opens>>

HandleSearchSelected(m) ==
  /\ m \in inbox /\ m.kind = "searchPick"
  /\ SelectResource([view EXCEPT !["search"] = Down],
                    [gen EXCEPT !["search"] = @ + 1], {m})
  /\ Quiet /\ UNCHANGED <<link, dialog, restore, opens>>

-----------------------------------------------------------------------------
(* The unhealthy scan *)

OpenUnhealthy ==
  /\ Browsing /\ Ask("unhealthy")
  /\ Bump("scan")
  /\ \/ /\ Show("unhealthy", Waiting)
        /\ Post({M("scan", gen["scan"] + 1, context, context, None)})
     \/ Show("unhealthy", Idle) /\ UNCHANGED inbox      \* no kinds to scan
  /\ Quiet /\ UNCHANGED <<link, dialog, browse>>

HandleScanMsg(m) ==
  /\ m \in inbox /\ m.kind = "scan"
  /\ LET live == Live(m) /\ Up("unhealthy") IN
     \/ live /\ Show("unhealthy", m.at) /\ UNCHANGED inbox
     \/ /\ live /\ Take(m, {})
        /\ Show("unhealthy", IF Shows("unhealthy") THEN view["unhealthy"] ELSE Idle)
     \/ ~live /\ Take(m, {}) /\ UNCHANGED view
  /\ Quiet /\ UNCHANGED <<link, gen, dialog, browse, opens>>

HandleUnhealthySelected(m) ==
  /\ m \in inbox /\ m.kind = "scanPick"
  /\ SelectResource([view EXCEPT !["unhealthy"] = Down],
                    [gen EXCEPT !["scan"] = @ + 1], {m})
  /\ Quiet /\ UNCHANGED <<link, dialog, restore, opens>>

-----------------------------------------------------------------------------
(* The palette's namespace stage *)

OpenNamespaces ==
  /\ CanPalette /\ Ask("namespaces")
  /\ Show("palette", Waiting)
  /\ Post({Loose("namespaces", context, context, None)})
  /\ Quiet /\ UNCHANGED <<link, gen, dialog, browse>>

(* No generation: whichever list arrives while the stage is open fills it.  *)
HandleNamespacesLoaded(m) ==
  /\ m \in inbox /\ m.kind = "namespaces"
  /\ \/ Up("palette") /\ \E v \in {m.at, Down} : Show("palette", v)
     \/ ~Up("palette") /\ UNCHANGED view
  /\ Take(m, {})
  /\ Quiet /\ UNCHANGED <<link, gen, dialog, browse, opens>>

ApplyNamespace ==
  /\ HasKeys("palette") /\ Shows("palette")
  /\ LET v == [view EXCEPT !["palette"] = Down] IN
     IF current THEN SelectResource(v, gen, {})
     ELSE view' = v /\ UNCHANGED <<gen, inbox, current>>
  /\ Quiet /\ UNCHANGED <<link, dialog, restore, opens>>

-----------------------------------------------------------------------------
(* Picking a row of an overlay posts a message; it is handled later.        *)
PickKind(s) == CASE s = "ctrPicker"  -> "ctrPick"
                 [] s = "portPicker" -> "portPick"
                 [] s = "relPicker"  -> "relPick"
                 [] s = "search"     -> "searchPick"
                 [] s = "unhealthy"  -> "scanPick"

Pick(s) ==
  /\ s \in {"ctrPicker", "portPicker", "relPicker", "search", "unhealthy"}
  /\ HasKeys(s) /\ Shows(s)
  /\ Post({Loose(PickKind(s), view[s], view[s], None)})
  /\ Quiet /\ UNCHANGED <<link, gen, view, dialog, browse, opens>>

(* Closing a surface is asked for by a message too (the quit key closes     *)
(* some at once: the same, with nothing handled in between).  It hides the  *)
(* surface whatever that shows by then; closing the logs, search or         *)
(* unhealthy view also supersedes what feeds it.                            *)
Feeds(s) == CASE s = "logs" -> {"viewer"}
              [] s = "search" -> {"search"}
              [] s = "unhealthy" -> {"scan"}
              [] OTHER -> {}

Close(s) ==
  /\ HasKeys(s)
  /\ Post({Note("closed", s)})
  /\ Quiet /\ UNCHANGED <<link, gen, view, dialog, browse, opens>>

HandleClosed(m) ==
  /\ m \in inbox /\ m.kind = "closed"
  /\ IF m.to = "modal"
     THEN modal' = None /\ UNCHANGED <<gen, view>>
     ELSE /\ Show(m.to, Down)
          /\ gen' = [g \in Gate |-> IF g \in Feeds(m.to) THEN gen[g] + 1 ELSE gen[g]]
          /\ modal' = modal
  /\ Take(m, {})
  /\ Quiet /\ UNCHANGED <<link, stash, ctrPurpose, browse, opens>>

-----------------------------------------------------------------------------
HandleRowAction(m) ==
  \/ OpenViewer(m) \/ RunCordon(m) \/ ResolvePorts(m) \/ OpenEdit(m)
  \/ OpenChildren(m) \/ OpenRelations(m)
  \/ \E p \in Purpose : ResolveContainers(m, p)
  \/ \E k \in {"delete", "scale", "drain"} : OpenModal(m, k)

Handle(m) ==
  \/ HandleDiscovery(m) \/ HandleWatchMsg(m) \/ HandleMetricsMsg(m)
  \/ HandleMetricsTick(m) \/ HandleRowAction(m) \/ HandleViewerLoaded(m)
  \/ HandleContainersLoaded(m) \/ HandleContainerSelected(m) \/ HandleLogMsg(m)
  \/ HandleModalConfirmed(m) \/ HandlePortsLoaded(m) \/ HandlePortSelected(m)
  \/ HandleEditFetched(m) \/ HandleChildScope(m) \/ HandleRestoreDrill(m)
  \/ HandleRelations(m)
  \/ HandleRelationSelected(m) \/ HandleSearchDebounced(m) \/ HandleSearchMsg(m)
  \/ HandleSearchSelected(m) \/ HandleScanMsg(m) \/ HandleUnhealthySelected(m)
  \/ HandleNamespacesLoaded(m) \/ HandleClosed(m)

Reader ==
  \/ \E c \in Context : SwitchContext(c)
  \/ PickResource
  \/ \E a \in RowAction : DispatchRowAction(a)
  \/ Accept
  \/ OpenSearch \/ RestartSearch
  \/ OpenUnhealthy
  \/ OpenNamespaces \/ ApplyNamespace
  \/ \E s \in Overlay : Pick(s)
  \/ \E s \in Overlay \cup {"modal"} : Close(s)

Next ==
  \/ Reader
  \/ \E c \in connecting : HandleClusterConnected(c)
  \/ \E m \in inbox : Handle(m)

Spec == Init /\ [][Next]_vars

-----------------------------------------------------------------------------
(* What is still accepted was produced by the cluster the shell is on: a    *)
(* message that would pass its generation check after a switch never came   *)
(* from before it, and no generation is ahead of its counter.               *)
Gated(m) == m.kind \in GatedKind
LiveIsCurrent ==
  \A m \in inbox : Gated(m) => /\ m.gen <= gen[GateOf(m.kind)]
                               /\ Live(m) => m.at = context

(* The targets kept for a dialog or a picker are the current cluster's.     *)
StashIsCurrent == \A s \in Slot : stash[s] = NoTarget \/ stash[s].at = context

(* The newest switch under way goes where the reader asked last.            *)
NewestIsAsked ==
  \A c \in connecting : c.gen <= ctxGen /\ (c.gen = ctxGen => c.to = asked)

(* Everything a generation guards shows the cluster the shell is on: no     *)
(* late message of the old cluster lands on a surface of the new one.       *)
SurfacesShowCurrent ==
  \A s \in Surface \ {"unhealthy", "palette"} : Shows(s) => view[s] = context

(* What a modal, a picker or a resolve was opened for on one cluster is     *)
(* never carried out on another.                                            *)
PromptedWritesStayHome ==
  did.how \in {"confirmed", "exec", "forward"} => did.at = did.client

(* Connects may finish in any order; the shell only ever lands on the       *)
(* context asked for last.                                                  *)
LastAskedWins == [][ context' # context => context' = asked ]_vars

(* stopClusterAsync: a row action must not hit the wrong cluster.           *)
RowActionsStayHome == did.how = "now" => did.obj = did.client

(* stopClusterAsync: in-flight YAML fetches are stale after a switch.       *)
EditsStayHome == did.how = "edit" => did.at = did.client

(* resetCluster: every surface showing the departing cluster's data is      *)
(* dismissed.                                                               *)
UnhealthyShowsCurrent == Shows("unhealthy") => view["unhealthy"] = context
=============================================================================
