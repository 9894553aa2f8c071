------------------------------ MODULE Unhealthy ------------------------------
(***************************************************************************)
(* The list of what is broken (tui/unhealthy.go, components/unhealthyview):*)
(* a sweep over every kind the menu offers is launched when the list opens *)
(* and pumped into it one event at a time, until its channel closes or the *)
(* list does.  What a sweep sends is Fanout's business: here its channel   *)
(* holds any hits and one report of each kind, then the end, then nothing; *)
(* a cancelled one may close at any point.                                 *)
(***************************************************************************)
EXTENDS Naturals, Sequences

CONSTANTS
  MaxKinds,   \* bound: kinds the menu offers
  Limit,      \* scanHitLimit
  MaxKeys     \* bound: keys pressed, switches among them
UnhealthyAssumption == {MaxKinds, Limit, MaxKeys} \subseteq Nat

VARIABLES
  view,       \* the list
  scanGen,    \* scanGen
  stream,     \* scanCh: the sweep received from, or 0
  sweep,      \* each sweep's channel: what it has sent
  pump,       \* the sweeps a command is receiving from
  inbox,      \* messages on the way
  keys,       \* keys pressed so far
  launched,   \* history: the last sweep launched
  switched    \* history: the cluster was switched since

vars == <<view, scanGen, stream, sweep, pump, inbox, keys, launched, switched>>

Gen     == 1 .. MaxKeys      \* each key moves scanGen on at most once
Unswept == [kinds |-> 0, reported |-> 0, sent |-> 0, end |-> "none", cancelled |-> FALSE]
Event   == [type : {"hit", "kind", "end", "closed"}, capped : BOOLEAN]
Ev(t)   == [type |-> t, capped |-> FALSE]
Message == [type : {"event"}, gen : Gen, event : Event] \cup [type : {"selected", "closed"}]

(* Reset                                                                    *)
Clean == [active |-> FALSE, hits |-> <<>>, searching |-> FALSE, done |-> 0, total |-> 0, capped |-> FALSE]

View == [active : BOOLEAN, hits : Seq(Gen), searching : BOOLEAN, done : 0 .. MaxKinds,
         total : 0 .. MaxKinds, capped : BOOLEAN]
Scan == [kinds : 0 .. MaxKinds, reported : 0 .. MaxKinds, sent : 0 .. Limit,
         end : {"none", "all", "capped"}, cancelled : BOOLEAN]
TypeOK ==
  /\ view \in View /\ {scanGen, stream, launched, keys} \subseteq 0 .. MaxKeys
  /\ sweep \in [Gen -> Scan]
  /\ pump \subseteq Gen /\ inbox \subseteq Message /\ switched \in BOOLEAN

Init ==
  /\ view = Clean /\ scanGen = 0 /\ stream = 0 /\ sweep = [g \in Gen |-> Unswept]
  /\ pump = {} /\ inbox = {} /\ keys = 0 /\ launched = 0 /\ switched = FALSE

----------------------------- (* the sweeps *) ------------------------------
(* stopScan                                                                 *)
Stopped(s) == [g \in Gen |-> IF g = stream THEN [s[g] EXCEPT !.cancelled = TRUE] ELSE s[g]]

(* scanPump: one receive, off the loop.                                     *)
Receive(g) ==
  LET s == sweep[g]
      Gives(e, t) == /\ sweep' = [sweep EXCEPT ![g] = t] /\ pump' = pump \ {g}
                     /\ inbox' = inbox \cup {[type |-> "event", gen |-> g, event |-> e]}
  IN /\ g \in pump /\ UNCHANGED <<view, scanGen, stream, keys, launched, switched>>
     /\ \/ s.reported < s.kinds /\ s.sent < Limit /\ Gives(Ev("hit"), [s EXCEPT !.sent = @ + 1])
        \/ s.reported < s.kinds /\ Gives(Ev("kind"), [s EXCEPT !.reported = @ + 1])
        \/ /\ s.reported = s.kinds /\ s.end = "none"
           /\ \E c \in BOOLEAN : /\ c => s.sent = Limit
                                 /\ Gives([type |-> "end", capped |-> c], [s EXCEPT !.end = IF c THEN "capped" ELSE "all"])
        \/ (s.end # "none" \/ s.cancelled) /\ Gives(Ev("closed"), s)

------------------------------ (* the shell *) ------------------------------
Press == keys < MaxKeys /\ keys' = keys + 1

(* openUnhealthy and launchScan, over the kinds the menu offers.            *)
OpenUnhealthy(n) ==
  /\ ~view.active /\ Press /\ scanGen' = scanGen + 1
  /\ LET g == scanGen + 1 IN
       /\ view' = [Clean EXCEPT !.active = TRUE, !.searching = n > 0, !.total = n]
       /\ IF n = 0
            THEN stream' = 0 /\ sweep' = Stopped(sweep) /\ UNCHANGED pump
            ELSE stream' = g /\ sweep' = [Stopped(sweep) EXCEPT ![g].kinds = n] /\ pump' = pump \cup {g}
       /\ launched' = g /\ switched' = FALSE /\ UNCHANGED inbox

(* closeUnhealthy                                                           *)
Close ==
  /\ scanGen' = scanGen + 1
  /\ view' = [view EXCEPT !.active = FALSE] /\ stream' = 0 /\ sweep' = Stopped(sweep)
  /\ UNCHANGED <<pump, launched, switched>>

(* handleUnhealthyAction: app.quit closes the list at once, enter and back  *)
(* through a message; moving the cursor only chooses the hit.               *)
Own == {m \in inbox : m.type # "event"}
Quit == view.active /\ Press /\ Close /\ UNCHANGED inbox
Key ==
  /\ view.active /\ Press
  /\ \/ inbox' = inbox \cup {[type |-> "closed"]}
     \/ view.hits # <<>> /\ inbox' = inbox \cup {[type |-> "selected"]}
  /\ UNCHANGED <<view, scanGen, stream, sweep, pump, launched, switched>>

(* handleUnhealthySelected; the view's ClosedMsg.                           *)
HandleOwn(m) == m \in Own /\ Close /\ inbox' = inbox \ {m} /\ UNCHANGED keys

(* handleScanMsg                                                            *)
Current(g) == g = scanGen /\ view.active
Folded(g, e) ==
  CASE e.type = "hit"  -> [view EXCEPT !.hits = Append(@, g)]
    [] e.type = "kind" -> [view EXCEPT !.done = IF view.total > 0 /\ @ >= view.total THEN @ ELSE @ + 1]
    [] e.type = "end"  -> [view EXCEPT !.capped = e.capped, !.searching = FALSE]
    [] OTHER           -> [view EXCEPT !.searching = FALSE]
HandleScanMsg(m) ==
  /\ m.type = "event" /\ inbox' = inbox \ {m} /\ UNCHANGED <<scanGen, keys, launched, switched>>
  /\ IF ~Current(m.gen) THEN UNCHANGED <<view, stream, sweep, pump>>
     ELSE /\ view' = Folded(m.gen, m.event)
          /\ IF m.event.type = "closed"
               THEN stream' = 0 /\ sweep' = Stopped(sweep) /\ UNCHANGED pump
               ELSE /\ pump' = IF stream = 0 THEN pump ELSE pump \cup {m.gen}
                    /\ UNCHANGED <<stream, sweep>>

(* stopClusterAsync; resetCluster leaves the list where it is.              *)
SwitchCluster ==
  /\ Press /\ scanGen' = scanGen + 1
  /\ stream' = 0 /\ sweep' = Stopped(sweep) /\ switched' = TRUE
  /\ UNCHANGED <<view, pump, inbox, launched>>

HandleMessage == \E m \in inbox : HandleOwn(m) \/ HandleScanMsg(m)
Next ==
  \/ \E n \in 0 .. MaxKinds : OpenUnhealthy(n)
  \/ Quit \/ Key \/ SwitchCluster \/ HandleMessage
  \/ \E g \in Gen : Receive(g)

(* Commands run, a sweep goes on (Fanout), messages are handled.            *)
HandleScans == \E m \in inbox : HandleScanMsg(m)
Fairness == (\A g \in Gen : WF_vars(Receive(g))) /\ WF_vars(HandleScans)
Spec == Init /\ [][Next]_vars /\ Fairness

----------------------------- (* properties *) -----------------------------
(* A list that is done is one sweep's whole answer: every hit it sent, its  *)
(* own verdict about the cap, and a count of kinds that came to the total   *)
(* whatever failed; never a mixture with a sweep it replaced                *)
(* (handleScanMsg, MarkKindDone).                                           *)
DoneIsOneSweep ==
  view.active /\ ~view.searching /\ view.total > 0 =>
    LET s == sweep[launched] IN
      /\ \A i \in DOMAIN view.hits : view.hits[i] = launched
      /\ Len(view.hits) = s.sent /\ view.done = view.total
      /\ view.capped = (s.end = "capped")

(* "An empty list must never read as a hung sweep" (emptyHint): a list that *)
(* says it is scanning has a sweep and one receive, or its answer, to come; *)
(* not so after the cluster was switched under it.                          *)
ScanningMeansScanning ==
  view.active /\ view.searching =>
    /\ stream = scanGen
    /\ (stream \in pump) # (\E m \in inbox : m.type = "event" /\ m.gen = stream)
ScanningMeansScanningHere == ~switched => ScanningMeansScanning

(* Why: a sweep is received from one event at a time, so what the list says *)
(* and the one on its way come to what was sent; a list is of the last      *)
(* sweep launched, and follows it until it ends or the cluster is switched. *)
Events(g)  == {m \in inbox : m.type = "event" /\ m.gen = g}
Coming(t)  == IF \E m \in Events(launched) : m.event.type = t THEN 1 ELSE 0
ToClose    == (IF [type |-> "closed"] \in inbox THEN 1 ELSE 0)
              + (IF [type |-> "selected"] \in inbox THEN 1 ELSE 0)
Dated ==
  /\ scanGen + ToClose <= keys /\ launched <= scanGen
  /\ view.active => launched # 0 /\ (scanGen = launched <=> ~switched)
  /\ stream # 0 => stream = launched /\ view.active /\ ~switched /\ ~sweep[stream].cancelled
  /\ launched # 0 => view.total = sweep[launched].kinds
  /\ view.searching => view.total > 0
InOrder ==
  \A g \in Gen :
    /\ g > launched => sweep[g] = Unswept
    /\ sweep[g].reported <= sweep[g].kinds
    /\ sweep[g].end # "none" => sweep[g].reported = sweep[g].kinds
    /\ g \in pump => Events(g) = {} /\ sweep[g].kinds > 0
    /\ \A m, n \in Events(g) : m = n /\ sweep[g].kinds > 0
Following ==
  view.active /\ ~switched /\ view.searching =>
    LET s == sweep[launched] IN
      /\ stream = launched /\ (launched \in pump \/ Events(launched) # {})
      /\ \A i \in DOMAIN view.hits : view.hits[i] = launched
      /\ s.sent = Len(view.hits) + Coming("hit") /\ s.reported = view.done + Coming("kind")
      /\ s.end # "none" => Coming("end") = 1
      /\ \A m \in Events(launched) :
           /\ m.event.type = "end" => s.end = IF m.event.capped THEN "capped" ELSE "all"
           /\ m.event.type # "closed"
Settled ==
  view.active /\ ~view.searching /\ view.total > 0 =>
    /\ sweep[launched].end # "none"
    /\ ~switched => \A m \in Events(launched) : m.event.type = "closed"
Inv == TypeOK /\ Dated /\ InOrder /\ Following /\ Settled /\ DoneIsOneSweep

(* And that sweep comes to an end.                                          *)
Scanning == view.active /\ view.searching /\ ~switched
ScansEnd == Scanning ~> ~Scanning
=============================================================================
