------------------------------- MODULE Search -------------------------------
(***************************************************************************)
(* The cluster search as the reader meets it (tui/search.go,               *)
(* components/searchview): the query line and its two scopes, the debounce *)
(* and the generation that supersede a search, its hits pumped one at a    *)
(* time and ranked as they come, and the table that opens on a hit and     *)
(* waits for its row.  What a sweep sends is Fanout's business: here a     *)
(* pump may find any hit, a kind's end, the sweep's end or the channel     *)
(* closed, the last two in that order.  Commands run in goroutines of      *)
(* their own, so their messages come in any order.                         *)
(***************************************************************************)
EXTENDS Naturals, Sequences, FiniteSets, SequencesExt

CONSTANTS
  Object,    \* the objects a search may hit
  Text,      \* queries that parse
  Score,     \* the scores a match may have
  MaxKeys,   \* bound: keys the reader presses
  MaxHits,   \* bound: hits the view holds
  MaxInbox   \* bound: messages in flight

Scope == {"kinds", "namespaces"}     \* the two widens
None == "none"
Empty == "empty"                     \* the empty query line
Bad == "bad"                         \* one that does not parse
Query == Text \cup {Empty, Bad}
ASSUME SearchAssumption ==
  /\ {None, Empty, Bad} \cap (Text \cup Object) = {} /\ Score \subseteq Nat
  /\ MaxKeys \in Nat /\ MaxHits \in Nat /\ MaxInbox \in Nat

VARIABLES
  view,     \* the search view
  gen,      \* searchGen
  stream,   \* the search searchCh is of, or 0
  inbox,    \* the messages in flight
  table,    \* the browse table: open (hasCurrent), its rows, those displayed, its cursor
  target,   \* searchTarget, or None
  uncovered, \* history: what is displayed changed since the last delta, and not by one
  overtaken, \* history: something was handled before a change the reader made
  keys

vars == <<view, gen, stream, inbox, table, target, uncovered, overtaken, keys>>
pane == <<table, target, uncovered>>

Asked == [query : Text, scope : SUBSET Scope]
Hit == [object : Object, score : Score, of : Asked]
Message == [type : {"query"}, query : Query] \cup [type : {"scope", "closed"}]
           \cup [type : {"tick"}, gen : Nat, query : Text]
           \cup [type : {"pump"}, gen : Nat, of : Asked, ended : BOOLEAN]
           \cup [type : {"selected"}, object : Object]

View == [active : BOOLEAN, query : Query, scope : SUBSET Scope, focus : {"query", "results"},
         hits : Seq(Hit), cursor : Nat, searching : BOOLEAN, capped : BOOLEAN]
TypeOK ==
  /\ view \in View
  /\ gen \in Nat /\ stream \in 0 .. gen /\ inbox \subseteq Message
  /\ table \in [open : BOOLEAN, rows : SUBSET Object, shown : SUBSET Object,
                narrowed : BOOLEAN, cursor : Object \cup {None}]
  /\ table.shown \subseteq table.rows /\ (~table.narrowed => table.shown = table.rows)
  /\ table.cursor \in table.shown \cup {None}
  /\ target \in Object \cup {None} /\ uncovered \in BOOLEAN /\ keys \in 0 .. MaxKeys

Closed == [active |-> FALSE, query |-> Empty, scope |-> {}, focus |-> "query",
           hits |-> <<>>, cursor |-> 1, searching |-> FALSE, capped |-> FALSE]
Blank(open, cursor) ==
  [open |-> open, rows |-> {}, shown |-> {}, narrowed |-> FALSE, cursor |-> cursor]
Init ==
  /\ view = Closed /\ gen = 0 /\ stream = 0 /\ inbox = {} /\ target = None
  /\ table = Blank(FALSE, None) /\ uncovered = FALSE /\ overtaken = FALSE /\ keys = 0

------------------------------ (* the view *) ------------------------------
Clear(v) == [v EXCEPT !.hits = <<>>, !.cursor = 1, !.capped = FALSE]          \* clearHits
Selected(v) == IF v.hits = <<>> THEN None ELSE v.hits[v.cursor].object
(* A movement commits into the list; an empty one leaves the focus alone.   *)
Move(v, to) == IF v.hits = <<>> THEN v ELSE [v EXCEPT !.focus = "results", !.cursor = to]

(* AppendHit: in at its rank, and the cursor goes with the hit it was on.   *)
RankIndex(hits, score) == 1 + Cardinality({i \in DOMAIN hits : hits[i].score >= score})
(* As if the cursor kept its number: not the code.                          *)
CarriedNowhere(v, at) == v.cursor
Carried(v, at) == IF v.hits # <<>> /\ at <= v.cursor THEN v.cursor + 1 ELSE v.cursor
AppendHit(v, h) ==
  LET at == RankIndex(v.hits, h.score)
  IN [v EXCEPT !.hits = InsertAt(@, at, h), !.cursor = Carried(v, at)]

------------------------------ (* the keys *) ------------------------------
Changes == {m \in inbox : m.type \in {"query", "scope"}}
Overtakes(m) == overtaken' = (overtaken \/ Changes \ {m} # {})
Press == overtaken' = (overtaken \/ Changes # {})
Key == Press /\ keys < MaxKeys /\ keys' = keys + 1 /\ Cardinality(inbox) < MaxInbox
Post(m) == inbox' = inbox \cup {m}
StopSearch == stream' = 0

(* openSearch: Reset, then Show; searchGen stays.                           *)
OpenSearch ==
  /\ ~view.active /\ Key /\ view' = [Closed EXCEPT !.active = TRUE]
  /\ UNCHANGED <<gen, stream, inbox>> /\ UNCHANGED pane

Type(q) ==
  /\ view.active /\ view.focus = "query" /\ q # view.query /\ Key
  /\ view' = [Clear(view) EXCEPT !.query = q] /\ Post([type |-> "query", query |-> q])
  /\ UNCHANGED <<gen, stream>> /\ UNCHANGED pane

Toggle(axis) ==
  /\ view.active /\ Key
  /\ view' = [Clear(view) EXCEPT !.scope = SymDiff(@, {axis}), !.focus = "query"] /\ Post([type |-> "scope"])
  /\ UNCHANGED <<gen, stream>> /\ UNCHANGED pane

MoveCursor(to) ==
  /\ view.active /\ to \in DOMAIN view.hits /\ Key /\ view' = Move(view, to)
  /\ UNCHANGED <<gen, stream, inbox>> /\ UNCHANGED pane

DrillIn ==
  /\ view.active /\ Selected(view) # None /\ Key /\ Post([type |-> "selected", object |-> Selected(view)])
  /\ UNCHANGED <<view, gen, stream>> /\ UNCHANGED pane

(* nav.back: out of the list, out of the query, out of the view.            *)
Back ==
  /\ view.active /\ Key
  /\ CASE view.focus = "results" -> view' = [view EXCEPT !.focus = "query"] /\ UNCHANGED inbox
       [] view.focus = "query" /\ view.query # Empty ->
            /\ view' = [Clear(view) EXCEPT !.query = Empty, !.searching = FALSE]
            /\ Post([type |-> "query", query |-> Empty])
       [] OTHER -> Post([type |-> "closed"]) /\ UNCHANGED view
  /\ UNCHANGED <<gen, stream>> /\ UNCHANGED pane

CloseSearch == view' = [view EXCEPT !.active = FALSE] /\ StopSearch /\ gen' = gen + 1
Quit == view.active /\ Key /\ CloseSearch /\ UNCHANGED inbox /\ UNCHANGED pane

---------------------------- (* the messages *) -----------------------------
Swap(m, new) == inbox' = (inbox \ {m}) \cup new
Stay == UNCHANGED pane /\ UNCHANGED keys

(* restartSearch                                                            *)
Restart(m, q) ==
  /\ StopSearch /\ gen' = gen + 1
  /\ IF q \in Text THEN /\ view' = [view EXCEPT !.searching = TRUE]
                        /\ Swap(m, {[type |-> "tick", gen |-> gen', query |-> q]})
     ELSE view' = [view EXCEPT !.searching = FALSE] /\ Swap(m, {})
QueryChanged(m) == m.type = "query" /\ Restart(m, m.query) /\ Overtakes(m) /\ Stay
ScopeChanged(m) == m.type = "scope" /\ Restart(m, view.query) /\ Overtakes(m) /\ Stay

(* As if closing the view were all that stopped a search, or as if hits were *)
(* only taken while the query has the focus: not the code.                  *)
CurrentIfOpen(m) == view.active
CurrentInQuery(m) == m.gen = gen /\ view.active /\ view.focus = "query"
Current(m) == m.gen = gen /\ view.active
Drop(m) == Swap(m, {}) /\ UNCHANGED <<view, gen, stream>>
(* handleSearchDebounced: no kinds to search is no search.                  *)
Debounced(m, some) ==
  /\ m.type = "tick" /\ Overtakes(m) /\ Stay
  /\ CASE ~Current(m) -> Drop(m)
       [] Current(m) /\ ~some -> view' = [view EXCEPT !.searching = FALSE] /\ Swap(m, {}) /\ UNCHANGED <<gen, stream>>
       [] OTHER -> /\ view' = [view EXCEPT !.capped = FALSE] /\ stream' = gen /\ UNCHANGED gen
                   /\ Swap(m, {[type |-> "pump", gen |-> gen, ended |-> FALSE,
                                of |-> [query |-> m.query, scope |-> view.scope]]})

(* handleSearchMsg: a hit, a kind or the sweep's end, each followed by the  *)
(* next pump; the channel's close is the end.                               *)
Pumped(m, v, ended) == view' = v /\ Swap(m, {[m EXCEPT !.ended = ended]}) /\ UNCHANGED <<gen, stream>>
SearchMsg(m) ==
  /\ m.type = "pump" /\ Overtakes(m) /\ Stay
  /\ \/ ~Current(m) /\ Drop(m)
     \/ /\ Current(m) /\ ~m.ended /\ Len(view.hits) < MaxHits
        /\ \E o \in Object, s \in Score :
             Pumped(m, AppendHit(view, [object |-> o, score |-> s, of |-> m.of]), FALSE)
     \/ /\ Current(m) /\ ~m.ended
        /\ \E capped \in BOOLEAN : Pumped(m, [view EXCEPT !.capped = capped], TRUE)
     \/ /\ Current(m) /\ m.ended
        /\ StopSearch /\ view' = [view EXCEPT !.searching = FALSE] /\ Swap(m, {}) /\ UNCHANGED gen

ViewClosed(m) == m.type = "closed" /\ CloseSearch /\ Swap(m, {}) /\ Overtakes(m) /\ Stay

(* handleSearchSelected: the hit's kind opens blank and as wide as it goes, *)
(* and the hit is awaited.  As if the cursor were left: not the code.       *)
WatchedKeepsCursor == table' = Blank(TRUE, table.cursor) /\ uncovered' = FALSE
Watched == table' = Blank(TRUE, None) /\ uncovered' = FALSE
HitSelected(m) ==
  /\ m.type = "selected" /\ CloseSearch /\ Watched /\ target' = m.object
  /\ Swap(m, {}) /\ Overtakes(m) /\ UNCHANGED keys

----------------------------- (* the table *) ------------------------------
(* What is displayed is what the pane's filter and the unhealthy toggle let *)
(* by, and the cursor is on one of it: on its own row while that is there.  *)
Displayed(rows, on, shown) == shown \subseteq rows /\ (~on => shown = rows)
Kept(shown) ==
  CASE table.cursor \in shown -> {table.cursor} [] shown = {} -> {None} [] OTHER -> shown

(* applyPendingSelect, after every delta: SelectObject looks among the      *)
(* displayed rows, and one it does not find is awaited on.  As if only the  *)
(* first RESET were looked at: not the code.                                *)
AwaitedAtFirst(shown) == table.rows = {} /\ target \in shown
Awaited(shown) == target \in shown
WatchEvent(rows, shown) ==
  /\ table.open /\ Displayed(rows, table.narrowed, shown)
  /\ \E c \in Kept(shown) :
       table' = [table EXCEPT !.rows = rows, !.shown = shown,
                              !.cursor = IF Awaited(shown) THEN target ELSE c]
  /\ target' = IF Awaited(shown) THEN None ELSE target
  /\ uncovered' = FALSE /\ UNCHANGED <<view, gen, stream, inbox, overtaken, keys>>

(* The rows displayed change by no delta, and nothing is looked for: the    *)
(* reader types or lifts a filter or flips the unhealthy toggle, or a clock *)
(* or metrics tick writes cells the filter reads.                           *)
Rederive(shown, on) ==
  /\ table.open /\ Displayed(table.rows, on, shown) /\ uncovered' = TRUE
  /\ \E c \in Kept(shown) : table' = [table EXCEPT !.shown = shown, !.narrowed = on, !.cursor = c]
Narrow(shown, on) ==
  /\ ~view.active /\ Press /\ Rederive(shown, on) /\ UNCHANGED <<view, gen, stream, inbox, target, keys>>
Refresh(shown) ==
  /\ table.narrowed /\ shown # table.shown /\ Rederive(shown, TRUE)
  /\ UNCHANGED <<view, gen, stream, inbox, target, overtaken, keys>>

MoveRow(o) ==
  /\ ~view.active /\ o \in table.shown /\ Press /\ table' = [table EXCEPT !.cursor = o]
  /\ UNCHANGED <<view, gen, stream, inbox, target, uncovered, keys>>
(* Another resource picked, or a filter left behind: watchResource.         *)
SelectResource ==
  /\ ~view.active /\ Key /\ Watched /\ target' = None /\ UNCHANGED <<view, gen, stream, inbox>>

Handle(m) == \/ QueryChanged(m) \/ ScopeChanged(m) \/ SearchMsg(m) \/ ViewClosed(m) \/ HitSelected(m)
             \/ \E some \in BOOLEAN : Debounced(m, some)
Next ==
  \/ OpenSearch \/ DrillIn \/ Back \/ Quit \/ SelectResource
  \/ \E q \in Query : Type(q)
  \/ \E axis \in Scope : Toggle(axis)
  \/ \E i \in 1 .. MaxHits : MoveCursor(i)
  \/ \E o \in Object : MoveRow(o)
  \/ \E m \in inbox : Handle(m)
  \/ \E rows, shown \in SUBSET Object : WatchEvent(rows, shown)
  \/ \E shown \in SUBSET Object : Refresh(shown) \/ \E on \in BOOLEAN : Narrow(shown, on)

Spec == Init /\ [][Next]_vars
(* Every message is handled, and a sweep ends (Fanout).                     *)
FairSpec == Spec /\ WF_vars(\E m \in inbox : Handle(m))

----------------------------- (* properties *) -----------------------------
HitsAreOfTheQuery ==
  view.active => \A i \in DOMAIN view.hits :
                   view.hits[i].of = [query |-> view.query, scope |-> view.scope]

(* restartSearch's comment: the screen never shows hits of a query or a     *)
(* scope no longer in force; at least, not once every message is handled.   *)
NoStaleHitStays == inbox = {} => HitsAreOfTheQuery

(* The hits on screen are of the query and scopes on screen at every moment *)
(* if each change of them is handled before anything else happens.          *)
HitsAreOfTheQueryIfPrompt == ~overtaken => HitsAreOfTheQuery

(* A hit that comes takes its rank in the list, and never moves the reader  *)
(* off the one under the cursor.                                            *)
Ranked(hits) == \A i, j \in DOMAIN hits : i < j => hits[i].score >= hits[j].score
CursorKeepsItsHit ==
  [][\A m \in inbox : SearchMsg(m) /\ view.hits # <<>> /\ view'.hits # <<>>
        => Ranked(view'.hits) /\ view'.hits[view'.cursor] = view.hits[view.cursor]]_vars

(* A row a drill-in waits for gets the cursor with the first delta that     *)
(* finds it displayed, however late: it is on screen unselected only where  *)
(* something other than a delta let it through since the last one.          *)
SelectionLands == target \in table.shown => uncovered

(* applyPendingSelect's comment: the reader's own navigation is never       *)
(* yanked back by a later delta.  It does not hold: a row a filter hid when *)
(* it came is still awaited once the filter is lifted, so the next delta    *)
(* takes the cursor there, off whatever the reader went to since.           *)
NeverYankedBack ==
  [][\A rows, shown \in SUBSET Object :
       WatchEvent(rows, shown) /\ table.cursor \in shown /\ table'.cursor # table.cursor
         => table'.cursor \notin table.shown]_vars

(* What keeps them, for the proofs.  The list is ranked and the cursor is   *)
(* on one of it; no message is of a generation to come.                     *)
Listed == Ranked(view.hits) /\ view.cursor \in DOMAIN view.hits \cup {1}
Dated(m) == m.type \in {"tick", "pump"}
NoneToCome == \A m \in inbox : Dated(m) => m.gen <= gen
(* While nothing overtook a change: one that waits finds the list empty and *)
(* the query its own; once none waits, what is of this generation is of the *)
(* query and scopes on screen.                                              *)
InForce(m) ==
  /\ m.type = "tick" => m.query = view.query
  /\ m.type = "pump" => m.of = [query |-> view.query, scope |-> view.scope]
ChangesWait ==
  \A m \in Changes : /\ view.active /\ view.hits = <<>>
                     /\ m.type = "query" => m.query = view.query
CurrentInForce ==
  Changes = {} => \A m \in inbox : Dated(m) /\ m.gen = gen => view.active /\ InForce(m)
Prompt == ~overtaken => ChangesWait /\ CurrentInForce /\ HitsAreOfTheQuery
Inv == TypeOK /\ Listed /\ NoneToCome /\ Prompt /\ SelectionLands

(* The searching mark goes out: every search ends, is given up or replaced. *)
SearchesEnd == view.searching ~> ~view.searching \/ ~view.active
=============================================================================
